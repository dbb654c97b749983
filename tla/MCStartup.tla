----------------------------- MODULE MCStartup ------------------------------
(* Instances of Startup for TLC.                                           *)
EXTENDS Startup

MCSize == [id \in Ids |-> 2]

Unset == [LISTEN_PORT |-> None, WEB_WORKERS |-> None, MAX_PAYLOAD_BYTES |-> None,
          SIGNER_PRIVATE_KEY |-> None]
(* The defaults, a key, another port, a limit below the size of a payload, *)
(* and one fault each.                                                     *)
MCEnvironments ==
  { Unset,
    [Unset EXCEPT !.SIGNER_PRIVATE_KEY = "valid"],
    [Unset EXCEPT !.SIGNER_PRIVATE_KEY = "blank", !.LISTEN_PORT = 1],
    [Unset EXCEPT !.MAX_PAYLOAD_BYTES = 1],
    [Unset EXCEPT !.SIGNER_PRIVATE_KEY = "invalid"],
    [Unset EXCEPT !.LISTEN_PORT = U16],
    [Unset EXCEPT !.WEB_WORKERS = 0],
    [Unset EXCEPT !.MAX_PAYLOAD_BYTES = 0] }

MCCommandLines == { <<"-v">>, <<"--version", "-v">>, <<"--port">>, <<"--version", "--help">> }

MCDeployments ==
  [args : {<< >>}, env : MCEnvironments] \cup [args : MCCommandLines, env : {Unset}]
=============================================================================

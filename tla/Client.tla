------------------------------- MODULE Client -------------------------------
(***************************************************************************)
(* The JavaScript client (src/clients/js/src) against the provider: the    *)
(* submissions it makes, the id it predicts, and the receipts it verifies. *)
(* It keeps no state of its own; what it has been answered is in answers,  *)
(* and what it can fetch with get is in stored.                            *)
(***************************************************************************)
EXTENDS Ingress

CONSTANT
  Inputs    \* SubmitPayloadInput values the client is called with

(* submit: exactly one of payload and payloadBase64, else it throws; an    *)
(* empty content type and an empty nonce are left out.                     *)
submits(input) == (input.payload = None) # (input.payloadBase64 = None)
submit_body(input) ==
  [namespace |-> input.namespace,
   contentType |-> IF input.contentType = Blank THEN None ELSE input.contentType,
   payloadBase64 |-> IF input.payloadBase64 # None THEN input.payloadBase64
                     ELSE Encode[input.payload],
   nonce |-> IF input.nonce = Blank THEN None ELSE input.nonce,
   payment |-> input.payment]

(* The requests of this client are among those the handlers are sent.      *)
ASSUME ClientAssumption == {submit_body(i) : i \in {x \in Inputs : submits(x)}} \subseteq Submissions

predictPayloadId(namespace, bytes) == <<namespace, bytes>>

(* The receipt the client expects for metadata m, which on the wire has    *)
(* neither nonce nor payment.                                              *)
receiptForMetadata(m) ==
  [action |-> "payloadReceived", payloadId |-> m.id, submittedAt |-> m.submittedAt,
   context |-> None]

(* The recovered address is the claimed one by the meaning of a signature  *)
(* here; what is compared is the receipt it covers with the current or the *)
(* former one of the metadata.  Mutant: the current one only.              *)
verify_current_only(m, sig) == sig.receipt = receiptForMetadata(m)
verifySignature(m, sig) ==
  LET current == receiptForMetadata(m) IN
    sig.receipt \in {current, [current EXCEPT !.action = "hostPayload"]}
-----------------------------------------------------------------------------
(* What get(id) returns.                                                   *)
fetched(id) == {metadata_for(rec) : rec \in {x \in stored : x.id = id}}

(* A receipt verifies as long as it is held: what get returns verifies,    *)
(* and a receipt that an earlier answer brought, without nonce or payment, *)
(* verifies against the metadata fetched at any later time, after other    *)
(* submissions, upgrades, other keys and restarts.                         *)
ReceiptsVerify ==
  /\ \A rec \in stored :
       rec.signature # None => verifySignature(metadata_for(rec), rec.signature)
  /\ \A a \in accepted : a.outcome.context = None /\ a.outcome.signature # None =>
       \E m \in fetched(a.outcome.record.id) : verifySignature(m, a.outcome.signature)
=============================================================================

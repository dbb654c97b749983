------------------------------ MODULE Startup -------------------------------
(***************************************************************************)
(* From the command line to the listening port, for processes that share   *)
(* one PAYLOAD_DIR and one machine's ports: main, create_config,           *)
(* PayloadStore::load and run_server, under the restart policy of          *)
(* docker-compose.yml.  A process reads the directory before it binds its  *)
(* port, and never again, so one that is started while another serves      *)
(* serves the inventory of a moment before.                                *)
(*                                                                         *)
(* The operator gives a process its command line and environment; whatever *)
(* ends it but the operator, it is started again with the same ones.  A    *)
(* submission is one step here, as PayloadStore shows for one process.     *)
(***************************************************************************)
EXTENDS Naturals, Sequences, SequencesExt

CONSTANTS
  Processes, Ids, None,
  Size,           \* bytes of each payload
  Deployments,    \* arguments, a sequence of texts, and environment of a process
  U16, USIZE,     \* bounds of the integer types: the first values beyond them
  MaxTime,
  MaxIncidents    \* bound: kills and failed reads of the directory

(* An environment variable that is unset is None; a key that is not valid  *)
(* hexadecimal is "invalid", and one of white space only is "blank".       *)
ASSUME DeploymentsAssumption ==
  \A d \in Deployments :
    /\ {d.env.LISTEN_PORT, d.env.WEB_WORKERS, d.env.MAX_PAYLOAD_BYTES} \subseteq Nat \cup {None}
    /\ d.env.SIGNER_PRIVATE_KEY \in {None, "blank", "valid", "invalid"}
ASSUME BoundsAssumption == {U16, USIZE, MaxTime, MaxIncidents} \subseteq Nat /\ Size \in [Ids -> Nat]

VARIABLES
  deployed,  \* what the operator started each process with; None before, and
             \* when the operator has stopped it
  stage,     \* how far each process is
  config,    \* its configuration
  payloads,  \* its index: what it knows of each id
  stale,     \* another process changed the directory since it was read
  exit,      \* the exit code of its last end, or None
  disk,      \* the records in PAYLOAD_DIR
  created,   \* how often each id was answered with 201
  now, incidents,
  widest     \* history: the largest MAX_PAYLOAD_BYTES a process had so far

process == <<stage, config, payloads, stale, exit>>
directory == <<disk, created>>
vars == <<deployed, process, directory, now, incidents, widest>>

Record == [date : 0..MaxTime, signed : BOOLEAN]
Configuration == [port : 1..(U16 - 1), workers : Nat \ {0}, max : Nat \ {0}, signing : BOOLEAN]
ASSUME NoneAssumption == None \notin Processes \cup Record \cup Configuration \cup Deployments
Nothing == [id \in Ids |-> None]

(* Mutant of NonZero: the fields are plain integers.                       *)
Unsigned(value, bound) == value \in Nat /\ value < bound
(* NonZeroU16 and NonZeroUsize, as serde reads them.                       *)
NonZero(value, bound) == value \in 1..(bound - 1)

(* Any argument but the version flags is an error, wherever it stands.     *)
startup_action(args) ==
  IF ToSet(args) \ {"-v", "--version"} # {} THEN "Error"
  ELSE IF args # << >> THEN "PrintVersion" ELSE "Run"

default(value, other) == IF value = None THEN other ELSE value

(* create_config, and the key that main makes a signer of.                 *)
create_config(env) ==
  [port    |-> default(env.LISTEN_PORT, 28883),
   workers |-> default(env.WEB_WORKERS, 4),
   max     |-> default(env.MAX_PAYLOAD_BYTES, 1024 * 1024),
   signing |-> env.SIGNER_PRIVATE_KEY = "valid"]
accepts(env) ==
  LET c == create_config(env) IN
    /\ NonZero(c.port, U16) /\ NonZero(c.workers, USIZE) /\ NonZero(c.max, USIZE)
    /\ env.SIGNER_PRIVATE_KEY # "invalid"

Init ==
  /\ deployed = [p \in Processes |-> None]
  /\ stage = [p \in Processes |-> "off"] /\ config = [p \in Processes |-> None]
  /\ payloads = [p \in Processes |-> Nothing] /\ stale = [p \in Processes |-> FALSE]
  /\ exit = [p \in Processes |-> None]
  /\ disk = Nothing /\ created = [id \in Ids |-> 0] /\ now = 0 /\ incidents = 0 /\ widest = 0

goto(p, to) == stage' = [stage EXCEPT ![p] = to]
(* The end of a process, and of what it had in memory.                     *)
leave(p, code) ==
  /\ goto(p, "off") /\ exit' = [exit EXCEPT ![p] = code]
  /\ config' = [config EXCEPT ![p] = None]
  /\ payloads' = [payloads EXCEPT ![p] = Nothing] /\ stale' = [stale EXCEPT ![p] = FALSE]
incident == incidents < MaxIncidents /\ incidents' = incidents + 1
-----------------------------------------------------------------------------
(* The operator starts a process with these arguments and environment, and *)
(* stops it.                                                               *)
Start(p, d) ==
  /\ deployed[p] = None
  /\ deployed' = [deployed EXCEPT ![p] = d]
  /\ UNCHANGED <<process, directory, now, incidents, widest>>

Stop(p) ==
  /\ deployed[p] # None
  /\ deployed' = [deployed EXCEPT ![p] = None] /\ leave(p, None)
  /\ UNCHANGED <<directory, now, incidents, widest>>

(* It is killed, by the kernel or with the machine.                        *)
Crash(p) ==
  /\ stage[p] # "off" /\ incident
  /\ leave(p, 137)
  /\ UNCHANGED <<deployed, directory, now, widest>>

(* Mutant of restarts: restart: on-failure.                                *)
restarts_failed(p) == stage[p] = "off" /\ deployed[p] # None /\ exit[p] # 0
(* restart: unless-stopped, whatever the exit code was.                    *)
restarts(p) == stage[p] = "off" /\ deployed[p] # None
runs(d) == startup_action(d.args) = "Run" /\ accepts(d.env)

(* The process ends before it reads the directory: with its version, for   *)
(* an argument, or in a panic over its environment.                        *)
Refuse(p) ==
  /\ restarts(p)
  /\ LET d == deployed[p] IN
       CASE startup_action(d.args) = "PrintVersion" -> leave(p, 0)
         [] startup_action(d.args) = "Error" -> leave(p, 2)
         [] startup_action(d.args) = "Run" -> ~accepts(d.env) /\ leave(p, 101)
  /\ UNCHANGED <<deployed, directory, now, incidents, widest>>

Launch(p) ==
  LET c == create_config(deployed[p].env) IN
    /\ restarts(p) /\ runs(deployed[p])
    /\ config' = [config EXCEPT ![p] = c] /\ goto(p, "configured")
    /\ exit' = [exit EXCEPT ![p] = None]
    /\ widest' = (IF c.max > widest THEN c.max ELSE widest)
    /\ UNCHANGED <<deployed, payloads, stale, directory, now, incidents>>

(* validate_stored_record, for every record.                               *)
loadable(p) == \A id \in Ids : disk[id] # None => Size[id] <= config[p].max

Load(p) ==
  /\ stage[p] = "configured" /\ loadable(p)
  /\ payloads' = [payloads EXCEPT ![p] = disk] /\ stale' = [stale EXCEPT ![p] = FALSE]
  /\ goto(p, "loaded")
  /\ UNCHANGED <<deployed, config, exit, directory, now, incidents, widest>>

(* main panics over a record this limit refuses, or over an I/O error.     *)
LoadFails(p) ==
  /\ stage[p] = "configured"
  /\ \/ ~loadable(p) /\ UNCHANGED incidents
     \/ incident
  /\ leave(p, 101)
  /\ UNCHANGED <<deployed, directory, now, widest>>

listening(p) == stage[p] = "serving"
taken(n) == \E q \in Processes : listening(q) /\ config[q].port = n

(* A port that is taken ends the process, as if it had been stopped.       *)
Bind(p) ==
  /\ stage[p] = "loaded"
  /\ IF taken(config[p].port) THEN leave(p, 0)
     ELSE goto(p, "serving") /\ UNCHANGED <<config, payloads, stale, exit>>
  /\ UNCHANGED <<deployed, directory, now, incidents, widest>>

accepted(p, id) == listening(p) /\ Size[id] <= config[p].max
fresh(p) == [date |-> now, signed |-> config[p].signing]
write(p, id, rec) ==
  /\ disk' = [disk EXCEPT ![id] = rec]
  /\ payloads' = [payloads EXCEPT ![p][id] = rec]
  /\ stale' = [q \in Processes |-> stale[q] \/ (q # p /\ stage[q] \in {"loaded", "serving"})]

(* Mutant of SubmitNew: the record is listed and not yet written.          *)
SubmitUnwritten(p, id) ==
  /\ accepted(p, id) /\ payloads[p][id] = None
  /\ payloads' = [payloads EXCEPT ![p][id] = fresh(p)]
  /\ created' = [created EXCEPT ![id] = @ + 1]
  /\ UNCHANGED <<deployed, stage, config, stale, exit, disk, now, incidents, widest>>

(* Mutant of SubmitNew: what is known is written again.                    *)
SubmitAlways(p, id) ==
  /\ accepted(p, id)
  /\ write(p, id, fresh(p)) /\ created' = [created EXCEPT ![id] = 1]
  /\ UNCHANGED <<deployed, stage, config, exit, now, incidents, widest>>

SubmitNew(p, id) ==
  /\ accepted(p, id) /\ payloads[p][id] = None
  /\ write(p, id, fresh(p)) /\ created' = [created EXCEPT ![id] = @ + 1]
  /\ UNCHANGED <<deployed, stage, config, exit, now, incidents, widest>>

SubmitKnown(p, id) ==
  /\ accepted(p, id) /\ payloads[p][id] # None /\ ~payloads[p][id].signed /\ config[p].signing
  /\ write(p, id, [payloads[p][id] EXCEPT !.signed = TRUE])
  /\ UNCHANGED <<deployed, stage, config, exit, created, now, incidents, widest>>

Tick ==
  /\ now < MaxTime /\ now' = now + 1
  /\ UNCHANGED <<deployed, process, directory, incidents, widest>>

Next ==
  \/ \E p \in Processes :
       \/ \E d \in Deployments : Start(p, d)
       \/ Stop(p) \/ Crash(p)
       \/ Refuse(p) \/ Launch(p) \/ Load(p) \/ LoadFails(p) \/ Bind(p)
       \/ \E id \in Ids : SubmitNew(p, id) \/ SubmitKnown(p, id)
  \/ Tick

(* A process that runs goes on, and the restart policy starts one again    *)
(* that ended and that the operator did not stop.  The operator need not   *)
(* do anything.                                                            *)
Spec ==
  /\ Init /\ [][Next]_vars
  /\ \A p \in Processes :
       WF_vars(Refuse(p) \/ Launch(p)) /\ WF_vars(Load(p) \/ LoadFails(p)) /\ WF_vars(Bind(p))
-----------------------------------------------------------------------------
(* Types; whoever runs has a usable configuration, and whoever serves has  *)
(* its port alone.                                                         *)
StartupTypeOK ==
  /\ deployed \in [Processes -> Deployments \cup {None}]
  /\ stage \in [Processes -> {"off", "configured", "loaded", "serving"}]
  /\ config \in [Processes -> Configuration \cup {None}]
  /\ payloads \in [Processes -> [Ids -> Record \cup {None}]] /\ disk \in [Ids -> Record \cup {None}]
  /\ stale \in [Processes -> BOOLEAN] /\ created \in [Ids -> Nat]
  /\ exit \in [Processes -> {None, 0, 2, 101, 137}]
  /\ now \in 0..MaxTime /\ incidents \in 0..MaxIncidents /\ widest \in Nat
  /\ \A p \in Processes :
       /\ stage[p] # "off" <=> config[p] # None
       /\ stage[p] # "off" => deployed[p] # None
       /\ \A q \in Processes \ {p} :
            listening(p) /\ listening(q) => config[p].port # config[q].port

(* A process that serves knows what is in the directory, unless another    *)
(* one wrote there since its load: one process at a time is enough,        *)
(* however often it is replaced.                                           *)
ServingKnows == \A p \in Processes : listening(p) /\ ~stale[p] => payloads[p] = disk

(* A record changes by its receipt only, and none goes away: what writes   *)
(* over a record with another date, even an earlier one, or answers 201    *)
(* for a payload that is stored, is a process with an old inventory.       *)
OnlyStaleRedates ==
  [][\A id \in Ids : disk[id] # None =>
       /\ disk'[id] # None
       /\ \/ \E p \in Processes : listening(p) /\ stale[p] /\ payloads'[p] # payloads[p]
          \/ /\ disk'[id] # disk[id] => disk'[id] = [disk[id] EXCEPT !.signed = TRUE]
             /\ created'[id] = created[id]]_vars

(* A process that the operator wants, with an environment main accepts and *)
(* a limit that is not lower than that of any process before it, can count *)
(* on its port: it serves, or another process has the port, however many   *)
(* of them were killed, found the directory unreadable or the port taken.  *)
(* With a lower limit a record may keep it out for ever.                   *)
due(p) ==
  /\ deployed[p] # None /\ runs(deployed[p])
  /\ create_config(deployed[p].env).max >= widest
served(p) == taken(create_config(deployed[p].env).port)
EventuallyServes == \A p \in Processes : due(p) ~> (~due(p) \/ served(p))
=============================================================================

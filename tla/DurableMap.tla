----------------------------- MODULE DurableMap -----------------------------
(***************************************************************************)
(* What PAYLOAD_DIR promises where the power may fail: two maps, what a    *)
(* process finds there now and what it would find after a power failure at *)
(* this moment.  The second one is the first as it was at one earlier      *)
(* moment, for all payloads together, so of two payloads that were stored  *)
(* one after the other it is never the first that is missing.  Only a file *)
(* system that does not write the data of a new file before its name may   *)
(* leave new payloads torn for a while.                                    *)
(***************************************************************************)
CONSTANTS Ids, None

VARIABLES
  creates_ordered,  \* new files too are on the medium before their names
  shown,            \* the record of each payload in the directory
  durable           \* what a power failure would leave of it

vars == <<creates_ordered, shown, durable>>

Records == {"unsigned", "signed"}

Init ==
  /\ creates_ordered \in BOOLEAN
  /\ shown = [id \in Ids |-> None] /\ durable = shown

Store(id) ==
  /\ shown[id] = None
  /\ \E rec \in Records : shown' = [shown EXCEPT ![id] = rec]
  /\ UNCHANGED durable

Attach(id) ==
  /\ shown[id] = "unsigned"
  /\ shown' = [shown EXCEPT ![id] = "signed"]
  /\ UNCHANGED durable

(* A name that is durable before what it names.                            *)
late(id) ==
  /\ ~creates_ordered /\ shown[id] # None
  /\ durable'[id] \in Records \cup {"torn"}
  /\ durable[id] \in Records => durable'[id] \in Records

(* What is shown becomes durable, all of it.                               *)
Checkpoint ==
  /\ DOMAIN durable' = Ids
  /\ \A id \in Ids : durable'[id] = shown[id] \/ late(id)
  /\ UNCHANGED shown

(* What is late follows.                                                   *)
Follow(id) ==
  /\ ~creates_ordered /\ durable[id] # None
  /\ \E rec \in Records :
       /\ rec = "signed" => shown[id] = "signed"
       /\ durable' = [durable EXCEPT ![id] = rec]
  /\ UNCHANGED shown

PowerFails ==
  /\ shown' = durable
  /\ UNCHANGED durable

Next ==
  /\ \/ \E id \in Ids : Store(id) \/ Attach(id) \/ Follow(id)
     \/ Checkpoint \/ PowerFails
  /\ UNCHANGED creates_ordered

Spec == Init /\ [][Next]_vars
=============================================================================

---------------------------- MODULE ListedStore -----------------------------
(***************************************************************************)
(* PayloadStore under a clock that does not step back, with the history    *)
(* that it takes to say in which order payloads were submitted: the list   *)
(* of the store behaves as Inventory, the specification that StatusPage    *)
(* stands on.                                                              *)
(*                                                                         *)
(* The variables of this module but the clock are history; they constrain  *)
(* nothing.  In particular a restart finds a record that was renamed and   *)
(* not listed, and only history knows which submission wrote it.           *)
(***************************************************************************)
EXTENDS PayloadStoreInvariant

VARIABLES
  clock,    \* whole seconds
  begun,    \* of each request: the submission it makes, until it is over
  origin,   \* of each file: the submission that created it
  listed    \* newest_first of this process, or of the last one

history == <<begun, origin, listed>>
listed_vars == <<vars, clock, history>>

Submission == [payload : Ids, at : Times, before : SUBSET Ids]
ASSUME SubmissionAssumption == None \notin Submission

(* What an earlier process left was dated before; the first list is one    *)
(* that it may have shown.                                                 *)
ListedInit ==
  /\ Init
  /\ clock \in Times /\ \A id \in stored_ids : files[id].submittedAt <= clock
  /\ begun = [r \in Requests |-> None]
  /\ origin = [id \in Ids |->
       IF files[id] = None THEN None
       ELSE [payload |-> id, at |-> files[id].submittedAt, before |-> {}]]
  /\ listed \in {order \in SetToSeqs(stored_ids) : SortedNewestFirst(order)}

Tick ==
  /\ \E t \in Times : clock < t /\ clock' = t
  /\ UNCHANGED <<vars, history>>

prepares(r) == pc[r] = "new" /\ pc'[r] = "waiting"
(* A record is dated by the clock (Utc::now() in record_for).              *)
DatedNow == \A r \in Requests : prepares(r) => record'[r].submittedAt = clock

loads == status # "up" /\ status' = "up"
Remember ==
  /\ begun' = [r \in Requests |->
       IF prepares(r)
         THEN [payload |-> record'[r].id, at |-> clock, before |-> ToSet(listed)]
       ELSE IF loads \/ (status' = "up" /\ pc'[r] = "done") THEN None
       ELSE begun[r]]
  /\ origin' = [id \in Ids |->
       IF files[id] = None /\ files'[id] # None THEN begun[lock] ELSE origin[id]]
  /\ listed' = IF status' = "up" THEN newest_first' ELSE listed

ListedNext == Tick \/ (Next /\ DatedNow /\ Remember /\ UNCHANGED clock)

ListedSpec == ListedInit /\ [][ListedNext]_listed_vars
-----------------------------------------------------------------------------
(* The inductive invariant, on top of StoreInv and InventoryInv.           *)
HistoryTyped ==
  /\ clock \in Times /\ listed \in Seq(Ids)
  /\ begun \in [Requests -> Submission \cup {None}]
  /\ origin \in [Ids -> Submission \cup {None}]

(* What was listed is stored, under the date it was submitted at.          *)
OriginInv ==
  /\ status = "up" => listed = newest_first
  /\ ToSet(listed) \subseteq stored_ids
  /\ \A id \in stored_ids :
       origin[id] # None /\ origin[id].payload = id /\ origin[id].at = files[id].submittedAt

(* A submission remembers what its record says, until an upgrade takes the *)
(* date of the stored record.                                              *)
BegunInv ==
  /\ status = "up" => \A r \in Requests : begun[r] # None <=> pc[r] \in Submitting
  /\ \A r \in Requests : pc[r] \in Submitting =>
       /\ begun[r] # None /\ begun[r].payload = record[r].id
       /\ pc[r] = "waiting" \/ created[r] => begun[r].at = record[r].submittedAt
       /\ pc[r] = "commit" /\ created[r] => origin[record[r].id] = begun[r]

(* A stopped process leaves at most one record that it had not listed, and *)
(* that of a submission it had begun; unless the byte count overflowed,    *)
(* and then no process loads the directory again.                          *)
UnlistedInv ==
  /\ poisoned => ~fits(stored_bytes)
  /\ status # "up" /\ fits(stored_bytes) =>
       \A id, other \in stored_ids \ ToSet(listed) :
         id = other /\ \E r \in Requests : begun[r] = origin[id]

ListedInv == HistoryTyped /\ OriginInv /\ BegunInv /\ UnlistedInv
-----------------------------------------------------------------------------
Listing == INSTANCE Inventory WITH
  Payloads <- Ids, Submissions <- Requests, MaxRestarts <- MaxCrashes + 1,
  now <- clock, task <- begun, newest_first <- listed,
  submitted_at <- [id \in Ids |-> IF id \in ToSet(listed) THEN origin[id].at ELSE 0],
  before <- [id \in Ids |-> IF id \in ToSet(listed) THEN origin[id].before ELSE {}],
  restarts <- crashes + (IF status = "up" THEN 1 ELSE 0)

(* What the store lists, with its lock, failed and half-done writes,       *)
(* upgrades, resubmissions, panics, kills and loads, is what Inventory     *)
(* says: a payload is put in front once, when its first submission is      *)
(* answered, and a load finds what was listed and at most one more.        *)
ListsAsInventory == Listing!InventorySpec

(* In a store with several submissions under way: a payload that was       *)
(* submitted when another one had been stored already, in a later second,  *)
(* is listed before it by this process and every later one, also when      *)
(* their tasks passed each other between the date and the lock of submit,  *)
(* or one was killed between its rename and push_front and load sorts it   *)
(* in.                                                                     *)
LatestFirst == Listing!LatestFirst
=============================================================================

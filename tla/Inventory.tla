----------------------------- MODULE Inventory ------------------------------
(***************************************************************************)
(* The order in which the service lists its payloads.  submit dates a      *)
(* record before it takes the mutex and puts its id in front of            *)
(* newest_first under the mutex; load sorts the records it finds by their  *)
(* dates, which have a resolution of one second and leave ties in the      *)
(* order of the directory.  snapshot lists a beginning of newest_first.    *)
(*                                                                         *)
(* The clock does not step back.  ListedStore shows that the list of       *)
(* PayloadStore behaves in this way.                                       *)
(***************************************************************************)
EXTENDS Naturals, Sequences, SequencesExt, FiniteSets

CONSTANTS
  Payloads,
  Submissions,  \* POSTs under way at once
  Times,        \* readings of the clock, in whole seconds
  MaxRestarts,  \* bound: restarts of the process
  None

(* What a submission remembers: its payload, its date, and as a history    *)
(* the payloads that were listed when it was dated.                        *)
Submission == [payload : Payloads, at : Times, before : SUBSET Payloads]

(* An id has a namespace of at most 64 characters and a digest, so there   *)
(* are finitely many payloads.                                             *)
ASSUME InventoryAssumption ==
  Times \subseteq Nat /\ MaxRestarts \in Nat /\ IsFiniteSet(Payloads) /\ None \notin Submission

VARIABLES
  now,
  task,           \* submissions that are dated and not over, or None
  submitted_at,   \* the date of a listed payload's record
  before,         \* the payloads that were listed when it was dated: history
  newest_first,
  restarts

inventory_vars == <<now, task, submitted_at, before, newest_first, restarts>>

stored == ToSet(newest_first)

(* snapshot(limit).                                                        *)
snapshot(limit) == SubSeq(newest_first, 1, IF limit < Len(newest_first) THEN limit
                                           ELSE Len(newest_first))

(* right.submitted_at.cmp(&left.submitted_at): p may come before q.        *)
in_order(dates, p, q) == dates[p] >= dates[q]
sorted(found, dates) ==
  {s \in SetToSeqs(found) : \A i, j \in DOMAIN s : i < j => in_order(dates, s[i], s[j])}

(* A process has loaded what it found.                                     *)
InventoryInit ==
  /\ now \in Times /\ restarts = 0
  /\ task = [s \in Submissions |-> None] /\ before = [p \in Payloads |-> {}]
  /\ submitted_at \in [Payloads -> Times \cup {0}]
  /\ \E found \in SUBSET Payloads :
       /\ newest_first \in sorted(found, submitted_at)
       /\ \A p \in Payloads : IF p \in found THEN submitted_at[p] \in Times /\ submitted_at[p] <= now
                               ELSE submitted_at[p] = 0
-----------------------------------------------------------------------------
(* submit, up to the lock.                                                 *)
Date(s, p) ==
  /\ task[s] = None
  /\ task' = [task EXCEPT ![s] = [payload |-> p, at |-> now, before |-> stored]]
  /\ UNCHANGED <<now, submitted_at, before, newest_first, restarts>>

unlisted(s) == task[s] # None /\ task[s].payload \notin stored
(* The record of s is the one that counts from now on.                     *)
keep(s) ==
  /\ submitted_at' = [submitted_at EXCEPT ![task[s].payload] = task[s].at]
  /\ before' = [before EXCEPT ![task[s].payload] = task[s].before]

(* push_front                                                              *)
listed(p) == <<p>> \o newest_first

(* submit under the lock, for a new payload.                               *)
Commit(s) ==
  /\ unlisted(s)
  /\ keep(s) /\ newest_first' = listed(task[s].payload)
  /\ task' = [task EXCEPT ![s] = None]
  /\ UNCHANGED <<now, restarts>>

(* submit for a known payload, or with an error.                           *)
Drop(s) ==
  /\ task[s] # None
  /\ task' = [task EXCEPT ![s] = None]
  /\ UNCHANGED <<now, submitted_at, before, newest_first, restarts>>

load(found) ==
  /\ restarts < MaxRestarts /\ restarts' = restarts + 1
  /\ newest_first' \in sorted(found, submitted_at')
  /\ task' = [s \in Submissions |-> None]
  /\ UNCHANGED now

(* The process ends and another one loads the directory; the record of one *)
(* submission that was under way may be there.                             *)
Restart ==
  \/ UNCHANGED <<submitted_at, before>> /\ load(stored)
  \/ \E s \in Submissions : unlisted(s) /\ keep(s) /\ load(stored \cup {task[s].payload})

Tick ==
  /\ \E t \in Times : now < t /\ now' = t
  /\ UNCHANGED <<task, submitted_at, before, newest_first, restarts>>

InventoryNext ==
  \/ \E s \in Submissions : (\E p \in Payloads : Date(s, p)) \/ Commit(s) \/ Drop(s)
  \/ Restart \/ Tick

InventorySpec == InventoryInit /\ [][InventoryNext]_inventory_vars
-----------------------------------------------------------------------------
(* The list has every payload at most once, with a date that has passed.   *)
InventoryTypeOK ==
  /\ now \in Times /\ restarts \in 0..MaxRestarts
  /\ task \in [Submissions -> Submission \cup {None}]
  /\ submitted_at \in [Payloads -> Times \cup {0}] /\ \A p \in Payloads : submitted_at[p] <= now
  /\ before \in [Payloads -> SUBSET Payloads]
  /\ stored \subseteq Payloads /\ Len(newest_first) = Cardinality(stored)

(* A payload that was submitted when another one had been stored already,  *)
(* in a later second, is listed before it, in this process and in every    *)
(* later one, whatever the list is cut to: concurrent submissions may      *)
(* change places at a restart, one after the other never do.               *)
later(p, q) == q \in before[p] /\ submitted_at[p] # submitted_at[q]
LatestFirst ==
  \A limit \in 1..Cardinality(Payloads) : \A i \in DOMAIN snapshot(limit) : \A p \in stored :
    later(p, snapshot(limit)[i]) => \E j \in 1..(i - 1) : snapshot(limit)[j] = p
=============================================================================

-------------------------- MODULE InventoryProofs ---------------------------
(***************************************************************************)
(* Proofs about Inventory, for every number of payloads, submissions,      *)
(* seconds and restarts.                                                   *)
(***************************************************************************)
EXTENDS Inventory, FiniteSetTheorems, TLAPS

(* ------------------------ sequences and sets --------------------------- *)

LEMMA MemberOfList ==
  ASSUME NEW S, NEW s \in Seq(S), NEW x
  PROVE  x \in ToSet(s) <=> \E i \in 1 .. Len(s) : s[i] = x
  BY DEF ToSet

LEMMA InFront ==
  ASSUME NEW S, NEW s \in Seq(S), NEW x \in S
  PROVE  LET longer == <<x>> \o s IN
           /\ longer \in Seq(S) /\ Len(longer) = Len(s) + 1
           /\ longer[1] = x
           /\ \A i \in 2 .. (Len(s) + 1) : longer[i] = s[i - 1]
           /\ ToSet(longer) = ToSet(s) \cup {x}
<1> DEFINE longer == <<x>> \o s
<1>1. longer \in Seq(S) /\ Len(longer) = Len(s) + 1
  OBVIOUS
<1>2. \A i \in 1 .. (Len(s) + 1) : longer[i] = IF i = 1 THEN x ELSE s[i - 1]
  OBVIOUS
<1> HIDE DEF longer
<1>3. longer[1] = x /\ \A i \in 2 .. (Len(s) + 1) : longer[i] = s[i - 1]
  BY <1>2
<1>4. ASSUME NEW y
      PROVE  y \in ToSet(longer) <=> y \in ToSet(s) \cup {x}
  <2>1. y \in ToSet(longer) <=> \E i \in 1 .. (Len(s) + 1) : longer[i] = y
    BY <1>1, MemberOfList
  <2>2. y \in ToSet(s) <=> \E i \in 1 .. Len(s) : s[i] = y
    BY MemberOfList
  <2>3. (\E i \in 2 .. (Len(s) + 1) : longer[i] = y) <=> (\E i \in 1 .. Len(s) : s[i] = y)
    <3>1. ASSUME NEW i \in 1 .. Len(s), s[i] = y
          PROVE  \E j \in 2 .. (Len(s) + 1) : longer[j] = y
      <4>1. i + 1 \in 2 .. (Len(s) + 1) /\ longer[i + 1] = s[(i + 1) - 1] /\ (i + 1) - 1 = i
        BY <1>3, <3>1
      <4> QED
        BY <3>1, <4>1
    <3>2. ASSUME NEW i \in 2 .. (Len(s) + 1), longer[i] = y
          PROVE  \E j \in 1 .. Len(s) : s[j] = y
      <4>1. i - 1 \in 1 .. Len(s) /\ longer[i] = s[i - 1]
        BY <1>3, <3>2
      <4> QED
        BY <3>2, <4>1
    <3> QED
      BY <3>1, <3>2
  <2>4. (\E i \in 1 .. (Len(s) + 1) : longer[i] = y)
          <=> (y = x \/ \E i \in 2 .. (Len(s) + 1) : longer[i] = y)
    BY <1>3
  <2> QED
    BY <2>1, <2>2, <2>3, <2>4
<1> QED
  BY <1>1, <1>3, <1>4 DEF longer

(* An order of a finite set names every member of it.                      *)
LEMMA OrderOfSet ==
  ASSUME NEW S, IsFiniteSet(S), NEW s \in SetToSeqs(S)
  PROVE  /\ s \in Seq(S) /\ Len(s) = Cardinality(S) /\ DOMAIN s = 1 .. Cardinality(S)
         /\ ToSet(s) = S
<1> DEFINE n == Cardinality(S)
<1>1. n \in Nat
  BY FS_CardinalityType
<1>2. s \in [1 .. n -> S] /\ \A i, j \in 1 .. n : i # j => s[i] # s[j]
  BY DEF SetToSeqs
<1> HIDE DEF n
<1>3. IsFiniteSet(1 .. n) /\ Cardinality(1 .. n) = n
  <2>1. 1 \in Int /\ n \in Int /\ (IF 1 > n THEN 0 ELSE n - 1 + 1) = n
    BY <1>1
  <2> QED
    BY <2>1, FS_Interval
<1>4. s \in Injection(1 .. n, S)
  BY <1>2 DEF Injection, IsInjective
<1>5. s \in Surjection(1 .. n, S)
  BY <1>3, <1>4, FS_Injection DEF n
<1>6. s \in Seq(S) /\ Len(s) = n /\ DOMAIN s = 1 .. n
  BY <1>1, <1>2
<1>7. ToSet(s) = S
  BY <1>2, <1>5, <1>6 DEF ToSet, Surjection
<1> QED
  BY <1>6, <1>7 DEF n

(* -------------------------- the inventory ------------------------------ *)

(* What was listed when p was dated stays listed and keeps its date, which *)
(* is no later than that of p, and stands behind p in the list; so it will *)
(* be with a submission that is under way.                                 *)
InventoryInv ==
  /\ InventoryTypeOK
  /\ newest_first \in Seq(Payloads)
  /\ \A p \in Payloads : before[p] \subseteq stored
  /\ \A p \in Payloads : \A q \in before[p] : submitted_at[q] <= submitted_at[p]
  /\ \A i, j \in 1 .. Len(newest_first) : later(newest_first[i], newest_first[j]) => i < j
  /\ \A s \in Submissions : task[s] # None =>
       /\ task[s].at <= now /\ task[s].before \subseteq stored
       /\ \A q \in task[s].before : submitted_at[q] <= task[s].at

LEMMA StoredFinite ==
  ASSUME stored \subseteq Payloads
  PROVE  IsFiniteSet(stored) /\ Cardinality(stored) \in Nat
  BY InventoryAssumption, FS_Subset, FS_CardinalityType

(* What is in the invariant of types, for the steps below.                 *)
LEMMA InventoryTypes ==
  ASSUME InventoryInv
  PROVE  /\ now \in Nat /\ now \in Times /\ Times \subseteq Nat
         /\ task \in [Submissions -> Submission \cup {None}]
         /\ submitted_at \in [Payloads -> Nat]
         /\ before \in [Payloads -> SUBSET Payloads]
         /\ newest_first \in Seq(Payloads) /\ stored \subseteq Payloads
         /\ \A s \in Submissions : task[s] # None =>
              /\ task[s] \in Submission /\ task[s].payload \in Payloads
              /\ task[s].at \in Times /\ task[s].at \in Nat
              /\ task[s].before \subseteq stored
<1>1. /\ now \in Times /\ task \in [Submissions -> Submission \cup {None}]
      /\ submitted_at \in [Payloads -> Times \cup {0}]
      /\ before \in [Payloads -> SUBSET Payloads]
      /\ newest_first \in Seq(Payloads) /\ stored \subseteq Payloads
      /\ \A s \in Submissions : task[s] # None => task[s].before \subseteq stored
  BY DEF InventoryInv, InventoryTypeOK
<1>2. Times \subseteq Nat /\ Times \cup {0} \subseteq Nat
  BY InventoryAssumption
<1>3. ASSUME NEW s \in Submissions, task[s] # None
      PROVE  task[s] \in Submission
  BY <1>1, <1>3
<1>4. \A x \in Submission : x.payload \in Payloads /\ x.at \in Times
  BY DEF Submission
<1>5. submitted_at \in [Payloads -> Nat] /\ now \in Nat
  <2> DEFINE T == Times \cup {0}
  <2>1. submitted_at \in [Payloads -> T] /\ T \subseteq Nat
    BY <1>1, <1>2
  <2> HIDE DEF T
  <2> QED
    BY <1>1, <1>2, <2>1
<1>6. ASSUME NEW s \in Submissions, task[s] # None
      PROVE  /\ task[s] \in Submission /\ task[s].payload \in Payloads
             /\ task[s].at \in Times /\ task[s].at \in Nat
             /\ task[s].before \subseteq stored
  <2>1. task[s] \in Submission
    BY <1>3, <1>6
  <2>2. task[s].payload \in Payloads /\ task[s].at \in Times
    BY <1>4, <2>1
  <2> QED
    BY <1>1, <1>2, <1>6, <2>1, <2>2
<1> QED
  BY <1>1, <1>2, <1>5, <1>6

(* A sorted list of found payloads, by its places.                         *)
LEMMA SortedList ==
  ASSUME NEW found \in SUBSET Payloads, NEW dates, NEW s \in sorted(found, dates)
  PROVE  /\ s \in Seq(Payloads) /\ ToSet(s) = found /\ Len(s) = Cardinality(found)
         /\ \A i, j \in 1 .. Len(s) : i < j => in_order(dates, s[i], s[j])
<1>1. IsFiniteSet(found)
  BY InventoryAssumption, FS_Subset
<1>2. s \in SetToSeqs(found)
  BY DEF sorted
<1>3. /\ s \in Seq(found) /\ Len(s) = Cardinality(found) /\ DOMAIN s = 1 .. Len(s)
      /\ ToSet(s) = found
  BY <1>1, <1>2, OrderOfSet
<1>4. s \in Seq(Payloads)
  BY <1>3
<1> QED
  BY <1>3, <1>4 DEF sorted

LEMMA InventoryStart == InventoryInit => InventoryInv
<1> SUFFICES ASSUME InventoryInit PROVE InventoryInv
  OBVIOUS
<1>1. PICK found \in SUBSET Payloads :
        /\ newest_first \in sorted(found, submitted_at)
        /\ \A p \in Payloads : IF p \in found THEN submitted_at[p] \in Times /\ submitted_at[p] <= now
                               ELSE submitted_at[p] = 0
  BY DEF InventoryInit
<1>2. /\ newest_first \in Seq(Payloads) /\ stored = found
      /\ Len(newest_first) = Cardinality(stored)
  BY <1>1, SortedList DEF stored
<1>3. \A p \in Payloads : submitted_at[p] <= now
  BY <1>1, InventoryAssumption DEF InventoryInit
<1>4. /\ \A p \in Payloads : before[p] = {}
      /\ \A s \in Submissions : task[s] = None
  BY DEF InventoryInit
<1>5. InventoryTypeOK
  BY <1>2, <1>3, InventoryAssumption DEF InventoryInit, InventoryTypeOK
<1>6. \A i \in 1 .. Len(newest_first) : newest_first[i] \in Payloads
  BY <1>2
<1> QED
  BY <1>2, <1>4, <1>5, <1>6 DEF InventoryInv, later

LEMMA DateKeeps ==
  ASSUME InventoryInv, NEW s \in Submissions, NEW p \in Payloads, Date(s, p)
  PROVE  InventoryInv'
<1> DEFINE new == [payload |-> p, at |-> now, before |-> stored]
<1>1. /\ now' = now /\ submitted_at' = submitted_at /\ before' = before /\ restarts' = restarts
      /\ newest_first' = newest_first /\ stored' = stored
      /\ task' = [task EXCEPT ![s] = new]
  BY DEF Date, stored
<1>2. new \in Submission /\ new.before = stored /\ new.at = now
  BY InventoryTypes DEF Submission
<1> HIDE DEF new
<1>3. task' \in [Submissions -> Submission \cup {None}]
  BY <1>1, <1>2, InventoryTypes
<1>4. InventoryTypeOK'
  BY <1>1, <1>3 DEF InventoryInv, InventoryTypeOK
<1>5. \A q \in stored : submitted_at[q] <= now
  BY InventoryTypes DEF InventoryInv, InventoryTypeOK
<1>6. ASSUME NEW x \in Submissions, task'[x] # None
      PROVE  /\ task'[x].at <= now' /\ task'[x].before \subseteq stored'
             /\ \A q \in task'[x].before : submitted_at'[q] <= task'[x].at
  <2>1. CASE x = s
    <3>1. task'[x] = new
      BY <1>1, <2>1, InventoryTypes
    <3> QED
      BY <1>1, <1>2, <1>5, <3>1, InventoryTypes
  <2>2. CASE x # s
    <3>1. task'[x] = task[x]
      BY <1>1, <2>2, InventoryTypes
    <3> QED
      BY <1>1, <1>6, <3>1 DEF InventoryInv
  <2> QED
    BY <2>1, <2>2
<1> QED
  BY <1>1, <1>4, <1>6 DEF InventoryInv, later

(* What remains of the submissions when some are over: for the steps that  *)
(* take a record over, whose payload was not listed before.                *)
LEMMA KeepKeeps ==
  ASSUME InventoryInv, NEW s \in Submissions, unlisted(s), keep(s)
  PROVE  LET p == task[s].payload IN
           /\ p \in Payloads /\ p \notin stored
           /\ submitted_at' \in [Payloads -> Times \cup {0}]
           /\ \A q \in Payloads : submitted_at'[q] <= now
           /\ \A q \in stored : submitted_at'[q] = submitted_at[q]
           /\ before' \in [Payloads -> SUBSET Payloads]
           /\ \A x \in Payloads : before'[x] \subseteq stored
           /\ \A x \in Payloads \ {p} : before'[x] = before[x] /\ submitted_at'[x] = submitted_at[x]
           /\ \A x \in Payloads : \A q \in before'[x] : submitted_at'[q] <= submitted_at'[x]
<1> DEFINE p == task[s].payload
<1>1. /\ task[s] # None /\ p \notin stored
      /\ submitted_at' = [submitted_at EXCEPT ![p] = task[s].at]
      /\ before' = [before EXCEPT ![p] = task[s].before]
  BY DEF unlisted, keep
<1>2. /\ p \in Payloads /\ task[s].at \in Times /\ task[s].at <= now
      /\ task[s].before \subseteq stored /\ \A q \in task[s].before : submitted_at[q] <= task[s].at
  BY <1>1, InventoryTypes DEF InventoryInv
<1>3. /\ submitted_at \in [Payloads -> Times \cup {0}] /\ \A q \in Payloads : submitted_at[q] <= now
      /\ \A x \in Payloads : before[x] \subseteq stored
      /\ \A x \in Payloads : \A q \in before[x] : submitted_at[q] <= submitted_at[x]
  BY DEF InventoryInv, InventoryTypeOK
<1> HIDE DEF p
<1>4. submitted_at' \in [Payloads -> Times \cup {0}] /\ submitted_at'[p] = task[s].at
      /\ \A x \in Payloads \ {p} : submitted_at'[x] = submitted_at[x]
  BY <1>1, <1>2, <1>3
<1>5. before' \in [Payloads -> SUBSET Payloads] /\ before'[p] = task[s].before
      /\ \A x \in Payloads \ {p} : before'[x] = before[x]
  BY <1>1, <1>2, InventoryTypes
<1>6. \A q \in Payloads : submitted_at'[q] <= now
  BY <1>2, <1>3, <1>4
<1>7. \A q \in stored : submitted_at'[q] = submitted_at[q]
  BY <1>1, <1>4, InventoryTypes
<1>8. \A x \in Payloads : before'[x] \subseteq stored
  BY <1>2, <1>3, <1>5
<1>9. ASSUME NEW x \in Payloads, NEW q \in before'[x]
      PROVE  submitted_at'[q] <= submitted_at'[x]
  <2>1. q \in stored /\ submitted_at'[q] = submitted_at[q]
    BY <1>7, <1>8
  <2>2. CASE x = p
    BY <1>2, <1>4, <1>5, <2>1, <2>2
  <2>3. CASE x # p
    BY <1>3, <1>4, <1>5, <2>1, <2>3
  <2> QED
    BY <2>2, <2>3
<1> QED
  BY <1>1, <1>2, <1>4, <1>5, <1>6, <1>7, <1>8, <1>9 DEF p

LEMMA CommitKeeps == ASSUME InventoryInv, NEW s \in Submissions, Commit(s) PROVE InventoryInv'
<1> DEFINE p == task[s].payload
           n == Len(newest_first)
<1>1. /\ unlisted(s) /\ keep(s) /\ newest_first' = <<p>> \o newest_first
      /\ task' = [task EXCEPT ![s] = None] /\ now' = now /\ restarts' = restarts
  BY DEF Commit, listed
<1>2. /\ p \in Payloads /\ p \notin stored
      /\ submitted_at' \in [Payloads -> Times \cup {0}]
      /\ \A q \in Payloads : submitted_at'[q] <= now
      /\ \A q \in stored : submitted_at'[q] = submitted_at[q]
      /\ before' \in [Payloads -> SUBSET Payloads]
      /\ \A x \in Payloads : before'[x] \subseteq stored
      /\ \A x \in Payloads \ {p} : before'[x] = before[x] /\ submitted_at'[x] = submitted_at[x]
      /\ \A x \in Payloads : \A q \in before'[x] : submitted_at'[q] <= submitted_at'[x]
  BY <1>1, KeepKeeps
<1> HIDE DEF p
<1>3. /\ n \in Nat /\ newest_first' \in Seq(Payloads) /\ Len(newest_first') = n + 1
      /\ newest_first'[1] = p
      /\ \A i \in 2 .. (n + 1) : newest_first'[i] = newest_first[i - 1]
      /\ stored' = stored \cup {p}
  BY <1>1, <1>2, InFront, InventoryTypes DEF stored
<1>4. Len(newest_first') = Cardinality(stored')
  <2>1. Len(newest_first) = Cardinality(stored)
    BY DEF InventoryInv, InventoryTypeOK
  <2>2. Cardinality(stored \cup {p}) = Cardinality(stored) + 1
    BY <1>2, InventoryTypes, StoredFinite, FS_AddElement
  <2> QED
    BY <1>3, <2>1, <2>2
<1>5. task' \in [Submissions -> Submission \cup {None}]
  BY <1>1, InventoryTypes
<1>6. InventoryTypeOK'
  BY <1>1, <1>2, <1>3, <1>4, <1>5, InventoryTypes DEF InventoryInv, InventoryTypeOK
<1> HIDE DEF n
<1>7. ASSUME NEW i \in 1 .. (n + 1), NEW j \in 1 .. (n + 1),
             later(newest_first[i], newest_first[j])'
      PROVE  i < j
  <2>1. newest_first'[i] \in Payloads
    BY <1>3, <1>7
  <2>2. newest_first'[j] \in before'[newest_first'[i]]
        /\ submitted_at'[newest_first'[i]] # submitted_at'[newest_first'[j]]
    BY <1>7 DEF later
  <2>3. newest_first'[j] \in stored /\ newest_first'[j] # p
    BY <1>2, <2>1, <2>2
  <2>4. j # 1
    BY <1>3, <2>3
  <2>5. CASE i = 1
    BY <1>3, <1>7, <2>4, <2>5
  <2>6. CASE i # 1
    <3>1. /\ i - 1 \in 1 .. n /\ j - 1 \in 1 .. n
          /\ newest_first'[i] = newest_first[i - 1] /\ newest_first'[j] = newest_first[j - 1]
      BY <1>3, <1>7, <2>4, <2>6
    <3>2. newest_first[i - 1] \in stored
      BY <3>1, InventoryTypes, MemberOfList DEF stored, n
    <3>3. newest_first'[i] # p
      BY <1>2, <3>1, <3>2
    <3>4. newest_first'[j] \in Payloads
      BY <2>3, InventoryTypes
    <3>5. later(newest_first[i - 1], newest_first[j - 1])
      BY <1>2, <2>1, <2>2, <2>3, <3>1, <3>3, <3>4 DEF later
    <3>6. i - 1 < j - 1
      BY <3>1, <3>5 DEF InventoryInv, n
    <3> QED
      BY <1>3, <1>7, <3>6
  <2> QED
    BY <2>5, <2>6
<1>8. ASSUME NEW x \in Submissions, task'[x] # None
      PROVE  /\ task'[x].at <= now' /\ task'[x].before \subseteq stored'
             /\ \A q \in task'[x].before : submitted_at'[q] <= task'[x].at
  <2>1. task'[x] = task[x] /\ task[x] # None
    BY <1>1, <1>8, InventoryTypes
  <2>2. /\ task[x].at <= now /\ task[x].before \subseteq stored
        /\ \A q \in task[x].before : submitted_at[q] <= task[x].at
    BY <2>1 DEF InventoryInv
  <2> QED
    BY <1>1, <1>2, <1>3, <2>1, <2>2
<1> QED
  BY <1>2, <1>3, <1>6, <1>7, <1>8 DEF InventoryInv

LEMMA DropKeeps == ASSUME InventoryInv, NEW s \in Submissions, Drop(s) PROVE InventoryInv'
<1>1. /\ now' = now /\ submitted_at' = submitted_at /\ before' = before /\ restarts' = restarts
      /\ newest_first' = newest_first /\ stored' = stored
      /\ task' = [task EXCEPT ![s] = None]
  BY DEF Drop, stored
<1>2. task' \in [Submissions -> Submission \cup {None}]
  BY <1>1, InventoryTypes
<1>3. InventoryTypeOK'
  BY <1>1, <1>2 DEF InventoryInv, InventoryTypeOK
<1>4. \A x \in Submissions : task'[x] # None => task'[x] = task[x]
  BY <1>1, InventoryTypes
<1> QED
  BY <1>1, <1>3, <1>4 DEF InventoryInv, later

(* A load keeps the invariant if the dates do that it sorts by.            *)
LEMMA LoadKeeps ==
  ASSUME InventoryInv, NEW found \in SUBSET Payloads, load(found), stored \subseteq found,
         submitted_at' \in [Payloads -> Times \cup {0}],
         \A q \in Payloads : submitted_at'[q] <= now,
         before' \in [Payloads -> SUBSET Payloads],
         \A x \in Payloads : before'[x] \subseteq stored,
         \A x \in Payloads : \A q \in before'[x] : submitted_at'[q] <= submitted_at'[x]
  PROVE  InventoryInv'
<1>1. /\ restarts < MaxRestarts /\ restarts' = restarts + 1 /\ now' = now
      /\ newest_first' \in sorted(found, submitted_at')
      /\ task' = [s \in Submissions |-> None]
  BY DEF load
<1>2. /\ newest_first' \in Seq(Payloads) /\ stored' = found
      /\ Len(newest_first') = Cardinality(found)
      /\ \A i, j \in 1 .. Len(newest_first') :
           i < j => submitted_at'[newest_first'[i]] >= submitted_at'[newest_first'[j]]
  BY <1>1, SortedList DEF stored, in_order
<1>3. restarts' \in 0 .. MaxRestarts
  BY <1>1, InventoryAssumption DEF InventoryInv, InventoryTypeOK
<1>4. InventoryTypeOK'
  BY <1>1, <1>2, <1>3, InventoryTypes DEF InventoryTypeOK
<1>5. ASSUME NEW i \in 1 .. Len(newest_first'), NEW j \in 1 .. Len(newest_first'),
             later(newest_first[i], newest_first[j])'
      PROVE  i < j
  <2> DEFINE p == newest_first'[i]
             q == newest_first'[j]
  <2>1. p \in Payloads /\ q \in before'[p] /\ submitted_at'[p] # submitted_at'[q]
    BY <1>2, <1>5 DEF later
  <2>2. q \in Payloads /\ submitted_at'[q] <= submitted_at'[p]
    BY <2>1
  <2>3. submitted_at'[p] \in Nat /\ submitted_at'[q] \in Nat
    <3> DEFINE T == Times \cup {0}
    <3>1. submitted_at' \in [Payloads -> T] /\ T \subseteq Nat
      BY InventoryAssumption
    <3> HIDE DEF T
    <3> QED
      BY <2>1, <2>2, <3>1
  <2> HIDE DEF p, q
  <2>4. i # j
    BY <2>1 DEF p, q
  <2>5. ~(j < i)
    <3>1. j < i => submitted_at'[q] >= submitted_at'[p]
      BY <1>2 DEF p, q
    <3> QED
      BY <2>1, <2>2, <2>3, <3>1
  <2> QED
    BY <1>2, <1>5, <2>4, <2>5
<1> QED
  BY <1>1, <1>2, <1>4, <1>5 DEF InventoryInv

LEMMA RestartKeeps == ASSUME InventoryInv, Restart PROVE InventoryInv'
<1>1. CASE UNCHANGED <<submitted_at, before>> /\ load(stored)
  <2>1. /\ submitted_at' \in [Payloads -> Times \cup {0}]
        /\ \A q \in Payloads : submitted_at'[q] <= now
        /\ before' \in [Payloads -> SUBSET Payloads]
        /\ \A x \in Payloads : before'[x] \subseteq stored
        /\ \A x \in Payloads : \A q \in before'[x] : submitted_at'[q] <= submitted_at'[x]
        /\ stored \in SUBSET Payloads
    BY <1>1 DEF InventoryInv, InventoryTypeOK
  <2> QED
    BY <1>1, <2>1, LoadKeeps
<1>2. ASSUME NEW s \in Submissions, unlisted(s), keep(s), load(stored \cup {task[s].payload})
      PROVE  InventoryInv'
  <2>1. /\ task[s].payload \in Payloads
        /\ submitted_at' \in [Payloads -> Times \cup {0}]
        /\ \A q \in Payloads : submitted_at'[q] <= now
        /\ before' \in [Payloads -> SUBSET Payloads]
        /\ \A x \in Payloads : before'[x] \subseteq stored
        /\ \A x \in Payloads : \A q \in before'[x] : submitted_at'[q] <= submitted_at'[x]
    BY <1>2, KeepKeeps
  <2>2. stored \cup {task[s].payload} \in SUBSET Payloads
    BY <2>1, InventoryTypes
  <2> QED
    BY <1>2, <2>1, <2>2, LoadKeeps
<1> QED
  BY <1>1, <1>2 DEF Restart

LEMMA TickKeeps == ASSUME InventoryInv, Tick PROVE InventoryInv'
<1>1. PICK t \in Times : now < t /\ now' = t
  BY DEF Tick
<1>2. now \in Nat /\ now' \in Nat /\ now < now' /\ now' \in Times
  BY <1>1, InventoryTypes
<1>3. /\ submitted_at' = submitted_at /\ before' = before /\ restarts' = restarts
      /\ newest_first' = newest_first /\ stored' = stored /\ task' = task
  BY DEF Tick, stored
<1>4. \A p \in Payloads : submitted_at[p] \in Nat /\ submitted_at[p] <= now
  BY InventoryTypes DEF InventoryInv, InventoryTypeOK
<1>5. \A p \in Payloads : submitted_at[p] <= now'
  BY <1>2, <1>4
<1>6. InventoryTypeOK'
  BY <1>2, <1>3, <1>5 DEF InventoryInv, InventoryTypeOK
<1>7. \A s \in Submissions : task[s] # None => task[s].at <= now'
  BY <1>2, InventoryTypes DEF InventoryInv
<1> QED
  BY <1>3, <1>6, <1>7 DEF InventoryInv, later

LEMMA InventoryKept == InventoryInv /\ [InventoryNext]_inventory_vars => InventoryInv'
<1> SUFFICES ASSUME InventoryInv, [InventoryNext]_inventory_vars PROVE InventoryInv'
  OBVIOUS
<1>1. CASE UNCHANGED inventory_vars
  BY <1>1 DEF inventory_vars, InventoryInv, InventoryTypeOK, stored, later
<1>2. CASE InventoryNext
  BY <1>2, DateKeeps, CommitKeeps, DropKeeps, RestartKeeps, TickKeeps DEF InventoryNext
<1> QED
  BY <1>1, <1>2

(* What is listed stays listed: no failure, restart or later submission    *)
(* of another payload takes it away.                                       *)
LEMMA StoredStays ==
  InventoryInv /\ [InventoryNext]_inventory_vars => stored \subseteq stored'
<1> SUFFICES ASSUME InventoryInv, [InventoryNext]_inventory_vars PROVE stored \subseteq stored'
  OBVIOUS
<1>1. CASE newest_first' = newest_first
  BY <1>1 DEF stored
<1>2. ASSUME NEW s \in Submissions, Commit(s)
      PROVE  stored \subseteq stored'
  <2>1. newest_first' = <<task[s].payload>> \o newest_first /\ task[s].payload \in Payloads
    BY <1>2, InventoryTypes DEF Commit, listed, unlisted
  <2> QED
    BY <2>1, InFront, InventoryTypes DEF stored
<1>3. ASSUME NEW found \in SUBSET Payloads, load(found), stored \subseteq found
      PROVE  stored \subseteq stored'
  BY <1>3, SortedList DEF load, stored
<1>4. CASE Restart
  <2>1. stored \in SUBSET Payloads
    BY InventoryTypes
  <2>2. ASSUME NEW s \in Submissions, unlisted(s)
        PROVE  stored \cup {task[s].payload} \in SUBSET Payloads
    BY <2>1, <2>2, InventoryTypes DEF unlisted
  <2> QED
    BY <1>3, <1>4, <2>1, <2>2 DEF Restart
<1> QED
  BY <1>1, <1>2, <1>4 DEF InventoryNext, inventory_vars, Date, Drop, Tick

(* What snapshot lists: the beginning of newest_first, or all of it.       *)
LEMMA SnapshotIs ==
  ASSUME InventoryInv, NEW limit \in Nat
  PROVE  LET count == IF limit < Len(newest_first) THEN limit ELSE Len(newest_first) IN
           /\ count \in Nat /\ count <= Len(newest_first)
           /\ snapshot(limit) \in Seq(Payloads) /\ Len(snapshot(limit)) = count
           /\ \A i \in 1 .. count : snapshot(limit)[i] = newest_first[i]
  BY DEF InventoryInv, snapshot

LEMMA ListsInOrder == InventoryInv => LatestFirst
<1> SUFFICES ASSUME InventoryInv, NEW limit \in 1 .. Cardinality(Payloads),
                    NEW i \in DOMAIN snapshot(limit), NEW p \in stored,
                    later(p, snapshot(limit)[i])
             PROVE  \E j \in 1 .. (i - 1) : snapshot(limit)[j] = p
  BY DEF LatestFirst
<1> DEFINE count == IF limit < Len(newest_first) THEN limit ELSE Len(newest_first)
           list == snapshot(limit)
<1>1. /\ count \in Nat /\ count <= Len(newest_first) /\ list \in Seq(Payloads)
      /\ Len(list) = count /\ \A k \in 1 .. count : list[k] = newest_first[k]
  <2>1. limit \in Nat
    OBVIOUS
  <2> QED
    BY <2>1, SnapshotIs
<1> HIDE DEF count, list
<1>2. i \in 1 .. count /\ i \in 1 .. Len(newest_first) /\ list[i] = newest_first[i]
  BY <1>1 DEF list
<1>3. PICK k \in 1 .. Len(newest_first) : newest_first[k] = p
  BY MemberOfList DEF InventoryInv, InventoryTypeOK, stored
<1>4. k < i
  BY <1>2, <1>3 DEF InventoryInv, list
<1>5. k \in 1 .. (i - 1) /\ k \in 1 .. count
  BY <1>1, <1>2, <1>4
<1> QED
  BY <1>1, <1>3, <1>5 DEF list

(* Of two payloads that were submitted one after the other, in different   *)
(* seconds, the later one is listed first, in every process and under      *)
(* every limit.                                                            *)
THEOREM LaterIsListedFirst == InventorySpec => []LatestFirst
  BY InventoryStart, InventoryKept, ListsInOrder, PTL DEF InventorySpec

(* The inventory keeps its types: no payload is listed twice.              *)
THEOREM ListIsTyped == InventorySpec => []InventoryTypeOK
<1>1. InventoryInv => InventoryTypeOK
  BY DEF InventoryInv
<1> QED
  BY <1>1, InventoryStart, InventoryKept, PTL DEF InventorySpec
=============================================================================

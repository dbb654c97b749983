-------------------------- MODULE StatusPageProofs --------------------------
(***************************************************************************)
(* Proofs about StatusPage, for every number of payloads, submissions,     *)
(* refreshes of the timer, seconds and restarts, and for every limit.      *)
(***************************************************************************)
EXTENDS StatusPage, InventoryProofs

(* The inventory moves by the service only; the page just reads it.        *)
LEMMA OnlyServiceMoves == [Next]_vars => [InventoryNext]_inventory_vars
  BY DEF Next, vars, Service, Accepted, Refused, Clear, Submit, Timer, Answer, Lose, Show,
         ShowFailure, InventoryNext

LEMMA InventoryBehind == InventoryInv /\ [Next]_vars => InventoryInv' /\ stored \subseteq stored'
  BY OnlyServiceMoves, InventoryKept, StoredStays

(* What was listed when a listed payload was dated, and in which second    *)
(* that was, stays.                                                        *)
LEMMA DatesStay ==
  ASSUME InventoryInv, [Next]_vars, NEW p \in stored
  PROVE  submitted_at'[p] = submitted_at[p] /\ before'[p] = before[p]
<1>1. /\ submitted_at \in [Payloads -> Times \cup {0}]
      /\ before \in [Payloads -> SUBSET Payloads]
  BY DEF InventoryInv, InventoryTypeOK
<1>2. CASE UNCHANGED <<submitted_at, before>>
  BY <1>2
<1>3. ASSUME NEW s \in Submissions, unlisted(s), keep(s)
      PROVE  submitted_at'[p] = submitted_at[p] /\ before'[p] = before[p]
  BY <1>1, <1>3 DEF unlisted, keep
<1> QED
  BY <1>2, <1>3, OnlyServiceMoves
     DEF InventoryNext, inventory_vars, Date, Commit, Drop, Restart, Tick

(* ----------------------------- the page -------------------------------- *)

(* The rows show the payload that was submitted last, or have no place for *)
(* it.                                                                     *)
Shows(rows) ==
  \/ mine \in ToSet(rows)
  \/ Len(rows) = Limit /\ \A p \in ToSet(rows) : p \in stored /\ ~later(mine, p)

(* Rows do so until another payload is submitted.                          *)
LEMMA ShowsStays ==
  ASSUME InventoryInv, [Next]_vars, NEW rows, mine \in stored, mine' = mine, Shows(rows)
  PROVE  Shows(rows)'
<1>1. ASSUME NEW p \in stored
      PROVE  later(mine, p)' <=> later(mine, p)
  BY <1>1, DatesStay DEF later
<1> QED
  BY <1>1, InventoryBehind DEF Shows

(* The refresh after a submission was asked for when the payload was       *)
(* stored, so whatever answer is on its way to it lists the payload.       *)
PageInv ==
  /\ PageTypeOK
  /\ fetches \in [Fetches -> [at : {"idle", "asked", "failed", "answered"},
                              latest : Seq(Payloads)]]
  /\ form = "refreshing" => mine \in stored
  /\ fetches["submit"].at = "answered" => Shows(fetches["submit"].latest)

LEMMA PageStart == Init => PageInv
<1> SUFFICES ASSUME Init PROVE PageInv
  OBVIOUS
<1>1. InventoryTypeOK
  BY InventoryStart DEF Init, InventoryInv
<1>2. << >> \in Seq(Payloads)
  OBVIOUS
<1>3. "submit" \in Fetches
  BY DEF Fetches
<1> QED
  BY <1>1, <1>2, <1>3 DEF Init, PageInv, PageTypeOK

(* A list that snapshot(Limit) makes shows a stored payload, or is full of *)
(* payloads that are listed before it, and then it is not later than they  *)
(* are.                                                                    *)
LEMMA SnapshotShows ==
  ASSUME InventoryInv, mine \in stored
  PROVE  snapshot(Limit) \in Seq(Payloads) /\ Shows(snapshot(Limit))
<1> DEFINE count == IF Limit < Len(newest_first) THEN Limit ELSE Len(newest_first)
           list == snapshot(Limit)
<1>1. /\ count \in Nat /\ count <= Len(newest_first) /\ list \in Seq(Payloads)
      /\ Len(list) = count /\ \A k \in 1 .. count : list[k] = newest_first[k]
  BY PageAssumption, SnapshotIs
<1> HIDE DEF list
<1>2. CASE Limit < Len(newest_first)
  <2>1. PICK k \in 1 .. Len(newest_first) : newest_first[k] = mine
    BY MemberOfList DEF InventoryInv, InventoryTypeOK, stored
  <2>2. CASE k <= Limit
    <3>1. k \in 1 .. Len(list) /\ list[k] = mine
      BY <1>1, <1>2, <2>1, <2>2
    <3>2. mine \in ToSet(list)
      BY <1>1, <3>1, MemberOfList
    <3> QED
      BY <1>1, <3>2 DEF Shows, list
  <2>3. CASE ~(k <= Limit)
    <3>1. ASSUME NEW p \in ToSet(list)
          PROVE  p \in stored /\ ~later(mine, p)
      <4>1. PICK i \in 1 .. Len(list) : list[i] = p
        BY <1>1, MemberOfList
      <4>2. i \in 1 .. Len(newest_first) /\ newest_first[i] = p /\ i < k
        BY <1>1, <1>2, <2>3, <4>1, PageAssumption
      <4>3. p \in stored
        BY <4>2, MemberOfList DEF InventoryInv, InventoryTypeOK, stored
      <4> QED
        BY <2>1, <4>2, <4>3 DEF InventoryInv
    <3> QED
      BY <1>1, <1>2, <3>1 DEF Shows, list
  <2> QED
    BY <2>2, <2>3
<1>3. CASE ~(Limit < Len(newest_first))
  <2>1. PICK k \in 1 .. Len(newest_first) : newest_first[k] = mine
    BY MemberOfList DEF InventoryInv, InventoryTypeOK, stored
  <2>2. k \in 1 .. Len(list) /\ list[k] = mine
    BY <1>1, <1>3, <2>1
  <2>3. mine \in ToSet(list)
    BY <1>1, <2>2, MemberOfList
  <2> QED
    BY <1>1, <2>3 DEF Shows, list
<1> QED
  BY <1>2, <1>3

LEMMA PageKept == InventoryInv /\ PageInv /\ [Next]_vars => PageInv'
<1> SUFFICES ASSUME InventoryInv, PageInv, [Next]_vars PROVE PageInv'
  OBVIOUS
<1> DEFINE Answers == [at : {"idle", "asked", "failed", "answered"}, latest : Seq(Payloads)]
<1>0. /\ fetches \in [Fetches -> Answers] /\ "submit" \in Fetches /\ Timers \subseteq Fetches
      /\ form \in {"ready", "posting", "refreshing"} /\ message \in {"none", "ok", "err"}
      /\ mine \in Mine \cup {None}
      /\ fetches["submit"].at # "idle" <=> form = "refreshing"
      /\ form = "refreshing" => mine \in stored
      /\ fetches["submit"].at = "answered" => Shows(fetches["submit"].latest)
      /\ << >> \in Seq(Payloads)
  BY DEF PageInv, PageTypeOK, Fetches
<1>a. InventoryTypeOK' /\ stored \subseteq stored'
  BY InventoryBehind DEF InventoryInv
(* It is enough to look at the variables of the page.                      *)
<1>b. ASSUME fetches' \in [Fetches -> Answers], form' \in {"ready", "posting", "refreshing"},
             message' \in {"none", "ok", "err"}, mine' \in Mine \cup {None},
             fetches'["submit"].at # "idle" <=> form' = "refreshing",
             form' = "refreshing" => mine' \in stored,
             fetches'["submit"].at = "answered" =>
               \A rows : rows = fetches'["submit"].latest => Shows(rows)'
      PROVE  PageInv'
  <2>1. \A f \in Fetches : fetches'[f].at \in {"idle", "asked", "failed", "answered"}
    BY <1>b
  <2>2. PageTypeOK'
    BY <1>a, <1>b, <2>1 DEF PageTypeOK
  <2> QED
    BY <1>a, <1>b, <2>2 DEF PageInv, Shows
<1> HIDE DEF Answers
(* An answer that is on its way is as good as it was.                      *)
<1>c. ASSUME fetches'["submit"] = fetches["submit"], mine' = mine, fetches["submit"].at = "answered"
      PROVE  \A rows : rows = fetches'["submit"].latest => Shows(rows)'
  BY <1>0, <1>c, ShowsStays
<1>1. ASSUME NEW t \in Timers, Timer(t)
      PROVE  PageInv'
  <2>1. t # "submit" /\ fetches'["submit"] = fetches["submit"]
    BY <1>0, <1>1, PageAssumption DEF Timer, fetch
  <2>2. fetches' \in [Fetches -> Answers]
    BY <1>0, <1>1 DEF Timer, fetch, Answers
  <2> QED
    BY <1>0, <1>1, <1>b, <1>c, <2>1, <2>2 DEF Timer
<1>2. ASSUME NEW f \in Fetches, Answer(f)
      PROVE  PageInv'
  <2>1. snapshot(Limit) \in Seq(Payloads)
    BY PageAssumption, SnapshotIs
  <2>2. fetches' \in [Fetches -> Answers]
    BY <1>0, <1>2, <2>1 DEF Answer, fetch, Answers
  <2>3. CASE f = "submit"
    <3>1. form = "refreshing" /\ mine \in stored
      BY <1>0, <1>2, <2>3 DEF Answer
    <3>2. fetches'["submit"] = [at |-> "answered", latest |-> snapshot(Limit)]
      BY <1>0, <1>2, <2>3 DEF Answer, fetch
    <3>3. mine' = mine /\ \A rows : rows = snapshot(Limit) => Shows(rows)'
      BY <1>2, <3>1, SnapshotShows, ShowsStays DEF Answer
    <3> QED
      BY <1>0, <1>2, <1>b, <2>2, <3>1, <3>2, <3>3 DEF Answer
  <2>4. CASE f # "submit"
    <3>1. fetches'["submit"] = fetches["submit"]
      BY <1>0, <1>2, <2>4 DEF Answer, fetch
    <3> QED
      BY <1>0, <1>2, <1>b, <1>c, <2>2, <3>1 DEF Answer
  <2> QED
    BY <2>3, <2>4
<1>3. ASSUME NEW f \in Fetches, Lose(f)
      PROVE  PageInv'
  <2>1. fetches' \in [Fetches -> Answers]
    BY <1>0, <1>3 DEF Lose, fetch, Answers
  <2>2. \/ f = "submit" /\ fetches["submit"].at = "asked" /\ fetches'["submit"].at = "failed"
        \/ fetches'["submit"] = fetches["submit"]
    BY <1>0, <1>3 DEF Lose, fetch
  <2> QED
    BY <1>0, <1>3, <1>b, <1>c, <2>1, <2>2 DEF Lose
<1>4. ASSUME NEW f \in Fetches, Show(f) \/ ShowFailure(f)
      PROVE  PageInv'
  <2>a. fetches' = [fetches EXCEPT ![f] = [at |-> "idle", latest |-> << >>]]
    BY <1>4 DEF Show, ShowFailure, fetch
  <2>b. [at |-> "idle", latest |-> << >>] \in Answers
    BY DEF Answers
  <2>c. fetches' \in [Fetches -> Answers]
    BY <1>0, <2>a, <2>b
  <2>d. mine' = mine /\ message' \in {"none", "ok", "err"}
    <3>1. CASE Show(f)
      BY <1>0, <3>1 DEF Show
    <3>2. CASE ShowFailure(f)
      BY <1>0, <3>2 DEF ShowFailure
    <3> QED
      BY <1>4, <3>1, <3>2
  <2>1. fetches' \in [Fetches -> Answers] /\ mine' = mine /\ message' \in {"none", "ok", "err"}
    BY <2>c, <2>d
  <2>2. CASE f = "submit"
    <3>1. fetches'["submit"].at = "idle" /\ form' = "ready"
      BY <1>0, <1>4, <2>2 DEF Show, ShowFailure, fetch, ends
    <3> QED
      BY <1>0, <1>b, <2>1, <3>1
  <2>3. CASE f # "submit"
    <3>1. fetches'["submit"] = fetches["submit"] /\ form' = form
      BY <1>0, <1>4, <2>3 DEF Show, ShowFailure, fetch, ends
    <3> QED
      BY <1>0, <1>b, <1>c, <2>1, <3>1
  <2> QED
    BY <2>2, <2>3
<1>5. ASSUME NEW p \in Mine, Submit(p)
      PROVE  PageInv'
  BY <1>0, <1>5, <1>b DEF Submit
<1>6. CASE Accepted
  <2>1. fetches' \in [Fetches -> Answers] /\ fetches'["submit"].at = "asked"
    BY <1>0, <1>6 DEF Accepted, fetch, Answers
  <2> QED
    BY <1>0, <1>6, <1>b, <2>1 DEF Accepted
<1>7. CASE Refused \/ Clear
  BY <1>0, <1>7, <1>b, <1>c DEF Refused, Clear
<1>8. CASE Service \/ UNCHANGED vars
  BY <1>0, <1>8, <1>a, <1>b, <1>c DEF Service, vars, page
<1> QED
  BY <1>1, <1>2, <1>3, <1>4, <1>5, <1>6, <1>7, <1>8 DEF Next

LEMMA PageInvariant == Spec => [](InventoryInv /\ PageInv)
<1>1. Init => InventoryInv
  BY InventoryStart DEF Init
<1>2. InventoryInv /\ [Next]_vars => InventoryInv'
  BY InventoryBehind
<1>3. InventoryInv /\ PageInv /\ [Next]_vars => PageInv'
  BY PageKept
<1> QED
  BY <1>1, <1>2, <1>3, PageStart, PTL DEF Spec

(* The page keeps its types, the list names every stored payload once, and *)
(* the button is disabled exactly while the refresh after a submission is  *)
(* under way.                                                              *)
THEOREM PageIsTyped == Spec => []PageTypeOK
<1>1. PageInv => PageTypeOK
  BY DEF PageInv
<1> QED
  BY <1>1, PageInvariant, PTL

(* The refresh after a submission shows the submission, or a full table of *)
(* payloads of the same second or later, whatever answers of other         *)
(* refreshes arrive before it.                                             *)
THEOREM SubmissionsAreShown == Spec => SubmissionIsShown
<1>1. ASSUME InventoryInv, PageInv, [Next]_vars,
             form = "refreshing", form' = "ready", fetches["submit"].at = "answered"
      PROVE  \/ mine \in ToSet(shown')
             \/ Len(shown') = Limit /\ \A p \in ToSet(shown') : ~later(mine, p)
  <2>1. Show("submit")
    <3>1. PICK f \in Fetches : Show(f) \/ ShowFailure(f)
      BY <1>1 DEF Next, Service, page, vars, Accepted, Refused, Clear, Submit, Timer, Answer, Lose
    <3>2. f = "submit"
      BY <1>1, <3>1 DEF Show, ShowFailure, ends
    <3> QED
      BY <1>1, <3>1, <3>2 DEF ShowFailure
  <2>2. shown' = fetches["submit"].latest
    BY <2>1 DEF Show
  <2> QED
    BY <1>1, <2>2 DEF PageInv, Shows
<1>2. InventoryInv /\ PageInv /\ [Next]_vars =>
        [form = "refreshing" /\ form' = "ready" /\ fetches["submit"].at = "answered" =>
           \/ mine \in ToSet(shown')
           \/ Len(shown') = Limit /\ \A p \in ToSet(shown') : ~later(mine, p)]_vars
  BY <1>1
<1> QED
  BY <1>2, PageInvariant, PTL DEF Spec, SubmissionIsShown
=============================================================================

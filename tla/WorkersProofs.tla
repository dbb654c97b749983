--------------------------- MODULE WorkersProofs ----------------------------
(***************************************************************************)
(* The lock discipline of the handlers, for any number of workers, threads *)
(* of the blocking pool and requests.                                      *)
(***************************************************************************)
EXTENDS Workers, TLAPS

(* Only submissions write.                                                 *)
WritersSubmit == \A r \in Requests : phase[r] = "writing" => kind[r] = "submit"
WorkersInv == WorkersTypeOK /\ WritersSubmit /\ OnlyOverflowPoisons

LEMMA PhasesAre ==
  /\ OnWorker \subseteq Phases /\ OnPool \subseteq Phases /\ Locked \subseteq OnWorker \cup OnPool
  /\ OnWorker \cap OnPool = {}
  BY DEF OnWorker, OnPool, Phases, Locked

(* A request that a free thread takes is on a thread, with all others that *)
(* were.                                                                   *)
LEMMA Taking ==
  ASSUME NEW T, NEW assigned \in [T -> Requests \cup {None}], NEW r \in Requests,
         NEW t \in T, assigned[t] = None
  PROVE  /\ [assigned EXCEPT ![t] = r] \in [T -> Requests \cup {None}]
         /\ \E u \in T : [assigned EXCEPT ![t] = r][u] = r
         /\ \A q \in Requests \ {r} :
              (\E u \in T : [assigned EXCEPT ![t] = r][u] = q) <=> (\E u \in T : assigned[u] = q)
  BY NoneAssumption

(* A step of one request: it goes to another phase, and is on the threads  *)
(* and has the mutex as that phase says; everything else stays.            *)
LEMMA OneStep ==
  ASSUME WorkersTypeOK, NEW r \in Requests, NEW to \in Phases, goto(r, to),
         worker' \in [Workers -> Requests \cup {None}],
         blocking' \in [Pool -> Requests \cup {None}],
         \A q \in Requests \ {r} : (running(q)' <=> running(q)) /\ (reading(q)' <=> reading(q)),
         running(r)' <=> to \in OnWorker, reading(r)' <=> to \in OnPool,
         \/ mutex' = mutex /\ (phase[r] \in Locked <=> to \in Locked)
         \/ mutex' = None /\ phase[r] \in Locked /\ to \notin Locked
         \/ mutex' = r /\ mutex = None /\ to \in Locked,
         kind' \in [Requests -> Kinds], poisoned' \in BOOLEAN, overflow' \in BOOLEAN,
         stdout' \in BOOLEAN
  PROVE  WorkersTypeOK'
<1>1. phase' \in [Requests -> Phases]
  BY DEF WorkersTypeOK, goto
<1>2. phase'[r] = to /\ \A q \in Requests \ {r} : phase'[q] = phase[q]
  BY DEF WorkersTypeOK, goto
<1>3. mutex' \in Requests \cup {None}
  BY DEF WorkersTypeOK
<1>4. \A q \in Requests : mutex' = q <=> phase'[q] \in Locked
  BY <1>2, NoneAssumption DEF WorkersTypeOK
<1>5. \A q \in Requests : /\ running(q)' <=> phase'[q] \in OnWorker
                          /\ reading(q)' <=> phase'[q] \in OnPool
  BY <1>2 DEF WorkersTypeOK
<1> QED
  BY <1>1, <1>3, <1>4, <1>5 DEF WorkersTypeOK

(* What a step that takes a request off its thread, or no request from any *)
(* thread, does to who is on which.                                        *)
LEMMA Threads ==
  ASSUME WorkersTypeOK, NEW r \in Requests
  PROVE  /\ worker' = leave(worker, r) =>
              /\ worker' \in [Workers -> Requests \cup {None}] /\ ~running(r)'
              /\ \A q \in Requests \ {r} : running(q)' <=> running(q)
         /\ worker' = worker =>
              /\ worker' \in [Workers -> Requests \cup {None}]
              /\ \A q \in Requests : running(q)' <=> running(q)
         /\ blocking' = leave(blocking, r) =>
              /\ blocking' \in [Pool -> Requests \cup {None}] /\ ~reading(r)'
              /\ \A q \in Requests \ {r} : reading(q)' <=> reading(q)
         /\ blocking' = blocking =>
              /\ blocking' \in [Pool -> Requests \cup {None}]
              /\ \A q \in Requests : reading(q)' <=> reading(q)
<1>1. /\ worker \in [Workers -> Requests \cup {None}]
      /\ blocking \in [Pool -> Requests \cup {None}]
  BY DEF WorkersTypeOK
<1>2. ASSUME worker' = leave(worker, r)
      PROVE  /\ worker' \in [Workers -> Requests \cup {None}] /\ ~running(r)'
             /\ \A q \in Requests \ {r} : running(q)' <=> running(q)
  <2>1. \A t \in Workers : worker'[t] = IF worker[t] = r THEN None ELSE worker[t]
    BY <1>1, <1>2 DEF leave
  <2>2. worker' \in [Workers -> Requests \cup {None}]
    BY <1>1, <1>2 DEF leave
  <2>3. ~running(r)'
    BY <2>1, NoneAssumption DEF running
  <2>4. \A q \in Requests \ {r}, t \in Workers : worker'[t] = q <=> worker[t] = q
    BY <2>1, NoneAssumption
  <2> QED
    BY <2>2, <2>3, <2>4 DEF running
<1>3. ASSUME blocking' = leave(blocking, r)
      PROVE  /\ blocking' \in [Pool -> Requests \cup {None}] /\ ~reading(r)'
             /\ \A q \in Requests \ {r} : reading(q)' <=> reading(q)
  <2>1. \A t \in Pool : blocking'[t] = IF blocking[t] = r THEN None ELSE blocking[t]
    BY <1>1, <1>3 DEF leave
  <2>2. blocking' \in [Pool -> Requests \cup {None}]
    BY <1>1, <1>3 DEF leave
  <2>3. ~reading(r)'
    BY <2>1, NoneAssumption DEF reading
  <2>4. \A q \in Requests \ {r}, t \in Pool : blocking'[t] = q <=> blocking[t] = q
    BY <2>1, NoneAssumption
  <2> QED
    BY <2>2, <2>3, <2>4 DEF reading
<1>4. ASSUME worker' = worker
      PROVE  /\ worker' \in [Workers -> Requests \cup {None}]
             /\ \A q \in Requests : running(q)' <=> running(q)
  BY <1>1, <1>4 DEF running
<1>5. ASSUME blocking' = blocking
      PROVE  /\ blocking' \in [Pool -> Requests \cup {None}]
             /\ \A q \in Requests : reading(q)' <=> reading(q)
  BY <1>1, <1>5 DEF reading
<1> QED
  BY <1>2, <1>3, <1>4, <1>5

LEMMA TypeStays ==
  ASSUME WorkersInv, [Next]_vars
  PROVE  WorkersTypeOK'
<1> USE DEF WorkersInv
<1> DEFINE Ended(r) == goto(r, "over") /\ worker' = leave(worker, r)
<1>1. ASSUME NEW r \in Requests, NEW k \in Kinds, Arrive(r, k) PROVE WorkersTypeOK'
  <2>1. kind' \in [Requests -> Kinds]
    BY <1>1 DEF Arrive, WorkersTypeOK
  <2> QED
    BY Threads, <1>1, <2>1, OneStep
       DEF Arrive, WorkersTypeOK, threads, Phases, OnWorker, OnPool, Locked
<1>2. ASSUME NEW r \in Requests, NEW w \in Workers, PickUp(w, r) PROVE WorkersTypeOK'
  <2>1. /\ worker' \in [Workers -> Requests \cup {None}] /\ running(r)'
        /\ \A q \in Requests \ {r} : running(q)' <=> running(q)
    BY <1>2, Taking DEF PickUp, WorkersTypeOK, running
  <2>2. PICK to \in {"running", "body"} : goto(r, to) /\ phase[r] \in {"ready", "woken"}
    BY <1>2 DEF PickUp
  <2> QED
    BY Threads, <1>2, <2>1, <2>2, OneStep
       DEF PickUp, WorkersTypeOK, Phases, OnWorker, OnPool, Locked
<1>3. ASSUME NEW r \in Requests, NEW b \in Pool, PoolPicksUp(b, r) PROVE WorkersTypeOK'
  <2>1. /\ blocking' \in [Pool -> Requests \cup {None}] /\ reading(r)'
        /\ \A q \in Requests \ {r} : reading(q)' <=> reading(q)
    BY <1>3, Taking DEF PoolPicksUp, WorkersTypeOK, reading
  <2> QED
    BY Threads, <1>3, <2>1, OneStep
       DEF PoolPicksUp, WorkersTypeOK, Phases, OnWorker, OnPool, Locked
<1>4. ASSUME NEW r \in Requests,
             AnswerPage(r) \/ AnswerLookup(r) \/ RawMissing(r) \/ AnswerRaw(r) \/ Publish(r)
                           \/ WriteFails(r) \/ WriteOverflows(r)
      PROVE  WorkersTypeOK'
  <2>1. /\ Ended(r) /\ phase[r] \in OnWorker /\ blocking' = blocking /\ kind' = kind
        /\ stdout' \in BOOLEAN /\ poisoned' \in BOOLEAN /\ overflow' \in BOOLEAN
    BY <1>4 DEF AnswerPage, AnswerLookup, RawMissing, AnswerRaw, Publish, WriteFails, WriteOverflows, end,
                WorkersTypeOK, OnWorker
  <2>2. IF phase[r] \in Locked THEN mutex' = None ELSE mutex' = mutex
    BY <1>4 DEF AnswerPage, AnswerLookup, RawMissing, AnswerRaw, Publish, WriteFails, WriteOverflows, unlock,
                WorkersTypeOK, Locked
  <2> QED
    BY Threads, <2>1, <2>2, OneStep DEF WorkersTypeOK, Phases, OnWorker, OnPool, Locked
<1>5. ASSUME NEW r \in Requests, SubmitKnown(r) \/ WriteEnds(r) \/ Write(r) \/ Reread(r)
      PROVE  WorkersTypeOK'
  <2>1. PICK to \in {"publish", "writing", "reading"} :
          /\ goto(r, to) /\ phase[r] \in Locked
          /\ to = "reading" <=> phase[r] = "relocked"
          /\ mutex' = IF to = "writing" THEN mutex ELSE None
    BY <1>5 DEF SubmitKnown, WriteEnds, Write, Reread, unlock, Locked
  <2>2. UNCHANGED <<kind, worker, blocking, poisoned, overflow, stdout>>
    BY <1>5 DEF SubmitKnown, WriteEnds, Write, Reread, threads
  <2> QED
    BY Threads, <2>1, <2>2, OneStep DEF WorkersTypeOK, Phases, OnWorker, OnPool, Locked
<1>6. ASSUME NEW r \in Requests, Lock(r) PROVE WorkersTypeOK'
  <2>1. CASE poisoned
    BY Threads, <1>6, <2>1, OneStep
       DEF Lock, end, WorkersTypeOK, Phases, OnWorker, OnPool, Locked
  <2>2. CASE ~poisoned
    BY Threads, <1>6, <2>2, OneStep DEF Lock, WorkersTypeOK, Phases, OnWorker, OnPool, Locked
  <2> QED
    BY <2>1, <2>2
<1>7. ASSUME NEW r \in Requests, Relock(r) PROVE WorkersTypeOK'
  <2>1. CASE poisoned
    BY Threads, <1>7, <2>1, OneStep DEF Relock, WorkersTypeOK, Phases, OnWorker, OnPool, Locked
  <2>2. CASE ~poisoned
    BY Threads, <1>7, <2>2, OneStep DEF Relock, WorkersTypeOK, Phases, OnWorker, OnPool, Locked
  <2> QED
    BY <2>1, <2>2
<1>8. ASSUME NEW r \in Requests, RawFound(r) PROVE WorkersTypeOK'
  BY Threads, <1>8, OneStep DEF RawFound, unlock, WorkersTypeOK, Phases, OnWorker, OnPool, Locked
<1>9. ASSUME NEW r \in Requests, ReadEnds(r) PROVE WorkersTypeOK'
  BY Threads, <1>9, OneStep DEF ReadEnds, WorkersTypeOK, Phases, OnWorker, OnPool, Locked
<1>10. CASE CloseStdout
  BY <1>10 DEF CloseStdout, WorkersTypeOK, threads, running, reading
<1>11. CASE UNCHANGED vars
  BY <1>11 DEF vars, WorkersTypeOK, threads, running, reading
<1> QED
  BY <1>1, <1>2, <1>3, <1>4, <1>5, <1>6, <1>7, <1>8, <1>9, <1>10, <1>11
     DEF Next, Run, Quiet

LEMMA WorkersStay ==
  ASSUME WorkersInv, [Next]_vars
  PROVE  WorkersInv'
<1> USE DEF WorkersInv
<1>1. WorkersTypeOK'
  BY TypeStays
<1>2. WritersSubmit'
  <2>1. ASSUME NEW r \in Requests, NEW k \in Kinds, Arrive(r, k) PROVE WritersSubmit'
    BY <2>1 DEF Arrive, goto, WritersSubmit, WorkersTypeOK
  <2>2. ASSUME NEW r \in Requests, NEW to \in Phases, goto(r, to), kind' = kind,
               to = "writing" => kind[r] = "submit"
        PROVE  WritersSubmit'
    BY <2>2 DEF goto, WritersSubmit, WorkersTypeOK
  <2>3. ASSUME NEW r \in Requests, \/ Run(r) \/ WriteEnds(r) \/ WriteFails(r)
                                   \/ WriteOverflows(r) \/ ReadEnds(r)
        PROVE  WritersSubmit'
    <3>1. kind' = kind
      BY <2>3 DEF Run, AnswerPage, Lock, AnswerLookup, SubmitKnown, Write, Publish, RawMissing,
                  RawFound, Relock, Reread, AnswerRaw, WriteEnds, WriteFails,
                  WriteOverflows, ReadEnds
    <3>2. \E to \in Phases : goto(r, to) /\ (to = "writing" => kind[r] = "submit")
      BY <2>3 DEF Run, AnswerPage, Lock, AnswerLookup, SubmitKnown, Write, Publish, RawMissing,
                  RawFound, Relock, Reread, AnswerRaw, WriteEnds, WriteFails,
                  WriteOverflows, ReadEnds, end,
                  Phases
    <3> QED
      BY <2>2, <3>1, <3>2
  <2>4. ASSUME NEW r \in Requests, NEW w \in Workers, PickUp(w, r) PROVE WritersSubmit'
    BY <2>2, <2>4 DEF PickUp, Phases
  <2>5. ASSUME NEW r \in Requests, NEW b \in Pool, PoolPicksUp(b, r) PROVE WritersSubmit'
    BY <2>2, <2>5 DEF PoolPicksUp, Phases
  <2>6. CASE CloseStdout \/ UNCHANGED vars
    BY <2>6 DEF CloseStdout, vars, WritersSubmit
  <2> QED
    BY <2>1, <2>3, <2>4, <2>5, <2>6 DEF Next, Quiet
<1>3. OnlyOverflowPoisons'
  <2>1. ASSUME NEW r \in Requests, Publish(r) PROVE OnlyOverflowPoisons'
    BY <2>1 DEF Publish, WorkersTypeOK, Locked, OnlyOverflowPoisons
  <2>2. ASSUME NEW r \in Requests, WriteOverflows(r) PROVE OnlyOverflowPoisons'
    BY <2>2 DEF WriteOverflows, OnlyOverflowPoisons
  <2>3. CASE UNCHANGED <<poisoned, overflow>>
    BY <2>3 DEF OnlyOverflowPoisons
  <2>4. ASSUME NEW r \in Requests, Run(r) \/ WriteEnds(r) \/ WriteFails(r) \/ ReadEnds(r),
                      ~Publish(r)
        PROVE  UNCHANGED <<poisoned, overflow>>
    BY <2>4 DEF Run, AnswerPage, Lock, AnswerLookup, SubmitKnown, Write, RawMissing,
                RawFound, Relock, Reread, AnswerRaw, WriteEnds, WriteFails, ReadEnds
  <2>5. ASSUME NEW r \in Requests, \/ \E k \in Kinds : Arrive(r, k)
                                   \/ \E w \in Workers : PickUp(w, r)
                                   \/ \E b \in Pool : PoolPicksUp(b, r)
        PROVE  UNCHANGED <<poisoned, overflow>>
    BY <2>5 DEF Arrive, PickUp, PoolPicksUp
  <2>6. CASE CloseStdout \/ UNCHANGED vars
    BY <2>3, <2>6 DEF CloseStdout, vars
  <2> QED
    BY <2>1, <2>2, <2>3, <2>4, <2>5, <2>6 DEF Next, Quiet
<1> QED
  BY <1>1, <1>2, <1>3

LEMMA WorkersInit == Init => WorkersInv
<1> SUFFICES ASSUME Init PROVE WorkersInv
  OBVIOUS
<1>1. \A r \in Requests : phase[r] = "none" /\ ~running(r) /\ ~reading(r) /\ mutex # r
  BY NoneAssumption DEF Init, running, reading
<1> QED
  BY <1>1 DEF Init, WorkersInv, WorkersTypeOK, WritersSubmit, OnlyOverflowPoisons, Kinds, Phases,
              OnWorker, OnPool, Locked

LEMMA WorkersInvariant == Spec => []WorkersInv
<1>1. WorkersInv /\ [Next]_vars => WorkersInv'
  BY WorkersStay
<1> QED
  BY <1>1, WorkersInit, PTL DEF Spec
-----------------------------------------------------------------------------
(* Who is on a thread and who has the lock is as far as its handler says:  *)
(* WorkersTypeOK.                                                          *)
THEOREM ThreadsAndLockAgree == Spec => []WorkersTypeOK
<1>1. WorkersInv => WorkersTypeOK
  BY DEF WorkersInv
<1> QED
  BY <1>1, WorkersInvariant, PTL

(* With any number of workers, requests and threads of the pool, whoever   *)
(* holds the mutex of the store is on a thread: no await with the guard.   *)
THEOREM HoldersRun == Spec => []HolderRuns
<1>1. WorkersInv => HolderRuns
  <2> SUFFICES ASSUME WorkersInv, mutex # None PROVE HolderRuns
    BY DEF HolderRuns
  <2>1. mutex \in Requests /\ phase[mutex] \in Locked
    BY DEF WorkersInv, WorkersTypeOK
  <2>2. running(mutex) \/ reading(mutex)
    BY <2>1, PhasesAre DEF WorkersInv, WorkersTypeOK
  <2> QED
    BY <2>1, <2>2 DEF HolderRuns, WorkersInv, WritersSubmit
<1> QED
  BY <1>1, WorkersInvariant, PTL

(* A panic while nobody reads standard output never poisons the store.     *)
THEOREM StdoutNeverPoisons == Spec => []OnlyOverflowPoisons
<1>1. WorkersInv => OnlyOverflowPoisons
  BY DEF WorkersInv
<1> QED
  BY <1>1, WorkersInvariant, PTL

(* What a request needs for its next step, if that is not an answer of the *)
(* disk: a thread, the mutex, or nothing.  These are the guards of PickUp, *)
(* PoolPicksUp and Run.                                                    *)
CanGoOn(r) ==
  \/ phase[r] \in {"ready", "woken"} /\ \E w \in Workers : worker[w] = None
  \/ phase[r] = "offloaded" /\ \E b \in Pool : blocking[b] = None
  \/ phase[r] = "running" /\ (takes_lock(r) => mutex = None)
  \/ phase[r] = "recheck" /\ mutex = None
  \/ phase[r] \in {"locked", "relocked", "publish", "body"}

(* Requests never wait for each other in a circle: while no file is being  *)
(* written, one of them can go on, as long as there is one that does not   *)
(* wait for a file to be read, or for a thread of the pool to read it.     *)
NoCircle ==
  ~Writing /\ (\E r \in Requests : phase[r] \notin {"none", "over", "reading", "offloaded"}) =>
    \E r \in Requests : CanGoOn(r)

(* With one worker or more and any pool, even an empty one: the mutex is   *)
(* never waited for by all workers while its holder needs one of them      *)
(* (submit, get and payload_bytes of the store; get_payload_raw).          *)
THEOREM NobodyWaitsInACircle ==
  ASSUME Workers # {}
  PROVE  Spec => []NoCircle
<1>1. WorkersInv => NoCircle
  <2> SUFFICES ASSUME WorkersInv, ~Writing, NEW r \in Requests,
                      phase[r] \notin {"none", "over", "reading", "offloaded"}
               PROVE  \E q \in Requests : CanGoOn(q)
    BY DEF NoCircle
  <2>0. /\ phase \in [Requests -> Phases] /\ worker \in [Workers -> Requests \cup {None}]
        /\ mutex \in Requests \cup {None}
        /\ \A q \in Requests : mutex = q <=> phase[q] \in Locked
        /\ \A q \in Requests : running(q) <=> phase[q] \in OnWorker
    BY DEF WorkersInv, WorkersTypeOK
  <2>1. CASE mutex # None
    <3>1. mutex \in Requests /\ phase[mutex] \in {"locked", "relocked"}
      BY <2>0, <2>1 DEF Writing, Locked
    <3> QED
      BY <3>1 DEF CanGoOn
  <2>2. CASE mutex = None /\ \E q \in Requests : phase[q] \in OnWorker
    <3>1. PICK q \in Requests : phase[q] \in OnWorker
      BY <2>2
    <3>2. phase[q] \notin Locked
      BY <2>0, <2>2, NoneAssumption
    <3> QED
      BY <2>2, <3>1, <3>2 DEF CanGoOn, OnWorker, Locked
  <2>3. CASE mutex = None /\ \A q \in Requests : phase[q] \notin OnWorker
    <3>1. \A w \in Workers : worker[w] = None
      BY <2>0, <2>3 DEF running
    <3>2. phase[r] \in {"ready", "woken", "recheck"}
      BY <2>0, <2>3, NoneAssumption DEF Phases, OnWorker, Locked
    <3> QED
      BY <2>3, <3>1, <3>2 DEF CanGoOn
  <2> QED
    BY <2>1, <2>2, <2>3
<1> QED
  BY <1>1, WorkersInvariant, PTL

=============================================================================

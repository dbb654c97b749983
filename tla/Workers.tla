------------------------------ MODULE Workers -------------------------------
(***************************************************************************)
(* The threads of the server.  main.rs builds a tokio runtime with         *)
(* WEB_WORKERS worker threads; every request is a task that a worker runs  *)
(* until it ends or awaits.  The handlers of server.rs lock the standard   *)
(* mutex of the store on their worker, and submit writes a file under it:  *)
(* whoever waits for the mutex blocks a worker.  Only get_payload_raw      *)
(* awaits, a read of the file on the runtime's blocking pool.              *)
(*                                                                         *)
(* PayloadStore says what the handlers do to the store; here only who runs *)
(* and who waits matters.  A request comes once; a client that waits for   *)
(* its answer and asks again is another request.                           *)
(***************************************************************************)
EXTENDS FiniteSets

CONSTANTS
  Workers,    \* WEB_WORKERS
  Pool,       \* threads of the blocking pool, 512 in tokio
  Requests,
  None

ASSUME NoneAssumption == None \notin Requests

VARIABLES
  kind,      \* what each request asks for
  phase,     \* how far its handler is
  worker,    \* the request each worker runs, or None
  blocking,  \* the request whose file each thread of the pool reads, or None
  mutex,     \* the request that holds the mutex of the store, or None
  poisoned,  \* a thread panicked while it had the mutex
  overflow,  \* the byte total overflowed
  stdout,    \* somebody reads standard output
  outcome    \* "answered", or "dropped" with its connection

threads == <<worker, blocking>>
vars == <<kind, phase, threads, mutex, poisoned, overflow, stdout, outcome>>

(* page: no lock, as / and every refusal; lookup: /healthz, /status, the   *)
(* list and the metadata; submit: both POST routes; raw: the body.         *)
Kinds == {"page", "lookup", "submit", "raw"}
Phases == {"none", "ready", "running", "locked", "writing", "publish", "offloaded",
           "recheck", "relocked", "reading", "woken", "body", "over"}

(* The phases in which a handler is on a worker, on the pool, has the lock.*)
OnWorker == {"running", "locked", "writing", "publish", "body"}
OnPool == {"recheck", "relocked", "reading"}
Locked == {"locked", "writing", "relocked"}

Init ==
  /\ kind = [r \in Requests |-> "page"] /\ phase = [r \in Requests |-> "none"]
  /\ worker = [w \in Workers |-> None] /\ blocking = [b \in Pool |-> None]
  /\ mutex = None /\ poisoned = FALSE /\ overflow = FALSE /\ stdout = TRUE
  /\ outcome = [r \in Requests |-> None]

goto(r, to) == phase' = [phase EXCEPT ![r] = to]
leave(assigned, r) == [t \in DOMAIN assigned |-> IF assigned[t] = r THEN None ELSE assigned[t]]
end(r, how) ==
  /\ goto(r, "over") /\ outcome' = [outcome EXCEPT ![r] = how]
  /\ worker' = leave(worker, r)
-----------------------------------------------------------------------------
Arrive(r, k) ==
  /\ phase[r] = "none"
  /\ kind' = [kind EXCEPT ![r] = k] /\ goto(r, "ready")
  /\ UNCHANGED <<threads, mutex, poisoned, overflow, stdout, outcome>>

(* A free worker takes a task that can run.                                *)
PickUp(w, r) ==
  /\ worker[w] = None
  /\ \/ phase[r] = "ready" /\ goto(r, "running")
     \/ phase[r] = "woken" /\ goto(r, "body")
  /\ worker' = [worker EXCEPT ![w] = r]
  /\ UNCHANGED <<kind, blocking, mutex, poisoned, overflow, stdout, outcome>>

takes_lock(r) == kind[r] # "page"

AnswerPage(r) ==
  /\ phase[r] = "running" /\ ~takes_lock(r)
  /\ end(r, "answered")
  /\ UNCHANGED <<kind, blocking, mutex, poisoned, overflow, stdout>>

(* lock() blocks the thread; expect() panics on a poisoned mutex, and the  *)
(* task ends with its connection.                                          *)
Lock(r) ==
  /\ phase[r] = "running" /\ takes_lock(r) /\ mutex = None
  /\ IF poisoned THEN end(r, "dropped") /\ UNCHANGED mutex
     ELSE goto(r, "locked") /\ mutex' = r /\ UNCHANGED <<worker, outcome>>
  /\ UNCHANGED <<kind, blocking, poisoned, overflow, stdout>>

unlock(r) == mutex' = None

AnswerLookup(r) ==
  /\ phase[r] = "locked" /\ kind[r] \in {"page", "lookup"}
  /\ unlock(r) /\ end(r, "answered")
  /\ UNCHANGED <<kind, blocking, poisoned, overflow, stdout>>

(* A submission of what is known writes nothing.                           *)
SubmitKnown(r) ==
  /\ phase[r] = "locked" /\ kind[r] = "submit"
  /\ unlock(r) /\ goto(r, "publish")
  /\ UNCHANGED <<kind, threads, poisoned, overflow, stdout, outcome>>

(* persist_record, on the worker and under the mutex.                      *)
Write(r) ==
  /\ phase[r] = "locked" /\ kind[r] = "submit"
  /\ goto(r, "writing")
  /\ UNCHANGED <<kind, threads, mutex, poisoned, overflow, stdout, outcome>>

(* Mutant of WriteEnds: the guard lives until the answer is published.     *)
WriteEndsLocked(r) ==
  /\ phase[r] = "writing"
  /\ goto(r, "publish")
  /\ UNCHANGED <<kind, threads, mutex, poisoned, overflow, stdout, outcome>>

WriteEnds(r) ==
  /\ phase[r] = "writing"
  /\ unlock(r) /\ goto(r, "publish")
  /\ UNCHANGED <<kind, threads, poisoned, overflow, stdout, outcome>>

(* persist_record fails: the error is answered, and nothing published.     *)
WriteFails(r) ==
  /\ phase[r] = "writing"
  /\ unlock(r) /\ end(r, "answered")
  /\ UNCHANGED <<kind, blocking, poisoned, overflow, stdout>>

(* The record is on disk and its size overflows total_bytes: the panic is  *)
(* under the mutex.                                                        *)
WriteOverflows(r) ==
  /\ phase[r] = "writing"
  /\ overflow' = TRUE /\ poisoned' = TRUE
  /\ unlock(r) /\ end(r, "dropped")
  /\ UNCHANGED <<kind, blocking, stdout>>

(* println! panics when nobody reads standard output: the answer is lost,  *)
(* the worker goes on, and a mutex held at that moment is poisoned.        *)
Publish(r) ==
  /\ phase[r] = "publish"
  /\ end(r, IF stdout THEN "answered" ELSE "dropped")
  /\ mutex' = (IF mutex = r THEN None ELSE mutex)
  /\ poisoned' = (poisoned \/ (mutex = r /\ ~stdout))
  /\ UNCHANGED <<kind, blocking, overflow, stdout>>

(* get_payload_raw does not know the id, or awaits the read of its file.   *)
RawMissing(r) ==
  /\ phase[r] = "locked" /\ kind[r] = "raw"
  /\ unlock(r) /\ end(r, "answered")
  /\ UNCHANGED <<kind, blocking, poisoned, overflow, stdout>>

(* Mutant of RawFound: the file is read on the worker, without             *)
(* spawn_blocking.                                                         *)
RawFoundInline(r) ==
  /\ phase[r] = "locked" /\ kind[r] = "raw"
  /\ unlock(r) /\ goto(r, "reading")
  /\ UNCHANGED <<kind, threads, poisoned, overflow, stdout, outcome>>

RawFound(r) ==
  /\ phase[r] = "locked" /\ kind[r] = "raw"
  /\ unlock(r) /\ goto(r, "offloaded") /\ worker' = leave(worker, r)
  /\ UNCHANGED <<kind, blocking, poisoned, overflow, stdout, outcome>>

PoolPicksUp(b, r) ==
  /\ blocking[b] = None /\ phase[r] = "offloaded"
  /\ blocking' = [blocking EXCEPT ![b] = r] /\ goto(r, "recheck")
  /\ UNCHANGED <<kind, worker, mutex, poisoned, overflow, stdout, outcome>>

(* payload_bytes looks the id up again; a panic of its thread becomes an   *)
(* error of the await.                                                     *)
Relock(r) ==
  /\ phase[r] = "recheck" /\ mutex = None
  /\ IF poisoned
       THEN goto(r, "woken") /\ blocking' = leave(blocking, r) /\ UNCHANGED mutex
       ELSE goto(r, "relocked") /\ mutex' = r /\ UNCHANGED blocking
  /\ UNCHANGED <<kind, worker, poisoned, overflow, stdout, outcome>>

(* Mutant of Reread: payload_bytes keeps its guard while it reads.         *)
RereadLocked(r) ==
  /\ phase[r] = "relocked"
  /\ goto(r, "reading")
  /\ UNCHANGED <<kind, threads, mutex, poisoned, overflow, stdout, outcome>>

Reread(r) ==
  /\ phase[r] = "relocked"
  /\ unlock(r) /\ goto(r, "reading")
  /\ UNCHANGED <<kind, threads, poisoned, overflow, stdout, outcome>>

ReadEnds(r) ==
  /\ phase[r] = "reading"
  /\ goto(r, "woken") /\ worker' = leave(worker, r) /\ blocking' = leave(blocking, r)
  /\ mutex' = (IF mutex = r THEN None ELSE mutex)
  /\ UNCHANGED <<kind, poisoned, overflow, stdout, outcome>>

AnswerRaw(r) ==
  /\ phase[r] = "body"
  /\ end(r, "answered")
  /\ UNCHANGED <<kind, blocking, mutex, poisoned, overflow, stdout>>

(* Whoever reads the log goes away.                                        *)
CloseStdout ==
  /\ stdout /\ stdout' = FALSE
  /\ UNCHANGED <<kind, phase, threads, mutex, poisoned, overflow, outcome>>

(* Every request has ended, and no other comes.                            *)
Quiet == (\A r \in Requests : phase[r] = "over") /\ UNCHANGED vars

(* What the processor does once a thread has the request.                  *)
Run(r) ==
  \/ AnswerPage(r) \/ Lock(r) \/ AnswerLookup(r) \/ SubmitKnown(r) \/ Write(r) \/ Publish(r)
  \/ RawMissing(r) \/ RawFound(r) \/ Relock(r) \/ Reread(r) \/ AnswerRaw(r)

Next ==
  \/ CloseStdout \/ Quiet
  \/ \E r \in Requests :
       \/ \E k \in Kinds : Arrive(r, k)
       \/ \E w \in Workers : PickUp(w, r)
       \/ \E b \in Pool : PoolPicksUp(b, r)
       \/ Run(r) \/ WriteEnds(r) \/ WriteFails(r) \/ WriteOverflows(r) \/ ReadEnds(r)

(* Threads that can go on do; free threads take what can run.  The disk    *)
(* need not answer: no write and no read has to end.                       *)
Spec ==
  /\ Init /\ [][Next]_vars
  /\ \A r \in Requests :
       WF_vars(Run(r)) /\ WF_vars(\E w \in Workers : PickUp(w, r))
                       /\ WF_vars(\E b \in Pool : PoolPicksUp(b, r))
-----------------------------------------------------------------------------
running(r) == \E w \in Workers : worker[w] = r
reading(r) == \E b \in Pool : blocking[b] = r

(* Who is on which thread, and who has the lock, is as far as its handler. *)
WorkersTypeOK ==
  /\ kind \in [Requests -> Kinds] /\ phase \in [Requests -> Phases]
  /\ worker \in [Workers -> Requests \cup {None}] /\ blocking \in [Pool -> Requests \cup {None}]
  /\ mutex \in Requests \cup {None} /\ poisoned \in BOOLEAN /\ overflow \in BOOLEAN /\ stdout \in BOOLEAN
  /\ \A r \in Requests : /\ running(r) <=> phase[r] \in OnWorker
                         /\ reading(r) <=> phase[r] \in OnPool
                         /\ mutex = r <=> phase[r] \in Locked

(* Whoever holds the mutex has a thread and no need of another one: its    *)
(* release never waits for a worker that waits for the mutex.              *)
HolderRuns ==
  mutex # None => /\ running(mutex) \/ reading(mutex)
                  /\ phase[mutex] = "writing" => kind[mutex] = "submit"

(* A closed standard output costs a submission its answer and nothing      *)
(* else: only the overflow of the byte total poisons the store for all.    *)
OnlyOverflowPoisons == poisoned => overflow

Writing == mutex # None /\ phase[mutex] = "writing"

Wanting == {r \in Requests : phase[r] \in OnWorker /\ kind[r] # "page"}

(* Unless a file write never ends, every request but the reads of bodies   *)
(* ends, were all those reads stuck on the disk, and all the pool with     *)
(* them.  A write that never ends takes / and the refusals with it only    *)
(* when it has one worker and requests that wait for its lock have all the *)
(* others, for good.                                                       *)
RequestsEnd ==
  \A r \in Requests :
    /\ (phase[r] = "ready" /\ kind[r] # "raw") ~> (phase[r] = "over" \/ []Writing)
    /\ (phase[r] = "ready" /\ kind[r] = "page") ~>
         (phase[r] = "over" \/ [](Writing /\ Cardinality(Wanting) = Cardinality(Workers)))
=============================================================================

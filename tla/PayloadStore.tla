---------------------------- MODULE PayloadStore ----------------------------
(***************************************************************************)
(* The payload store (src/src/store.rs) under the HTTP handlers that call  *)
(* it (src/src/server.rs): an in-memory index behind one std::sync::Mutex  *)
(* and one JSON file per payload in PAYLOAD_DIR, written to a temporary    *)
(* name and renamed.                                                       *)
(*                                                                         *)
(* Each member of Requests is one HTTP request and the task that serves    *)
(* it, either a submission or a GET of /payloads/{id}/raw; the other GETs  *)
(* read the index under the lock and change nothing.  A submission runs    *)
(* without an await, so a client that hangs up does not stop it.  A step   *)
(* of a task is what it does between two points at which another task, or  *)
(* a crash of the process, can tell the difference: taking the lock,       *)
(* creating, filling and renaming the temporary file, the update of the    *)
(* index.  While the lock is held no other task sees the index, so the     *)
(* update, the release of the lock and the answer are one step.            *)
(*                                                                         *)
(* A crash of the process loses memory and keeps the files as they are;    *)
(* the loss of what the operating system had not yet written is not        *)
(* modelled here.  The wall clock may be stepped: each submission reads    *)
(* any member of Times.                                                    *)
(***************************************************************************)
EXTENDS Receipts, FiniteSets, Sequences, FiniteSetsExt, SequencesExt

CONSTANTS
  Requests,    \* HTTP requests, each served once
  Limits,      \* values of MAX_PAYLOAD_BYTES a start may be given
  USIZE_MAX,   \* the largest usize
  MaxCrashes,  \* bound: how often the process may be killed
  Torn         \* a file that is created and not completely written

ASSUME RequestsAssumption == None \notin Requests
ASSUME LimitsAssumption == Limits \subseteq 1 .. USIZE_MAX
ASSUME BoundsAssumption == USIZE_MAX \in Nat /\ MaxCrashes \in Nat
ASSUME TornAssumption ==
  Torn \notin PayloadRecord \cup PayloadMetadata \cup {None}
(* Namespaces have at most 64 characters and bodies at most                *)
(* MAX_PAYLOAD_BYTES bytes, so there are finitely many ids.                *)
ASSUME IdsAssumption == IsFiniteSet(Ids)

VARIABLES
  files,              \* {id}.json, by id
  temps,              \* .{id}.tmp, by id
  status,             \* the process: "down", "up", or "failed" in load
  max_payload_bytes,  \* the limit of this process
  signer,             \* the signing key of this process, or None
  payloads,           \* Inner.payloads
  newest_first,       \* Inner.newest_first
  total_bytes,        \* Inner.total_bytes
  lock,               \* the request that holds the mutex, or None
  poisoned,           \* a panic happened while the mutex was held
  pc,                 \* where each request is
  record,             \* its record: to be stored, or found by get
  context,            \* its receipt context
  created,            \* it stores a new payload
  reply,              \* the 200 it answered a submission with, or None
  served,             \* what it answered a GET of .../raw with, or None
  crashes             \* how often the process was killed

disk == <<files, temps>>
process == <<status, max_payload_bytes, signer>>
index == <<payloads, newest_first, total_bytes>>
mutex == <<lock, poisoned>>
locals == <<pc, record, context, created>>
answers == <<reply, served>>
vars == <<disk, process, index, mutex, locals, answers, crashes>>

usize == 0 .. USIZE_MAX
(* checked_add: a sum of byte counts that is a usize.  Mutant: wrapping.   *)
fits_unchecked(n) == TRUE
fits(n) == n \in usize
Critical == {"open", "fill", "rename", "commit"}
RawReading == {"raw_recheck", "raw_read"}

SubmitOutcome ==
  [record : PayloadMetadata, context : Contexts \cup {None},
   signature : PayloadSignature \cup {None}, created : BOOLEAN]
RawResponse ==
  [id : Ids, contentType : ContentTypes \cup {None}, body : Bodies \cup {None}]
-----------------------------------------------------------------------------
(* PAYLOAD_DIR and the process as load finds and leaves them.              *)

stored_ids == {id \in Ids : files[id] # None}
(* The byte counts of the files added up: as many as they have bytes.       *)
stored_bytes ==
  Cardinality(UNION {{id} \X (1 .. files[id].sizeBytes) :
                       id \in {i \in stored_ids : files[i] # Torn}})

(* Mutant of Loads: the byte total is not checked.                         *)
LoadsUnsummed(limit) ==
  \A id \in stored_ids :
    files[id] # Torn /\ validate_stored_record(files[id], limit)
Loads(limit) ==
  /\ \A id \in stored_ids :
       files[id] # Torn /\ validate_stored_record(files[id], limit)
  /\ fits(stored_bytes)

(* Mutant of SortedNewestFirst: the oldest record comes first.             *)
SortedOldestFirst(order) ==
  \A i, j \in DOMAIN order :
    i < j => files[order[i]].submittedAt <= files[order[j]].submittedAt
(* The sort is stable over the order in which the directory is read, which *)
(* is arbitrary: records of the same second come in any order.             *)
SortedNewestFirst(order) ==
  \A i, j \in DOMAIN order :
    i < j => files[order[i]].submittedAt >= files[order[j]].submittedAt

(* What an earlier process, or an earlier version, may have left there.    *)
EarlierSignatures(m) ==
  {None} \cup {sign_receipt(k, receipt) : k \in Keys, receipt \in
                 {receipt_for_record(m), legacy_hosting_receipt_for_record(m)}}
EarlierRecords ==
  UNION {{[rec EXCEPT !.signature = sig] : sig \in EarlierSignatures(metadata_for(rec))} :
           rec \in {record_for(ns, bytes, ctype, now) :
                      ns \in Namespaces, bytes \in Bodies,
                      ctype \in ContentTypes \cup {None}, now \in Times}}

Init ==
  /\ files \in {f \in [Ids -> EarlierRecords \cup {None}] :
                  \A id \in Ids : f[id] # None => f[id].id = id}
  /\ fits(stored_bytes)
  /\ temps = [id \in Ids |-> None]
  /\ status = "down" /\ max_payload_bytes = 0 /\ signer = None
  /\ payloads = [id \in Ids |-> None] /\ newest_first = <<>> /\ total_bytes = 0
  /\ lock = None /\ poisoned = FALSE
  /\ pc = [r \in Requests |-> "new"]
  /\ record = [r \in Requests |-> None]
  /\ context = [r \in Requests |-> None]
  /\ created = [r \in Requests |-> FALSE]
  /\ reply = [r \in Requests |-> None]
  /\ served = [r \in Requests |-> None]
  /\ crashes = 0

load(limit, key) ==
  /\ status # "up"
  /\ Loads(limit)
  /\ status' = "up" /\ max_payload_bytes' = limit /\ signer' = key
  /\ payloads' = [id \in Ids |-> IF files[id] = None THEN None
                                 ELSE metadata_for(files[id])]
  /\ \E order \in SetToSeqs(stored_ids) :
       SortedNewestFirst(order) /\ newest_first' = order
  /\ total_bytes' = stored_bytes
  /\ UNCHANGED <<disk, mutex, locals, answers, crashes>>

(* main panics with the error of load and the process exits.               *)
load_fails(limit) ==
  /\ status # "up"
  /\ ~Loads(limit)
  /\ status' = "failed"
  /\ UNCHANGED <<disk, max_payload_bytes, signer, index, mutex, locals, answers, crashes>>

Start == \E limit \in Limits, key \in Keys \cup {None} : load(limit, key)
StartFails == \E limit \in Limits : load_fails(limit)

(* The process is killed: the index, the mutex and every task in flight    *)
(* are gone, no request in flight is answered.                             *)
Crash ==
  /\ status = "up" /\ crashes < MaxCrashes
  /\ crashes' = crashes + 1
  /\ status' = "down" /\ max_payload_bytes' = 0 /\ signer' = None
  /\ payloads' = [id \in Ids |-> None] /\ newest_first' = <<>> /\ total_bytes' = 0
  /\ lock' = None /\ poisoned' = FALSE
  /\ pc' = [r \in Requests |-> IF pc[r] = "new" THEN "new" ELSE "done"]
  /\ record' = [r \in Requests |-> None]
  /\ context' = [r \in Requests |-> None]
  /\ created' = [r \in Requests |-> FALSE]
  /\ UNCHANGED <<disk, answers>>
-----------------------------------------------------------------------------
(* The task of a submission: submit and persist_record.                    *)

Goto(r, label) == pc' = [pc EXCEPT ![r] = label]
Finish(r) ==
  /\ Goto(r, "done")
  /\ record' = [record EXCEPT ![r] = None]
  /\ context' = [context EXCEPT ![r] = None]
  /\ created' = [created EXCEPT ![r] = FALSE]

(* The 200 that answers request r with metadata m.                         *)
answer(r, m) ==
  reply' = [reply EXCEPT ![r] =
    [record |-> m, context |-> context[r],
     signature |-> signature_for_context(m, context[r], signer),
     created |-> created[r]]]

(* The record to persist.  Mutant: the signature stays on the metadata.     *)
unsigned_record(m, bytes) == disk_record(m, bytes)
signed_record(m, bytes) == disk_record(sign_record_if_enabled(m, signer), bytes)

(* Before the lock: the record is made, dated and signed.                  *)
Prepare(r) ==
  /\ status = "up" /\ pc[r] = "new"
  /\ \E ns \in Namespaces, bytes \in Bodies, ctype \in ContentTypes \cup {None},
        ctx \in Contexts \cup {None}, now \in Times :
       LET m == metadata_for(record_for(ns, bytes, ctype, now)) IN
         /\ SizeOf[bytes] <= max_payload_bytes
         /\ record' = [record EXCEPT ![r] = signed_record(m, bytes)]
         /\ context' = [context EXCEPT ![r] = ctx]
  /\ Goto(r, "waiting")
  /\ UNCHANGED <<disk, process, index, mutex, created, answers, crashes>>

(* validate_submission refuses a body over the limit with a 400.           *)
Reject(r) ==
  /\ status = "up" /\ pc[r] = "new"
  /\ \E bytes \in Bodies : SizeOf[bytes] > max_payload_bytes
  /\ Finish(r)
  /\ UNCHANGED <<disk, process, index, mutex, answers, crashes>>

existing(r) == payloads[record[r].id]
(* Mutant of locks: a mutex that does not know poisoning.                  *)
locks_poisoned(r) == pc[r] = "waiting" /\ lock = None
locks(r) == pc[r] = "waiting" /\ lock = None /\ ~poisoned

(* Mutant of AnswerKnown: the submission's own metadata answers.           *)
AnswerSubmitted(r) ==
  /\ locks(r)
  /\ existing(r) # None
  /\ HasCurrentReceipt(existing(r)) \/ signer = None
  /\ answer(r, metadata_for(record[r]))
  /\ Finish(r)
  /\ UNCHANGED <<disk, process, index, mutex, served, crashes>>

(* A known payload: the stored metadata answers, without a receipt that is *)
(* not current.                                                            *)
AnswerKnown(r) ==
  /\ locks(r)
  /\ existing(r) # None
  /\ HasCurrentReceipt(existing(r)) \/ signer = None
  /\ answer(r, sign_record_if_enabled(existing(r), signer))
  /\ Finish(r)
  /\ UNCHANGED <<disk, process, index, mutex, served, crashes>>

(* Mutants of BeginUpgrade: the file is rewritten with the submission; the *)
(* file is rewritten also by a process without a key.                      *)
BeginOverwrite(r) ==
  /\ locks(r)
  /\ existing(r) # None
  /\ ~HasCurrentReceipt(existing(r)) /\ signer # None
  /\ lock' = r
  /\ Goto(r, "open")
  /\ UNCHANGED <<disk, process, index, poisoned, record, context, created, answers, crashes>>
BeginUpgradeKeyless(r) ==
  /\ locks(r)
  /\ existing(r) # None
  /\ ~HasCurrentReceipt(existing(r))
  /\ lock' = r
  /\ record' = [record EXCEPT ![r] = signed_record(existing(r), record[r].body)]
  /\ Goto(r, "open")
  /\ UNCHANGED <<disk, process, index, poisoned, context, created, answers, crashes>>

(* A known payload without a current receipt, and a key to make one: its   *)
(* file is rewritten with the stored metadata and the submitted bytes.     *)
BeginUpgrade(r) ==
  /\ locks(r)
  /\ existing(r) # None
  /\ ~HasCurrentReceipt(existing(r)) /\ signer # None
  /\ lock' = r
  /\ record' = [record EXCEPT ![r] = signed_record(existing(r), record[r].body)]
  /\ Goto(r, "open")
  /\ UNCHANGED <<disk, process, index, poisoned, context, created, answers, crashes>>

(* Mutant of BeginNew: the id was looked up before the lock was taken.     *)
BeginNewUnchecked(r) ==
  /\ locks(r)
  /\ lock' = r
  /\ created' = [created EXCEPT ![r] = TRUE]
  /\ Goto(r, "open")
  /\ UNCHANGED <<disk, process, index, poisoned, record, context, answers, crashes>>
BeginNew(r) ==
  /\ locks(r)
  /\ existing(r) = None
  /\ lock' = r
  /\ created' = [created EXCEPT ![r] = TRUE]
  /\ Goto(r, "open")
  /\ UNCHANGED <<disk, process, index, poisoned, record, context, answers, crashes>>

(* Mutant of OpenTemp: the final file is opened for writing.               *)
OpenFinal(r) ==
  /\ pc[r] = "open"
  /\ files' = [files EXCEPT ![record[r].id] = Torn]
  /\ Goto(r, "fill")
  /\ UNCHANGED <<temps, process, index, mutex, record, context, created, answers, crashes>>

(* std::fs::write creates or truncates the temporary file, then fills it.  *)
OpenTemp(r) ==
  /\ pc[r] = "open"
  /\ temps' = [temps EXCEPT ![record[r].id] = Torn]
  /\ Goto(r, "fill")
  /\ UNCHANGED <<files, process, index, mutex, record, context, created, answers, crashes>>

FillTemp(r) ==
  /\ pc[r] = "fill"
  /\ temps' = [temps EXCEPT ![record[r].id] = record[r]]
  /\ Goto(r, "rename")
  /\ UNCHANGED <<files, process, index, mutex, record, context, created, answers, crashes>>

Rename(r) ==
  /\ pc[r] = "rename"
  /\ files' = [files EXCEPT ![record[r].id] = temps[record[r].id]]
  /\ temps' = [temps EXCEPT ![record[r].id] = None]
  /\ Goto(r, "commit")
  /\ UNCHANGED <<process, index, mutex, record, context, created, answers, crashes>>

(* Mutants of PersistFails: the error is dropped; the lock is kept.        *)
PersistFailureIgnored(r) ==
  /\ pc[r] \in {"open", "fill", "rename"}
  /\ Goto(r, "commit")
  /\ UNCHANGED <<disk, process, index, mutex, record, context, created, answers, crashes>>
PersistFailureKeepsLock(r) ==
  /\ pc[r] \in {"open", "fill", "rename"}
  /\ Finish(r)
  /\ UNCHANGED <<disk, process, index, mutex, answers, crashes>>

(* A write or the rename fails, the answer is a 500.  Only a failed rename *)
(* tries to remove the temporary file.                                     *)
PersistFails(r) ==
  /\ pc[r] \in {"open", "fill", "rename"}
  /\ \/ UNCHANGED temps
     \/ /\ pc[r] = "rename"
        /\ temps' = [temps EXCEPT ![record[r].id] = None]
  /\ lock' = None
  /\ Finish(r)
  /\ UNCHANGED <<files, process, index, poisoned, answers, crashes>>

(* Mutant of insert: an upgrade does not reach the index.                  *)
insert_new(r) ==
  payloads' = [payloads EXCEPT ![record[r].id] =
                 IF created[r] THEN metadata_for(record[r]) ELSE @]
insert(r) ==
  payloads' = [payloads EXCEPT ![record[r].id] = metadata_for(record[r])]

CommitUpgrade(r) ==
  /\ pc[r] = "commit" /\ ~created[r]
  /\ insert(r)
  /\ answer(r, metadata_for(record[r]))
  /\ lock' = None
  /\ Finish(r)
  /\ UNCHANGED <<disk, process, newest_first, total_bytes, poisoned, served, crashes>>

CommitNew(r) ==
  /\ pc[r] = "commit" /\ created[r]
  /\ fits(total_bytes + record[r].sizeBytes)
  /\ total_bytes' = total_bytes + record[r].sizeBytes
  /\ newest_first' = <<record[r].id>> \o newest_first
  /\ insert(r)
  /\ answer(r, metadata_for(record[r]))
  /\ lock' = None
  /\ Finish(r)
  /\ UNCHANGED <<disk, process, poisoned, served, crashes>>

(* checked_add(..).expect(..) panics while the lock is held, after the     *)
(* record was persisted.                                                   *)
CommitOverflows(r) ==
  /\ pc[r] = "commit" /\ created[r]
  /\ ~fits(total_bytes + record[r].sizeBytes)
  /\ lock' = None /\ poisoned' = TRUE
  /\ Finish(r)
  /\ UNCHANGED <<disk, process, index, answers, crashes>>

(* lock().expect(..) panics in every task that takes the lock from now on. *)
LockPanics(r) ==
  /\ poisoned
  /\ pc[r] \in {"waiting", "raw_recheck"}
  /\ Finish(r)
  /\ UNCHANGED <<disk, process, index, mutex, answers, crashes>>
-----------------------------------------------------------------------------
(* GET /payloads/{id}/raw: the metadata is read in the handler; a blocking *)
(* thread looks the id up again and reads the file without the lock.       *)

RawLookup(r) ==
  /\ status = "up" /\ pc[r] = "new" /\ lock = None /\ ~poisoned
  /\ \E id \in Ids :
       /\ payloads[id] # None
       /\ record' = [record EXCEPT ![r] = payloads[id]]
  /\ Goto(r, "raw_recheck")
  /\ UNCHANGED <<disk, process, index, mutex, context, created, answers, crashes>>

(* An id that is known stays known while the process runs.                 *)
RawRecheck(r) ==
  /\ pc[r] = "raw_recheck" /\ lock = None /\ ~poisoned
  /\ existing(r) # None
  /\ Goto(r, "raw_read")
  /\ UNCHANGED <<disk, process, index, mutex, record, context, created, answers, crashes>>

(* The body of the response is the file's, its content type the record's.  *)
(* A file that is missing or does not parse is a 500, here the body None.  *)
RawRead(r) ==
  /\ pc[r] = "raw_read"
  /\ served' = [served EXCEPT ![r] =
       LET file == files[record[r].id] IN
         [id |-> record[r].id, contentType |-> record[r].contentType,
          body |-> IF file \in {None, Torn} THEN None ELSE file.body]]
  /\ Finish(r)
  /\ UNCHANGED <<disk, process, index, mutex, reply, crashes>>
-----------------------------------------------------------------------------
(* The other GETs: one look at the index, under the lock.                  *)
Readable == status = "up" /\ lock = None /\ ~poisoned

get(id) == payloads[id]
get_payload_signature(id) == IF get(id) = None THEN None ELSE get(id).signature

(* The answer of /healthz (limit 0), /status (25) and /payloads (100).     *)
snapshot(limit) ==
  LET listed == {i \in DOMAIN newest_first :
                   i <= limit /\ payloads[newest_first[i]] # None}
      nth(k) == CHOOSE i \in listed : Cardinality({j \in listed : j <= i}) = k
  IN [payload_count |-> Cardinality({id \in Ids : payloads[id] # None}),
      total_bytes |-> total_bytes,
      latest |-> [k \in 1 .. Cardinality(listed) |->
                    summarize(payloads[newest_first[nth(k)]])]]
-----------------------------------------------------------------------------
Step(r) ==
  \/ AnswerKnown(r) \/ BeginUpgrade(r) \/ BeginNew(r)
  \/ OpenTemp(r) \/ FillTemp(r) \/ Rename(r) \/ PersistFails(r)
  \/ CommitUpgrade(r) \/ CommitNew(r) \/ CommitOverflows(r) \/ LockPanics(r)
  \/ RawRecheck(r) \/ RawRead(r)

Arrive(r) == Prepare(r) \/ Reject(r) \/ RawLookup(r)

(* Every request of the instance is over and the process runs on.          *)
Quiet == status = "up" /\ (\A r \in Requests : pc[r] = "done") /\ UNCHANGED vars

Next ==
  \/ Start \/ StartFails \/ Crash
  \/ \E r \in Requests : Arrive(r) \/ Step(r)
  \/ Quiet

Spec == Init /\ [][Next]_vars

(* A task that has begun is scheduled until it is over, whichever waiting  *)
(* task the mutex lets in (std's mutex is not fair).  A process that ended *)
(* need not be started again.                                              *)
Fairness == \A r \in Requests : WF_vars(Step(r))
FairSpec == Spec /\ Fairness
-----------------------------------------------------------------------------
(* The promise of the store, which knows neither memory nor locks.         *)
Service == INSTANCE PayloadService WITH
  stored <- [id \in Ids |-> IF files[id] \in {None, Torn} THEN None
                            ELSE metadata_for(files[id])]

(* The store keeps that promise: every step, of a request, a crash or a    *)
(* start, is one of the service's or does not concern its users.           *)
ImplementsService == Service!Spec
-----------------------------------------------------------------------------
committing(id) == \E r \in Requests : pc[r] = "commit" /\ record[r].id = id

(* Every variable has its type; in particular the byte count never leaves  *)
(* usize, which the checked_add of submit and load is there for.           *)
TypeOK ==
  /\ files \in [Ids -> PayloadRecord \cup {None, Torn}]
  /\ temps \in [Ids -> PayloadRecord \cup {None, Torn}]
  /\ status \in {"down", "up", "failed"}
  /\ max_payload_bytes \in Limits \cup {0} /\ signer \in Keys \cup {None}
  /\ payloads \in [Ids -> PayloadMetadata \cup {None}]
  /\ newest_first \in Seq(Ids) /\ total_bytes \in usize
  /\ lock \in Requests \cup {None} /\ poisoned \in BOOLEAN
  /\ pc \in [Requests -> {"new", "waiting", "done"} \cup Critical \cup RawReading]
  /\ record \in [Requests -> PayloadRecord \cup PayloadMetadata \cup {None}]
  /\ context \in [Requests -> Contexts \cup {None}]
  /\ created \in [Requests -> BOOLEAN]
  /\ reply \in [Requests -> SubmitOutcome \cup {None}]
  /\ served \in [Requests -> RawResponse \cup {None}]
  /\ crashes \in 0 .. MaxCrashes

(* The lock is held by exactly the task that is between its lookup and its *)
(* answer, on every path out of submit, errors and panics included; so no  *)
(* two tasks write the temporary file of one id.                           *)
LockHeldByWriter ==
  \A r \in Requests : pc[r] \in Critical <=> lock = r

(* What GET /payloads/{id} answers from memory is what is on disk, at any  *)
(* moment another task can look: a known id has a file, a file is known,   *)
(* and both hold the same metadata.  Only the id being committed differs,  *)
(* and its file is then complete and the committer's.                      *)
CacheCoherent ==
  status = "up" /\ ~poisoned =>
    \A id \in Ids :
      IF committing(id) THEN files[id] = record[lock]
      ELSE payloads[id] = IF files[id] = None THEN None ELSE metadata_for(files[id])

(* What /status, /payloads and /healthz say is what is on disk, also after *)
(* failed writes, upgrades, restarts and an overflow: the count and the    *)
(* byte total are exact, and a list of any limit is as long as it can be,  *)
(* names no payload twice and summarizes each as it is stored.             *)
InventoryExact ==
  Readable => \A limit \in 0 .. Cardinality(Ids) :
    LET s == snapshot(limit)
        ids == [i \in DOMAIN s.latest |-> s.latest[i].id]
    IN /\ s.payload_count = Cardinality(stored_ids) /\ s.total_bytes = stored_bytes
       /\ Len(s.latest) = Min({limit, s.payload_count}) /\ IsInjective(ids)
       /\ \A i \in DOMAIN ids : s.latest[i] = summarize(metadata_for(files[ids[i]]))

(* A submitter who lost the receipt finds it again: whoever was answered   *)
(* can read the metadata of that answer, and the stored receipt it showed, *)
(* with GET /payloads/{id} and .../signature, in this process and in every *)
(* later one, with or without a key.                                       *)
AnswersStayReadable ==
  Readable => \A r \in Requests : reply[r] # None =>
    LET m == reply[r].record IN
      /\ get(m.id) # None /\ Kept(get(m.id)) = Kept(m)
      /\ m.signature # None => get_payload_signature(m.id) = m.signature

(* No process ever answers over a directory whose byte total is no usize:  *)
(* the one that stored the last record is poisoned before it answers, and  *)
(* load refuses the directory from then on.                                *)
OverflowEndsService == Readable => fits(stored_bytes)

(* A 200 to a submission is durable against a kill of the process: from    *)
(* then on the file holds the metadata of the answer, and if the answer    *)
(* showed a stored signature, that signature.                              *)
AcknowledgedIsStored ==
  \A r \in Requests : reply[r] # None =>
    LET m == reply[r].record IN
      /\ files[m.id] \notin {None, Torn}
      /\ Kept(files[m.id]) = Kept(m)
      /\ m.signature # None => files[m.id].signature = m.signature

(* A returned receipt is about the payload as it is stored, dated as it is *)
(* stored, with the context of the request and no other; and it is never   *)
(* returned for a payload whose file has no current receipt of its own.    *)
ReceiptsAreAboutTheStore ==
  \A r \in Requests : reply[r] # None /\ reply[r].signature # None =>
    LET m == metadata_for(files[reply[r].record.id]) IN
      /\ reply[r].signature.receipt = receipt_for_record_with_context(m, reply[r].context)
      /\ HasCurrentReceipt(m)

(* A raw response is the bytes the id was computed from under the stored   *)
(* content type, although the file is read without the lock while another  *)
(* request may be rewriting it; it never is a 500.                         *)
RawServesStoredBytes ==
  \A r \in Requests : served[r] # None =>
    /\ files[served[r].id] \notin {None, Torn}
    /\ served[r].body = files[served[r].id].body
    /\ served[r].contentType = files[served[r].id].contentType
    /\ served[r].id = payload_id(files[served[r].id].namespace, served[r].body)

(* Whatever was going on when the process was killed, PAYLOAD_DIR loads    *)
(* again under the largest limit that payloads were accepted with.         *)
StaysLoadable == Loads(Max(Limits))

(* The first writer wins: once an id has a file, resubmissions with        *)
(* another content type or at another time, upgrades and restarts change   *)
(* nothing in it but the signature.                                        *)
FirstWriteWins ==
  [][\A id \in Ids : files[id] # None =>
       /\ files'[id] \notin {None, Torn}
       /\ Kept(files'[id]) = Kept(files[id]) /\ files'[id].body = files[id].body]_vars

(* A current receipt in a file is never replaced, by no key; a signature   *)
(* is never removed, also not by a server that does not sign.              *)
SignatureNeverLost ==
  [][\A id \in Ids : files[id] # None /\ files[id].signature # None =>
       IF HasCurrentReceipt(metadata_for(files[id]))
       THEN files'[id].signature = files[id].signature
       ELSE files'[id].signature # None]_vars

(* created: true is said to at most one submission of an id, in all runs   *)
(* of the process together, and it is the first answer about that id.      *)
CreatedIsFirstAnswer ==
  [][\A r \in Requests : reply'[r] # reply[r] /\ reply'[r].created =>
       \A q \in Requests \ {r} :
         reply[q] # None => reply[q].record.id # reply'[r].record.id]_vars

(* A process that has a key answers no submission without its receipt.     *)
SigningServerSigns ==
  [][\A r \in Requests : reply'[r] # reply[r] /\ signer # None =>
       reply'[r].signature # None /\ reply'[r].record.signature # None]_vars

(* Once the mutex is poisoned by the overflow panic, the process answers   *)
(* no submission and lists what it listed before.                          *)
PoisonIsFinal ==
  [][poisoned /\ status' = "up" =>
       poisoned' /\ UNCHANGED <<index, reply, files>>]_vars

(* Every request that was begun ends, whether waiting for the mutex,       *)
(* writing or reading, and across panics and crashes.                      *)
EveryRequestEnds ==
  \A r \in Requests : (pc[r] \notin {"new", "done"}) ~> (pc[r] = "done")
=============================================================================

----------------------- MODULE PayloadStoreInvariant ------------------------
(***************************************************************************)
(* The inductive invariant of PayloadStore: what is true between any two   *)
(* steps of its tasks, and why the safety properties of PayloadStore hold. *)
(***************************************************************************)
EXTENDS PayloadStore

Submitting == {"waiting"} \cup Critical

(* A submission has a record to store from its preparation to its answer,  *)
(* a raw read has the metadata it found.                                   *)
RecordsTyped ==
  \A r \in Requests :
    /\ pc[r] \in Submitting => record[r] \in PayloadRecord
    /\ pc[r] \in RawReading => record[r] \in PayloadMetadata

TypeInv == TypeOK /\ RecordsTyped

(* The mutex: tasks run in a running process only, and none is between its *)
(* lookup and its answer once the mutex is poisoned.                       *)
LockInv ==
  /\ LockHeldByWriter
  /\ status # "up" => \A r \in Requests : pc[r] \in {"new", "done"}
  /\ poisoned => lock = None /\ status = "up"

(* Content addressing: an id determines the namespace, the bytes and their *)
(* number wherever the id occurs, on disk, in the index and in a task.     *)
Addressed(id, m) ==
  m.id = id /\ m.namespace = id[1] /\ m.sizeBytes = SizeOf[id[2]]

AddressInv ==
  /\ \A id \in Ids : files[id] # None =>
       files[id] # Torn /\ Addressed(id, files[id]) /\ files[id].body = id[2]
  /\ \A id \in Ids : payloads[id] # None => Addressed(id, payloads[id])
  /\ \A r \in Requests :
       /\ pc[r] \in Submitting => /\ Addressed(record[r].id, record[r])
                                  /\ record[r].body = record[r].id[2]
       /\ pc[r] \in RawReading => Addressed(record[r].id, record[r])

(* A record to be stored has a current receipt or none, and has one if the *)
(* process signs.                                                          *)
SigningInv ==
  \A r \in Requests : pc[r] \in Submitting =>
    LET m == metadata_for(record[r]) IN
      HasCurrentReceipt(m) \/ (m.signature = None /\ signer = None)

(* The task that holds the lock: whether it creates or upgrades is still   *)
(* what it found when it took the lock, and each step of the write is      *)
(* where the next one expects it.                                          *)
WriterInv ==
  /\ \A r \in Requests : created[r] => pc[r] \in Critical
  /\ \A r \in Requests : pc[r] \in Critical =>
       LET id == record[r].id IN
         /\ created[r] => payloads[id] = None
         /\ ~created[r] =>
              /\ payloads[id] # None /\ Kept(payloads[id]) = Kept(record[r])
              /\ ~HasCurrentReceipt(payloads[id]) /\ signer # None
         /\ pc[r] = "rename" => temps[id] = record[r]
         /\ pc[r] = "commit" => files[id] = record[r]

(* A raw read that found its payload will find the file under the same     *)
(* content type.                                                           *)
ReaderInv ==
  \A r \in Requests : pc[r] \in RawReading =>
    /\ files[record[r].id] # None
    /\ files[record[r].id].contentType = record[r].contentType

StoreInv ==
  TypeInv /\ LockInv /\ AddressInv /\ SigningInv /\ WriterInv /\ CacheCoherent /\ ReaderInv

(* The list and the byte total of a running process are those of the       *)
(* payloads it knows: each is listed once and counted once.                *)
known == {id \in Ids : payloads[id] # None}
BytesOf(ids) == Cardinality(UNION {{id} \X (1 .. SizeOf[id[2]]) : id \in ids})
InventoryInv ==
  status = "up" => newest_first \in SetToSeqs(known) /\ total_bytes = BytesOf(known)

(* A file that loads under the largest limit, and records to be stored     *)
(* that will.                                                              *)
SizesInv ==
  /\ \A id \in Ids : files[id] # None => validate_stored_record(files[id], Max(Limits))
  /\ \A r \in Requests : pc[r] \in Submitting => SizeOf[record[r].body] <= Max(Limits)

(* What was answered: about what is stored, with a receipt or none, and    *)
(* never about an id that a task is just creating.                         *)
AnswerInv ==
  /\ AcknowledgedIsStored
  /\ ReceiptsAreAboutTheStore
  /\ \A r \in Requests : reply[r] # None /\ reply[r].record.signature # None =>
       HasCurrentReceipt(reply[r].record)
  /\ \A r, q \in Requests : pc[r] \in Critical /\ created[r] /\ reply[q] # None =>
       reply[q].record.id # record[r].id

(* The whole invariant: StoreInv is inductive, and AnswerInv with it.      *)
Inv == StoreInv /\ AnswerInv
=============================================================================

------------------------- MODULE PayloadStoreProofs -------------------------
(***************************************************************************)
(* Proofs about PayloadStore, for every number of requests, namespaces,    *)
(* bodies, keys, limits and crashes.                                       *)
(***************************************************************************)
EXTENDS PayloadStoreInvariant, FiniteSetTheorems, TLAPS

(* ---------------------------- records ---------------------------------- *)

LEMMA ReceiptType ==
  ASSUME NEW m \in PayloadMetadata, NEW ctx \in Contexts \cup {None}
  PROVE  /\ receipt_for_record_with_context(m, ctx) \in Receipt
         /\ receipt_for_record(m) \in Receipt
         /\ legacy_hosting_receipt_for_record(m) \in Receipt
  BY DEF PayloadMetadata, Receipt, receipt_for_record_with_context,
         receipt_for_record, legacy_hosting_receipt_for_record

LEMMA SignType ==
  ASSUME NEW m \in PayloadMetadata, NEW key \in Keys \cup {None}
  PROVE  sign_record_if_enabled(m, key) \in PayloadMetadata
<1>1. receipt_for_record(m) \in Receipt
  BY ReceiptType
<1>2. key # None => sign_receipt(key, receipt_for_record(m)) \in PayloadSignature
  BY <1>1 DEF sign_receipt, PayloadSignature
<1> QED
  BY <1>2 DEF sign_record_if_enabled, PayloadMetadata

LEMMA ContextSignatureType ==
  ASSUME NEW m \in PayloadMetadata, NEW ctx \in Contexts \cup {None},
         NEW key \in Keys \cup {None}
  PROVE  signature_for_context(m, ctx, key) \in PayloadSignature \cup {None}
<1>1. receipt_for_record_with_context(m, ctx) \in Receipt
  BY ReceiptType
<1> QED
  BY <1>1 DEF signature_for_context, sign_receipt, PayloadSignature, PayloadMetadata

LEMMA MetadataType ==
  ASSUME NEW rec \in PayloadRecord
  PROVE  metadata_for(rec) \in PayloadMetadata
  BY DEF metadata_for, PayloadRecord, PayloadMetadata

LEMMA DiskRecordType ==
  ASSUME NEW m \in PayloadMetadata, NEW bytes \in Bodies
  PROVE  disk_record(m, bytes) \in PayloadRecord
  BY DEF disk_record, PayloadRecord, PayloadMetadata

LEMMA RecordType ==
  ASSUME NEW ns \in Namespaces, NEW bytes \in Bodies,
         NEW ctype \in ContentTypes \cup {None}, NEW now \in Times
  PROVE  record_for(ns, bytes, ctype, now) \in PayloadRecord
  BY SizeAssumption DEF record_for, payload_id, PayloadRecord, Ids

LEMMA EarlierRecordType == EarlierRecords \subseteq PayloadRecord
<1> SUFFICES ASSUME NEW ns \in Namespaces, NEW bytes \in Bodies,
                    NEW ctype \in ContentTypes \cup {None}, NEW now \in Times,
                    NEW sig \in EarlierSignatures(metadata_for(record_for(ns, bytes, ctype, now)))
             PROVE  [record_for(ns, bytes, ctype, now) EXCEPT !.signature = sig]
                      \in PayloadRecord
  BY DEF EarlierRecords
<1>1. record_for(ns, bytes, ctype, now) \in PayloadRecord
  BY RecordType
<1>2. sig \in PayloadSignature \cup {None}
  BY <1>1, MetadataType, ReceiptType DEF EarlierSignatures, sign_receipt, PayloadSignature
<1> QED
  BY <1>1, <1>2 DEF PayloadRecord

(* -------------------------- types -------------------------------------- *)

LEMMA OrderType ==
  ASSUME NEW S, S \subseteq Ids, NEW order \in SetToSeqs(S)
  PROVE  order \in Seq(Ids)
<1>1. Cardinality(S) \in Nat
  BY IdsAssumption, FS_Subset, FS_CardinalityType
<1>2. order \in [1..Cardinality(S) -> S]
  BY DEF SetToSeqs
<1> QED
  BY <1>1, <1>2

(* The record a task is going to persist, from typed metadata.             *)
LEMMA SignedRecordType ==
  ASSUME NEW m \in PayloadMetadata, NEW bytes \in Bodies, signer \in Keys \cup {None}
  PROVE  signed_record(m, bytes) \in PayloadRecord
  BY SignType, DiskRecordType DEF signed_record

(* The answer to a submission is typed when its metadata is.               *)
LEMMA AnswerType ==
  ASSUME TypeOK, NEW r \in Requests, NEW m \in PayloadMetadata, answer(r, m)
  PROVE  reply' \in [Requests -> SubmitOutcome \cup {None}]
<1>1. signature_for_context(m, context[r], signer) \in PayloadSignature \cup {None}
  BY ContextSignatureType DEF TypeOK
<1>2. [record |-> m, context |-> context[r],
       signature |-> signature_for_context(m, context[r], signer),
       created |-> created[r]] \in SubmitOutcome
  BY <1>1 DEF TypeOK, SubmitOutcome
<1> QED
  BY <1>2 DEF TypeOK, answer

LEMMA TypeInit == Init => TypeInv
<1> SUFFICES ASSUME Init PROVE TypeInv
  OBVIOUS
<1>1. files \in [Ids -> PayloadRecord \cup {None, Torn}]
  BY EarlierRecordType DEF Init
<1>2. newest_first \in Seq(Ids)
  BY DEF Init
<1>3. total_bytes \in usize /\ crashes \in 0 .. MaxCrashes
  BY BoundsAssumption DEF Init, usize
<1>4. TypeOK
  BY <1>1, <1>2, <1>3 DEF Init, TypeOK
<1>5. RecordsTyped
  BY DEF Init, RecordsTyped, Submitting, Critical, RawReading
<1> QED
  BY <1>4, <1>5 DEF TypeInv

LEMMA TypeStep == TypeInv /\ [Next]_vars => TypeInv'
<1> SUFFICES ASSUME TypeOK, RecordsTyped, [Next]_vars PROVE TypeOK' /\ RecordsTyped'
  BY DEF TypeInv
<1> USE DEF disk, process, index, mutex, locals, answers
<1>1. ASSUME NEW limit \in Limits, NEW key \in Keys \cup {None}, load(limit, key)
      PROVE  TypeOK' /\ RecordsTyped'
  <2>1. newest_first' \in Seq(Ids)
    BY <1>1, OrderType DEF load, stored_ids
  <2>2. \A id \in Ids : files[id] # None => files[id] \in PayloadRecord
    BY <1>1 DEF load, Loads, stored_ids, TypeOK
  <2>3. payloads' \in [Ids -> PayloadMetadata \cup {None}]
    BY <1>1, <2>2, MetadataType DEF load
  <2>4. total_bytes' \in usize
    BY <1>1 DEF load, Loads, fits
  <2>5. TypeOK'
    BY <1>1, <2>1, <2>3, <2>4 DEF load, TypeOK
  <2>6. RecordsTyped'
    BY <1>1 DEF load, RecordsTyped
  <2> QED
    BY <2>5, <2>6
<1>2. ASSUME NEW limit \in Limits, load_fails(limit)
      PROVE  TypeOK' /\ RecordsTyped'
  BY <1>2 DEF load_fails, TypeOK, RecordsTyped
<1>3. CASE Crash
  <2>1. crashes' \in 0 .. MaxCrashes /\ total_bytes' \in usize /\ newest_first' \in Seq(Ids)
    BY <1>3, BoundsAssumption DEF Crash, TypeOK, usize
  <2>2. TypeOK'
    BY <1>3, <2>1 DEF Crash, TypeOK
  <2>3. RecordsTyped'
    BY <1>3 DEF Crash, RecordsTyped, Submitting, Critical, RawReading
  <2> QED
    BY <2>2, <2>3
<1>4. ASSUME NEW r \in Requests, Prepare(r)
      PROVE  TypeOK' /\ RecordsTyped'
  <2> PICK ns \in Namespaces, bytes \in Bodies, ctype \in ContentTypes \cup {None},
           ctx \in Contexts \cup {None}, now \in Times :
         /\ record' = [record EXCEPT ![r] =
               signed_record(metadata_for(record_for(ns, bytes, ctype, now)), bytes)]
         /\ context' = [context EXCEPT ![r] = ctx]
    BY <1>4 DEF Prepare
  <2>1. signed_record(metadata_for(record_for(ns, bytes, ctype, now)), bytes) \in PayloadRecord
    BY RecordType, MetadataType, SignedRecordType DEF TypeOK
  <2>2. TypeOK'
    BY <1>4, <2>1 DEF Prepare, Goto, TypeOK
  <2>3. RecordsTyped'
    BY <1>4, <2>1 DEF Prepare, Goto, TypeOK, RecordsTyped, Submitting, Critical, RawReading
  <2> QED
    BY <2>2, <2>3
<1>5. ASSUME NEW r \in Requests, Reject(r)
      PROVE  TypeOK' /\ RecordsTyped'
  BY <1>5 DEF Reject, Goto, Finish, TypeOK, RecordsTyped, Submitting, Critical, RawReading
<1>6. ASSUME NEW r \in Requests, AnswerKnown(r)
      PROVE  TypeOK' /\ RecordsTyped'
  <2>1. record[r].id \in Ids
    BY <1>6 DEF AnswerKnown, locks, RecordsTyped, Submitting, PayloadRecord
  <2>2. sign_record_if_enabled(existing(r), signer) \in PayloadMetadata
    BY <1>6, <2>1, SignType DEF AnswerKnown, existing, TypeOK
  <2>3. reply' \in [Requests -> SubmitOutcome \cup {None}]
    BY <1>6, <2>2, AnswerType DEF AnswerKnown
  <2>4. TypeOK'
    BY <1>6, <2>3 DEF AnswerKnown, Finish, Goto, TypeOK
  <2>5. RecordsTyped'
    BY <1>6 DEF AnswerKnown, Finish, Goto, TypeOK, RecordsTyped, Submitting, Critical, RawReading
  <2> QED
    BY <2>4, <2>5
<1>7. ASSUME NEW r \in Requests, BeginUpgrade(r)
      PROVE  TypeOK' /\ RecordsTyped'
  <2>1. record[r].id \in Ids /\ record[r].body \in Bodies
    BY <1>7 DEF BeginUpgrade, locks, RecordsTyped, Submitting, PayloadRecord
  <2>2. signed_record(existing(r), record[r].body) \in PayloadRecord
    BY <1>7, <2>1, SignedRecordType DEF BeginUpgrade, existing, TypeOK
  <2>3. TypeOK'
    BY <1>7, <2>2 DEF BeginUpgrade, Goto, TypeOK, Critical
  <2>4. RecordsTyped'
    BY <1>7, <2>2 DEF BeginUpgrade, Goto, TypeOK, RecordsTyped, Submitting, Critical, RawReading
  <2> QED
    BY <2>3, <2>4
<1>8. ASSUME NEW r \in Requests, BeginNew(r)
      PROVE  TypeOK' /\ RecordsTyped'
  BY <1>8 DEF BeginNew, locks, Goto, TypeOK, RecordsTyped, Submitting, Critical, RawReading
<1>9. ASSUME NEW r \in Requests, OpenTemp(r)
      PROVE  TypeOK' /\ RecordsTyped'
  BY <1>9 DEF OpenTemp, Goto, TypeOK, RecordsTyped, Submitting, Critical, RawReading
<1>10. ASSUME NEW r \in Requests, FillTemp(r)
       PROVE  TypeOK' /\ RecordsTyped'
  BY <1>10 DEF FillTemp, Goto, TypeOK, RecordsTyped, Submitting, Critical, RawReading
<1>11. ASSUME NEW r \in Requests, Rename(r)
       PROVE  TypeOK' /\ RecordsTyped'
  <2>1. record[r].id \in Ids
    BY <1>11 DEF Rename, RecordsTyped, Submitting, Critical, PayloadRecord
  <2> QED
    BY <1>11, <2>1 DEF Rename, Goto, TypeOK, RecordsTyped, Submitting, Critical, RawReading
<1>12. ASSUME NEW r \in Requests, PersistFails(r)
       PROVE  TypeOK' /\ RecordsTyped'
  BY <1>12 DEF PersistFails, Finish, Goto, TypeOK, RecordsTyped, Submitting, Critical, RawReading
<1>13. ASSUME NEW r \in Requests, CommitUpgrade(r)
       PROVE  TypeOK' /\ RecordsTyped'
  <2>1. metadata_for(record[r]) \in PayloadMetadata
    BY <1>13, MetadataType DEF CommitUpgrade, RecordsTyped, Submitting, Critical
  <2>2. reply' \in [Requests -> SubmitOutcome \cup {None}]
    BY <1>13, <2>1, AnswerType DEF CommitUpgrade
  <2>3. TypeOK'
    BY <1>13, <2>1, <2>2 DEF CommitUpgrade, insert, Finish, Goto, TypeOK
  <2>4. RecordsTyped'
    BY <1>13 DEF CommitUpgrade, Finish, Goto, TypeOK, RecordsTyped, Submitting, Critical, RawReading
  <2> QED
    BY <2>3, <2>4
<1>14. ASSUME NEW r \in Requests, CommitNew(r)
       PROVE  TypeOK' /\ RecordsTyped'
  <2>1. record[r] \in PayloadRecord
    BY <1>14 DEF CommitNew, RecordsTyped, Submitting, Critical
  <2>2. metadata_for(record[r]) \in PayloadMetadata /\ record[r].id \in Ids
    BY <2>1, MetadataType DEF PayloadRecord
  <2>3. reply' \in [Requests -> SubmitOutcome \cup {None}]
    BY <1>14, <2>2, AnswerType DEF CommitNew
  <2>4. newest_first' \in Seq(Ids)
    BY <1>14, <2>2 DEF CommitNew, TypeOK
  <2>5. total_bytes' \in usize
    BY <1>14 DEF CommitNew, fits
  <2>6. TypeOK'
    BY <1>14, <2>2, <2>3, <2>4, <2>5 DEF CommitNew, insert, Finish, Goto, TypeOK
  <2>7. RecordsTyped'
    BY <1>14 DEF CommitNew, Finish, Goto, TypeOK, RecordsTyped, Submitting, Critical, RawReading
  <2> QED
    BY <2>6, <2>7
<1>15. ASSUME NEW r \in Requests, CommitOverflows(r)
       PROVE  TypeOK' /\ RecordsTyped'
  BY <1>15 DEF CommitOverflows, Finish, Goto, TypeOK, RecordsTyped, Submitting, Critical, RawReading
<1>16. ASSUME NEW r \in Requests, LockPanics(r)
       PROVE  TypeOK' /\ RecordsTyped'
  BY <1>16 DEF LockPanics, Finish, Goto, TypeOK, RecordsTyped, Submitting, Critical, RawReading
<1>17. ASSUME NEW r \in Requests, RawLookup(r)
       PROVE  TypeOK' /\ RecordsTyped'
  BY <1>17 DEF RawLookup, Goto, TypeOK, RecordsTyped, Submitting, Critical, RawReading
<1>18. ASSUME NEW r \in Requests, RawRecheck(r)
       PROVE  TypeOK' /\ RecordsTyped'
  BY <1>18 DEF RawRecheck, Goto, TypeOK, RecordsTyped, Submitting, Critical, RawReading
<1>19. ASSUME NEW r \in Requests, RawRead(r)
       PROVE  TypeOK' /\ RecordsTyped'
  <2> DEFINE file == files[record[r].id]
             body == IF file \in {None, Torn} THEN None ELSE file.body
  <2>1. record[r].id \in Ids /\ record[r].contentType \in ContentTypes \cup {None}
    BY <1>19 DEF RawRead, RecordsTyped, RawReading, PayloadMetadata
  <2>2. file \notin {None, Torn} => file.body \in Bodies
    BY <2>1 DEF TypeOK, PayloadRecord
  <2>3. body \in Bodies \cup {None}
    BY <2>2
  <2>4. [id |-> record[r].id, contentType |-> record[r].contentType, body |-> body]
          \in RawResponse
    BY <2>1, <2>3 DEF RawResponse
  <2>5. TypeOK'
    BY <1>19, <2>4 DEF RawRead, Finish, Goto, TypeOK
  <2>6. RecordsTyped'
    BY <1>19 DEF RawRead, Finish, Goto, TypeOK, RecordsTyped, Submitting, Critical, RawReading
  <2> QED
    BY <2>5, <2>6
<1>20. CASE UNCHANGED vars
  BY <1>20 DEF vars, TypeOK, RecordsTyped
<1> QED
  BY <1>1, <1>2, <1>3, <1>4, <1>5, <1>6, <1>7, <1>8, <1>9, <1>10, <1>11, <1>12, <1>13,
     <1>14, <1>15, <1>16, <1>17, <1>18, <1>19, <1>20
     DEF Next, Start, StartFails, Arrive, Step, Quiet

(* Every variable keeps its type in every run of the store; in particular  *)
(* the byte count of the index stays a usize.                              *)
THEOREM TypeCorrect == Spec => []TypeOK
<1>1. TypeInv => TypeOK
  BY DEF TypeInv
<1> QED
  BY <1>1, TypeInit, TypeStep, PTL DEF Spec

(* -------------------------- the mutex ---------------------------------- *)

LEMMA LockInit == Init => LockInv
  BY RequestsAssumption DEF Init, LockInv, LockHeldByWriter, Critical

LEMMA LockStep == TypeInv /\ LockInv /\ [Next]_vars => LockInv'
<1> SUFFICES ASSUME TypeInv, LockInv, [Next]_vars PROVE LockInv'
  OBVIOUS
<1>0. /\ pc \in [Requests -> {"new", "waiting", "done"} \cup Critical \cup RawReading]
      /\ lock \in Requests \cup {None} /\ status \in {"down", "up", "failed"}
      /\ poisoned \in BOOLEAN
  BY DEF TypeInv, TypeOK
<1> USE <1>0, RequestsAssumption
    DEF LockInv, LockHeldByWriter, Critical, RawReading, Goto, Finish,
        disk, process, index, mutex, locals, answers
<1>1. ASSUME NEW limit \in Limits, NEW key \in Keys \cup {None}, load(limit, key)
      PROVE  LockInv'
  BY <1>1 DEF load
<1>2. ASSUME NEW limit \in Limits, load_fails(limit)
      PROVE  LockInv'
  BY <1>2 DEF load_fails
<1>3. CASE Crash
  BY <1>3 DEF Crash
<1>4. ASSUME NEW r \in Requests, Arrive(r)
      PROVE  LockInv'
  BY <1>4 DEF Arrive, Prepare, Reject, RawLookup
<1>5. ASSUME NEW r \in Requests, AnswerKnown(r) \/ LockPanics(r) \/ RawRecheck(r) \/ RawRead(r)
      PROVE  LockInv'
  BY <1>5 DEF AnswerKnown, locks, LockPanics, RawRecheck, RawRead
<1>6. ASSUME NEW r \in Requests, BeginUpgrade(r) \/ BeginNew(r)
      PROVE  LockInv'
  BY <1>6 DEF BeginUpgrade, BeginNew, locks
<1>7. ASSUME NEW r \in Requests, OpenTemp(r) \/ FillTemp(r) \/ Rename(r)
      PROVE  LockInv'
  BY <1>7 DEF OpenTemp, FillTemp, Rename
<1>8. ASSUME NEW r \in Requests,
             PersistFails(r) \/ CommitUpgrade(r) \/ CommitNew(r) \/ CommitOverflows(r)
      PROVE  LockInv'
  BY <1>8 DEF PersistFails, CommitUpgrade, CommitNew, CommitOverflows
<1>9. CASE UNCHANGED vars
  BY <1>9 DEF vars
<1> QED
  BY <1>1, <1>2, <1>3, <1>4, <1>5, <1>6, <1>7, <1>8, <1>9
     DEF Next, Start, StartFails, Step, Quiet

(* Mutual exclusion: the lock is held by the one task between its lookup   *)
(* and its answer, and every way out of submit releases it.                *)
THEOREM LockIsHeldByWriter == Spec => []LockHeldByWriter
<1>1. LockInv => LockHeldByWriter
  BY DEF LockInv
<1> QED
  BY <1>1, TypeInit, TypeStep, LockInit, LockStep, PTL DEF Spec

(* ------------------- what signing and storing keep --------------------- *)

LEMMA MetadataKeeps ==
  ASSUME NEW rec \in PayloadRecord
  PROVE  Kept(metadata_for(rec)) = Kept(rec) /\ metadata_for(rec).signature = rec.signature
  BY DEF Kept, metadata_for

LEMMA DiskRecordKeeps ==
  ASSUME NEW m \in PayloadMetadata, NEW bytes \in Bodies
  PROVE  /\ Kept(disk_record(m, bytes)) = Kept(m)
         /\ disk_record(m, bytes).signature = m.signature
         /\ disk_record(m, bytes).body = bytes
         /\ metadata_for(disk_record(m, bytes)) = m
<1>1. m = [id |-> m.id, namespace |-> m.namespace, contentType |-> m.contentType,
           sizeBytes |-> m.sizeBytes, submittedAt |-> m.submittedAt,
           signature |-> m.signature]
  BY DEF PayloadMetadata
<1> QED
  BY <1>1 DEF Kept, disk_record, metadata_for

(* Whether a receipt is current depends on what is kept and the signature. *)
LEMMA CurrentReceiptKeeps ==
  ASSUME NEW m1, NEW m2, Kept(m1) = Kept(m2), m1.signature = m2.signature
  PROVE  HasCurrentReceipt(m1) <=> HasCurrentReceipt(m2)
<1>1. m1.id = m2.id /\ m1.submittedAt = m2.submittedAt
  BY DEF Kept
<1>2. receipt_for_record(m1) = receipt_for_record(m2)
  BY <1>1 DEF receipt_for_record, receipt_for_record_with_context
<1>3. legacy_hosting_receipt_for_record(m1) = legacy_hosting_receipt_for_record(m2)
  BY <1>2 DEF legacy_hosting_receipt_for_record
<1> QED
  BY <1>2, <1>3 DEF HasCurrentReceipt, signature_is_current_payload_receipt,
                    validate_payload_signature

(* Signing changes the signature only, and leaves a current receipt, or    *)
(* none when there is no key.                                              *)
LEMMA SignKeeps ==
  ASSUME NEW m \in PayloadMetadata, NEW key \in Keys \cup {None}
  PROVE  LET signed == sign_record_if_enabled(m, key) IN
           /\ Kept(signed) = Kept(m)
           /\ HasCurrentReceipt(signed) \/ (signed.signature = None /\ key = None)
<1> DEFINE signed == sign_record_if_enabled(m, key)
           new == sign_receipt(key, receipt_for_record(m))
<1>1. CASE HasCurrentReceipt(m)
  BY <1>1 DEF sign_record_if_enabled
<1>2. CASE ~HasCurrentReceipt(m) /\ key = None
  BY <1>2 DEF sign_record_if_enabled, Kept, PayloadMetadata
<1>3. CASE ~HasCurrentReceipt(m) /\ key # None
  <2>1. signed = [m EXCEPT !.signature = new]
    BY <1>3 DEF sign_record_if_enabled
  <2>2. Kept(signed) = Kept(m) /\ signed.signature = new
    BY <2>1 DEF Kept, PayloadMetadata
  <2>3. receipt_for_record(signed) = receipt_for_record(m)
    BY <2>2 DEF Kept, receipt_for_record, receipt_for_record_with_context
  <2>4. new \in PayloadSignature
    BY <1>3, ReceiptType DEF sign_receipt, PayloadSignature
  <2>5. new # None
    BY <2>4, NoneAssumption
  <2>6. new.receipt = receipt_for_record(signed)
    BY <2>3 DEF sign_receipt
  <2> QED
    BY <2>2, <2>5, <2>6 DEF HasCurrentReceipt, signature_is_current_payload_receipt,
                            validate_payload_signature
<1> QED
  BY <1>1, <1>2, <1>3

LEMMA SignedRecordKeeps ==
  ASSUME NEW m \in PayloadMetadata, NEW bytes \in Bodies, signer \in Keys \cup {None}
  PROVE  LET rec == signed_record(m, bytes) IN
           /\ rec \in PayloadRecord
           /\ Kept(rec) = Kept(m) /\ rec.body = bytes
           /\ \/ HasCurrentReceipt(metadata_for(rec))
              \/ metadata_for(rec).signature = None /\ signer = None
<1> DEFINE signed == sign_record_if_enabled(m, signer)
           rec == disk_record(signed, bytes)
<1>1. signed \in PayloadMetadata
  BY SignType
<1>2. rec \in PayloadRecord
  BY <1>1, DiskRecordType
<1>3. Kept(rec) = Kept(signed) /\ rec.body = bytes /\ metadata_for(rec) = signed
  BY <1>1, DiskRecordKeeps
<1>4. /\ Kept(signed) = Kept(m)
      /\ HasCurrentReceipt(signed) \/ (signed.signature = None /\ signer = None)
  BY SignKeeps
<1> QED
  BY <1>2, <1>3, <1>4 DEF signed_record

LEMMA AddressedKeeps ==
  ASSUME NEW m1, NEW m2, Kept(m1) = Kept(m2), NEW id, Addressed(id, m1)
  PROVE  Addressed(id, m2)
  BY DEF Kept, Addressed

(* ----------------------- content addressing ---------------------------- *)

LEMMA EarlierRecordAddressed ==
  ASSUME NEW rec \in EarlierRecords
  PROVE  Addressed(rec.id, rec) /\ rec.body = rec.id[2]
<1>1. PICK ns \in Namespaces, bytes \in Bodies, ctype \in ContentTypes \cup {None},
           now \in Times :
        \E sig \in EarlierSignatures(metadata_for(record_for(ns, bytes, ctype, now))) :
          rec = [record_for(ns, bytes, ctype, now) EXCEPT !.signature = sig]
  BY DEF EarlierRecords
<1> DEFINE base == record_for(ns, bytes, ctype, now)
<1>2. base \in PayloadRecord
  BY RecordType
<1>3. rec.id = base.id /\ rec.namespace = base.namespace /\ rec.sizeBytes = base.sizeBytes
      /\ rec.body = base.body
  BY <1>1, <1>2 DEF PayloadRecord
<1>4. /\ base.id = <<ns, bytes>> /\ base.namespace = ns
      /\ base.sizeBytes = SizeOf[bytes] /\ base.body = bytes
  BY DEF record_for, payload_id
<1> QED
  BY <1>3, <1>4 DEF Addressed

LEMMA AddressInit == Init => AddressInv
<1> SUFFICES ASSUME Init PROVE AddressInv
  OBVIOUS
<1>1. \A id \in Ids : files[id] # None => files[id] \in EarlierRecords /\ files[id].id = id
  BY DEF Init
<1>2. \A id \in Ids : files[id] # None => files[id] # Torn
  BY <1>1, EarlierRecordType, TornAssumption
<1>3. \A id \in Ids : files[id] # None => Addressed(id, files[id]) /\ files[id].body = id[2]
  BY <1>1, EarlierRecordAddressed
<1> QED
  BY <1>2, <1>3 DEF Init, AddressInv, Submitting, Critical, RawReading

LEMMA AddressStep == TypeInv /\ LockInv /\ AddressInv /\ WriterInv /\ [Next]_vars => AddressInv'
<1> SUFFICES ASSUME TypeInv, LockInv, AddressInv, WriterInv, [Next]_vars PROVE AddressInv'
  OBVIOUS
<1> USE DEF disk, process, index, mutex, locals, answers, Submitting, Critical, RawReading
<1>0. /\ TypeOK /\ RecordsTyped
      /\ pc \in [Requests -> {"new", "waiting", "done"} \cup Critical \cup RawReading]
      /\ record \in [Requests -> PayloadRecord \cup PayloadMetadata \cup {None}]
      /\ payloads \in [Ids -> PayloadMetadata \cup {None}]
      /\ files \in [Ids -> PayloadRecord \cup {None, Torn}]
      /\ signer \in Keys \cup {None}
  BY DEF TypeInv, TypeOK
<1>1. ASSUME NEW limit \in Limits, NEW key \in Keys \cup {None}, load(limit, key)
      PROVE  AddressInv'
  <2>1. \A id \in Ids : payloads'[id] # None =>
          /\ files[id] # None /\ files[id] \in PayloadRecord
          /\ payloads'[id] = metadata_for(files[id])
    BY <1>0, <1>1 DEF load, AddressInv
  <2>2. \A id \in Ids : payloads'[id] # None => Addressed(id, payloads'[id])
    BY <2>1, MetadataKeeps, AddressedKeeps DEF AddressInv
  <2> QED
    BY <1>1, <2>2 DEF load, AddressInv
<1>2. ASSUME NEW limit \in Limits, load_fails(limit)
      PROVE  AddressInv'
  BY <1>2 DEF load_fails, AddressInv
<1>3. CASE Crash
  BY <1>3 DEF Crash, AddressInv
<1>4. ASSUME NEW r \in Requests, Prepare(r)
      PROVE  AddressInv'
  <2> PICK ns \in Namespaces, bytes \in Bodies, ctype \in ContentTypes \cup {None},
           now \in Times :
         record' = [record EXCEPT ![r] =
               signed_record(metadata_for(record_for(ns, bytes, ctype, now)), bytes)]
    BY <1>4 DEF Prepare
  <2> DEFINE base == record_for(ns, bytes, ctype, now)
             rec == signed_record(metadata_for(base), bytes)
  <2>1. base \in PayloadRecord /\ metadata_for(base) \in PayloadMetadata
    BY RecordType, MetadataType
  <2>2. Kept(rec) = Kept(base) /\ rec.body = bytes
    BY <1>0, <2>1, SignedRecordKeeps, MetadataKeeps
  <2>3. base.id = <<ns, bytes>> /\ base.namespace = ns /\ base.sizeBytes = SizeOf[bytes]
    BY DEF record_for, payload_id
  <2>4. rec.id = <<ns, bytes>> /\ rec.namespace = ns /\ rec.sizeBytes = SizeOf[bytes]
    BY <2>2, <2>3 DEF Kept
  <2>5. Addressed(rec.id, rec) /\ rec.body = rec.id[2]
    BY <2>2, <2>4 DEF Addressed
  <2> HIDE DEF rec
  <2> QED
    BY <1>0, <1>4, <2>5 DEF Prepare, Goto, AddressInv, rec
<1>5. ASSUME NEW r \in Requests, Reject(r) \/ AnswerKnown(r) \/ LockPanics(r) \/ PersistFails(r)
                                  \/ CommitOverflows(r) \/ RawRead(r)
      PROVE  AddressInv'
  BY <1>0, <1>5 DEF Reject, AnswerKnown, LockPanics, PersistFails, CommitOverflows, RawRead,
                    Goto, Finish, AddressInv
<1>6. ASSUME NEW r \in Requests, BeginUpgrade(r)
      PROVE  AddressInv'
  <2> DEFINE m == existing(r)
             rec == signed_record(m, record[r].body)
  <2>1. record[r] \in PayloadRecord
    BY <1>0, <1>6 DEF BeginUpgrade, locks, RecordsTyped
  <2>2. record[r].id \in Ids /\ record[r].body \in Bodies /\ record[r].body = record[r].id[2]
    BY <1>0, <1>6, <2>1 DEF BeginUpgrade, locks, AddressInv, PayloadRecord
  <2>3. m \in PayloadMetadata /\ Addressed(record[r].id, m)
    BY <1>0, <1>6, <2>2 DEF BeginUpgrade, existing, AddressInv
  <2>4. Kept(rec) = Kept(m) /\ rec.body = record[r].body
    BY <1>0, <2>2, <2>3, SignedRecordKeeps
  <2>5. Addressed(record[r].id, rec)
    BY <2>3, <2>4, AddressedKeeps
  <2>6. Addressed(rec.id, rec) /\ rec.body = rec.id[2]
    BY <2>2, <2>4, <2>5 DEF Addressed
  <2> HIDE DEF rec
  <2> QED
    BY <1>0, <1>6, <2>6 DEF BeginUpgrade, Goto, AddressInv, rec
<1>7. ASSUME NEW r \in Requests, BeginNew(r) \/ OpenTemp(r) \/ FillTemp(r) \/ RawRecheck(r)
      PROVE  AddressInv'
  BY <1>0, <1>7 DEF BeginNew, locks, OpenTemp, FillTemp, RawRecheck, Goto, AddressInv
<1>8. ASSUME NEW r \in Requests, Rename(r)
      PROVE  AddressInv'
  <2>1. record[r] \in PayloadRecord /\ temps[record[r].id] = record[r]
    BY <1>0, <1>8 DEF Rename, RecordsTyped, WriterInv
  <2>2. record[r] # Torn /\ Addressed(record[r].id, record[r]) /\ record[r].body = record[r].id[2]
    BY <1>8, <2>1, TornAssumption DEF Rename, AddressInv
  <2> QED
    BY <1>0, <1>8, <2>1, <2>2 DEF Rename, Goto, AddressInv
<1>9. ASSUME NEW r \in Requests, CommitUpgrade(r) \/ CommitNew(r)
      PROVE  AddressInv'
  <2>1. record[r] \in PayloadRecord /\ Addressed(record[r].id, record[r])
    BY <1>0, <1>9 DEF CommitUpgrade, CommitNew, RecordsTyped, AddressInv
  <2>2. Addressed(record[r].id, metadata_for(record[r]))
    BY <2>1, MetadataKeeps, AddressedKeeps
  <2> QED
    BY <1>0, <1>9, <2>2 DEF CommitUpgrade, CommitNew, insert, Goto, Finish, AddressInv
<1>10. ASSUME NEW r \in Requests, RawLookup(r)
       PROVE  AddressInv'
  <2>1. PICK id \in Ids : payloads[id] # None /\ record' = [record EXCEPT ![r] = payloads[id]]
    BY <1>10 DEF RawLookup
  <2>2. Addressed(payloads[id].id, payloads[id])
    BY <2>1 DEF AddressInv, Addressed
  <2> QED
    BY <1>0, <1>10, <2>1, <2>2 DEF RawLookup, Goto, AddressInv
<1>11. CASE UNCHANGED vars
  BY <1>11 DEF vars, AddressInv
<1> QED
  BY <1>1, <1>2, <1>3, <1>4, <1>5, <1>6, <1>7, <1>8, <1>9, <1>10, <1>11
     DEF Next, Start, StartFails, Arrive, Step, Quiet

(* ----------------- the record that is being stored --------------------- *)

LEMMA SigningInit == Init => SigningInv
  BY DEF Init, SigningInv, Submitting, Critical

LEMMA SigningStep == TypeInv /\ LockInv /\ SigningInv /\ [Next]_vars => SigningInv'
<1> SUFFICES ASSUME TypeInv, LockInv, SigningInv, [Next]_vars PROVE SigningInv'
  OBVIOUS
<1> USE DEF disk, process, index, mutex, locals, answers, Submitting, Critical, RawReading
<1>0. /\ TypeOK /\ RecordsTyped
      /\ pc \in [Requests -> {"new", "waiting", "done"} \cup Critical \cup RawReading]
      /\ record \in [Requests -> PayloadRecord \cup PayloadMetadata \cup {None}]
      /\ payloads \in [Ids -> PayloadMetadata \cup {None}]
      /\ signer \in Keys \cup {None}
  BY DEF TypeInv, TypeOK
<1>1. CASE Start \/ StartFails
  <2>1. \A r \in Requests : pc'[r] \in {"new", "done"}
    BY <1>1 DEF Start, StartFails, load, load_fails, LockInv
  <2> QED
    BY <2>1 DEF SigningInv
<1>2. CASE Crash
  BY <1>2 DEF Crash, SigningInv
<1>3. ASSUME NEW r \in Requests, Prepare(r)
      PROVE  SigningInv'
  <2> PICK ns \in Namespaces, bytes \in Bodies, ctype \in ContentTypes \cup {None},
           now \in Times :
         record' = [record EXCEPT ![r] =
               signed_record(metadata_for(record_for(ns, bytes, ctype, now)), bytes)]
    BY <1>3 DEF Prepare
  <2> DEFINE m == metadata_for(record_for(ns, bytes, ctype, now))
             rec == signed_record(m, bytes)
  <2>1. m \in PayloadMetadata
    BY RecordType, MetadataType
  <2>2. \/ HasCurrentReceipt(metadata_for(rec))
        \/ metadata_for(rec).signature = None /\ signer = None
    BY <1>0, <2>1, SignedRecordKeeps
  <2> HIDE DEF rec
  <2> QED
    BY <1>0, <1>3, <2>2 DEF Prepare, Goto, SigningInv, rec
<1>4. ASSUME NEW r \in Requests, BeginUpgrade(r)
      PROVE  SigningInv'
  <2> DEFINE rec == signed_record(existing(r), record[r].body)
  <2>1. record[r].id \in Ids /\ record[r].body \in Bodies
    BY <1>0, <1>4 DEF BeginUpgrade, locks, RecordsTyped, PayloadRecord
  <2>2. existing(r) \in PayloadMetadata
    BY <1>0, <1>4, <2>1 DEF BeginUpgrade, existing
  <2>3. \/ HasCurrentReceipt(metadata_for(rec))
        \/ metadata_for(rec).signature = None /\ signer = None
    BY <1>0, <2>1, <2>2, SignedRecordKeeps
  <2> HIDE DEF rec
  <2> QED
    BY <1>0, <1>4, <2>3 DEF BeginUpgrade, Goto, SigningInv, rec
<1>5. ASSUME NEW r \in Requests,
             Reject(r) \/ AnswerKnown(r) \/ PersistFails(r) \/ CommitUpgrade(r) \/ CommitNew(r)
             \/ CommitOverflows(r) \/ LockPanics(r) \/ RawLookup(r) \/ RawRecheck(r) \/ RawRead(r)
      PROVE  SigningInv'
  BY <1>0, <1>5 DEF Reject, AnswerKnown, PersistFails, CommitUpgrade, CommitNew, CommitOverflows,
                    LockPanics, RawLookup, RawRecheck, RawRead, Goto, Finish, SigningInv
<1>6. ASSUME NEW r \in Requests, BeginNew(r) \/ OpenTemp(r) \/ FillTemp(r) \/ Rename(r)
      PROVE  SigningInv'
  BY <1>0, <1>6 DEF BeginNew, locks, OpenTemp, FillTemp, Rename, Goto, SigningInv
<1>7. CASE UNCHANGED vars
  BY <1>7 DEF vars, SigningInv
<1> QED
  BY <1>1, <1>2, <1>3, <1>4, <1>5, <1>6, <1>7 DEF Next, Arrive, Step, Quiet

LEMMA WriterInit == Init => WriterInv
  BY DEF Init, WriterInv, Critical

LEMMA WriterStep ==
  TypeInv /\ LockInv /\ AddressInv /\ WriterInv /\ [Next]_vars => WriterInv'
<1> SUFFICES ASSUME TypeInv, LockInv, AddressInv, WriterInv, [Next]_vars PROVE WriterInv'
  OBVIOUS
<1> USE DEF disk, process, index, mutex, locals, answers, Submitting, Critical, RawReading
<1>0. /\ TypeOK /\ RecordsTyped
      /\ pc \in [Requests -> {"new", "waiting", "done"} \cup Critical \cup RawReading]
      /\ record \in [Requests -> PayloadRecord \cup PayloadMetadata \cup {None}]
      /\ created \in [Requests -> BOOLEAN]
      /\ payloads \in [Ids -> PayloadMetadata \cup {None}]
      /\ temps \in [Ids -> PayloadRecord \cup {None, Torn}]
      /\ files \in [Ids -> PayloadRecord \cup {None, Torn}]
      /\ signer \in Keys \cup {None}
  BY DEF TypeInv, TypeOK
(* Of two tasks in the critical section one is the other.                  *)
<1>a. \A r, q \in Requests : pc[r] \in Critical /\ pc[q] \in Critical => r = q
  BY DEF LockInv, LockHeldByWriter
<1>b. lock = None => \A q \in Requests : pc[q] \notin Critical
  BY RequestsAssumption DEF LockInv, LockHeldByWriter
<1>c. \A r \in Requests : pc[r] \in Critical => record[r] \in PayloadRecord /\ record[r].id \in Ids
  BY <1>0 DEF RecordsTyped, PayloadRecord
<1>1. CASE Start \/ StartFails
  <2>1. \A r \in Requests : pc'[r] \in {"new", "done"} /\ created' = created
    BY <1>1 DEF Start, StartFails, load, load_fails, LockInv
  <2> QED
    BY <1>1, <2>1 DEF WriterInv, Start, StartFails, load, load_fails
<1>2. CASE Crash
  BY <1>2 DEF Crash, WriterInv
<1>3. ASSUME NEW r \in Requests,
             Prepare(r) \/ Reject(r) \/ AnswerKnown(r) \/ LockPanics(r) \/ RawLookup(r)
             \/ RawRecheck(r) \/ RawRead(r)
      PROVE  WriterInv'
  <2>1. /\ pc[r] \notin Critical /\ pc'[r] \notin Critical
        /\ \A q \in Requests \ {r} : pc'[q] = pc[q] /\ record'[q] = record[q] /\ created'[q] = created[q]
        /\ created'[r] => created[r]
        /\ UNCHANGED <<payloads, temps, files, signer>>
    BY <1>0, <1>3 DEF Prepare, Reject, AnswerKnown, locks, LockPanics, RawLookup, RawRecheck,
                      RawRead, Goto, Finish
  <2> QED
    BY <2>1 DEF WriterInv
<1>4. ASSUME NEW r \in Requests, BeginUpgrade(r)
      PROVE  WriterInv'
  <2> DEFINE m == existing(r)
             rec == signed_record(m, record[r].body)
  <2>1. record[r].id \in Ids /\ record[r].body \in Bodies /\ ~created[r]
    BY <1>0, <1>4 DEF BeginUpgrade, locks, RecordsTyped, PayloadRecord, WriterInv
  <2>2. m = payloads[record[r].id] /\ m # None /\ m \in PayloadMetadata /\ m.id = record[r].id
    BY <1>0, <1>4, <2>1 DEF BeginUpgrade, existing, AddressInv, Addressed
  <2>3. Kept(rec) = Kept(m) /\ rec.id = m.id
    BY <1>0, <2>1, <2>2, SignedRecordKeeps DEF Kept
  <2>4. /\ pc'[r] = "open" /\ record'[r] = rec /\ ~created'[r]
        /\ ~HasCurrentReceipt(m) /\ signer' # None /\ payloads' = payloads
    BY <1>0, <1>4, <2>1 DEF BeginUpgrade, Goto
  <2>5. \A q \in Requests : q # r => pc'[q] \notin Critical /\ ~created'[q]
    BY <1>0, <1>4, <1>b DEF BeginUpgrade, locks, Goto, WriterInv
  <2> HIDE DEF rec, m
  <2>6. /\ payloads'[record'[r].id] # None /\ Kept(payloads'[record'[r].id]) = Kept(record'[r])
        /\ ~HasCurrentReceipt(payloads'[record'[r].id])
    BY <2>2, <2>3, <2>4
  <2> QED
    BY <2>4, <2>5, <2>6 DEF WriterInv
<1>5. ASSUME NEW r \in Requests, BeginNew(r)
      PROVE  WriterInv'
  <2>1. \A q \in Requests : q # r => pc'[q] \notin Critical /\ ~created'[q]
    BY <1>0, <1>5, <1>b DEF BeginNew, locks, Goto, WriterInv
  <2>2. pc'[r] = "open" /\ created'[r] /\ payloads'[record'[r].id] = None
    BY <1>0, <1>5 DEF BeginNew, existing, Goto
  <2> QED
    BY <2>1, <2>2 DEF WriterInv
<1>6. ASSUME NEW r \in Requests, OpenTemp(r) \/ FillTemp(r) \/ Rename(r)
      PROVE  WriterInv'
  <2>1. \A q \in Requests : q # r => pc'[q] \notin Critical /\ ~created'[q]
    BY <1>0, <1>6, <1>a DEF OpenTemp, FillTemp, Rename, Goto, WriterInv
  <2>2. /\ pc[r] \in Critical /\ pc'[r] \in Critical
        /\ UNCHANGED <<payloads, signer, record, created>>
    BY <1>0, <1>6 DEF OpenTemp, FillTemp, Rename, Goto
  <2>3. pc'[r] = "rename" => temps'[record'[r].id] = record'[r]
    BY <1>0, <1>6, <1>c DEF OpenTemp, FillTemp, Rename, Goto
  <2>4. pc'[r] = "commit" => files'[record'[r].id] = record'[r]
    BY <1>0, <1>6, <1>c DEF OpenTemp, FillTemp, Rename, Goto, WriterInv
  <2> QED
    BY <2>1, <2>2, <2>3, <2>4 DEF WriterInv
<1>7. ASSUME NEW r \in Requests,
             PersistFails(r) \/ CommitUpgrade(r) \/ CommitNew(r) \/ CommitOverflows(r)
      PROVE  WriterInv'
  <2>1. \A q \in Requests : pc'[q] \notin Critical /\ ~created'[q]
    BY <1>0, <1>7, <1>a
       DEF PersistFails, CommitUpgrade, CommitNew, CommitOverflows, Goto, Finish, WriterInv
  <2> QED
    BY <2>1 DEF WriterInv
<1>8. CASE UNCHANGED vars
  BY <1>8 DEF vars, WriterInv
<1> QED
  BY <1>1, <1>2, <1>3, <1>4, <1>5, <1>6, <1>7, <1>8 DEF Next, Arrive, Step, Quiet

(* --------------------- memory and disk agree --------------------------- *)

LEMMA NotCommitting ==
  ASSUME NEW r \in Requests, LockInv, pc[r] \in Critical, pc[r] # "commit"
  PROVE  status = "up" /\ ~poisoned /\ \A id \in Ids : ~committing(id)
<1>1. lock = r /\ \A q \in Requests : pc[q] \in Critical => q = r
  BY DEF LockInv, LockHeldByWriter
<1> QED
  BY <1>1, RequestsAssumption DEF LockInv, Critical, committing

(* Renaming over a file that exists changes its signature only: the task   *)
(* took its record from the index, and the index agrees with the disk.     *)
LEMMA RenameKeeps ==
  ASSUME TypeInv, LockInv, AddressInv, WriterInv, CacheCoherent,
         NEW r \in Requests, Rename(r), files[record[r].id] # None
  PROVE  LET id == record[r].id IN
           /\ ~created[r] /\ files'[id] = record[r]
           /\ Kept(files'[id]) = Kept(files[id]) /\ files'[id].body = files[id].body
           /\ payloads[id] = metadata_for(files[id])
<1> DEFINE id == record[r].id
<1>0. /\ pc[r] = "rename" /\ pc[r] \in Critical /\ pc[r] # "commit"
      /\ record[r] \in PayloadRecord /\ id \in Ids
  BY DEF Rename, Critical, TypeInv, RecordsTyped, Submitting, PayloadRecord
<1>1. files[id] \in PayloadRecord
  BY <1>0 DEF TypeInv, TypeOK, AddressInv
<1>2. payloads[id] = metadata_for(files[id])
  BY <1>0, NotCommitting DEF CacheCoherent
<1>3. payloads[id] # None /\ Kept(payloads[id]) = Kept(files[id])
  BY <1>1, <1>2, MetadataType, MetadataKeeps, NoneAssumption
<1>4. ~created[r] /\ Kept(payloads[id]) = Kept(record[r])
  BY <1>0, <1>3 DEF WriterInv
<1>5. files'[id] = record[r]
  BY <1>0 DEF Rename, WriterInv, TypeInv, TypeOK
<1>6. record[r].body = files[id].body
  BY <1>0 DEF AddressInv, Submitting
<1> QED
  BY <1>2, <1>3, <1>4, <1>5, <1>6

LEMMA CacheInit == Init => CacheCoherent
  BY DEF Init, CacheCoherent

LEMMA CacheStep ==
  TypeInv /\ LockInv /\ AddressInv /\ WriterInv /\ CacheCoherent /\ [Next]_vars => CacheCoherent'
<1> SUFFICES ASSUME TypeInv, LockInv, AddressInv, WriterInv, CacheCoherent, [Next]_vars
             PROVE  CacheCoherent'
  OBVIOUS
<1> USE DEF disk, process, index, mutex, locals, answers
<1>0. /\ TypeOK /\ RecordsTyped
      /\ pc \in [Requests -> {"new", "waiting", "done"} \cup Critical \cup RawReading]
      /\ record \in [Requests -> PayloadRecord \cup PayloadMetadata \cup {None}]
      /\ payloads \in [Ids -> PayloadMetadata \cup {None}]
      /\ files \in [Ids -> PayloadRecord \cup {None, Torn}]
  BY DEF TypeInv, TypeOK
<1>a. \A r, q \in Requests : pc[r] \in Critical /\ pc[q] \in Critical => r = q
  BY DEF LockInv, LockHeldByWriter
<1>b. \A r \in Requests : pc[r] \in Critical <=> lock = r
  BY DEF LockInv, LockHeldByWriter
<1>c. \A r \in Requests : pc[r] \in Critical => record[r] \in PayloadRecord /\ record[r].id \in Ids
  BY <1>0 DEF RecordsTyped, Submitting, PayloadRecord
<1>1. ASSUME NEW limit \in Limits, NEW key \in Keys \cup {None}, load(limit, key)
      PROVE  CacheCoherent'
  <2>1. \A q \in Requests : pc'[q] # "commit"
    BY <1>1 DEF load, LockInv
  <2> QED
    BY <1>1, <2>1 DEF load, CacheCoherent, committing
<1>2. ASSUME NEW limit \in Limits, load_fails(limit)
      PROVE  CacheCoherent'
  BY <1>2 DEF load_fails, CacheCoherent
<1>3. CASE Crash
  BY <1>3 DEF Crash, CacheCoherent
(* Steps that neither enter nor leave a commit, nor touch disk or index.   *)
<1>4. ASSUME NEW r \in Requests,
             Prepare(r) \/ Reject(r) \/ AnswerKnown(r) \/ BeginUpgrade(r) \/ BeginNew(r)
             \/ OpenTemp(r) \/ FillTemp(r) \/ PersistFails(r) \/ LockPanics(r)
             \/ RawLookup(r) \/ RawRecheck(r) \/ RawRead(r)
      PROVE  CacheCoherent'
  <2>1. /\ pc[r] # "commit" /\ pc'[r] # "commit"
        /\ \A q \in Requests : q # r => pc'[q] = pc[q] /\ record'[q] = record[q]
        /\ UNCHANGED <<payloads, files, status, poisoned>>
    BY <1>0, <1>4 DEF Prepare, Reject, AnswerKnown, BeginUpgrade, BeginNew, locks, OpenTemp,
         FillTemp, PersistFails, LockPanics, RawLookup, RawRecheck, RawRead, Goto, Finish
  <2>2. \A q \in Requests : pc[q] = "commit" => lock' = lock /\ lock = q /\ record'[q] = record[q]
    BY <1>b, <1>4, <2>1, RequestsAssumption
       DEF Prepare, Reject, AnswerKnown, BeginUpgrade, BeginNew, locks, OpenTemp,
           FillTemp, PersistFails, LockPanics, RawLookup, RawRecheck, RawRead, Critical
  <2>3. \A id \in Ids : committing(id)' <=> committing(id)
    BY <2>1 DEF committing
  <2>4. \A id \in Ids : committing(id) => record'[lock'] = record[lock]
    BY <2>2 DEF committing
  <2> QED
    BY <2>1, <2>3, <2>4 DEF CacheCoherent
<1>5. ASSUME NEW r \in Requests, Rename(r)
      PROVE  CacheCoherent'
  <2>1. /\ pc[r] = "rename" /\ pc[r] \in Critical /\ record[r].id \in Ids /\ lock = r
        /\ status = "up" /\ ~poisoned /\ \A id \in Ids : ~committing(id)
    BY <1>5, <1>b, <1>c, NotCommitting DEF Rename, Critical
  <2>2. \A id \in Ids : committing(id)' <=> id = record[r].id
    BY <1>0, <1>5, <1>a, <2>1 DEF Rename, Goto, committing, Critical
  <2>3. files'[record[r].id] = record'[lock']
    BY <1>0, <1>5, <2>1 DEF Rename, WriterInv
  <2>4. \A id \in Ids : id # record[r].id => files'[id] = files[id] /\ payloads'[id] = payloads[id]
    BY <1>0, <1>5 DEF Rename
  <2> QED
    BY <2>1, <2>2, <2>3, <2>4 DEF CacheCoherent
<1>6. ASSUME NEW r \in Requests, CommitUpgrade(r) \/ CommitNew(r)
      PROVE  CacheCoherent'
  <2>1. pc[r] = "commit" /\ pc[r] \in Critical /\ record[r] \in PayloadRecord /\ record[r].id \in Ids
    BY <1>6, <1>c DEF CommitUpgrade, CommitNew, Critical
  <2>2. status = "up" /\ ~poisoned
    BY <2>1, <1>b, RequestsAssumption DEF LockInv, Critical
  <2>3. \A id \in Ids : committing(id) <=> id = record[r].id
    BY <1>a, <2>1 DEF committing, Critical
  <2>4. \A id \in Ids : ~committing(id)'
    BY <1>0, <1>6, <1>a, <2>1 DEF CommitUpgrade, CommitNew, Goto, Finish, committing, Critical
  <2>5. files' = files /\ payloads' = [payloads EXCEPT ![record[r].id] = metadata_for(record[r])]
    BY <1>6 DEF CommitUpgrade, CommitNew, insert
  <2>6. files[record[r].id] = record[r] /\ record[r] # None
    BY <2>1, NoneAssumption DEF WriterInv
  <2> QED
    BY <1>0, <2>1, <2>2, <2>3, <2>4, <2>5, <2>6 DEF CacheCoherent
<1>7. ASSUME NEW r \in Requests, CommitOverflows(r)
      PROVE  CacheCoherent'
  BY <1>7 DEF CommitOverflows, CacheCoherent
<1>8. CASE UNCHANGED vars
  BY <1>8 DEF vars, CacheCoherent, committing
<1> QED
  BY <1>1, <1>2, <1>3, <1>4, <1>5, <1>6, <1>7, <1>8
     DEF Next, Start, StartFails, Arrive, Step, Quiet

LEMMA ReaderInit == Init => ReaderInv
  BY DEF Init, ReaderInv, RawReading

LEMMA ReaderStep ==
  TypeInv /\ LockInv /\ AddressInv /\ WriterInv /\ CacheCoherent /\ ReaderInv /\ [Next]_vars
    => ReaderInv'
<1> SUFFICES ASSUME TypeInv, LockInv, AddressInv, WriterInv, CacheCoherent, ReaderInv, [Next]_vars
             PROVE  ReaderInv'
  OBVIOUS
<1> USE DEF disk, process, index, mutex, locals, answers, RawReading
<1>0. /\ TypeOK /\ RecordsTyped
      /\ pc \in [Requests -> {"new", "waiting", "done"} \cup Critical \cup RawReading]
      /\ record \in [Requests -> PayloadRecord \cup PayloadMetadata \cup {None}]
      /\ files \in [Ids -> PayloadRecord \cup {None, Torn}]
      /\ payloads \in [Ids -> PayloadMetadata \cup {None}]
  BY DEF TypeInv, TypeOK
<1>1. CASE Start \/ StartFails \/ Crash
  BY <1>1 DEF Start, StartFails, load, load_fails, Crash, LockInv, ReaderInv
<1>2. ASSUME NEW r \in Requests, RawLookup(r)
      PROVE  ReaderInv'
  <2>1. PICK id \in Ids : payloads[id] # None /\ record' = [record EXCEPT ![r] = payloads[id]]
    BY <1>2 DEF RawLookup
  <2>2. ~committing(id)
    BY <1>2, RequestsAssumption DEF RawLookup, LockInv, LockHeldByWriter, committing, Critical
  <2>3. files[id] # None /\ payloads[id] = metadata_for(files[id])
    BY <1>2, <2>1, <2>2 DEF RawLookup, CacheCoherent
  <2>4. payloads[id].id = id /\ payloads[id].contentType = files[id].contentType
    BY <2>1, <2>3 DEF AddressInv, Addressed, metadata_for
  <2> QED
    BY <1>0, <1>2, <2>1, <2>3, <2>4 DEF RawLookup, Goto, ReaderInv
<1>3. ASSUME NEW r \in Requests, Rename(r)
      PROVE  ReaderInv'
  <2>1. /\ record[r] \in PayloadRecord /\ record[r].id \in Ids
        /\ temps[record[r].id] = record[r]
    BY <1>0, <1>3 DEF Rename, RecordsTyped, Submitting, Critical, PayloadRecord, WriterInv
  <2>2. files'[record[r].id] # None
    BY <1>0, <1>3, <2>1, NoneAssumption DEF Rename
  <2>3. files[record[r].id] # None =>
          files'[record[r].id].contentType = files[record[r].id].contentType
    BY <1>3, RenameKeeps DEF Kept
  <2> QED
    BY <1>0, <1>3, <2>1, <2>2, <2>3 DEF Rename, Goto, ReaderInv
<1>4. ASSUME NEW r \in Requests,
             Prepare(r) \/ Reject(r) \/ AnswerKnown(r) \/ BeginUpgrade(r) \/ BeginNew(r)
             \/ OpenTemp(r) \/ FillTemp(r) \/ PersistFails(r) \/ CommitUpgrade(r) \/ CommitNew(r)
             \/ CommitOverflows(r) \/ LockPanics(r) \/ RawRecheck(r) \/ RawRead(r)
      PROVE  ReaderInv'
  <2>1. /\ files' = files
        /\ \A q \in Requests : pc'[q] \in RawReading =>
             pc[q] \in RawReading /\ record'[q] = record[q]
    BY <1>0, <1>4 DEF Prepare, Reject, AnswerKnown, BeginUpgrade, BeginNew, OpenTemp, FillTemp,
         PersistFails, CommitUpgrade, CommitNew, CommitOverflows, LockPanics, RawRecheck,
         RawRead, Goto, Finish
  <2> QED
    BY <2>1 DEF ReaderInv
<1>5. CASE UNCHANGED vars
  BY <1>5 DEF vars, ReaderInv
<1> QED
  BY <1>1, <1>2, <1>3, <1>4, <1>5 DEF Next, Arrive, Step, Quiet

LEMMA StoreInvariant == Spec => []StoreInv
<1>1. Init => StoreInv
  BY TypeInit, LockInit, AddressInit, SigningInit, WriterInit, CacheInit, ReaderInit DEF StoreInv
<1>2. StoreInv /\ [Next]_vars => StoreInv'
  BY TypeStep, LockStep, AddressStep, SigningStep, WriterStep, CacheStep, ReaderStep DEF StoreInv
<1> QED
  BY <1>1, <1>2, PTL DEF Spec

(* What the index answers is what is on disk, for every id but the one     *)
(* that is being committed, in every state of a running process.           *)
THEOREM IndexAgreesWithDisk == Spec => []CacheCoherent
<1>1. StoreInv => CacheCoherent
  BY DEF StoreInv
<1> QED
  BY <1>1, StoreInvariant, PTL

(* ----------------------- what a write may change ----------------------- *)

LEMMA OnlyRenameWrites ==
  ASSUME [Next]_vars, files' # files
  PROVE  \E r \in Requests : Rename(r)
  BY DEF Next, Start, StartFails, load, load_fails, Crash, Arrive, Prepare, Reject, RawLookup,
         Step, AnswerKnown, BeginUpgrade, BeginNew, OpenTemp, FillTemp, PersistFails,
         CommitUpgrade, CommitNew, CommitOverflows, LockPanics, RawRecheck, RawRead, Quiet,
         vars, disk

(* A rename leaves a whole record with a current receipt or none, keeps a  *)
(* current receipt that was there, and leaves one if any signature was.    *)
LEMMA RenameSigns ==
  ASSUME StoreInv, NEW r \in Requests, Rename(r)
  PROVE  LET id == record[r].id IN
           /\ id \in Ids /\ files'[id] = record[r] /\ record[r] \in PayloadRecord
           /\ files[id] # None =>
                /\ ~HasCurrentReceipt(metadata_for(files[id]))
                /\ HasCurrentReceipt(metadata_for(files'[id]))
<1> DEFINE id == record[r].id
<1>1. /\ pc[r] = "rename" /\ pc[r] \in Critical /\ record[r] \in PayloadRecord /\ id \in Ids
  BY DEF Rename, Critical, StoreInv, TypeInv, RecordsTyped, Submitting, PayloadRecord
<1>2. files'[id] = record[r]
  BY <1>1 DEF Rename, StoreInv, WriterInv, TypeInv, TypeOK
<1>3. CASE files[id] # None
  <2>1. ~created[r] /\ payloads[id] = metadata_for(files[id])
    BY <1>3, RenameKeeps DEF StoreInv
  <2>2. ~HasCurrentReceipt(payloads[id]) /\ signer # None
    BY <1>1, <2>1 DEF StoreInv, WriterInv
  <2>3. HasCurrentReceipt(metadata_for(record[r]))
    BY <1>1, <2>2 DEF StoreInv, SigningInv, Submitting
  <2> QED
    BY <1>1, <1>2, <2>1, <2>2, <2>3
<1> QED
  BY <1>1, <1>2, <1>3

LEMMA WriteKeeps ==
  ASSUME StoreInv, [Next]_vars, NEW id \in Ids, files[id] # None
  PROVE  /\ files'[id] \notin {None, Torn}
         /\ Kept(files'[id]) = Kept(files[id]) /\ files'[id].body = files[id].body
         /\ IF HasCurrentReceipt(metadata_for(files[id]))
            THEN files'[id].signature = files[id].signature
            ELSE files[id].signature # None => files'[id].signature # None
<1>0. files[id] # Torn
  BY DEF StoreInv, AddressInv
<1>1. CASE files'[id] = files[id]
  BY <1>0, <1>1
<1>2. CASE files'[id] # files[id]
  <2>1. PICK r \in Requests : Rename(r)
    BY <1>2, OnlyRenameWrites
  <2>2. id = record[r].id
    BY <1>2, <2>1 DEF Rename, StoreInv, TypeInv, TypeOK
  <2>3. /\ files'[id] = record[r] /\ record[r] \in PayloadRecord
        /\ ~HasCurrentReceipt(metadata_for(files[id])) /\ HasCurrentReceipt(metadata_for(files'[id]))
    BY <2>1, <2>2, RenameSigns
  <2>4. files'[id].signature # None
    BY <2>3, MetadataKeeps DEF HasCurrentReceipt
  <2>5. files'[id] \notin {None, Torn}
    BY <2>3, NoneAssumption, TornAssumption
  <2>6. Kept(files'[id]) = Kept(files[id]) /\ files'[id].body = files[id].body
    BY <2>1, <2>2, RenameKeeps DEF StoreInv
  <2> QED
    BY <2>3, <2>4, <2>5, <2>6
<1> QED
  BY <1>1, <1>2

(* The first writer of a payload wins: no later step of any task, crash or *)
(* start changes more of its file than the signature.                      *)
THEOREM FirstWriterWins == Spec => FirstWriteWins
<1>1. StoreInv /\ [Next]_vars =>
        [\A id \in Ids : files[id] # None =>
           /\ files'[id] \notin {None, Torn}
           /\ Kept(files'[id]) = Kept(files[id]) /\ files'[id].body = files[id].body]_vars
  BY WriteKeeps
<1> QED
  BY <1>1, StoreInvariant, PTL DEF Spec, FirstWriteWins

(* No step replaces a current receipt in a file or removes a signature.    *)
THEOREM SignaturesStay == Spec => SignatureNeverLost
<1>1. StoreInv /\ [Next]_vars =>
        [\A id \in Ids : files[id] # None /\ files[id].signature # None =>
           IF HasCurrentReceipt(metadata_for(files[id]))
           THEN files'[id].signature = files[id].signature
           ELSE files'[id].signature # None]_vars
  BY WriteKeeps
<1> QED
  BY <1>1, StoreInvariant, PTL DEF Spec, SignatureNeverLost

(* --------------------------- the answers ------------------------------- *)

(* Outside a commit the index of a running process is the disk.            *)
LEMMA IndexIsDisk ==
  ASSUME StoreInv, lock = None, status = "up", ~poisoned, NEW id \in Ids
  PROVE  payloads[id] = IF files[id] = None THEN None ELSE metadata_for(files[id])
<1>1. ~committing(id)
  BY RequestsAssumption DEF StoreInv, LockInv, LockHeldByWriter, committing, Critical
<1> QED
  BY <1>1 DEF StoreInv, CacheCoherent

(* The metadata m that request r is answered with is what is stored, its   *)
(* signature left out at most when there is no key.                        *)
AnswersWith(r, m) ==
  /\ m \in PayloadMetadata /\ m.id \in Ids /\ m.id = record[r].id
  /\ files[m.id] \in PayloadRecord /\ files'[m.id] = files[m.id]
  /\ Kept(files[m.id]) = Kept(m)
  /\ m.signature # None => files[m.id].signature = m.signature
  /\ HasCurrentReceipt(m) \/ (m.signature = None /\ signer = None)
  /\ created[r] => pc[r] = "commit"
  /\ reply'[r] = [record |-> m, context |-> context[r],
                  signature |-> signature_for_context(m, context[r], signer),
                  created |-> created[r]]

LEMMA KnownAnswer ==
  ASSUME StoreInv, NEW r \in Requests, AnswerKnown(r)
  PROVE  \E m : AnswersWith(r, m)
<1> DEFINE m == sign_record_if_enabled(existing(r), signer)
           id == record[r].id
<1>0. /\ TypeOK /\ signer \in Keys \cup {None} /\ reply \in [Requests -> SubmitOutcome \cup {None}]
      /\ pc[r] = "waiting" /\ lock = None /\ ~poisoned /\ existing(r) # None
      /\ id \in Ids /\ ~created[r] /\ status = "up"
  BY DEF AnswerKnown, locks, StoreInv, TypeInv, TypeOK, RecordsTyped, Submitting, PayloadRecord,
         WriterInv, LockInv, Critical
<1>1. files[id] # None /\ existing(r) = metadata_for(files[id])
  BY <1>0, IndexIsDisk DEF existing
<1>2. files[id] \in PayloadRecord /\ files[id].id = id
  BY <1>0, <1>1 DEF TypeOK, StoreInv, AddressInv, Addressed
<1>3. /\ existing(r) \in PayloadMetadata /\ Kept(existing(r)) = Kept(files[id])
      /\ existing(r).signature = files[id].signature
  BY <1>1, <1>2, MetadataType, MetadataKeeps
<1>4. /\ m \in PayloadMetadata /\ Kept(m) = Kept(existing(r))
      /\ HasCurrentReceipt(m) \/ (m.signature = None /\ signer = None)
  BY <1>0, <1>3, SignType, SignKeeps
<1>5. m.id = id
  BY <1>2, <1>3, <1>4 DEF Kept
<1>6. m.signature # None => m.signature = files[id].signature
  <2>1. CASE HasCurrentReceipt(existing(r))
    BY <1>3, <2>1 DEF sign_record_if_enabled
  <2>2. CASE ~HasCurrentReceipt(existing(r))
    <3>1. signer = None
      BY <2>2 DEF AnswerKnown
    <3>2. m.signature = None
      BY <1>3, <2>2, <3>1 DEF sign_record_if_enabled, PayloadMetadata
    <3> QED
      BY <3>2
  <2> QED
    BY <2>1, <2>2
<1>7. /\ files' = files
      /\ reply'[r] = [record |-> m, context |-> context[r],
                      signature |-> signature_for_context(m, context[r], signer),
                      created |-> created[r]]
  BY <1>0 DEF AnswerKnown, answer, disk
<1> HIDE DEF m
<1> QED
  BY <1>0, <1>2, <1>3, <1>4, <1>5, <1>6, <1>7 DEF AnswersWith

LEMMA CommitAnswer ==
  ASSUME StoreInv, NEW r \in Requests, CommitUpgrade(r) \/ CommitNew(r)
  PROVE  \E m : AnswersWith(r, m)
<1> DEFINE m == metadata_for(record[r])
           id == record[r].id
<1>0. /\ pc[r] = "commit" /\ pc[r] \in Critical /\ record[r] \in PayloadRecord /\ id \in Ids
      /\ reply \in [Requests -> SubmitOutcome \cup {None}]
  BY DEF CommitUpgrade, CommitNew, Critical, StoreInv, TypeInv, TypeOK, RecordsTyped,
         Submitting, PayloadRecord
<1>1. files[id] = record[r]
  BY <1>0 DEF StoreInv, WriterInv
<1>2. m \in PayloadMetadata /\ Kept(m) = Kept(record[r]) /\ m.signature = record[r].signature
  BY <1>0, MetadataType, MetadataKeeps
<1>3. m.id = id
  BY DEF metadata_for
<1>4. HasCurrentReceipt(m) \/ (m.signature = None /\ signer = None)
  BY <1>0 DEF StoreInv, SigningInv, Submitting
<1>5. /\ files' = files
      /\ reply'[r] = [record |-> m, context |-> context[r],
                      signature |-> signature_for_context(m, context[r], signer),
                      created |-> created[r]]
  BY <1>0 DEF CommitUpgrade, CommitNew, answer, disk
<1> HIDE DEF m
<1> QED
  BY <1>0, <1>1, <1>2, <1>3, <1>4, <1>5 DEF AnswersWith

LEMMA OnlyThreeAnswer ==
  ASSUME StoreInv, [Next]_vars, NEW r \in Requests, reply'[r] # reply[r]
  PROVE  AnswerKnown(r) \/ CommitUpgrade(r) \/ CommitNew(r)
<1>0. reply \in [Requests -> SubmitOutcome \cup {None}]
  BY DEF StoreInv, TypeInv, TypeOK
<1>1. PICK q \in Requests : AnswerKnown(q) \/ CommitUpgrade(q) \/ CommitNew(q)
  BY DEF Next, Start, StartFails, load, load_fails, Crash, Arrive, Prepare, Reject, RawLookup,
         Step, BeginUpgrade, BeginNew, OpenTemp, FillTemp, Rename, PersistFails,
         CommitOverflows, LockPanics, RawRecheck, RawRead, Quiet, vars, answers
<1>2. q = r
  BY <1>0, <1>1 DEF AnswerKnown, CommitUpgrade, CommitNew, answer
<1> QED
  BY <1>1, <1>2

LEMMA NewAnswer ==
  ASSUME StoreInv, [Next]_vars, NEW r \in Requests, reply'[r] # reply[r]
  PROVE  \E m : AnswersWith(r, m)
  BY OnlyThreeAnswer, KnownAnswer, CommitAnswer

LEMMA AnswerInit == Init => AnswerInv
  BY DEF Init, AnswerInv, AcknowledgedIsStored, ReceiptsAreAboutTheStore, Critical

(* An answer that was given stays true.                                    *)
LEMMA OldAnswerStays ==
  ASSUME StoreInv, AnswerInv, [Next]_vars, NEW r \in Requests, reply[r] # None
  PROVE  LET m == reply[r].record IN
           /\ files'[m.id] \notin {None, Torn} /\ Kept(files'[m.id]) = Kept(m)
           /\ m.signature # None => files'[m.id].signature = m.signature
           /\ reply[r].signature # None =>
                /\ reply[r].signature.receipt =
                     receipt_for_record_with_context(metadata_for(files'[m.id]), reply[r].context)
                /\ HasCurrentReceipt(metadata_for(files'[m.id]))
<1> DEFINE m == reply[r].record
           id == m.id
           old == files[id]
           new == files'[id]
<1>0. reply[r] \in SubmitOutcome /\ m \in PayloadMetadata /\ id \in Ids
  BY DEF StoreInv, TypeInv, TypeOK, SubmitOutcome, PayloadMetadata
<1>1. /\ old \notin {None, Torn} /\ Kept(old) = Kept(m)
      /\ m.signature # None => old.signature = m.signature
  BY DEF AnswerInv, AcknowledgedIsStored
<1>2. /\ new \notin {None, Torn} /\ Kept(new) = Kept(old)
      /\ HasCurrentReceipt(metadata_for(old)) => new.signature = old.signature
  BY <1>0, <1>1, WriteKeeps
<1>3. old \in PayloadRecord /\ new \in PayloadRecord
  <2>1. files' \in [Ids -> PayloadRecord \cup {None, Torn}]
    BY TypeStep DEF StoreInv, TypeInv, TypeOK
  <2> QED
    BY <1>0, <1>1, <1>2, <2>1 DEF StoreInv, TypeInv, TypeOK
<1>4. /\ Kept(metadata_for(old)) = Kept(old) /\ metadata_for(old).signature = old.signature
      /\ Kept(metadata_for(new)) = Kept(new) /\ metadata_for(new).signature = new.signature
  BY <1>3, MetadataKeeps
<1>5. m.signature # None => HasCurrentReceipt(metadata_for(old))
  <2>1. m.signature # None => HasCurrentReceipt(m)
    BY DEF AnswerInv
  <2> QED
    BY <1>1, <1>4, <2>1, CurrentReceiptKeeps
<1>6. m.signature # None => new.signature = m.signature
  BY <1>1, <1>2, <1>5
<1>7. ASSUME reply[r].signature # None
      PROVE  /\ reply[r].signature.receipt =
                  receipt_for_record_with_context(metadata_for(new), reply[r].context)
             /\ HasCurrentReceipt(metadata_for(new))
  <2>1. /\ reply[r].signature.receipt =
             receipt_for_record_with_context(metadata_for(old), reply[r].context)
        /\ HasCurrentReceipt(metadata_for(old))
    BY <1>7 DEF AnswerInv, ReceiptsAreAboutTheStore
  <2>2. /\ metadata_for(new).id = metadata_for(old).id
        /\ metadata_for(new).submittedAt = metadata_for(old).submittedAt
    BY <1>2, <1>4 DEF Kept
  <2>3. HasCurrentReceipt(metadata_for(new))
    BY <1>2, <1>4, <2>1, CurrentReceiptKeeps
  <2> QED
    BY <2>1, <2>2, <2>3 DEF receipt_for_record_with_context
<1> QED
  BY <1>1, <1>2, <1>6, <1>7

(* An answer that is being given is true.                                  *)
LEMMA NewAnswerHolds ==
  ASSUME StoreInv, NEW r \in Requests, NEW m, AnswersWith(r, m)
  PROVE  /\ reply'[r].record = m
         /\ files'[m.id] \notin {None, Torn} /\ Kept(files'[m.id]) = Kept(m)
         /\ m.signature # None => files'[m.id].signature = m.signature /\ HasCurrentReceipt(m)
         /\ reply'[r].signature # None =>
              /\ reply'[r].signature.receipt =
                   receipt_for_record_with_context(metadata_for(files'[m.id]), reply'[r].context)
              /\ HasCurrentReceipt(metadata_for(files'[m.id]))
<1> DEFINE file == files'[m.id]
           sig == signature_for_context(m, context[r], signer)
<1>0. file \in PayloadRecord /\ Kept(file) = Kept(m)
      /\ (m.signature # None => file.signature = m.signature)
  BY DEF AnswersWith
<1>1. reply'[r].record = m /\ reply'[r].context = context[r] /\ reply'[r].signature = sig
  BY DEF AnswersWith
<1>2. file \notin {None, Torn}
  BY <1>0, NoneAssumption, TornAssumption
<1>3. m.signature # None => HasCurrentReceipt(m)
  BY DEF AnswersWith
<1>4. Kept(metadata_for(file)) = Kept(m) /\ metadata_for(file).signature = file.signature
  BY <1>0, MetadataKeeps
<1>5. sig # None => m.signature # None /\ sig.receipt = receipt_for_record_with_context(m, context[r])
  <2>1. CASE context[r] = None
    <3>1. sig = m.signature
      BY <2>1 DEF signature_for_context
    <3>2. m.signature # None => m.signature.receipt = receipt_for_record(m)
      BY <1>3 DEF HasCurrentReceipt, signature_is_current_payload_receipt
    <3> QED
      BY <2>1, <3>1, <3>2 DEF receipt_for_record
  <2>2. CASE context[r] # None
    <3>1. sig # None => signer # None /\ sig = sign_receipt(signer, receipt_for_record_with_context(m, context[r]))
      BY <2>2 DEF signature_for_context
    <3>2. signer # None => m.signature # None
      BY DEF AnswersWith, HasCurrentReceipt
    <3> QED
      BY <3>1, <3>2 DEF sign_receipt
  <2> QED
    BY <2>1, <2>2
<1>6. m.signature # None => HasCurrentReceipt(metadata_for(file))
  BY <1>0, <1>3, <1>4, CurrentReceiptKeeps
<1>7. receipt_for_record_with_context(metadata_for(file), context[r])
        = receipt_for_record_with_context(m, context[r])
  BY <1>4 DEF Kept, receipt_for_record_with_context
<1> QED
  BY <1>0, <1>1, <1>2, <1>3, <1>5, <1>6, <1>7

(* While a task creates a payload, no answer speaks of it.                 *)
LEMMA CreatingStep ==
  ASSUME StoreInv, AnswerInv, [Next]_vars, NEW r \in Requests, NEW q \in Requests,
         pc'[r] \in Critical, created'[r], reply'[q] # None
  PROVE  reply'[q].record.id # record'[r].id
<1>0. /\ pc \in [Requests -> {"new", "waiting", "done"} \cup Critical \cup RawReading]
      /\ record \in [Requests -> PayloadRecord \cup PayloadMetadata \cup {None}]
      /\ created \in [Requests -> BOOLEAN]
  BY DEF StoreInv, TypeInv, TypeOK
<1>1. CASE BeginNew(r)
  <2>1. /\ reply' = reply /\ record' = record /\ pc[r] = "waiting" /\ lock = None /\ ~poisoned
        /\ payloads[record[r].id] = None /\ record[r].id \in Ids /\ status = "up"
    BY <1>1 DEF BeginNew, locks, existing, answers, StoreInv, TypeInv, RecordsTyped,
                Submitting, PayloadRecord, LockInv
  <2>2. files[record[r].id] = None
    <3>1. files[record[r].id] # None =>
            files[record[r].id] \in PayloadRecord /\ payloads[record[r].id] = metadata_for(files[record[r].id])
      BY <2>1, IndexIsDisk DEF StoreInv, TypeInv, TypeOK, AddressInv
    <3> QED
      BY <2>1, <3>1, MetadataType, NoneAssumption
  <2>3. files[reply[q].record.id] # None
    BY <2>1 DEF AnswerInv, AcknowledgedIsStored
  <2> QED
    BY <2>1, <2>2, <2>3
<1>2. CASE ~BeginNew(r)
  <2>1. pc[r] \in Critical /\ created[r] /\ record'[r] = record[r]
    <3>0. created[r] => pc[r] \in Critical
      BY DEF StoreInv, WriterInv
    <3>1. CASE Start \/ StartFails \/ Quiet \/ UNCHANGED vars
      BY <3>1 DEF Start, StartFails, load, load_fails, Quiet, vars, locals
    <3>2. CASE Crash
      BY <3>2 DEF Crash
    <3>3. ASSUME NEW p \in Requests, Arrive(p) \/ AnswerKnown(p) \/ LockPanics(p)
                   \/ PersistFails(p) \/ CommitUpgrade(p) \/ CommitNew(p) \/ CommitOverflows(p)
                   \/ RawRecheck(p) \/ RawRead(p)
          PROVE  pc[r] \in Critical /\ created[r] /\ record'[r] = record[r]
      <4>1. p # r
        BY <1>0, <3>3 DEF Arrive, Prepare, Reject, RawLookup, AnswerKnown, LockPanics,
             PersistFails, CommitUpgrade, CommitNew, CommitOverflows, RawRecheck, RawRead,
             Finish, Goto, Critical
      <4> QED
        BY <1>0, <3>0, <3>3, <4>1 DEF Arrive, Prepare, Reject, RawLookup, AnswerKnown,
             LockPanics, PersistFails, CommitUpgrade, CommitNew, CommitOverflows, RawRecheck,
             RawRead, Finish, Goto
    <3>4. ASSUME NEW p \in Requests, OpenTemp(p) \/ FillTemp(p) \/ Rename(p)
          PROVE  pc[r] \in Critical /\ created[r] /\ record'[r] = record[r]
      BY <3>0, <3>4 DEF OpenTemp, FillTemp, Rename
    <3>5. ASSUME NEW p \in Requests, BeginNew(p)
          PROVE  pc[r] \in Critical /\ created[r] /\ record'[r] = record[r]
      BY <1>0, <1>2, <3>0, <3>5 DEF BeginNew, Goto
    <3>6. ASSUME NEW p \in Requests, BeginUpgrade(p)
          PROVE  pc[r] \in Critical /\ created[r] /\ record'[r] = record[r]
      <4>1. pc[p] \notin Critical /\ created' = created
        BY <3>6 DEF BeginUpgrade, locks, Critical
      <4> QED
        BY <1>0, <3>0, <3>6, <4>1 DEF BeginUpgrade
    <3> QED
      BY <3>1, <3>2, <3>3, <3>4, <3>5, <3>6 DEF Next, Step
  <2>2. lock = r
    BY <2>1 DEF StoreInv, LockInv, LockHeldByWriter
  <2>3. reply'[q] = reply[q]
    <3> SUFFICES ASSUME reply'[q] # reply[q] PROVE FALSE
      OBVIOUS
    <3>1. CASE AnswerKnown(q)
      BY <2>2, <3>1, RequestsAssumption DEF AnswerKnown, locks
    <3>2. CASE CommitUpgrade(q) \/ CommitNew(q)
      <4>1. pc[q] \in Critical /\ pc'[q] = "done"
        BY <1>0, <3>2 DEF CommitUpgrade, CommitNew, Finish, Goto, Critical
      <4>2. q = r
        BY <2>2, <4>1 DEF StoreInv, LockInv, LockHeldByWriter
      <4> QED
        BY <4>1, <4>2 DEF Critical
    <3> QED
      BY <3>1, <3>2, OnlyThreeAnswer
  <2> QED
    BY <2>1, <2>3 DEF AnswerInv
<1> QED
  BY <1>1, <1>2

LEMMA AnswerStep == StoreInv /\ AnswerInv /\ [Next]_vars => AnswerInv'
<1> SUFFICES ASSUME StoreInv, AnswerInv, [Next]_vars PROVE AnswerInv'
  OBVIOUS
<1>1. ASSUME NEW r \in Requests, reply'[r] # None
      PROVE  LET m == reply'[r].record IN
               /\ files'[m.id] \notin {None, Torn} /\ Kept(files'[m.id]) = Kept(m)
               /\ m.signature # None =>
                    files'[m.id].signature = m.signature /\ HasCurrentReceipt(m)
               /\ reply'[r].signature # None =>
                    /\ reply'[r].signature.receipt =
                         receipt_for_record_with_context(metadata_for(files'[m.id]), reply'[r].context)
                    /\ HasCurrentReceipt(metadata_for(files'[m.id]))
  <2>1. CASE reply'[r] = reply[r]
    <3>1. reply[r].record.signature # None => HasCurrentReceipt(reply[r].record)
      BY <1>1, <2>1 DEF AnswerInv
    <3> QED
      BY <1>1, <2>1, <3>1, OldAnswerStays
  <2>2. CASE reply'[r] # reply[r]
    BY <2>2, NewAnswer, NewAnswerHolds
  <2> QED
    BY <2>1, <2>2
<1>2. AcknowledgedIsStored'
  BY <1>1 DEF AcknowledgedIsStored
<1>3. ReceiptsAreAboutTheStore'
  BY <1>1 DEF ReceiptsAreAboutTheStore
<1>4. \A r \in Requests : reply'[r] # None /\ reply'[r].record.signature # None =>
        HasCurrentReceipt(reply'[r].record)
  BY <1>1
<1>5. \A r, q \in Requests : pc'[r] \in Critical /\ created'[r] /\ reply'[q] # None =>
        reply'[q].record.id # record'[r].id
  BY CreatingStep
<1> QED
  BY <1>2, <1>3, <1>4, <1>5 DEF AnswerInv

LEMMA Invariant == Spec => []Inv
<1>1. Init => AnswerInv
  BY AnswerInit
<1>2. StoreInv /\ AnswerInv /\ [Next]_vars => AnswerInv'
  BY AnswerStep
<1>3. StoreInv /\ AnswerInv <=> Inv
  BY DEF Inv
<1> QED
  BY <1>1, <1>2, <1>3, StoreInvariant, PTL DEF Spec

(* What a submission was answered with 200 is on disk from then on, with   *)
(* the metadata and the signature of the answer, across kills and starts.  *)
THEOREM AcknowledgementIsDurable == Spec => []AcknowledgedIsStored
<1>1. Inv => AcknowledgedIsStored
  BY DEF Inv, AnswerInv
<1> QED
  BY <1>1, Invariant, PTL

(* Whoever was answered can read the metadata and the stored receipt of    *)
(* that answer again, in this process and in every later one: get and      *)
(* get_payload_signature answer from an index that is the disk.            *)
THEOREM AnswersAreReadAgain == Spec => []AnswersStayReadable
<1>1. Inv => AnswersStayReadable
  <2> SUFFICES ASSUME Inv, Readable, NEW r \in Requests, reply[r] # None
               PROVE  LET m == reply[r].record IN
                        /\ get(m.id) # None /\ Kept(get(m.id)) = Kept(m)
                        /\ m.signature # None => get_payload_signature(m.id) = m.signature
    BY DEF AnswersStayReadable
  <2> DEFINE m == reply[r].record
  <2>1. m.id \in Ids
    BY DEF Inv, StoreInv, TypeInv, TypeOK, SubmitOutcome, PayloadMetadata
  <2>2. /\ files[m.id] \notin {None, Torn}
        /\ Kept(files[m.id]) = Kept(m)
        /\ m.signature # None => files[m.id].signature = m.signature
    BY DEF Inv, AnswerInv, AcknowledgedIsStored
  <2>3. payloads[m.id] = metadata_for(files[m.id])
    BY <2>1, <2>2, IndexIsDisk DEF Inv, Readable
  <2>4. files[m.id] \in PayloadRecord
    BY <2>1, <2>2 DEF Inv, StoreInv, TypeInv, TypeOK
  <2>5. metadata_for(files[m.id]) \in PayloadMetadata
    BY <2>4, MetadataType
  <2>6. metadata_for(files[m.id]) # None
    BY <2>5, NoneAssumption
  <2>7. Kept(metadata_for(files[m.id])) = Kept(files[m.id])
    BY DEF metadata_for, Kept
  <2>8. metadata_for(files[m.id]).signature = files[m.id].signature
    BY DEF metadata_for
  <2> QED
    BY <2>2, <2>3, <2>6, <2>7, <2>8 DEF get, get_payload_signature
<1> QED
  BY <1>1, Invariant, PTL

(* Every receipt that was returned is about the payload as it is stored,   *)
(* with the context of its own request.                                    *)
THEOREM ReceiptsAreTrue == Spec => []ReceiptsAreAboutTheStore
<1>1. Inv => ReceiptsAreAboutTheStore
  BY DEF Inv, AnswerInv
<1> QED
  BY <1>1, Invariant, PTL

(* created: true is said at most once of a payload, by the first answer    *)
(* about it, in all runs of the process together.                          *)
THEOREM CreatedOnce == Spec => CreatedIsFirstAnswer
<1>1. ASSUME Inv, [Next]_vars, NEW r \in Requests, reply'[r] # reply[r], reply'[r].created,
             NEW q \in Requests \ {r}, reply[q] # None
      PROVE  reply[q].record.id # reply'[r].record.id
  <2>1. PICK m : AnswersWith(r, m)
    BY <1>1, NewAnswer DEF Inv
  <2>2. created[r] /\ pc[r] \in Critical /\ reply'[r].record.id = record[r].id
    BY <1>1, <2>1 DEF AnswersWith, Critical
  <2> QED
    BY <1>1, <2>2 DEF Inv, AnswerInv
<1>2. Inv /\ [Next]_vars =>
        [\A r \in Requests : reply'[r] # reply[r] /\ reply'[r].created =>
           \A q \in Requests \ {r} :
             reply[q] # None => reply[q].record.id # reply'[r].record.id]_vars
  BY <1>1
<1> QED
  BY <1>2, Invariant, PTL DEF Spec, CreatedIsFirstAnswer

(* A process with a key answers no submission without a receipt, neither   *)
(* in the answer nor in the metadata it shows.                             *)
THEOREM SignedAnswers == Spec => SigningServerSigns
<1>1. ASSUME Inv, [Next]_vars, NEW r \in Requests, reply'[r] # reply[r], signer # None
      PROVE  reply'[r].signature # None /\ reply'[r].record.signature # None
  <2>1. PICK m : AnswersWith(r, m)
    BY <1>1, NewAnswer DEF Inv
  <2>2. /\ m \in PayloadMetadata /\ m.signature # None /\ reply'[r].record = m
        /\ reply'[r].signature = signature_for_context(m, context[r], signer)
    BY <1>1, <2>1 DEF AnswersWith, HasCurrentReceipt
  <2>3. signer \in Keys /\ context[r] \in Contexts \cup {None}
    BY <1>1 DEF Inv, StoreInv, TypeInv, TypeOK
  <2>4. sign_receipt(signer, receipt_for_record_with_context(m, context[r])) \in PayloadSignature
    BY <2>2, <2>3, ReceiptType DEF sign_receipt, PayloadSignature
  <2> QED
    BY <1>1, <2>2, <2>4, NoneAssumption DEF signature_for_context
<1>2. Inv /\ [Next]_vars =>
        [\A r \in Requests : reply'[r] # reply[r] /\ signer # None =>
           reply'[r].signature # None /\ reply'[r].record.signature # None]_vars
  BY <1>1
<1> QED
  BY <1>2, Invariant, PTL DEF Spec, SigningServerSigns

(* ---------------------------- raw reads -------------------------------- *)

ServedInv ==
  /\ RawServesStoredBytes
  /\ \A r \in Requests : served[r] # None => served[r].id \in Ids

LEMMA ServedStep == StoreInv /\ ServedInv /\ [Next]_vars => ServedInv'
<1> SUFFICES ASSUME StoreInv, ServedInv, [Next]_vars, NEW r \in Requests, served'[r] # None
             PROVE  LET id == served'[r].id IN
                      /\ id \in Ids /\ files'[id] \notin {None, Torn}
                      /\ served'[r].body = files'[id].body
                      /\ served'[r].contentType = files'[id].contentType
                      /\ id = payload_id(files'[id].namespace, served'[r].body)
  BY DEF ServedInv, RawServesStoredBytes
<1> DEFINE id == served'[r].id
<1>0. served \in [Requests -> RawResponse \cup {None}]
  BY DEF StoreInv, TypeInv, TypeOK
<1>1. CASE served'[r] = served[r]
  <2>1. /\ id \in Ids /\ files[id] \notin {None, Torn}
        /\ served[r].body = files[id].body
        /\ served[r].contentType = files[id].contentType
        /\ id = payload_id(files[id].namespace, served[r].body)
    BY <1>1 DEF ServedInv, RawServesStoredBytes
  <2>2. /\ files'[id] \notin {None, Torn} /\ files'[id].body = files[id].body
        /\ files'[id].contentType = files[id].contentType
        /\ files'[id].namespace = files[id].namespace
    BY <2>1, WriteKeeps DEF Kept
  <2> QED
    BY <1>1, <2>1, <2>2
<1>2. CASE served'[r] # served[r]
  <2>1. PICK q \in Requests : RawRead(q)
    BY <1>2 DEF Next, Start, StartFails, load, load_fails, Crash, Arrive, Prepare, Reject,
         RawLookup, Step, AnswerKnown, BeginUpgrade, BeginNew, OpenTemp, FillTemp, Rename,
         PersistFails, CommitUpgrade, CommitNew, CommitOverflows, LockPanics, RawRecheck,
         Quiet, vars, answers
  <2>2. q = r
    BY <1>0, <1>2, <2>1 DEF RawRead
  <2> DEFINE file == files[record[r].id]
  <2>3. /\ pc[r] \in RawReading /\ record[r] \in PayloadMetadata /\ record[r].id \in Ids
        /\ files' = files
        /\ served'[r] = [id |-> record[r].id, contentType |-> record[r].contentType,
                         body |-> IF file \in {None, Torn} THEN None ELSE file.body]
    BY <1>0, <2>1, <2>2 DEF RawRead, RawReading, disk, StoreInv, TypeInv, RecordsTyped,
         PayloadMetadata
  <2>4. /\ file \notin {None, Torn} /\ file.contentType = record[r].contentType
        /\ file.namespace = record[r].id[1] /\ file.body = record[r].id[2]
    BY <2>3 DEF StoreInv, ReaderInv, AddressInv, Addressed
  <2>5. record[r].id = payload_id(file.namespace, file.body)
    BY <2>3, <2>4 DEF payload_id, Ids
  <2> QED
    BY <2>3, <2>4, <2>5
<1> QED
  BY <1>1, <1>2

(* A raw response is the bytes its id was computed from under the stored   *)
(* content type, although the file is read without the lock.               *)
THEOREM RawReadsAreWhole == Spec => []RawServesStoredBytes
<1>1. Init => ServedInv
  BY DEF Init, ServedInv, RawServesStoredBytes
<1>2. StoreInv /\ ServedInv /\ [Next]_vars => ServedInv'
  BY ServedStep
<1>3. ServedInv => RawServesStoredBytes
  BY DEF ServedInv
<1> QED
  BY <1>1, <1>2, <1>3, StoreInvariant, PTL DEF Spec

(* --------------------------- poisoning --------------------------------- *)

(* While the process whose mutex is poisoned runs, it stores nothing,      *)
(* lists nothing new and answers no submission.                            *)
THEOREM PoisonStays == Spec => PoisonIsFinal
<1>1. ASSUME StoreInv, [Next]_vars, poisoned, status' = "up"
      PROVE  poisoned' /\ UNCHANGED <<index, reply, files>>
  <2>1. status = "up" /\ \A r \in Requests : pc[r] \notin Critical
    BY <1>1, RequestsAssumption DEF StoreInv, LockInv, LockHeldByWriter
  <2>2. CASE Start \/ StartFails
    BY <2>1, <2>2 DEF Start, StartFails, load, load_fails
  <2>3. CASE Crash
    BY <1>1, <2>3 DEF Crash
  <2>4. ASSUME NEW r \in Requests, Arrive(r) \/ LockPanics(r) \/ RawRecheck(r) \/ RawRead(r)
        PROVE  poisoned' /\ UNCHANGED <<index, reply, files>>
    BY <1>1, <2>4 DEF Arrive, Prepare, Reject, RawLookup, LockPanics, RawRecheck, RawRead,
         disk, index, mutex, answers
  <2>5. ASSUME NEW r \in Requests, AnswerKnown(r) \/ BeginUpgrade(r) \/ BeginNew(r)
        PROVE  FALSE
    BY <1>1, <2>5 DEF AnswerKnown, BeginUpgrade, BeginNew, locks
  <2>6. ASSUME NEW r \in Requests, OpenTemp(r) \/ FillTemp(r) \/ Rename(r) \/ PersistFails(r)
                 \/ CommitUpgrade(r) \/ CommitNew(r) \/ CommitOverflows(r)
        PROVE  FALSE
    BY <2>1, <2>6 DEF OpenTemp, FillTemp, Rename, PersistFails, CommitUpgrade, CommitNew,
         CommitOverflows, Critical
  <2>7. CASE Quiet \/ UNCHANGED vars
    BY <1>1, <2>7 DEF Quiet, vars, disk, mutex, answers
  <2> QED
    BY <1>1, <2>2, <2>3, <2>4, <2>5, <2>6, <2>7 DEF Next, Step
<1>2. StoreInv /\ [Next]_vars =>
        [poisoned /\ status' = "up" => poisoned' /\ UNCHANGED <<index, reply, files>>]_vars
  BY <1>1
<1> QED
  BY <1>2, StoreInvariant, PTL DEF Spec, PoisonIsFinal

(* ----------------- the list, the count and the total ------------------- *)

(* The bytes of finitely many payloads are finitely many.                  *)
LEMMA BytesType ==
  ASSUME NEW ids, ids \subseteq Ids
  PROVE  /\ IsFiniteSet(UNION {{id} \X (1 .. SizeOf[id[2]]) : id \in ids})
         /\ BytesOf(ids) \in Nat
<1> DEFINE bytes(id) == {id} \X (1 .. SizeOf[id[2]])
           family == {bytes(id) : id \in ids}
           f == [id \in ids |-> bytes(id)]
<1>1. ASSUME NEW id \in ids
      PROVE  IsFiniteSet(bytes(id))
  <2>1. SizeOf[id[2]] \in Nat
    BY SizeAssumption DEF Ids
  <2>2. 1 \in Int /\ SizeOf[id[2]] \in Int
    BY <2>1
  <2>3. IsFiniteSet(1 .. SizeOf[id[2]])
    BY <2>2, FS_Interval
  <2>4. IsFiniteSet({id})
    BY FS_Singleton
  <2> QED
    BY <2>3, <2>4, FS_Product
<1>2. IsFiniteSet(ids)
  BY IdsAssumption, FS_Subset
<1>3. f \in Surjection(ids, family)
  BY DEF Surjection
<1>4. IsFiniteSet(family)
  BY <1>2, <1>3, FS_Surjection
<1>5. IsFiniteSet(UNION family)
  BY <1>1, <1>4, FS_UNION
<1> QED
  BY <1>5, FS_CardinalityType DEF BytesOf

(* One payload more: its bytes are added, once.                            *)
LEMMA BytesAdd ==
  ASSUME NEW ids, ids \subseteq Ids, NEW new \in Ids, new \notin ids
  PROVE  BytesOf(ids \cup {new}) = BytesOf(ids) + SizeOf[new[2]]
<1> DEFINE bytes(id) == {id} \X (1 .. SizeOf[id[2]])
           old == UNION {bytes(id) : id \in ids}
<1>1. SizeOf[new[2]] \in Nat
  BY SizeAssumption DEF Ids
<1>2. IsFiniteSet(bytes(new)) /\ Cardinality(bytes(new)) = SizeOf[new[2]]
  <2> DEFINE n == SizeOf[new[2]]
  <2>1. n \in Nat
    BY <1>1
  <2> HIDE DEF n
  <2>2. IsFiniteSet(1 .. n) /\ Cardinality(1 .. n) = n
    <3>1. 1 \in Int /\ n \in Int /\ (IF 1 > n THEN 0 ELSE n - 1 + 1) = n
      BY <2>1
    <3> QED
      BY <3>1, FS_Interval
  <2>3. IsFiniteSet({new}) /\ Cardinality({new}) = 1
    BY FS_Singleton
  <2>4. /\ IsFiniteSet({new} \X (1 .. n))
        /\ Cardinality({new} \X (1 .. n)) = Cardinality({new}) * Cardinality(1 .. n)
    BY <2>2, <2>3, FS_Product
  <2>5. 1 * n = n
    BY <2>1
  <2> QED
    BY <2>2, <2>3, <2>4, <2>5 DEF n
<1>3. IsFiniteSet(old) /\ BytesOf(ids) = Cardinality(old) /\ BytesOf(ids) \in Nat
  BY BytesType DEF BytesOf
<1>4. UNION {bytes(id) : id \in ids \cup {new}} = old \cup bytes(new)
  OBVIOUS
<1>5. old \cap bytes(new) = {}
  OBVIOUS
<1>6. Cardinality(old \cup bytes(new)) = Cardinality(old) + Cardinality(bytes(new))
  <2>1. /\ Cardinality(old \cup bytes(new))
             = Cardinality(old) + Cardinality(bytes(new)) - Cardinality(old \cap bytes(new))
    BY <1>2, <1>3, FS_Union
  <2>2. Cardinality(old \cap bytes(new)) = 0
    BY <1>5, FS_EmptySet
  <2> QED
    BY <1>1, <1>2, <1>3, <2>1, <2>2
<1> QED
  BY <1>2, <1>3, <1>4, <1>6 DEF BytesOf

(* No set of payloads has more bytes than one that contains it.            *)
LEMMA BytesMonotone ==
  ASSUME NEW ids, NEW more, ids \subseteq more, more \subseteq Ids
  PROVE  BytesOf(ids) <= BytesOf(more)
<1> DEFINE bytes(id) == {id} \X (1 .. SizeOf[id[2]])
<1>1. UNION {bytes(id) : id \in ids} \subseteq UNION {bytes(id) : id \in more}
  OBVIOUS
<1>2. IsFiniteSet(UNION {bytes(id) : id \in more})
  BY BytesType
<1> QED
  BY <1>1, <1>2, FS_Subset DEF BytesOf

(* What load adds up.                                                      *)
LEMMA StoredBytes ==
  ASSUME AddressInv
  PROVE  stored_ids \subseteq Ids /\ stored_bytes = BytesOf(stored_ids)
<1>1. {i \in stored_ids : files[i] # Torn} = stored_ids
  BY DEF AddressInv, stored_ids
<1>2. \A id \in stored_ids : files[id].sizeBytes = SizeOf[id[2]]
  BY DEF AddressInv, stored_ids, Addressed
<1>3. {{id} \X (1 .. files[id].sizeBytes) : id \in stored_ids}
        = {{id} \X (1 .. SizeOf[id[2]]) : id \in stored_ids}
  BY <1>2
<1>4. stored_ids \subseteq Ids
  BY DEF stored_ids
<1> QED
  BY <1>1, <1>3, <1>4 DEF stored_bytes, BytesOf

(* A list that names each member of a set once, and one more in front.     *)
LEMMA ListPrepend ==
  ASSUME NEW S, IsFiniteSet(S), NEW x, x \notin S, NEW order \in SetToSeqs(S)
  PROVE  <<x>> \o order \in SetToSeqs(S \cup {x})
<1> DEFINE n == Cardinality(S)
           longer == <<x>> \o order
<1>1. n \in Nat /\ Cardinality(S \cup {x}) = n + 1
  BY FS_CardinalityType, FS_AddElement
<1>2. order \in [1..n -> S] /\ \A i, j \in 1..n : i # j => order[i] # order[j]
  BY DEF SetToSeqs
<1> HIDE DEF n
<1>3. order \in Seq(S) /\ Len(order) = n
  BY <1>1, <1>2
<1>4. /\ longer \in [1..(n + 1) -> S \cup {x}] /\ longer[1] = x
      /\ \A i \in 2..(n + 1) : longer[i] = order[i - 1]
  <2>1. longer \in Seq(S \cup {x}) /\ Len(longer) = n + 1
    BY <1>1, <1>3
  <2>2. \A i \in 1..(n + 1) : longer[i] = IF i = 1 THEN x ELSE order[i - 1]
    BY <1>1, <1>3
  <2> HIDE DEF longer
  <2>3. longer \in [1..(n + 1) -> S \cup {x}]
    BY <1>1, <2>1
  <2>4. longer[1] = x /\ \A i \in 2..(n + 1) : longer[i] = order[i - 1]
    BY <1>1, <2>2
  <2> QED
    BY <2>3, <2>4
<1>5. \A i, j \in 1..(n + 1) : i # j => longer[i] # longer[j]
  <2> SUFFICES ASSUME NEW i \in 1..(n + 1), NEW j \in 1..(n + 1), i # j, longer[i] = longer[j]
               PROVE  FALSE
    OBVIOUS
  <2>1. CASE i = 1
    BY <1>1, <1>2, <1>4, <2>1
  <2>2. CASE j = 1
    BY <1>1, <1>2, <1>4, <2>2
  <2>3. CASE i # 1 /\ j # 1
    <3>1. /\ i - 1 \in 1..n /\ j - 1 \in 1..n /\ i - 1 # j - 1
          /\ longer[i] = order[i - 1] /\ longer[j] = order[j - 1]
      BY <1>1, <1>4, <2>3
    <3> QED
      BY <1>2, <3>1
  <2> QED
    BY <2>1, <2>2, <2>3
<1>6. SetToSeqs(S \cup {x}) =
        {f \in [1..(n + 1) -> S \cup {x}] : \A i, j \in 1..(n + 1) : i # j => f[i] # f[j]}
  BY <1>1 DEF SetToSeqs
<1> HIDE DEF longer
<1>7. longer \in SetToSeqs(S \cup {x})
  BY <1>4, <1>5, <1>6
<1> QED
  BY <1>7 DEF longer

LEMMA KnownType == known \subseteq Ids /\ IsFiniteSet(known)
<1>1. known \subseteq Ids
  BY DEF known
<1> QED
  BY <1>1, IdsAssumption, FS_Subset

LEMMA InventoryInit == Init => InventoryInv
  BY DEF Init, InventoryInv

(* load, and the commit of a new payload, are the only steps that change   *)
(* which payloads are known; a commit of an upgrade replaces one.          *)
LEMMA InventoryStep == StoreInv /\ InventoryInv /\ [Next]_vars => InventoryInv'
<1> SUFFICES ASSUME StoreInv, InventoryInv, [Next]_vars PROVE InventoryInv'
  OBVIOUS
<1> USE DEF disk, process, index, mutex, locals, answers
<1>0. /\ TypeOK /\ AddressInv
      /\ payloads \in [Ids -> PayloadMetadata \cup {None}]
      /\ files \in [Ids -> PayloadRecord \cup {None, Torn}]
  BY DEF StoreInv, TypeInv, TypeOK
<1>1. ASSUME NEW limit \in Limits, NEW key \in Keys \cup {None}, load(limit, key)
      PROVE  InventoryInv'
  <2>1. \A id \in Ids : files[id] # None => metadata_for(files[id]) # None
    BY <1>0, MetadataType, NoneAssumption DEF AddressInv
  <2>2. known' = stored_ids
    BY <1>1, <2>1 DEF load, known, stored_ids
  <2>3. newest_first' \in SetToSeqs(stored_ids) /\ total_bytes' = BytesOf(stored_ids)
    BY <1>0, <1>1, StoredBytes DEF load
  <2> QED
    BY <2>2, <2>3 DEF InventoryInv
<1>2. ASSUME NEW limit \in Limits, load_fails(limit)
      PROVE  InventoryInv'
  BY <1>2 DEF load_fails, InventoryInv
<1>3. CASE Crash
  BY <1>3 DEF Crash, InventoryInv
<1>4. ASSUME NEW r \in Requests, CommitUpgrade(r) \/ CommitNew(r)
      PROVE  /\ status = "up" /\ record[r].id \in Ids /\ record[r].sizeBytes = SizeOf[record[r].id[2]]
             /\ (payloads[record[r].id] = None <=> created[r])
             /\ known' = known \cup {record[r].id}
  <2>1. pc[r] = "commit" /\ pc[r] \in Critical /\ record[r] \in PayloadRecord /\ record[r].id \in Ids
    BY <1>4 DEF CommitUpgrade, CommitNew, Critical, StoreInv, TypeInv, RecordsTyped, Submitting,
         PayloadRecord
  <2>2. metadata_for(record[r]) # None
    BY <2>1, MetadataType, NoneAssumption
  <2>3. payloads' = [payloads EXCEPT ![record[r].id] = metadata_for(record[r])]
    BY <1>4 DEF CommitUpgrade, CommitNew, insert
  <2>4. known' = known \cup {record[r].id}
    BY <1>0, <2>1, <2>2, <2>3 DEF known
  <2>5. status = "up"
    BY <2>1 DEF StoreInv, LockInv, Critical
  <2>6. payloads[record[r].id] = None <=> created[r]
    BY <2>1 DEF StoreInv, WriterInv
  <2>7. record[r].sizeBytes = SizeOf[record[r].id[2]]
    BY <1>0, <2>1 DEF AddressInv, Addressed, Submitting
  <2> QED
    BY <2>1, <2>4, <2>5, <2>6, <2>7
<1>5. ASSUME NEW r \in Requests, CommitUpgrade(r)
      PROVE  InventoryInv'
  <2>1. known' = known
    BY <1>4, <1>5 DEF CommitUpgrade, known
  <2> QED
    BY <1>4, <1>5, <2>1 DEF CommitUpgrade, InventoryInv
<1>6. ASSUME NEW r \in Requests, CommitNew(r)
      PROVE  InventoryInv'
  <2>1. /\ status = "up" /\ record[r].id \in Ids /\ record[r].id \notin known
        /\ known' = known \cup {record[r].id}
        /\ record[r].sizeBytes = SizeOf[record[r].id[2]]
    BY <1>4, <1>6 DEF CommitNew, known
  <2>2. newest_first \in SetToSeqs(known) /\ total_bytes = BytesOf(known)
    BY <2>1 DEF InventoryInv
  <2>3. newest_first' \in SetToSeqs(known')
    BY <1>6, <2>1, <2>2, KnownType, ListPrepend DEF CommitNew
  <2>4. total_bytes' = BytesOf(known')
    BY <1>6, <2>1, <2>2, KnownType, BytesAdd DEF CommitNew
  <2> QED
    BY <2>3, <2>4 DEF InventoryInv
<1>7. ASSUME NEW r \in Requests,
             Arrive(r) \/ AnswerKnown(r) \/ BeginUpgrade(r) \/ BeginNew(r) \/ OpenTemp(r)
             \/ FillTemp(r) \/ Rename(r) \/ PersistFails(r) \/ CommitOverflows(r)
             \/ LockPanics(r) \/ RawRecheck(r) \/ RawRead(r)
      PROVE  InventoryInv'
  <2>1. UNCHANGED <<status, payloads, newest_first, total_bytes>>
    BY <1>7 DEF Arrive, Prepare, Reject, RawLookup, AnswerKnown, BeginUpgrade, BeginNew, OpenTemp,
         FillTemp, Rename, PersistFails, CommitOverflows, LockPanics, RawRecheck, RawRead
  <2> QED
    BY <2>1 DEF InventoryInv, known
<1>8. CASE Quiet \/ UNCHANGED vars
  BY <1>8 DEF Quiet, vars, InventoryInv, known
<1> QED
  BY <1>1, <1>2, <1>3, <1>5, <1>6, <1>7, <1>8 DEF Next, Start, StartFails, Step

LEMMA InventoryInvariant == Spec => [](StoreInv /\ InventoryInv)
<1>1. StoreInv /\ InventoryInv /\ [Next]_vars => InventoryInv'
  BY InventoryStep
<1> QED
  BY <1>1, InventoryInit, StoreInvariant, PTL DEF Spec

(* Whenever the index can be read, it knows what is stored.                *)
LEMMA KnownIsStored ==
  ASSUME StoreInv, Readable
  PROVE  /\ known = stored_ids
         /\ \A id \in known : payloads[id] = metadata_for(files[id]) /\ payloads[id].id = id
<1>1. ASSUME NEW id \in Ids
      PROVE  /\ payloads[id] = None <=> files[id] = None
             /\ payloads[id] # None => payloads[id] = metadata_for(files[id])
  <2>1. payloads[id] = IF files[id] = None THEN None ELSE metadata_for(files[id])
    BY IndexIsDisk DEF Readable
  <2>2. files[id] # None => metadata_for(files[id]) # None
    BY MetadataType, NoneAssumption DEF StoreInv, AddressInv, TypeInv, TypeOK
  <2> QED
    BY <2>1, <2>2
<1>2. \A id \in known : payloads[id].id = id
  BY DEF known, StoreInv, AddressInv, Addressed
<1> QED
  BY <1>1, <1>2 DEF known, stored_ids

(* The byte total that is shown is that of the files, and so a usize: the  *)
(* process whose total overflowed shows nothing any more.                  *)
THEOREM OverflowIsNeverShown == Spec => []OverflowEndsService
<1>1. StoreInv /\ InventoryInv => OverflowEndsService
  <2> SUFFICES ASSUME StoreInv, InventoryInv, Readable PROVE fits(stored_bytes)
    BY DEF OverflowEndsService
  <2>1. total_bytes = BytesOf(known)
    BY DEF InventoryInv, Readable
  <2>2. stored_bytes = total_bytes
    BY <2>1, KnownIsStored, StoredBytes DEF StoreInv
  <2> QED
    BY <2>2 DEF fits, StoreInv, TypeInv, TypeOK
<1> QED
  BY <1>1, InventoryInvariant, PTL

LEMMA IntervalCount ==
  ASSUME NEW n \in Nat
  PROVE  IsFiniteSet(1 .. n) /\ Cardinality(1 .. n) = n
<1>1. 1 \in Int /\ n \in Int /\ (IF 1 > n THEN 0 ELSE n - 1 + 1) = n
  OBVIOUS
<1> QED
  BY <1>1, FS_Interval

LEMMA MinOfTwo ==
  ASSUME NEW a \in Nat, NEW b \in Nat
  PROVE  Min({a, b}) = IF a <= b THEN a ELSE b
<1> DEFINE least == IF a <= b THEN a ELSE b
<1>1. least \in {a, b} /\ \A y \in {a, b} : least =< y
  OBVIOUS
<1>2. \A x \in {a, b} : (\A y \in {a, b} : x =< y) => x = least
  OBVIOUS
<1> QED
  BY <1>1, <1>2 DEF Min

(* The list that snapshot makes is a beginning of newest_first.            *)
LEMMA SnapshotIs ==
  ASSUME StoreInv, InventoryInv, Readable, NEW limit \in Nat
  PROVE  LET count == Cardinality(known)
             shown == IF limit <= count THEN limit ELSE count
         IN /\ count \in Nat
            /\ newest_first \in [1 .. count -> known]
            /\ \A i, j \in 1 .. count : i # j => newest_first[i] # newest_first[j]
            /\ snapshot(limit) =
                 [payload_count |-> count, total_bytes |-> total_bytes,
                  latest |-> [k \in 1 .. shown |-> summarize(payloads[newest_first[k]])]]
<1> DEFINE count == Cardinality(known)
           shown == IF limit <= count THEN limit ELSE count
           listed == {i \in DOMAIN newest_first :
                        i <= limit /\ payloads[newest_first[i]] # None}
           nth(k) == CHOOSE i \in listed : Cardinality({j \in listed : j <= i}) = k
<1>1. count \in Nat
  BY KnownType, FS_CardinalityType
<1>2. /\ newest_first \in [1 .. count -> known]
      /\ \A i, j \in 1 .. count : i # j => newest_first[i] # newest_first[j]
  BY DEF InventoryInv, Readable, SetToSeqs
<1> HIDE DEF count
<1>3. shown \in Nat /\ listed = 1 .. shown
  BY <1>1, <1>2 DEF known
<1> HIDE DEF listed, shown
<1>4. Cardinality(listed) = shown
  BY <1>3, IntervalCount
<1>5. ASSUME NEW i \in listed
      PROVE  Cardinality({j \in listed : j <= i}) = i
  <2>1. i \in Nat /\ {j \in listed : j <= i} = 1 .. i
    BY <1>3, <1>5
  <2> QED
    BY <2>1, IntervalCount
<1>6. ASSUME NEW k \in 1 .. shown
      PROVE  nth(k) = k
  <2>1. k \in listed /\ \A i \in listed : Cardinality({j \in listed : j <= i}) = k <=> i = k
    BY <1>3, <1>5, <1>6
  <2> QED
    BY <2>1
<1>7. snapshot(limit) =
        [payload_count |-> count, total_bytes |-> total_bytes,
         latest |-> [k \in 1 .. Cardinality(listed) |-> summarize(payloads[newest_first[nth(k)]])]]
  BY DEF snapshot, listed, count, known
<1> HIDE DEF nth
<1>8. [k \in 1 .. Cardinality(listed) |-> summarize(payloads[newest_first[nth(k)]])]
        = [k \in 1 .. shown |-> summarize(payloads[newest_first[k]])]
  BY <1>4, <1>6
<1> QED
  BY <1>1, <1>2, <1>7, <1>8 DEF count, shown

(* What is listed, counted and totalled is what is on disk: in every state *)
(* in which the index can be read, for a list of any length.               *)
THEOREM InventoryIsExact == Spec => []InventoryExact
<1>1. ASSUME StoreInv, InventoryInv, Readable, NEW limit \in 0 .. Cardinality(Ids)
      PROVE  LET s == snapshot(limit)
                 ids == [i \in DOMAIN s.latest |-> s.latest[i].id]
             IN /\ s.payload_count = Cardinality(stored_ids) /\ s.total_bytes = stored_bytes
                /\ Len(s.latest) = Min({limit, s.payload_count}) /\ IsInjective(ids)
                /\ \A i \in DOMAIN ids : s.latest[i] = summarize(metadata_for(files[ids[i]]))
  <2> DEFINE count == Cardinality(known)
             shown == IF limit <= count THEN limit ELSE count
             s == snapshot(limit)
             ids == [i \in DOMAIN s.latest |-> s.latest[i].id]
  <2>0. limit \in Nat
    BY <1>1, IdsAssumption, FS_CardinalityType
  <2>1. /\ count \in Nat
        /\ newest_first \in [1 .. count -> known]
        /\ \A i, j \in 1 .. count : i # j => newest_first[i] # newest_first[j]
        /\ s = [payload_count |-> count, total_bytes |-> total_bytes,
                latest |-> [k \in 1 .. shown |-> summarize(payloads[newest_first[k]])]]
    BY <1>1, <2>0, SnapshotIs
  <2>2. s.payload_count = Cardinality(stored_ids) /\ s.total_bytes = stored_bytes
    <3>1. known = stored_ids
      BY <1>1, KnownIsStored
    <3>2. total_bytes = stored_bytes
      BY <1>1, <3>1, StoredBytes DEF InventoryInv, Readable, StoreInv
    <3> QED
      BY <2>1, <3>1, <3>2
  <2> HIDE DEF count, s
  <2>3. shown \in Nat /\ shown <= count
    BY <2>0, <2>1
  <2>4. s.payload_count = count /\ s.latest = [k \in 1 .. shown |-> summarize(payloads[newest_first[k]])]
    BY <2>1
  <2>5. Len(s.latest) = Min({limit, s.payload_count})
    <3>1. Len(s.latest) = shown
      BY <2>3, <2>4
    <3>2. Min({limit, s.payload_count}) = shown
      BY <2>0, <2>1, <2>4, MinOfTwo
    <3> QED
      BY <3>1, <3>2
  <2>6. ASSUME NEW i \in 1 .. shown
        PROVE  /\ s.latest[i] = summarize(metadata_for(files[newest_first[i]]))
               /\ s.latest[i].id = newest_first[i]
    <3>1. newest_first[i] \in known
      BY <2>1, <2>3, <2>6
    <3>2. /\ payloads[newest_first[i]] = metadata_for(files[newest_first[i]])
          /\ payloads[newest_first[i]].id = newest_first[i]
          /\ payloads[newest_first[i]] \in PayloadMetadata
      BY <1>1, <3>1, KnownIsStored DEF known, StoreInv, TypeInv, TypeOK
    <3>3. summarize(payloads[newest_first[i]]).id = payloads[newest_first[i]].id
      BY <3>2 DEF summarize, PayloadMetadata
    <3> QED
      BY <2>4, <2>6, <3>2, <3>3
  <2>7. ids = [i \in 1 .. shown |-> newest_first[i]]
    BY <2>4, <2>6
  <2> HIDE DEF ids
  <2>8. IsInjective(ids)
    BY <2>1, <2>3, <2>7 DEF IsInjective
  <2>9. \A i \in DOMAIN ids : s.latest[i] = summarize(metadata_for(files[ids[i]]))
    BY <2>6, <2>7
  <2> QED
    BY <2>2, <2>5, <2>8, <2>9 DEF s, ids
<1>2. StoreInv /\ InventoryInv => InventoryExact
  BY <1>1 DEF InventoryExact
<1> QED
  BY <1>2, InventoryInvariant, PTL

(* ----------------------- what loads again ------------------------------ *)

(* Sizes are bounded, so among the limits there is a largest.              *)
LEMMA LargestLimit ==
  ASSUME NEW limit \in Limits
  PROVE  Max(Limits) \in Limits /\ limit <= Max(Limits)
<1> DEFINE Below == OpToRel(<, Nat)
           distance == {USIZE_MAX - l : l \in Limits}
<1>1. USIZE_MAX \in Nat /\ \A l \in Limits : l \in Nat /\ l <= USIZE_MAX
  BY LimitsAssumption, BoundsAssumption
<1>2. distance \subseteq Nat /\ distance # {}
  BY <1>1
<1>3. \E x \in distance : \A y \in distance : ~(<<y, x>> \in Below)
  BY <1>2, NatLessThanWellFounded, WFMin
<1>4. PICK m \in Limits : \A l \in Limits : ~(<<USIZE_MAX - l, USIZE_MAX - m>> \in Below)
  BY <1>3
<1>5. \A l \in Limits : m >= l
  <2> SUFFICES ASSUME NEW l \in Limits, ~(m >= l) PROVE FALSE
    OBVIOUS
  <2>1. USIZE_MAX - l \in Nat /\ USIZE_MAX - m \in Nat /\ USIZE_MAX - l < USIZE_MAX - m
    BY <1>1
  <2> QED
    BY <1>4, <2>1 DEF OpToRel
<1>6. Max(Limits) \in Limits /\ \A l \in Limits : Max(Limits) >= l
  BY <1>5 DEF Max
<1> QED
  BY <1>1, <1>6

(* A record that a task is going to store passes what load demands.        *)
LEMMA SubmittingLoads ==
  ASSUME StoreInv, SizesInv, NEW r \in Requests, pc[r] \in Submitting
  PROVE  validate_stored_record(record[r], Max(Limits))
<1>1. record[r] \in PayloadRecord /\ record[r].id \in Ids
  BY DEF StoreInv, TypeInv, RecordsTyped, PayloadRecord
<1>2. Addressed(record[r].id, record[r]) /\ record[r].body = record[r].id[2]
  BY DEF StoreInv, AddressInv
<1>3. record[r].sizeBytes = SizeOf[record[r].body] /\ record[r].id = payload_id(record[r].namespace, record[r].body)
  BY <1>1, <1>2 DEF Addressed, payload_id, Ids
<1>4. SizeOf[record[r].body] <= Max(Limits)
  BY DEF SizesInv
<1>5. record[r].signature # None => validate_payload_signature(metadata_for(record[r]), record[r].signature)
  <2>1. HasCurrentReceipt(metadata_for(record[r])) \/ metadata_for(record[r]).signature = None
    BY DEF StoreInv, SigningInv
  <2>2. metadata_for(record[r]).signature = record[r].signature
    BY <1>1, MetadataKeeps
  <2> QED
    BY <2>1, <2>2 DEF HasCurrentReceipt, signature_is_current_payload_receipt
<1> QED
  BY <1>3, <1>4, <1>5 DEF validate_stored_record

LEMMA SizesStep == StoreInv /\ SizesInv /\ [Next]_vars => SizesInv'
<1> SUFFICES ASSUME StoreInv, SizesInv, [Next]_vars PROVE SizesInv'
  OBVIOUS
<1>0. /\ TypeOK /\ signer \in Keys \cup {None}
      /\ pc \in [Requests -> {"new", "waiting", "done"} \cup Critical \cup RawReading]
      /\ record \in [Requests -> PayloadRecord \cup PayloadMetadata \cup {None}]
      /\ files \in [Ids -> PayloadRecord \cup {None, Torn}]
  BY DEF StoreInv, TypeInv, TypeOK
<1>1. ASSUME NEW id \in Ids, files'[id] # None
      PROVE  validate_stored_record(files'[id], Max(Limits))
  <2>1. CASE files'[id] = files[id]
    BY <1>1, <2>1 DEF SizesInv
  <2>2. CASE files'[id] # files[id]
    <3>1. PICK r \in Requests : Rename(r)
      BY <2>2, OnlyRenameWrites
    <3>2. id = record[r].id /\ pc[r] \in Submitting
      BY <1>0, <2>2, <3>1 DEF Rename, Submitting, Critical
    <3>3. files'[id] = record[r]
      BY <3>1, <3>2, RenameSigns
    <3> QED
      BY <3>2, <3>3, SubmittingLoads
  <2> QED
    BY <2>1, <2>2
<1>2. ASSUME NEW r \in Requests, pc'[r] \in Submitting
      PROVE  SizeOf[record'[r].body] <= Max(Limits)
  <2> USE DEF locals, Goto, Finish, Submitting, Critical, RawReading
  <2>1. CASE Prepare(r)
    <3>1. PICK ns \in Namespaces, bytes \in Bodies, ctype \in ContentTypes \cup {None}, now \in Times :
            /\ SizeOf[bytes] <= max_payload_bytes
            /\ record' = [record EXCEPT ![r] =
                  signed_record(metadata_for(record_for(ns, bytes, ctype, now)), bytes)]
      BY <2>1 DEF Prepare
    <3>2. record'[r].body = bytes
      <4>1. metadata_for(record_for(ns, bytes, ctype, now)) \in PayloadMetadata
        BY RecordType, MetadataType
      <4> QED
        BY <1>0, <3>1, <4>1, SignedRecordKeeps
    <3>3. SizeOf[bytes] \in Nat \ {0} /\ max_payload_bytes \in Limits \cup {0}
      BY <1>0, SizeAssumption DEF TypeOK
    <3>4. max_payload_bytes \in Limits
      BY <3>1, <3>3
    <3>5. Max(Limits) \in Limits /\ max_payload_bytes <= Max(Limits)
      BY <3>4, LargestLimit
    <3>6. \A l \in Limits : l \in Nat
      BY LimitsAssumption, BoundsAssumption
    <3> QED
      BY <3>1, <3>2, <3>3, <3>4, <3>5, <3>6
  <2>2. CASE BeginUpgrade(r)
    <3>1. record[r] \in PayloadRecord /\ record[r].id \in Ids /\ record[r].body \in Bodies /\ pc[r] = "waiting"
      BY <2>2 DEF BeginUpgrade, locks, StoreInv, TypeInv, RecordsTyped, PayloadRecord
    <3>2. existing(r) \in PayloadMetadata
      BY <1>0, <2>2, <3>1 DEF BeginUpgrade, existing, TypeOK
    <3>3. record'[r] = signed_record(existing(r), record[r].body)
      BY <1>0, <2>2 DEF BeginUpgrade
    <3>4. record'[r].body = record[r].body
      BY <1>0, <3>1, <3>2, <3>3, SignedRecordKeeps
    <3> QED
      BY <3>1, <3>4 DEF SizesInv
  <2>3. CASE ~Prepare(r) /\ ~BeginUpgrade(r)
    <3>1. pc[r] \in Submitting /\ record'[r] = record[r]
      <4>1. CASE Start \/ StartFails \/ Crash \/ Quiet \/ UNCHANGED vars
        BY <1>2, <4>1 DEF Start, StartFails, load, load_fails, Crash, Quiet, vars
      <4>2. ASSUME NEW q \in Requests, Prepare(q) \/ BeginUpgrade(q)
            PROVE  pc[r] \in Submitting /\ record'[r] = record[r]
        BY <1>0, <1>2, <2>3, <4>2 DEF Prepare, BeginUpgrade
      <4>3. ASSUME NEW q \in Requests,
                   Reject(q) \/ AnswerKnown(q) \/ PersistFails(q) \/ CommitUpgrade(q)
                   \/ CommitNew(q) \/ CommitOverflows(q) \/ LockPanics(q) \/ RawLookup(q) \/ RawRead(q)
            PROVE  pc[r] \in Submitting /\ record'[r] = record[r]
        BY <1>0, <1>2, <4>3 DEF Reject, AnswerKnown, PersistFails, CommitUpgrade, CommitNew,
             CommitOverflows, LockPanics, RawLookup, RawRead
      <4>4. ASSUME NEW q \in Requests,
                   BeginNew(q) \/ OpenTemp(q) \/ FillTemp(q) \/ Rename(q) \/ RawRecheck(q)
            PROVE  pc[r] \in Submitting /\ record'[r] = record[r]
        BY <1>0, <1>2, <4>4 DEF BeginNew, locks, OpenTemp, FillTemp, Rename, RawRecheck
      <4> QED
        BY <4>1, <4>2, <4>3, <4>4 DEF Next, Arrive, Step
    <3> QED
      BY <3>1 DEF SizesInv
  <2> QED
    BY <2>1, <2>2, <2>3
<1> QED
  BY <1>1, <1>2 DEF SizesInv

(* Whatever was going on when the process was killed, a directory that     *)
(* loads under the largest limit loads again, unless its byte total has    *)
(* become too large for a usize.                                           *)
THEOREM DirectoryStaysLoadable ==
  Spec /\ StaysLoadable => [](fits(stored_bytes) => StaysLoadable)
<1>1. Init /\ StaysLoadable => SizesInv
  BY DEF Init, StaysLoadable, Loads, SizesInv, stored_ids, Submitting, Critical
<1>2. StoreInv /\ SizesInv /\ [Next]_vars => SizesInv'
  BY SizesStep
<1>3. StoreInv /\ SizesInv => (fits(stored_bytes) => StaysLoadable)
  BY DEF StoreInv, AddressInv, SizesInv, StaysLoadable, Loads, stored_ids
<1> QED
  BY <1>1, <1>2, <1>3, StoreInvariant, PTL DEF Spec

(* In particular it always loads again if all payloads there are fit into  *)
(* a usize together.                                                       *)
THEOREM DirectoryAlwaysLoads ==
  ASSUME BytesOf(Ids) \in usize
  PROVE  Spec /\ StaysLoadable => []StaysLoadable
<1>1. StoreInv => fits(stored_bytes)
  <2> SUFFICES ASSUME AddressInv PROVE fits(stored_bytes)
    BY DEF StoreInv
  <2>1. stored_bytes = BytesOf(stored_ids) /\ stored_ids \subseteq Ids
    BY StoredBytes
  <2>2. BytesOf(stored_ids) \in Nat /\ BytesOf(stored_ids) <= BytesOf(Ids)
    BY <2>1, BytesType, BytesMonotone
  <2> QED
    BY <2>1, <2>2, BoundsAssumption DEF fits, usize
<1> QED
  BY <1>1, StoreInvariant, DirectoryStaysLoadable, PTL
=============================================================================

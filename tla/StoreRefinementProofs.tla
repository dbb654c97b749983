----------------------- MODULE StoreRefinementProofs ------------------------
(***************************************************************************)
(* The store keeps two promises, in every behaviour with its memory, its   *)
(* mutex, its temporary files, failures, crashes and starts.               *)
(*                                                                         *)
(* PayloadService: what the files hold and what was answered, under the    *)
(* mapping of PayloadStore!Service.                                        *)
(*                                                                         *)
(* Inventory: what inventory_cache lists and in which order, under the     *)
(* mapping of ListedStore!Listing; the order of the list then follows from *)
(* the theorem that InventoryProofs has of the promise.                    *)
(***************************************************************************)
EXTENDS ListedStore, PayloadStoreProofs

(* --------------------------- PayloadService ---------------------------- *)

(* The value PayloadStore gives to the variable stored of PayloadService.  *)
StoredFiles ==
  [id \in Ids |-> IF files[id] \in {None, Torn} THEN None ELSE metadata_for(files[id])]

(* A request that was answered is over, so it is not answered again.       *)
AnsweredInv ==
  \A r \in Requests : reply[r] # None \/ served[r] # None => pc[r] = "done"

(* ---------------- the operators of the two modules --------------------- *)

(* PayloadService has its own instances of the operators of Receipts.      *)
LEMMA ServiceOperators ==
  /\ Service!Ids = Ids /\ Service!PayloadMetadata = PayloadMetadata
  /\ \A m : Service!HasCurrentReceipt(m) <=> HasCurrentReceipt(m)
  /\ \A m, key : Service!sign_record_if_enabled(m, key) = sign_record_if_enabled(m, key)
  /\ \A rec : Service!metadata_for(rec) = metadata_for(rec)
  /\ \A ns, bytes, ctype, now :
       Service!record_for(ns, bytes, ctype, now) = record_for(ns, bytes, ctype, now)
  /\ \A m, ctx, key :
       Service!signature_for_context(m, ctx, key) = signature_for_context(m, ctx, key)
  /\ \A m, sig : Service!validate_payload_signature(m, sig) <=> validate_payload_signature(m, sig)
<1> USE DEF Service!receipt_for_record, Service!receipt_for_record_with_context,
            Service!legacy_hosting_receipt_for_record, Service!sign_receipt,
            receipt_for_record, receipt_for_record_with_context,
            legacy_hosting_receipt_for_record, sign_receipt
<1>1. Service!Ids = Ids
  BY DEF Service!Ids, Ids
<1>2. Service!PayloadMetadata = PayloadMetadata
  BY <1>1 DEF Service!PayloadMetadata, PayloadMetadata, Service!PayloadSignature,
       PayloadSignature, Service!Receipt, Receipt
<1>3. \A m, sig : Service!validate_payload_signature(m, sig) <=> validate_payload_signature(m, sig)
  BY DEF Service!validate_payload_signature, validate_payload_signature
<1>4. \A m : Service!HasCurrentReceipt(m) <=> HasCurrentReceipt(m)
  BY <1>3 DEF Service!HasCurrentReceipt, HasCurrentReceipt,
       Service!signature_is_current_payload_receipt, signature_is_current_payload_receipt
<1>5. \A m, key : Service!sign_record_if_enabled(m, key) = sign_record_if_enabled(m, key)
  BY <1>4 DEF Service!sign_record_if_enabled, sign_record_if_enabled
<1>6. \A rec : Service!metadata_for(rec) = metadata_for(rec)
  BY DEF Service!metadata_for, metadata_for
<1>7. \A ns, bytes, ctype, now :
        Service!record_for(ns, bytes, ctype, now) = record_for(ns, bytes, ctype, now)
  BY DEF Service!record_for, record_for, Service!payload_id, payload_id
<1>8. \A m, ctx, key :
        Service!signature_for_context(m, ctx, key) = signature_for_context(m, ctx, key)
  BY DEF Service!signature_for_context, signature_for_context
<1> QED
  BY <1>1, <1>2, <1>3, <1>4, <1>5, <1>6, <1>7, <1>8

(* --------------------- metadata and signatures ------------------------- *)

(* What is kept and the signature are all there is to metadata.            *)
LEMMA MetadataIsKept ==
  ASSUME NEW m1 \in PayloadMetadata, NEW m2 \in PayloadMetadata,
         Kept(m1) = Kept(m2), m1.signature = m2.signature
  PROVE  m1 = m2
  BY DEF PayloadMetadata, Kept

(* Whoever carries a current receipt has been signed with some key.        *)
LEMMA CurrentIsSigned ==
  ASSUME NEW m \in PayloadMetadata, NEW n \in PayloadMetadata, Kept(m) = Kept(n),
         HasCurrentReceipt(m), ~HasCurrentReceipt(n)
  PROVE  \E key \in Keys : m = sign_record_if_enabled(n, key)
<1>1. /\ m.signature \in PayloadSignature /\ m.signature.signer \in Keys
      /\ m.signature.receipt = receipt_for_record(m)
  BY DEF HasCurrentReceipt, signature_is_current_payload_receipt, PayloadMetadata,
         PayloadSignature
<1> DEFINE key == m.signature.signer
<1>2. receipt_for_record(m) = receipt_for_record(n)
  BY DEF Kept, receipt_for_record, receipt_for_record_with_context
<1>3. m.signature = sign_receipt(key, receipt_for_record(n))
  BY <1>1, <1>2 DEF PayloadSignature, sign_receipt
<1>4. sign_record_if_enabled(n, key) = [n EXCEPT !.signature = sign_receipt(key, receipt_for_record(n))]
  BY <1>1, NoneAssumption DEF sign_record_if_enabled
<1>5. /\ sign_record_if_enabled(n, key) \in PayloadMetadata
      /\ Kept(sign_record_if_enabled(n, key)) = Kept(n)
  BY <1>1, SignType, SignKeeps
<1>6. sign_record_if_enabled(n, key).signature = m.signature
  BY <1>3, <1>4 DEF PayloadMetadata
<1>7. m = sign_record_if_enabled(n, key)
  BY <1>5, <1>6, MetadataIsKept
<1> QED
  BY <1>1, <1>7

LEMMA UnsignedStays ==
  ASSUME NEW m \in PayloadMetadata, m.signature = None
  PROVE  sign_record_if_enabled(m, None) = m
  BY DEF sign_record_if_enabled, HasCurrentReceipt, PayloadMetadata

(* ------------------------- the first state ----------------------------- *)

LEMMA StoredType == TypeOK /\ AddressInv =>
  \A id \in Ids : IF files[id] = None THEN StoredFiles[id] = None
                  ELSE /\ files[id] \in PayloadRecord
                       /\ StoredFiles[id] = metadata_for(files[id])
                       /\ StoredFiles[id] \in PayloadMetadata /\ StoredFiles[id] # None
<1> SUFFICES ASSUME TypeOK, AddressInv, NEW id \in Ids, files[id] # None
             PROVE  /\ files[id] \in PayloadRecord
                    /\ StoredFiles[id] = metadata_for(files[id])
                    /\ StoredFiles[id] \in PayloadMetadata /\ StoredFiles[id] # None
  BY DEF StoredFiles
<1>1. files[id] \in PayloadRecord /\ files[id] # Torn
  BY DEF TypeOK, AddressInv
<1>2. StoredFiles[id] = metadata_for(files[id])
  BY <1>1 DEF StoredFiles
<1> QED
  BY <1>1, <1>2, MetadataType, NoneAssumption

(* What an earlier process left is signed by a known key about itself.     *)
LEMMA EarlierGenuine ==
  ASSUME NEW rec \in EarlierRecords, rec.signature # None
  PROVE  rec.signature.signer \in Keys /\ validate_payload_signature(metadata_for(rec), rec.signature)
<1>1. PICK ns \in Namespaces, bytes \in Bodies, ctype \in ContentTypes \cup {None},
           now \in Times :
        \E sig \in EarlierSignatures(metadata_for(record_for(ns, bytes, ctype, now))) :
          rec = [record_for(ns, bytes, ctype, now) EXCEPT !.signature = sig]
  BY DEF EarlierRecords
<1> DEFINE base == record_for(ns, bytes, ctype, now)
<1>2. base \in PayloadRecord /\ rec \in PayloadRecord
  BY RecordType, EarlierRecordType
<1>3. rec.signature \in EarlierSignatures(metadata_for(base))
  BY <1>1, <1>2 DEF PayloadRecord
<1>4. metadata_for(rec).id = metadata_for(base).id
      /\ metadata_for(rec).submittedAt = metadata_for(base).submittedAt
  BY <1>1, <1>2 DEF metadata_for, PayloadRecord
<1>5. /\ receipt_for_record(metadata_for(rec)) = receipt_for_record(metadata_for(base))
      /\ legacy_hosting_receipt_for_record(metadata_for(rec))
           = legacy_hosting_receipt_for_record(metadata_for(base))
  BY <1>4 DEF receipt_for_record, receipt_for_record_with_context,
              legacy_hosting_receipt_for_record
<1> QED
  BY <1>3, <1>5 DEF EarlierSignatures, sign_receipt, validate_payload_signature

LEMMA ServiceInit == Init => Service!Init
<1> SUFFICES ASSUME Init PROVE Service!Init
  OBVIOUS
<1>1. TypeOK /\ AddressInv
  BY TypeInit, AddressInit DEF TypeInv
<1>2. StoredFiles \in [Ids -> PayloadMetadata \cup {None}]
  BY <1>1, StoredType DEF StoredFiles
<1>3. ASSUME NEW id \in Ids, StoredFiles[id] # None
      PROVE  /\ StoredFiles[id].id = id
             /\ StoredFiles[id].signature # None =>
                  /\ StoredFiles[id].signature.signer \in Keys
                  /\ validate_payload_signature(StoredFiles[id], StoredFiles[id].signature)
  <2>1. files[id] # None /\ StoredFiles[id] = metadata_for(files[id])
    BY <1>1, <1>3, StoredType
  <2>2. files[id] \in EarlierRecords /\ files[id].id = id
    BY <2>1 DEF Init
  <2> QED
    BY <2>1, <2>2, EarlierGenuine DEF metadata_for
<1> QED
  BY <1>2, <1>3, ServiceOperators DEF Init, Service!Init, Service!Genuine, StoredFiles

LEMMA AnsweredInit == Init => AnsweredInv
  BY DEF Init, AnsweredInv

(* -------------------------- each step ---------------------------------- *)

LEMMA AnsweredStep == TypeInv /\ AnsweredInv /\ [Next]_vars => AnsweredInv'
<1> SUFFICES ASSUME TypeOK, AnsweredInv, [Next]_vars PROVE AnsweredInv'
  BY DEF TypeInv
<1> USE DEF locals, answers, Goto, Finish
<1>0. /\ pc \in [Requests -> {"new", "waiting", "done"} \cup Critical \cup RawReading]
      /\ reply \in [Requests -> SubmitOutcome \cup {None}]
      /\ served \in [Requests -> RawResponse \cup {None}]
  BY DEF TypeOK
<1>1. CASE Start \/ StartFails \/ Crash \/ Quiet \/ UNCHANGED vars
  BY <1>1 DEF Start, StartFails, load, load_fails, Crash, Quiet, vars, AnsweredInv
<1>2. ASSUME NEW r \in Requests, Arrive(r)
      PROVE  AnsweredInv'
  BY <1>0, <1>2 DEF Arrive, Prepare, Reject, RawLookup, AnsweredInv
<1>3. ASSUME NEW r \in Requests,
             BeginUpgrade(r) \/ BeginNew(r) \/ OpenTemp(r) \/ FillTemp(r) \/ Rename(r)
             \/ RawRecheck(r)
      PROVE  AnsweredInv'
  <2>1. pc[r] # "done" /\ reply' = reply /\ served' = served
        /\ \A q \in Requests : q # r => pc'[q] = pc[q]
    BY <1>0, <1>3 DEF BeginUpgrade, BeginNew, locks, OpenTemp, FillTemp, Rename, RawRecheck
  <2> QED
    BY <2>1 DEF AnsweredInv
<1>4. ASSUME NEW r \in Requests,
             AnswerKnown(r) \/ PersistFails(r) \/ CommitUpgrade(r) \/ CommitNew(r)
             \/ CommitOverflows(r) \/ LockPanics(r) \/ RawRead(r)
      PROVE  AnsweredInv'
  <2>1. /\ pc' = [pc EXCEPT ![r] = "done"]
        /\ \A q \in Requests : q # r => reply'[q] = reply[q] /\ served'[q] = served[q]
    BY <1>0, <1>4 DEF AnswerKnown, PersistFails, CommitUpgrade, CommitNew, CommitOverflows,
         LockPanics, RawRead, answer
  <2> QED
    BY <1>0, <2>1 DEF AnsweredInv
<1> QED
  BY <1>1, <1>2, <1>3, <1>4 DEF Next, Step

(* A file that does not change keeps what is stored.                       *)
LEMMA StoredUnchanged == files' = files => StoredFiles' = StoredFiles
  BY DEF StoredFiles

(* The rename is the moment a payload is stored or gets its receipt.       *)
LEMMA RenameStores ==
  ASSUME StoreInv, NEW r \in Requests, Rename(r)
  PROVE  \E id \in Ids : Service!Store(id) \/ Service!Attach(id)
<1> PICK id \in Ids : id = record[r].id
  BY RenameSigns
<1> DEFINE m == metadata_for(record[r])
<1>0. /\ TypeOK /\ AddressInv /\ signer \in Keys \cup {None}
      /\ pc[r] = "rename" /\ pc[r] \in Submitting
      /\ UNCHANGED <<reply, served>>
  BY DEF Rename, StoreInv, TypeInv, TypeOK, Submitting, Critical, answers
<1>1. /\ id \in Ids /\ record[r] \in PayloadRecord /\ files'[id] = record[r]
      /\ m \in PayloadMetadata /\ m.signature = record[r].signature /\ Kept(m) = Kept(record[r])
  BY RenameSigns, MetadataType, MetadataKeeps
<1>2. files' = [files EXCEPT ![id] = record[r]]
  BY <1>0, <1>1 DEF Rename, TypeOK
<1>3. StoredFiles' = [StoredFiles EXCEPT ![id] = m]
  <2>1. record[r] \notin {None, Torn}
    BY <1>1, NoneAssumption, TornAssumption
  <2> QED
    BY <1>0, <1>1, <1>2, <2>1 DEF StoredFiles, TypeOK
<1>4. CASE files[id] = None
  <2> DEFINE base == record_for(id[1], id[2], record[r].contentType, record[r].submittedAt)
  <2>1. /\ Addressed(id, record[r]) /\ record[r].contentType \in ContentTypes \cup {None}
        /\ record[r].submittedAt \in Times /\ id = <<id[1], id[2]>>
        /\ id[1] \in Namespaces /\ id[2] \in Bodies
    BY <1>0, <1>1 DEF AddressInv, PayloadRecord, Ids
  <2>2. base \in PayloadRecord /\ base.signature = None /\ Kept(base) = Kept(record[r])
    BY <2>1, RecordType DEF record_for, payload_id, Kept, Addressed
  <2>3. /\ metadata_for(base) \in PayloadMetadata /\ metadata_for(base).signature = None
        /\ Kept(metadata_for(base)) = Kept(m)
    BY <1>1, <2>2, MetadataType, MetadataKeeps
  <2>4. \E key \in Keys \cup {None} : m = sign_record_if_enabled(metadata_for(base), key)
    <3>1. CASE HasCurrentReceipt(m)
      <4>1. ~HasCurrentReceipt(metadata_for(base))
        BY <2>3 DEF HasCurrentReceipt
      <4> QED
        BY <1>1, <2>3, <3>1, <4>1, CurrentIsSigned
    <3>2. CASE m.signature = None
      <4>1. m = metadata_for(base)
        BY <1>1, <2>3, <3>2, MetadataIsKept
      <4> QED
        BY <2>3, <4>1, UnsignedStays
    <3>3. HasCurrentReceipt(m) \/ m.signature = None
      BY <1>0 DEF StoreInv, SigningInv
    <3> QED
      BY <3>1, <3>2, <3>3
  <2>5. StoredFiles[id] = None
    BY <1>0, <1>1, <1>4, StoredType
  <2>6. Service!Store(id)
    BY <1>0, <1>3, <2>1, <2>4, <2>5, ServiceOperators DEF Service!Store, StoredFiles
  <2> QED
    BY <1>1, <2>6
<1>5. CASE files[id] # None
  <2>1. /\ files[id] \in PayloadRecord /\ StoredFiles[id] = metadata_for(files[id])
        /\ StoredFiles[id] \in PayloadMetadata /\ StoredFiles[id] # None
    BY <1>0, <1>1, <1>5, StoredType
  <2>2. ~HasCurrentReceipt(StoredFiles[id]) /\ HasCurrentReceipt(m)
    BY <1>1, <1>5, <2>1, RenameSigns
  <2>3. Kept(m) = Kept(StoredFiles[id])
    BY <1>1, <1>5, <2>1, RenameKeeps, MetadataKeeps DEF StoreInv
  <2>4. PICK key \in Keys : m = sign_record_if_enabled(StoredFiles[id], key)
    BY <1>1, <2>1, <2>2, <2>3, CurrentIsSigned
  <2>5. Service!Attach(id)
    BY <1>0, <1>3, <2>1, <2>2, <2>4, ServiceOperators DEF Service!Attach, StoredFiles
  <2> QED
    BY <1>1, <2>5
<1> QED
  BY <1>4, <1>5

(* Whoever is answered is answered about what is stored at that moment.    *)
LEMMA AnswerIsOfService ==
  ASSUME Inv, AnsweredInv, NEW r \in Requests,
         AnswerKnown(r) \/ CommitUpgrade(r) \/ CommitNew(r)
  PROVE  Service!Answer(r)
<1> DEFINE id == record[r].id
           m == sign_record_if_enabled(StoredFiles[id], signer)
<1>0. /\ StoreInv /\ AnswerInv /\ TypeOK /\ AddressInv /\ signer \in Keys \cup {None}
      /\ context[r] \in Contexts \cup {None} /\ created[r] \in BOOLEAN
      /\ reply \in [Requests -> SubmitOutcome \cup {None}]
  BY DEF Inv, StoreInv, TypeInv, TypeOK
<1>1. /\ pc[r] \in Submitting /\ pc[r] # "done" /\ record[r] \in PayloadRecord /\ id \in Ids
      /\ UNCHANGED <<files, served>>
  BY <1>0 DEF AnswerKnown, locks, CommitUpgrade, CommitNew, StoreInv, TypeInv, RecordsTyped,
     Submitting, Critical, PayloadRecord, disk
<1>2. reply[r] = None
  BY <1>1 DEF AnsweredInv
(* The metadata of the answer is the stored metadata, signed or current.   *)
<1>3. /\ StoredFiles[id] # None /\ StoredFiles[id].id = id
      /\ signer # None => HasCurrentReceipt(StoredFiles[id])
      /\ answer(r, m) /\ (created[r] => pc[r] \in Critical)
  <2>1. CASE AnswerKnown(r)
    <3>1. /\ existing(r) = payloads[id] /\ existing(r) # None /\ lock = None /\ ~poisoned
          /\ status = "up" /\ (HasCurrentReceipt(existing(r)) \/ signer = None)
      BY <1>0, <1>1, <2>1 DEF AnswerKnown, locks, existing, StoreInv, LockInv
    <3>2. files[id] # None /\ existing(r) = metadata_for(files[id])
      BY <1>0, <1>1, <3>1, IndexIsDisk
    <3>3. StoredFiles[id] = existing(r)
      BY <1>0, <1>1, <3>2, StoredType
    <3>4. answer(r, m)
      BY <2>1, <3>3 DEF AnswerKnown
    <3>5. existing(r).id = id
      BY <1>0, <1>1, <3>1 DEF AddressInv, Addressed
    <3>6. created[r] => pc[r] \in Critical
      BY <1>0 DEF StoreInv, WriterInv
    <3> QED
      BY <3>1, <3>3, <3>4, <3>5, <3>6
  <2>2. CASE CommitUpgrade(r) \/ CommitNew(r)
    <3>1. pc[r] = "commit" /\ pc[r] \in Critical /\ answer(r, metadata_for(record[r]))
      BY <2>2 DEF CommitUpgrade, CommitNew, Critical
    <3>2. files[id] = record[r] /\ record[r] # None
      BY <1>0, <1>1, <3>1, NoneAssumption DEF StoreInv, WriterInv
    <3>3. StoredFiles[id] = metadata_for(record[r]) /\ StoredFiles[id] \in PayloadMetadata
          /\ StoredFiles[id] # None /\ StoredFiles[id].id = id
      BY <1>0, <1>1, <3>2, StoredType DEF metadata_for
    <3>4. \/ HasCurrentReceipt(StoredFiles[id])
          \/ StoredFiles[id].signature = None /\ signer = None
      BY <1>0, <1>1, <3>3 DEF StoreInv, SigningInv
    <3>5. m = StoredFiles[id]
      BY <3>3, <3>4, UnsignedStays DEF sign_record_if_enabled
    <3> QED
      BY <3>1, <3>3, <3>4, <3>5
  <2> QED
    BY <2>1, <2>2
<1>4. created[r] => \A q \in Requests : reply[q] # None => reply[q].record.id # id
  BY <1>0, <1>3 DEF AnswerInv
<1>5. reply' = [reply EXCEPT ![r] =
        [record |-> m, context |-> context[r],
         signature |-> signature_for_context(m, context[r], signer), created |-> created[r]]]
  BY <1>3 DEF answer
<1>6. StoredFiles' = StoredFiles
  BY <1>1, StoredUnchanged
<1> HIDE DEF id
<1>7. Service!Answer(r)
  BY <1>0, <1>1, <1>2, <1>3, <1>4, <1>5, <1>6, ServiceOperators DEF Service!Answer, StoredFiles
<1> QED
  BY <1>7

(* A raw answer has the content type and the bytes that are stored.        *)
LEMMA RawReadServes ==
  ASSUME StoreInv, AnsweredInv, NEW r \in Requests, RawRead(r)
  PROVE  Service!Serve(r)
<1> DEFINE id == record[r].id
<1>0. /\ TypeOK /\ AddressInv /\ pc[r] \in RawReading /\ pc[r] # "done"
      /\ record[r] \in PayloadMetadata /\ id \in Ids /\ UNCHANGED <<files, reply>>
  BY DEF RawRead, RawReading, StoreInv, TypeInv, RecordsTyped, PayloadMetadata, disk
<1>1. served[r] = None
  BY <1>0 DEF AnsweredInv
<1>2. files[id] # None /\ files[id].contentType = record[r].contentType
  BY <1>0 DEF StoreInv, ReaderInv
<1>3. files[id] \notin {None, Torn} /\ files[id].body = id[2]
  BY <1>0, <1>2 DEF AddressInv
<1>4. /\ StoredFiles[id] # None /\ StoredFiles[id].contentType = record[r].contentType
      /\ StoredFiles' = StoredFiles
  <2>1. StoredFiles[id] # None /\ StoredFiles[id] = metadata_for(files[id])
    BY <1>0, <1>2, StoredType
  <2>2. metadata_for(files[id]).contentType = files[id].contentType
    BY DEF metadata_for
  <2> QED
    BY <1>0, <1>2, <2>1, <2>2, StoredUnchanged
<1>5. served' = [served EXCEPT ![r] =
        [id |-> id, contentType |-> StoredFiles[id].contentType, body |-> id[2]]]
  BY <1>3, <1>4 DEF RawRead
<1> HIDE DEF id
<1> QED
  BY <1>0, <1>1, <1>4, <1>5, ServiceOperators DEF Service!Serve, StoredFiles

(* Everything else a task does, a crash and a start are none of the        *)
(* clients' concern.                                                       *)
LEMMA ServiceStep ==
  Inv /\ AnsweredInv /\ [Next]_vars => [Service!Next]_(Service!vars)
<1> SUFFICES ASSUME Inv, AnsweredInv, [Next]_vars PROVE [Service!Next]_(Service!vars)
  OBVIOUS
<1>0. StoreInv
  BY DEF Inv
<1>1. ASSUME NEW r \in Requests, Rename(r)
      PROVE  Service!Next
  BY <1>0, <1>1, RenameStores, ServiceOperators DEF Service!Next
<1>2. ASSUME NEW r \in Requests, AnswerKnown(r) \/ CommitUpgrade(r) \/ CommitNew(r)
      PROVE  Service!Next
  BY <1>2, AnswerIsOfService DEF Service!Next
<1>3. ASSUME NEW r \in Requests, RawRead(r)
      PROVE  Service!Next
  BY <1>0, <1>3, RawReadServes DEF Service!Next
<1>4. ASSUME UNCHANGED <<files, reply, served>>
      PROVE  UNCHANGED Service!vars
  BY <1>4, StoredUnchanged DEF Service!vars, StoredFiles
<1>5. CASE Start \/ StartFails \/ Crash \/ Quiet \/ UNCHANGED vars
  BY <1>4, <1>5 DEF Start, StartFails, load, load_fails, Crash, Quiet, vars, disk, answers
<1>6. ASSUME NEW r \in Requests,
             Arrive(r) \/ BeginUpgrade(r) \/ BeginNew(r) \/ OpenTemp(r) \/ FillTemp(r)
             \/ PersistFails(r) \/ CommitOverflows(r) \/ LockPanics(r) \/ RawRecheck(r)
      PROVE  UNCHANGED Service!vars
  BY <1>4, <1>6 DEF Arrive, Prepare, Reject, RawLookup, BeginUpgrade, BeginNew, OpenTemp,
     FillTemp, PersistFails, CommitOverflows, LockPanics, RawRecheck, disk, answers
<1> QED
  BY <1>1, <1>2, <1>3, <1>5, <1>6 DEF Next, Step

(* The store implements the service it promises: a payload is stored once, *)
(* a current receipt is attached at most once, and every answer is about   *)
(* what is stored when it is given, whatever fails, crashes or restarts.   *)
THEOREM StoreImplementsService == Spec => ImplementsService
<1>1. Init => AnsweredInv
  BY AnsweredInit
<1>2. Inv /\ AnsweredInv /\ [Next]_vars => AnsweredInv'
  BY AnsweredStep DEF Inv, StoreInv
<1>3. Init => Service!Init
  BY ServiceInit
<1>4. Inv /\ AnsweredInv /\ [Next]_vars => [Service!Next]_(Service!vars)
  BY ServiceStep
<1> QED
  BY <1>1, <1>2, <1>3, <1>4, Invariant, PTL DEF Spec, ImplementsService, Service!Spec

(* ------------------------------ Inventory ------------------------------ *)

(* ------------------- the operators of Inventory ------------------------ *)

Ordered == INSTANCE InventoryProofs WITH
  Payloads <- Ids, Submissions <- Requests, MaxRestarts <- MaxCrashes + 1,
  now <- clock, task <- begun, newest_first <- listed,
  submitted_at <- [id \in Ids |-> IF id \in ToSet(listed) THEN origin[id].at ELSE 0],
  before <- [id \in Ids |-> IF id \in ToSet(listed) THEN origin[id].before ELSE {}],
  restarts <- crashes + (IF status = "up" THEN 1 ELSE 0)

LEMMA OrderedAssumption == Ordered!InventoryAssumption
<1>1. Ordered!IsFiniteSet(Ids)
  BY IdsAssumption DEF Ordered!IsFiniteSet, IsFiniteSet
<1>2. None \notin Ordered!Submission
  BY SubmissionAssumption DEF Ordered!Submission, Submission
<1>3. Times \subseteq Nat /\ MaxCrashes + 1 \in Nat
  BY TimesAssumption, BoundsAssumption
<1> QED
  BY <1>1, <1>2, <1>3 DEF Ordered!InventoryAssumption

(* Inventory has its own instances of the operators on sequences.          *)
LEMMA ListingOperators ==
  /\ \A s : Listing!ToSet(s) = ToSet(s) /\ Ordered!ToSet(s) = ToSet(s)
  /\ \A S : Listing!SetToSeqs(S) = SetToSeqs(S) /\ Ordered!SetToSeqs(S) = SetToSeqs(S)
  /\ Listing!Submission = Submission
<1>1. \A s : Listing!ToSet(s) = ToSet(s) /\ Ordered!ToSet(s) = ToSet(s)
  BY DEF Listing!ToSet, Ordered!ToSet, ToSet
<1>2. \A S : Listing!Cardinality(S) = Cardinality(S) /\ Ordered!Cardinality(S) = Cardinality(S)
  BY DEF Listing!Cardinality, Ordered!Cardinality, Cardinality
<1>3. \A S : Listing!SetToSeqs(S) = SetToSeqs(S) /\ Ordered!SetToSeqs(S) = SetToSeqs(S)
  BY <1>2 DEF Listing!SetToSeqs, Ordered!SetToSeqs, SetToSeqs
<1>4. Listing!Submission = Submission
  BY DEF Listing!Submission, Submission
<1> QED
  BY <1>1, <1>3, <1>4

(* A list of payloads names each of them.                                  *)
LEMMA ListedMembers ==
  ASSUME NEW S, S \subseteq Ids, NEW order \in SetToSeqs(S)
  PROVE  ToSet(order) = S /\ order \in Seq(Ids)
<1>1. Ordered!IsFiniteSet(S)
  BY IdsAssumption, FS_Subset DEF Ordered!IsFiniteSet, IsFiniteSet
<1>2. order \in Ordered!SetToSeqs(S)
  BY ListingOperators
<1>3. Ordered!ToSet(order) = S
  BY <1>1, <1>2, OrderedAssumption, Ordered!OrderOfSet
<1> QED
  BY <1>3, ListingOperators, OrderType

LEMMA ListedInFront ==
  ASSUME NEW order \in Seq(Ids), NEW id \in Ids
  PROVE  ToSet(<<id>> \o order) = ToSet(order) \cup {id}
<1>1. Ordered!ToSet(<<id>> \o order) = Ordered!ToSet(order) \cup {id}
  BY OrderedAssumption, Ordered!InFront
<1> QED
  BY <1>1, ListingOperators

(* ------------------------- the first state ----------------------------- *)

LEMMA ListedStart == ListedInit => ListedInv
<1> SUFFICES ASSUME ListedInit PROVE ListedInv
  OBVIOUS
<1>1. files \in [Ids -> PayloadRecord \cup {None}]
  BY EarlierRecordType DEF ListedInit, Init
<1>2. stored_ids \subseteq Ids /\ listed \in SetToSeqs(stored_ids)
  BY DEF ListedInit, stored_ids
<1>3. ToSet(listed) = stored_ids /\ listed \in Seq(Ids)
  BY <1>2, ListedMembers
<1>4. \A id \in stored_ids : origin[id] = [payload |-> id, at |-> files[id].submittedAt, before |-> {}]
  BY DEF ListedInit, stored_ids
<1>5. \A id \in stored_ids : origin[id] \in Submission /\ origin[id] # None
  <2> SUFFICES ASSUME NEW id \in stored_ids PROVE origin[id] \in Submission
    BY SubmissionAssumption
  <2>1. files[id].submittedAt \in Times /\ id \in Ids
    BY <1>1 DEF stored_ids, PayloadRecord
  <2>2. [payload |-> id, at |-> files[id].submittedAt, before |-> {}] \in Submission
    BY <2>1 DEF Submission
  <2> QED
    BY <1>4, <2>2
<1>6. HistoryTyped
  <2>1. origin \in [Ids -> Submission \cup {None}]
    <3>1. /\ origin = [id \in Ids |-> IF files[id] = None THEN None
               ELSE [payload |-> id, at |-> files[id].submittedAt, before |-> {}]]
      BY DEF ListedInit
    <3>2. \A id \in Ids : origin[id] \in Submission \cup {None}
      BY <1>5, <3>1 DEF stored_ids
    <3> QED
      BY <3>1, <3>2
  <2>2. begun \in [Requests -> Submission \cup {None}]
    BY DEF ListedInit
  <2> QED
    BY <1>3, <2>1, <2>2 DEF HistoryTyped, ListedInit
<1>7. OriginInv
  <2>1. status # "up"
    BY DEF ListedInit, Init
  <2>2. \A id \in stored_ids :
          origin[id] # None /\ origin[id].payload = id /\ origin[id].at = files[id].submittedAt
    <3> SUFFICES ASSUME NEW id \in stored_ids
                 PROVE  /\ origin[id] # None /\ origin[id].payload = id
                        /\ origin[id].at = files[id].submittedAt
      OBVIOUS
    <3>1. origin[id] # None
      BY <1>5
    <3>2. origin[id] = [payload |-> id, at |-> files[id].submittedAt, before |-> {}]
      BY <1>4
    <3> QED
      BY <3>1, <3>2
  <2>3. ToSet(listed) \subseteq stored_ids
    BY <1>3
  <2> QED
    BY <2>1, <2>2, <2>3 DEF OriginInv
<1>8. BegunInv
  BY DEF BegunInv, ListedInit, Init, Submitting, Critical
<1>9. UnlistedInv
  <2>1. stored_ids \ ToSet(listed) = {} /\ ~poisoned
    BY <1>3 DEF ListedInit, Init
  <2> QED
    BY <2>1 DEF UnlistedInv
<1> QED
  BY <1>6, <1>7, <1>8, <1>9 DEF ListedInv

LEMMA ListingStart == ListedInit => Listing!InventoryInit
<1> SUFFICES ASSUME ListedInit PROVE Listing!InventoryInit
  OBVIOUS
<1> DEFINE dates == [id \in Ids |-> IF id \in ToSet(listed) THEN origin[id].at ELSE 0]
<1>1. ListedInv
  BY ListedStart
<1>2. stored_ids \subseteq Ids /\ listed \in SetToSeqs(stored_ids) /\ SortedNewestFirst(listed)
  BY DEF ListedInit, stored_ids
<1>3. ToSet(listed) = stored_ids /\ listed \in Seq(Ids)
  BY <1>2, ListedMembers
<1>4. \A id \in stored_ids : /\ dates[id] = files[id].submittedAt /\ dates[id] <= clock
                             /\ dates[id] \in Times
  BY <1>1, <1>3 DEF ListedInv, OriginInv, HistoryTyped, Submission, ListedInit, stored_ids
<1>5. \A id \in Ids \ stored_ids : dates[id] = 0
  BY <1>3
<1>6. dates \in [Ids -> Times \cup {0}]
  <2>1. \A id \in Ids : dates[id] \in Times \cup {0}
    BY <1>4, <1>5
  <2> QED
    BY <2>1
<1>7. \A i \in DOMAIN listed : listed[i] \in stored_ids
  BY <1>3 DEF ToSet
<1>8. listed \in Listing!sorted(stored_ids, dates)
  <2>1. \A i, j \in DOMAIN listed : i < j => dates[listed[i]] >= dates[listed[j]]
    BY <1>2, <1>4, <1>7 DEF SortedNewestFirst
  <2> HIDE DEF dates
  <2> QED
    BY <1>2, <2>1, ListingOperators DEF Listing!sorted, Listing!in_order
<1>9. [id \in Ids |-> IF id \in ToSet(listed) THEN origin[id].before ELSE {}] = [id \in Ids |-> {}]
  BY <1>3 DEF ListedInit, stored_ids
<1>10. crashes + (IF status = "up" THEN 1 ELSE 0) = 0
  BY DEF ListedInit, Init
<1>11. clock \in Times /\ begun = [r \in Requests |-> None]
  BY DEF ListedInit
<1>12. \A id \in Ids : IF id \in stored_ids THEN dates[id] \in Times /\ dates[id] <= clock
                       ELSE dates[id] = 0
  BY <1>4, <1>5
<1> QED
  BY <1>2, <1>6, <1>8, <1>9, <1>10, <1>11, <1>12 DEF Listing!InventoryInit

(* ------------------- what a step does to the history ------------------- *)

(* A file that is there keeps its origin.                                  *)
LEMMA OriginStays ==
  ASSUME HistoryTyped, Remember, NEW id \in Ids, files[id] # None \/ files'[id] = None
  PROVE  origin'[id] = origin[id]
  BY DEF Remember, HistoryTyped

LEMMA OriginsStay ==
  ASSUME HistoryTyped, Remember, files' = files
  PROVE  origin' = origin
<1>1. \A id \in Ids : origin'[id] = origin[id]
  BY OriginStays
<1>2. origin' = [id \in Ids |-> origin'[id]]
  BY DEF Remember
<1> QED
  BY <1>1, <1>2 DEF HistoryTyped

(* In a running process a step of r, but the first one of a submission,    *)
(* changes at most what r has begun, and that if it is over.               *)
LEMMA TaskBegun ==
  ASSUME StoreInv, ListedInv, Remember, NEW r \in Requests, NEW label,
         status = "up", status' = "up", pc' = [pc EXCEPT ![r] = label],
         ~(pc[r] = "new" /\ label = "waiting")
  PROVE  /\ begun' = [begun EXCEPT ![r] = IF label = "done" THEN None ELSE @]
         /\ listed' = newest_first' /\ listed = newest_first
<1>0. /\ pc \in [Requests -> {"new", "waiting", "done"} \cup Critical \cup RawReading]
      /\ begun \in [Requests -> Submission \cup {None}]
  BY DEF StoreInv, TypeInv, TypeOK, ListedInv, HistoryTyped
<1>1. ~loads
  BY DEF loads
<1>2. begun' = [q \in Requests |-> IF prepares(q)
         THEN [payload |-> record'[q].id, at |-> clock, before |-> ToSet(listed)]
       ELSE IF loads \/ (status' = "up" /\ pc'[q] = "done") THEN None
       ELSE begun[q]]
  BY DEF Remember
<1>3. ASSUME NEW q \in Requests
      PROVE  begun'[q] = IF q = r /\ label = "done" THEN None ELSE begun[q]
  <2>1. ~prepares(q)
    BY <1>0 DEF prepares
  <2>2. begun'[q] = IF pc'[q] = "done" THEN None ELSE begun[q]
    BY <1>1, <1>2, <2>1
  <2>3. pc[q] = "done" => begun[q] = None
    BY DEF ListedInv, BegunInv, Submitting, Critical
  <2>4. pc'[q] = IF q = r THEN label ELSE pc[q]
    BY <1>0
  <2> QED
    BY <2>2, <2>3, <2>4
<1>4. listed' = newest_first' /\ listed = newest_first
  BY DEF Remember, ListedInv, OriginInv
<1> QED
  BY <1>0, <1>2, <1>3, <1>4

(* A process that starts has begun nothing, one that stops forgets nothing *)
(* that the next load could find.                                          *)
LEMMA StartBegun ==
  ASSUME ListedInv, Remember, loads, files' = files, pc' = pc
  PROVE  begun' = [r \in Requests |-> None] /\ listed' = newest_first' /\ origin' = origin
<1>1. \A r \in Requests : ~prepares(r)
  BY DEF prepares
<1>2. begun' = [r \in Requests |-> None]
  BY <1>1 DEF Remember
<1> QED
  BY <1>2, OriginsStay DEF Remember, loads, ListedInv

LEMMA StoppedBegun ==
  ASSUME ListedInv, Remember, status' # "up", files' = files,
         \A r \in Requests : pc'[r] # "waiting"
  PROVE  begun' = begun /\ listed' = listed /\ origin' = origin
<1>1. \A r \in Requests : ~prepares(r)
  BY DEF prepares
<1>2. begun' = [r \in Requests |-> begun[r]]
  BY <1>1 DEF Remember, loads
<1> QED
  BY <1>2, OriginsStay DEF Remember, ListedInv, HistoryTyped

(* --------------------- the invariant, by the step ---------------------- *)

LEMMA SameFiles ==
  ASSUME files' = files
  PROVE  stored_ids' = stored_ids /\ (fits(stored_bytes)' <=> fits(stored_bytes))
  BY DEF stored_ids, stored_bytes, fits

LEMMA BegunStays ==
  ASSUME StoreInv, ListedInv, Remember, UNCHANGED clock, NEW r \in Requests, NEW label,
         status = "up", status' = "up", pc' = [pc EXCEPT ![r] = label],
         label \notin {"waiting", "commit", "done"},
         pc[r] \in Submitting <=> label \in Submitting,
         UNCHANGED <<files, newest_first, poisoned>>,
         \A q \in Requests \ {r} : record'[q] = record[q] /\ created'[q] = created[q],
         label \in Submitting =>
           /\ record'[r].id = record[r].id
           /\ created'[r] => /\ created[r] \/ pc[r] = "waiting"
                             /\ record'[r].submittedAt = record[r].submittedAt
  PROVE  ListedInv' /\ UNCHANGED <<begun, listed, origin>>
<1>0. /\ pc \in [Requests -> {"new", "waiting", "done"} \cup Critical \cup RawReading]
      /\ begun \in [Requests -> Submission \cup {None}]
  BY DEF StoreInv, TypeInv, TypeOK, ListedInv, HistoryTyped
<1>1. begun' = begun /\ listed' = newest_first' /\ listed = newest_first
  <2>1. ~(pc[r] = "new" /\ label = "waiting") /\ label # "done"
    OBVIOUS
  <2>2. /\ begun' = [begun EXCEPT ![r] = IF label = "done" THEN None ELSE @]
        /\ listed' = newest_first' /\ listed = newest_first
    BY <2>1, TaskBegun
  <2> QED
    BY <1>0, <2>1, <2>2
<1>2. origin' = origin /\ stored_ids' = stored_ids /\ (fits(stored_bytes)' <=> fits(stored_bytes))
  BY OriginsStay, SameFiles DEF ListedInv
<1>3. HistoryTyped'
  BY <1>1, <1>2 DEF ListedInv, HistoryTyped
<1>4. OriginInv'
  BY <1>1, <1>2 DEF ListedInv, OriginInv
<1>5. BegunInv'
  <2>1. \A q \in Requests : pc'[q] = IF q = r THEN label ELSE pc[q]
    BY <1>0
  <2>2. \A q \in Requests : begun[q] # None <=> pc'[q] \in Submitting
    BY <2>1 DEF ListedInv, BegunInv
  <2> SUFFICES ASSUME NEW q \in Requests, pc'[q] \in Submitting
               PROVE  /\ begun[q] # None /\ begun[q].payload = record'[q].id
                      /\ pc'[q] = "waiting" \/ created'[q] => begun[q].at = record'[q].submittedAt
                      /\ pc'[q] = "commit" /\ created'[q] => origin[record'[q].id] = begun[q]
    BY <1>1, <1>2, <2>2 DEF BegunInv, Submitting, Critical
  <2>3. pc[q] \in Submitting
    BY <2>1
  <2>4. CASE q = r
    BY <2>1, <2>3, <2>4 DEF ListedInv, BegunInv
  <2>5. CASE q # r
    BY <2>1, <2>3, <2>5 DEF ListedInv, BegunInv
  <2> QED
    BY <2>4, <2>5
<1>6. UnlistedInv'
  <2>1. poisoned' => ~fits(stored_bytes)'
    BY <1>2 DEF ListedInv, UnlistedInv
  <2> QED
    BY <2>1 DEF UnlistedInv
<1> QED
  BY <1>1, <1>2, <1>3, <1>4, <1>5, <1>6 DEF ListedInv

LEMMA OverStays ==
  ASSUME StoreInv, ListedInv, Remember, UNCHANGED clock, NEW r \in Requests,
         status = "up", status' = "up", pc' = [pc EXCEPT ![r] = "done"],
         UNCHANGED <<files, newest_first>>, poisoned' => ~fits(stored_bytes),
         \A q \in Requests \ {r} : record'[q] = record[q] /\ created'[q] = created[q]
  PROVE  /\ ListedInv' /\ UNCHANGED <<listed, origin>>
         /\ begun' = [begun EXCEPT ![r] = None]
<1>0. /\ pc \in [Requests -> {"new", "waiting", "done"} \cup Critical \cup RawReading]
      /\ begun \in [Requests -> Submission \cup {None}]
  BY DEF StoreInv, TypeInv, TypeOK, ListedInv, HistoryTyped
<1>1. /\ begun' = [begun EXCEPT ![r] = None]
      /\ listed' = newest_first' /\ listed = newest_first
  BY <1>0, TaskBegun
<1>2. origin' = origin /\ stored_ids' = stored_ids /\ (fits(stored_bytes)' <=> fits(stored_bytes))
  BY OriginsStay, SameFiles DEF ListedInv
<1>3. HistoryTyped'
  BY <1>0, <1>1, <1>2 DEF ListedInv, HistoryTyped
<1>4. OriginInv'
  BY <1>1, <1>2 DEF ListedInv, OriginInv
<1>5. BegunInv'
  <2>1. \A q \in Requests : /\ pc'[q] = IF q = r THEN "done" ELSE pc[q]
                            /\ begun'[q] = IF q = r THEN None ELSE begun[q]
    BY <1>0, <1>1
  <2>2. ASSUME NEW q \in Requests
        PROVE  begun'[q] # None <=> pc'[q] \in Submitting
    BY <2>1 DEF ListedInv, BegunInv, Submitting, Critical
  <2>3. ASSUME NEW q \in Requests, pc'[q] \in Submitting
        PROVE  /\ begun'[q] # None /\ begun'[q].payload = record'[q].id
               /\ pc'[q] = "waiting" \/ created'[q] => begun'[q].at = record'[q].submittedAt
               /\ pc'[q] = "commit" /\ created'[q] => origin[record'[q].id] = begun'[q]
    <3>1. q # r /\ pc[q] \in Submitting
      BY <2>1, <2>3 DEF Submitting, Critical
    <3> QED
      BY <2>1, <3>1 DEF ListedInv, BegunInv
  <2> QED
    BY <1>2, <2>2, <2>3 DEF BegunInv, Submitting, Critical
<1>6. UnlistedInv'
  BY <1>2 DEF ListedInv, UnlistedInv
<1> QED
  BY <1>1, <1>2, <1>3, <1>4, <1>5, <1>6 DEF ListedInv

(* Between its first step and its answer a submission, or a raw read,      *)
(* disturbs no history.                                                    *)
LEMMA QuietTask ==
  ASSUME StoreInv, ListedInv, Remember, UNCHANGED clock, NEW r \in Requests,
         RawLookup(r) \/ RawRecheck(r) \/ BeginUpgrade(r) \/ BeginNew(r) \/ OpenTemp(r)
         \/ FillTemp(r)
  PROVE  /\ ListedInv' /\ UNCHANGED <<begun, listed, status, crashes>>
         /\ origin' = origin
<1>0. /\ LockInv /\ WriterInv /\ AddressInv /\ TypeOK /\ RecordsTyped
      /\ pc \in [Requests -> {"new", "waiting", "done"} \cup Critical \cup RawReading]
      /\ record \in [Requests -> PayloadRecord \cup PayloadMetadata \cup {None}]
      /\ created \in [Requests -> BOOLEAN]
  BY DEF StoreInv, TypeInv, TypeOK
<1>1. status = "up" /\ status' = "up" /\ UNCHANGED <<files, newest_first, poisoned, crashes>>
  BY <1>0 DEF LockInv, RawLookup, RawRecheck, BeginUpgrade, BeginNew, locks, OpenTemp, FillTemp,
     disk, process, index, mutex
<1>2. \A q \in Requests \ {r} : record'[q] = record[q] /\ created'[q] = created[q]
  BY <1>0 DEF RawLookup, RawRecheck, BeginUpgrade, BeginNew, OpenTemp, FillTemp
<1>3. CASE RawLookup(r) \/ RawRecheck(r)
  <2> PICK label \in RawReading : pc' = [pc EXCEPT ![r] = label]
    BY <1>3 DEF RawLookup, RawRecheck, Goto, RawReading
  <2>1. /\ label \notin {"waiting", "commit", "done"} /\ label \notin Submitting
        /\ pc[r] \notin Submitting
    BY <1>3 DEF RawLookup, RawRecheck, RawReading, Submitting, Critical
  <2> QED
    BY <1>1, <1>2, <2>1, BegunStays
<1>4. CASE BeginUpgrade(r)
  <2>1. /\ pc' = [pc EXCEPT ![r] = "open"] /\ pc[r] = "waiting" /\ ~created[r] /\ created' = created
        /\ record[r].id \in Ids /\ record[r].body \in Bodies
    BY <1>0, <1>4 DEF BeginUpgrade, locks, Goto, WriterInv, Critical, RecordsTyped, Submitting,
       PayloadRecord
  <2>2. existing(r) \in PayloadMetadata /\ existing(r).id = record[r].id
    BY <1>0, <1>4, <2>1 DEF BeginUpgrade, existing, AddressInv, Addressed, TypeOK
  <2>3. Kept(signed_record(existing(r), record[r].body)) = Kept(existing(r))
    BY <1>0, <2>1, <2>2, SignedRecordKeeps DEF TypeOK
  <2>4. record'[r].id = record[r].id
    BY <1>0, <1>4, <2>2, <2>3 DEF BeginUpgrade, Kept
  <2>5. "open" \in Submitting /\ pc[r] \in Submitting /\ ~created'[r]
    BY <2>1 DEF Submitting, Critical
  <2> QED
    BY <1>1, <1>2, <2>1, <2>4, <2>5, BegunStays
<1>5. CASE BeginNew(r)
  <2>1. /\ pc' = [pc EXCEPT ![r] = "open"] /\ pc[r] = "waiting" /\ record' = record
    BY <1>5 DEF BeginNew, locks, Goto
  <2>2. "open" \in Submitting /\ pc[r] \in Submitting
    BY <2>1 DEF Submitting, Critical
  <2> QED
    BY <1>1, <1>2, <2>1, <2>2, BegunStays
<1>6. CASE OpenTemp(r) \/ FillTemp(r)
  <2> PICK label \in {"fill", "rename"} : pc' = [pc EXCEPT ![r] = label]
    BY <1>6 DEF OpenTemp, FillTemp, Goto
  <2>1. label \in Submitting /\ pc[r] \in Submitting /\ record' = record /\ created' = created
    BY <1>6 DEF OpenTemp, FillTemp, Submitting, Critical
  <2> QED
    BY <1>1, <1>2, <2>1, BegunStays
<1> QED
  BY <1>3, <1>4, <1>5, <1>6

(* Every record that is counted has a file, and so has the one that is     *)
(* about to be.                                                            *)
LEMMA CountedIsStored ==
  ASSUME StoreInv, InventoryInv, NEW r \in Requests, pc[r] = "commit"
  PROVE  /\ status = "up" /\ ~poisoned /\ lock = r /\ record[r].id \in stored_ids
         /\ stored_ids = known \cup {record[r].id}
<1>0. /\ LockInv /\ WriterInv /\ CacheCoherent /\ AddressInv /\ TypeOK /\ RecordsTyped
      /\ pc[r] \in Critical
  BY DEF StoreInv, TypeInv, Critical
<1>1. status = "up" /\ ~poisoned /\ lock = r /\ \A q \in Requests : pc[q] \in Critical => q = r
  BY <1>0, RequestsAssumption DEF LockInv, LockHeldByWriter, Critical
<1>2. record[r] \in PayloadRecord /\ record[r].id \in Ids /\ files[record[r].id] = record[r]
  BY <1>0 DEF RecordsTyped, Submitting, PayloadRecord, WriterInv
<1>3. record[r].id \in stored_ids
  BY <1>2, NoneAssumption DEF stored_ids
<1>4. ASSUME NEW id \in Ids, id # record[r].id
      PROVE  id \in known <=> id \in stored_ids
  <2>1. ~committing(id)
    BY <1>1, <1>4 DEF committing, Critical
  <2>2. payloads[id] = IF files[id] = None THEN None ELSE metadata_for(files[id])
    BY <1>0, <1>1, <2>1 DEF CacheCoherent
  <2>3. files[id] # None => metadata_for(files[id]) # None
    BY <1>0, MetadataType, NoneAssumption DEF AddressInv, TypeOK
  <2> QED
    BY <2>2, <2>3 DEF known, stored_ids
<1>5. stored_ids \subseteq Ids /\ known \subseteq Ids
  BY DEF stored_ids, known
<1> QED
  BY <1>1, <1>2, <1>3, <1>4, <1>5

(* A submission whose bytes do not fit into the count has stored them.     *)
LEMMA OverflowIsStored ==
  ASSUME StoreInv, InventoryInv, NEW r \in Requests, CommitOverflows(r)
  PROVE  ~fits(stored_bytes)
<1> DEFINE id == record[r].id
<1>0. /\ pc[r] = "commit" /\ created[r] /\ pc[r] \in Critical
      /\ ~fits(total_bytes + record[r].sizeBytes)
  BY DEF CommitOverflows, Critical
<1>1. /\ status = "up" /\ id \in stored_ids /\ stored_ids = known \cup {id}
  BY <1>0, CountedIsStored
<1>2. id \in Ids /\ id \notin known /\ record[r].sizeBytes = SizeOf[id[2]]
  BY <1>0, <1>1 DEF stored_ids, known, StoreInv, WriterInv, AddressInv, Addressed, Submitting
<1>3. total_bytes = BytesOf(known)
  BY <1>1 DEF InventoryInv
<1>4. stored_bytes = BytesOf(stored_ids)
  BY StoredBytes DEF StoreInv
<1>5. BytesOf(stored_ids) = BytesOf(known) + SizeOf[id[2]]
  BY <1>1, <1>2, KnownType, BytesAdd
<1> QED
  BY <1>0, <1>2, <1>3, <1>4, <1>5

(* The steps that end a request.                                           *)
LEMMA EndingTask ==
  ASSUME StoreInv, InventoryInv, ListedInv, Remember, UNCHANGED clock, NEW r \in Requests,
         Reject(r) \/ AnswerKnown(r) \/ PersistFails(r) \/ CommitUpgrade(r)
         \/ CommitOverflows(r) \/ LockPanics(r) \/ RawRead(r)
  PROVE  /\ ListedInv' /\ UNCHANGED <<listed, status, crashes>>
         /\ origin' = origin /\ begun' = [begun EXCEPT ![r] = None]
<1>0. /\ LockInv /\ TypeOK
      /\ pc \in [Requests -> {"new", "waiting", "done"} \cup Critical \cup RawReading]
      /\ record \in [Requests -> PayloadRecord \cup PayloadMetadata \cup {None}]
      /\ created \in [Requests -> BOOLEAN]
  BY DEF StoreInv, TypeInv, TypeOK
<1>1. status = "up" /\ status' = "up" /\ UNCHANGED <<files, newest_first, crashes>>
  BY <1>0 DEF LockInv, Reject, AnswerKnown, locks, PersistFails, CommitUpgrade, CommitOverflows,
     LockPanics, RawRead, disk, process, index
<1>2. /\ pc' = [pc EXCEPT ![r] = "done"]
      /\ \A q \in Requests \ {r} : record'[q] = record[q] /\ created'[q] = created[q]
  BY <1>0 DEF Reject, AnswerKnown, PersistFails, CommitUpgrade, CommitOverflows, LockPanics,
     RawRead, Finish, Goto
<1>3. poisoned' => ~fits(stored_bytes)
  <2>1. CASE CommitOverflows(r)
    BY <2>1, OverflowIsStored
  <2>2. CASE ~CommitOverflows(r)
    BY <2>2 DEF Reject, AnswerKnown, PersistFails, CommitUpgrade, LockPanics, RawRead, mutex,
       ListedInv, UnlistedInv
  <2> QED
    BY <2>1, <2>2
<1> QED
  BY <1>1, <1>2, <1>3, OverStays

(* Whoever renames over nothing creates, and its submission is the origin. *)
LEMMA RenameOrigin ==
  ASSUME StoreInv, ListedInv, Remember, UNCHANGED clock, NEW r \in Requests, Rename(r)
  PROVE  /\ ListedInv' /\ UNCHANGED <<begun, listed, status, crashes>>
         /\ \A id \in ToSet(listed) : origin'[id] = origin[id]
<1> DEFINE id == record[r].id
<1>0. /\ LockInv /\ WriterInv /\ CacheCoherent /\ TypeOK /\ TypeInv /\ AddressInv
      /\ pc \in [Requests -> {"new", "waiting", "done"} \cup Critical \cup RawReading]
      /\ begun \in [Requests -> Submission \cup {None}]
      /\ origin \in [Ids -> Submission \cup {None}]
      /\ pc[r] = "rename" /\ pc[r] \in Critical /\ pc[r] \in Submitting /\ pc[r] # "commit"
  BY DEF StoreInv, TypeInv, TypeOK, ListedInv, HistoryTyped, Rename, Critical, Submitting
<1>1. /\ status = "up" /\ status' = "up" /\ ~poisoned /\ ~poisoned' /\ lock = r
      /\ UNCHANGED <<newest_first, record, created, crashes>>
      /\ pc' = [pc EXCEPT ![r] = "commit"]
  BY <1>0, NotCommitting DEF Rename, LockInv, LockHeldByWriter, process, index, mutex, Goto
<1>2. id \in Ids /\ files'[id] = record[r] /\ record[r] \in PayloadRecord /\ record[r] # None
      /\ files' = [files EXCEPT ![id] = record[r]]
  <2>1. id \in Ids /\ files'[id] = record[r] /\ record[r] \in PayloadRecord
    BY RenameSigns
  <2> QED
    BY <1>0, <2>1, NoneAssumption DEF Rename, TypeOK
<1>3. begun' = begun /\ listed' = listed /\ listed = newest_first
  <2>1. /\ begun' = [begun EXCEPT ![r] = IF "commit" = "done" THEN None ELSE @]
        /\ listed' = newest_first' /\ listed = newest_first
    BY <1>0, <1>1, TaskBegun
  <2> QED
    BY <1>0, <1>1, <2>1
<1>4. \A i \in Ids : origin'[i] = IF files[i] = None /\ i = id THEN begun[r] ELSE origin[i]
  BY <1>0, <1>1, <1>2 DEF Remember, TypeOK
<1>5. files[id] = None <=> created[r]
  <2>1. payloads[id] = IF files[id] = None THEN None ELSE metadata_for(files[id])
    BY <1>0, <1>1, <1>2, NotCommitting DEF CacheCoherent
  <2>2. files[id] # None => metadata_for(files[id]) # None
    BY <1>0, <1>2, MetadataType, NoneAssumption DEF AddressInv, TypeOK
  <2> QED
    BY <1>0, <1>2, <2>1, <2>2 DEF WriterInv
<1>6. /\ begun[r] # None /\ begun[r] \in Submission /\ begun[r].payload = id
      /\ created[r] => begun[r].at = record[r].submittedAt
  BY <1>0 DEF ListedInv, BegunInv
<1>7. stored_ids' = stored_ids \cup {id} /\ id \in Ids
  BY <1>0, <1>2 DEF stored_ids, TypeOK
<1>8. HistoryTyped'
  <2>1. origin' = [i \in Ids |-> origin'[i]]
    BY DEF Remember
  <2>2. \A i \in Ids : origin'[i] \in Submission \cup {None}
    BY <1>0, <1>4, <1>6
  <2>3. origin' \in [Ids -> Submission \cup {None}]
    BY <2>1, <2>2
  <2> QED
    BY <1>3, <2>3 DEF ListedInv, HistoryTyped
<1>9. OriginInv'
  <2>1. status' = "up" => listed' = newest_first'
    BY <1>1, <1>3
  <2>2. ToSet(listed)' \subseteq stored_ids'
    BY <1>3, <1>7 DEF ListedInv, OriginInv
  <2>3. ASSUME NEW i \in stored_ids'
        PROVE  /\ origin'[i] # None /\ origin'[i].payload = i
               /\ origin'[i].at = files'[i].submittedAt
    <3>1. CASE i # id
      <4>1. i \in stored_ids /\ i \in Ids /\ files'[i] = files[i] /\ origin'[i] = origin[i]
        BY <1>0, <1>2, <1>4, <1>7, <2>3, <3>1 DEF stored_ids, TypeOK
      <4> QED
        BY <4>1 DEF ListedInv, OriginInv
    <3>2. CASE i = id /\ files[id] = None
      BY <1>2, <1>4, <1>5, <1>6, <3>2
    <3>3. CASE i = id /\ files[id] # None
      <4>1. Kept(files'[id]) = Kept(files[id])
        BY <1>0, <3>3, RenameKeeps
      <4>2. files'[id].submittedAt = files[id].submittedAt
        BY <4>1 DEF Kept
      <4>3. i \in stored_ids /\ origin'[i] = origin[i]
        BY <1>2, <1>4, <3>3 DEF stored_ids
      <4> QED
        BY <3>3, <4>2, <4>3 DEF ListedInv, OriginInv
    <3> QED
      BY <3>1, <3>2, <3>3
  <2> QED
    BY <2>1, <2>2, <2>3 DEF OriginInv
<1>10. BegunInv'
  <2>1. \A q \in Requests : pc'[q] = IF q = r THEN "commit" ELSE pc[q]
    BY <1>0, <1>1
  <2>2. "commit" \in Submitting /\ "commit" \in Critical
    BY DEF Submitting, Critical
  <2>3. \A q \in Requests : begun[q] # None <=> pc'[q] \in Submitting
    BY <1>0, <1>1, <2>1, <2>2 DEF ListedInv, BegunInv
  <2>4. \A q \in Requests : q # r => pc[q] \notin Critical
    BY <1>0, <1>1 DEF LockInv, LockHeldByWriter
  <2>5. ASSUME NEW q \in Requests, pc'[q] \in Submitting
        PROVE  /\ begun[q] # None /\ begun[q].payload = record[q].id
               /\ pc'[q] = "waiting" \/ created[q] => begun[q].at = record[q].submittedAt
               /\ pc'[q] = "commit" /\ created[q] => origin'[record[q].id] = begun[q]
    <3>1. CASE q = r
      BY <1>2, <1>4, <1>5, <1>6, <2>1, <3>1
    <3>2. CASE q # r
      <4>1. pc'[q] = pc[q] /\ pc[q] # "commit" /\ pc[q] \in Submitting
        BY <2>1, <2>2, <2>4, <2>5, <3>2
      <4> QED
        BY <4>1 DEF ListedInv, BegunInv
    <3> QED
      BY <3>1, <3>2
  <2> QED
    BY <1>1, <1>3, <2>3, <2>5 DEF BegunInv
<1>11. UnlistedInv'
  BY <1>1 DEF UnlistedInv
<1>12. \A i \in ToSet(listed) : origin'[i] = origin[i]
  <2>1. \A i \in ToSet(listed) : i \in Ids /\ files[i] # None
    BY DEF ListedInv, OriginInv, stored_ids
  <2> QED
    BY <1>4, <2>1
<1> QED
  BY <1>1, <1>3, <1>8, <1>9, <1>10, <1>11, <1>12 DEF ListedInv

(* A new payload is listed in front, and what began its submission is what *)
(* created its file.                                                       *)
LEMMA CommitListed ==
  ASSUME StoreInv, InventoryInv, ListedInv, Remember, UNCHANGED clock, NEW r \in Requests,
         CommitNew(r)
  PROVE  LET id == record[r].id IN
         /\ ListedInv' /\ UNCHANGED <<status, crashes>> /\ origin' = origin
         /\ id \in Ids /\ id \notin ToSet(listed)
         /\ begun[r] # None /\ begun[r].payload = id /\ origin[id] = begun[r]
         /\ begun' = [begun EXCEPT ![r] = None]
         /\ listed' = <<id>> \o listed /\ ToSet(listed') = ToSet(listed) \cup {id}
<1> DEFINE id == record[r].id
<1>0. /\ pc \in [Requests -> {"new", "waiting", "done"} \cup Critical \cup RawReading]
      /\ record \in [Requests -> PayloadRecord \cup PayloadMetadata \cup {None}]
      /\ created \in [Requests -> BOOLEAN]
      /\ begun \in [Requests -> Submission \cup {None}]
      /\ listed \in Seq(Ids)
      /\ pc[r] = "commit" /\ created[r] /\ pc[r] \in Critical /\ pc[r] \in Submitting
      /\ LockInv /\ WriterInv
  BY DEF StoreInv, TypeInv, TypeOK, ListedInv, HistoryTyped, CommitNew, Critical, Submitting
<1>1. /\ status = "up" /\ ~poisoned /\ id \in stored_ids /\ stored_ids = known \cup {id}
      /\ id \in Ids
  BY <1>0, CountedIsStored DEF stored_ids
<1>2. /\ status' = "up" /\ ~poisoned' /\ UNCHANGED <<files, crashes>>
      /\ newest_first' = <<id>> \o newest_first /\ pc' = [pc EXCEPT ![r] = "done"]
      /\ \A q \in Requests \ {r} : record'[q] = record[q] /\ created'[q] = created[q]
  BY <1>0, <1>1 DEF CommitNew, Finish, Goto, disk, process
<1>3. /\ begun' = [begun EXCEPT ![r] = None] /\ listed' = <<id>> \o listed
      /\ listed = newest_first
  <2>1. /\ begun' = [begun EXCEPT ![r] = IF "done" = "done" THEN None ELSE @]
        /\ listed' = newest_first' /\ listed = newest_first
    BY <1>0, <1>1, <1>2, TaskBegun
  <2> QED
    BY <1>2, <2>1
<1>4. origin' = origin /\ stored_ids' = stored_ids
  BY <1>2, OriginsStay, SameFiles DEF ListedInv
<1>5. ToSet(listed') = ToSet(listed) \cup {id}
  BY <1>0, <1>1, <1>3, ListedInFront
<1>6. id \notin ToSet(listed)
  <2>1. newest_first \in SetToSeqs(known)
    BY <1>1 DEF InventoryInv
  <2>2. ToSet(newest_first) = known
    BY <2>1, KnownType, ListedMembers
  <2>3. id \notin known
    BY <1>0 DEF known, WriterInv
  <2> QED
    BY <1>3, <2>2, <2>3
<1>7. begun[r] # None /\ begun[r].payload = id /\ origin[id] = begun[r]
  BY <1>0 DEF ListedInv, BegunInv
<1>8. HistoryTyped'
  <2>1. listed' \in Seq(Ids)
    BY <1>0, <1>1, <1>3
  <2> QED
    BY <1>0, <1>3, <1>4, <2>1 DEF ListedInv, HistoryTyped
<1>9. OriginInv'
  <2>1. status' = "up" => listed' = newest_first'
    BY <1>2, <1>3
  <2>2. ToSet(listed') \subseteq stored_ids'
    BY <1>1, <1>4, <1>5 DEF ListedInv, OriginInv
  <2> QED
    BY <1>2, <1>4, <2>1, <2>2 DEF ListedInv, OriginInv
<1>10. BegunInv'
  <2>1. \A q \in Requests : /\ pc'[q] = IF q = r THEN "done" ELSE pc[q]
                            /\ begun'[q] = IF q = r THEN None ELSE begun[q]
    BY <1>0, <1>2, <1>3
  <2>2. ASSUME NEW q \in Requests
        PROVE  begun'[q] # None <=> pc'[q] \in Submitting
    BY <1>1, <2>1 DEF ListedInv, BegunInv, Submitting, Critical
  <2>3. ASSUME NEW q \in Requests, pc'[q] \in Submitting
        PROVE  /\ begun'[q] # None /\ begun'[q].payload = record'[q].id
               /\ pc'[q] = "waiting" \/ created'[q] => begun'[q].at = record'[q].submittedAt
               /\ pc'[q] = "commit" /\ created'[q] => origin[record'[q].id] = begun'[q]
    <3>1. q # r /\ pc[q] \in Submitting
      BY <2>1, <2>3 DEF Submitting, Critical
    <3> QED
      BY <1>2, <2>1, <3>1 DEF ListedInv, BegunInv
  <2> QED
    BY <1>4, <2>2, <2>3 DEF BegunInv, Submitting, Critical
<1>11. UnlistedInv'
  BY <1>2 DEF UnlistedInv
<1> QED
  BY <1>1, <1>2, <1>3, <1>4, <1>5, <1>6, <1>7, <1>8, <1>9, <1>10, <1>11 DEF ListedInv

(* A submission begins by the clock, with what is listed at that moment.   *)
LEMMA PrepareBegins ==
  ASSUME StoreInv, ListedInv, DatedNow, Remember, UNCHANGED clock, NEW r \in Requests, Prepare(r)
  PROVE  /\ ListedInv' /\ UNCHANGED <<listed, status, crashes>> /\ origin' = origin
         /\ begun[r] = None /\ record'[r].id \in Ids
         /\ begun' = [begun EXCEPT ![r] =
              [payload |-> record'[r].id, at |-> clock, before |-> ToSet(listed)]]
<1> DEFINE sub == [payload |-> record'[r].id, at |-> clock, before |-> ToSet(listed)]
<1>0. /\ pc \in [Requests -> {"new", "waiting", "done"} \cup Critical \cup RawReading]
      /\ record \in [Requests -> PayloadRecord \cup PayloadMetadata \cup {None}]
      /\ begun \in [Requests -> Submission \cup {None}]
      /\ clock \in Times /\ listed \in Seq(Ids)
      /\ signer \in Keys \cup {None} /\ WriterInv
  BY DEF StoreInv, TypeInv, TypeOK, ListedInv, HistoryTyped
<1>1. /\ status = "up" /\ status' = "up" /\ pc[r] = "new" /\ pc' = [pc EXCEPT ![r] = "waiting"]
      /\ UNCHANGED <<files, newest_first, poisoned, created, crashes>>
      /\ \A q \in Requests \ {r} : record'[q] = record[q]
  BY <1>0 DEF Prepare, Goto, disk, process, index, mutex
<1>2. record'[r] \in PayloadRecord /\ record'[r].id \in Ids
  <2> PICK ns \in Namespaces, bytes \in Bodies, ctype \in ContentTypes \cup {None}, now \in Times :
         record' = [record EXCEPT ![r] =
               signed_record(metadata_for(record_for(ns, bytes, ctype, now)), bytes)]
    BY DEF Prepare
  <2>1. signed_record(metadata_for(record_for(ns, bytes, ctype, now)), bytes) \in PayloadRecord
    BY <1>0, RecordType, MetadataType, SignedRecordType
  <2>2. record'[r] \in PayloadRecord
    BY <1>0, <2>1
  <2> QED
    BY <2>2 DEF PayloadRecord
<1>3. prepares(r) /\ \A q \in Requests : q # r => ~prepares(q)
  BY <1>0, <1>1 DEF prepares
<1>4. record'[r].submittedAt = clock
  BY <1>3 DEF DatedNow
<1>5. ~loads
  BY <1>1 DEF loads
<1>6. \A q \in Requests : pc[q] = "done" => begun[q] = None
  BY <1>1 DEF ListedInv, BegunInv, Submitting, Critical
<1>7. begun[r] = None
  BY <1>1 DEF ListedInv, BegunInv, Submitting, Critical
<1>8. begun' = [begun EXCEPT ![r] = sub]
  <2>1. begun' = [q \in Requests |-> IF prepares(q)
           THEN [payload |-> record'[q].id, at |-> clock, before |-> ToSet(listed)]
         ELSE IF loads \/ (status' = "up" /\ pc'[q] = "done") THEN None
         ELSE begun[q]]
    BY DEF Remember
  <2>2. begun'[r] = sub
    BY <1>3, <2>1
  <2>3. ASSUME NEW q \in Requests, q # r
        PROVE  begun'[q] = begun[q]
    BY <1>0, <1>1, <1>3, <1>5, <1>6, <2>1, <2>3
  <2> QED
    BY <1>0, <2>1, <2>2, <2>3
<1>9. listed' = listed /\ listed = newest_first
  BY <1>1 DEF Remember, ListedInv, OriginInv
<1>10. origin' = origin /\ stored_ids' = stored_ids /\ (fits(stored_bytes)' <=> fits(stored_bytes))
  BY <1>1, OriginsStay, SameFiles DEF ListedInv
<1>11. ToSet(listed) \subseteq Ids
  BY DEF ListedInv, OriginInv, stored_ids
<1>12. sub \in Submission /\ sub # None
  <2>1. sub \in Submission
    BY <1>0, <1>2, <1>11 DEF Submission
  <2> QED
    BY <2>1, SubmissionAssumption
<1>13. sub.payload = record'[r].id /\ sub.at = record'[r].submittedAt
  BY <1>4
<1> HIDE DEF sub
<1>14. HistoryTyped'
  BY <1>0, <1>8, <1>9, <1>10, <1>12 DEF ListedInv, HistoryTyped
<1>15. OriginInv'
  BY <1>1, <1>9, <1>10 DEF ListedInv, OriginInv
<1>16. BegunInv'
  <2>1. \A q \in Requests : /\ pc'[q] = IF q = r THEN "waiting" ELSE pc[q]
                            /\ begun'[q] = IF q = r THEN sub ELSE begun[q]
    BY <1>0, <1>1, <1>8
  <2>2. ASSUME NEW q \in Requests
        PROVE  begun'[q] # None <=> pc'[q] \in Submitting
    BY <1>1, <1>12, <2>1 DEF ListedInv, BegunInv, Submitting
  <2>3. ASSUME NEW q \in Requests, pc'[q] \in Submitting
        PROVE  /\ begun'[q] # None /\ begun'[q].payload = record'[q].id
               /\ pc'[q] = "waiting" \/ created'[q] => begun'[q].at = record'[q].submittedAt
               /\ pc'[q] = "commit" /\ created'[q] => origin[record'[q].id] = begun'[q]
    <3>1. CASE q = r
      BY <1>12, <1>13, <2>1, <3>1
    <3>2. CASE q # r
      BY <1>1, <2>1, <2>3, <3>2 DEF ListedInv, BegunInv
    <3> QED
      BY <3>1, <3>2
  <2> QED
    BY <1>10, <2>2, <2>3 DEF BegunInv
<1>17. UnlistedInv'
  <2>1. poisoned' => ~fits(stored_bytes)'
    BY <1>1, <1>10 DEF ListedInv, UnlistedInv
  <2> QED
    BY <1>1, <2>1 DEF UnlistedInv
<1> QED
  BY <1>1, <1>2, <1>7, <1>8, <1>9, <1>10, <1>14, <1>15, <1>16, <1>17 DEF ListedInv, sub

(* What a kill leaves: everything that was listed, and at most the file    *)
(* that a submission had just created.                                     *)
LEMMA CrashLeaves ==
  ASSUME StoreInv, InventoryInv, ListedInv, Remember, UNCHANGED clock, Crash
  PROVE  /\ ListedInv' /\ UNCHANGED <<begun, listed>> /\ origin' = origin
         /\ status = "up" /\ status' # "up" /\ crashes' = crashes + 1
<1>1. /\ status = "up" /\ status' = "down" /\ crashes' = crashes + 1 /\ files' = files
      /\ ~poisoned' /\ \A r \in Requests : pc'[r] \in {"new", "done"}
  BY DEF Crash, disk
<1>2. begun' = begun /\ listed' = listed /\ origin' = origin
  BY <1>1, StoppedBegun
<1>3. stored_ids' = stored_ids /\ (fits(stored_bytes)' <=> fits(stored_bytes))
  BY <1>1, SameFiles
<1>4. HistoryTyped'
  BY <1>2 DEF ListedInv, HistoryTyped
<1>5. OriginInv'
  BY <1>1, <1>2, <1>3 DEF ListedInv, OriginInv
<1>6. BegunInv'
  BY <1>1 DEF BegunInv, Submitting, Critical
<1>7. ASSUME fits(stored_bytes), NEW id \in stored_ids \ ToSet(listed)
      PROVE  \E r \in Requests : lock = r /\ id = record[r].id /\ begun[r] = origin[id]
  <2>1. ~poisoned
    BY <1>7 DEF ListedInv, UnlistedInv
  <2>2. id \in Ids /\ files[id] # None
    BY <1>7 DEF stored_ids
  <2>3. newest_first \in SetToSeqs(known) /\ listed = newest_first
    BY <1>1 DEF InventoryInv, ListedInv, OriginInv
  <2>4. payloads[id] = None
    BY <1>7, <2>2, <2>3, KnownType, ListedMembers DEF known
  <2>5. committing(id)
    <3>1. metadata_for(files[id]) # None
      BY <2>2, MetadataType, NoneAssumption DEF StoreInv, AddressInv, TypeInv, TypeOK
    <3> QED
      BY <1>1, <2>1, <2>2, <2>4, <3>1 DEF StoreInv, CacheCoherent
  <2>6. PICK r \in Requests : pc[r] = "commit" /\ record[r].id = id
    BY <2>5 DEF committing
  <2>7. pc[r] \in Critical /\ pc[r] \in Submitting
    BY <2>6 DEF Critical, Submitting
  <2>8. lock = r /\ created[r]
    BY <2>4, <2>6, <2>7 DEF StoreInv, LockInv, LockHeldByWriter, WriterInv
  <2>9. begun[r] = origin[id]
    BY <2>6, <2>7, <2>8 DEF ListedInv, BegunInv
  <2> QED
    BY <2>6, <2>8, <2>9
<1>8. UnlistedInv'
  <2>1. ASSUME fits(stored_bytes), NEW id \in stored_ids \ ToSet(listed),
               NEW other \in stored_ids \ ToSet(listed)
        PROVE  id = other /\ \E r \in Requests : begun[r] = origin[id]
    BY <1>7, <2>1
  <2> QED
    BY <1>1, <1>2, <1>3, <2>1 DEF UnlistedInv
<1> QED
  BY <1>1, <1>2, <1>4, <1>5, <1>6, <1>8 DEF ListedInv

(* A load lists what is stored.                                            *)
LEMMA LoadLists ==
  ASSUME StoreInv, ListedInv, Remember, UNCHANGED clock,
         NEW limit \in Limits, NEW key \in Keys \cup {None}, load(limit, key)
  PROVE  /\ ListedInv' /\ begun' = [r \in Requests |-> None] /\ origin' = origin
         /\ status # "up" /\ status' = "up" /\ crashes' = crashes
         /\ listed' \in SetToSeqs(stored_ids) /\ SortedNewestFirst(listed')
         /\ ToSet(listed') = stored_ids /\ fits(stored_bytes)
<1>1. /\ status # "up" /\ status' = "up" /\ fits(stored_bytes)
      /\ UNCHANGED <<files, pc, record, created, poisoned, crashes>>
      /\ newest_first' \in SetToSeqs(stored_ids) /\ SortedNewestFirst(newest_first')
  BY DEF load, Loads, disk, mutex, locals
<1>2. begun' = [r \in Requests |-> None] /\ listed' = newest_first' /\ origin' = origin
  BY <1>1, StartBegun DEF loads
<1>3. stored_ids' = stored_ids /\ stored_ids \subseteq Ids
  BY <1>1, SameFiles DEF stored_ids
<1>4. ToSet(listed') = stored_ids /\ listed' \in Seq(Ids)
  BY <1>1, <1>2, <1>3, ListedMembers
<1>5. \A r \in Requests : pc'[r] \in {"new", "done"}
  BY <1>1 DEF StoreInv, LockInv
<1>6. HistoryTyped'
  BY <1>2, <1>4 DEF ListedInv, HistoryTyped
<1>7. OriginInv'
  BY <1>1, <1>2, <1>3, <1>4 DEF ListedInv, OriginInv
<1>8. BegunInv'
  BY <1>2, <1>5 DEF BegunInv, Submitting, Critical
<1>9. UnlistedInv'
  BY <1>1 DEF UnlistedInv, StoreInv, LockInv
<1> QED
  BY <1>1, <1>2, <1>4, <1>6, <1>7, <1>8, <1>9 DEF ListedInv

(* Steps that leave all of it alone.                                       *)
LEMMA NothingHappens ==
  ASSUME StoreInv, ListedInv, Remember, UNCHANGED clock, StartFails \/ Quiet
  PROVE  /\ ListedInv' /\ UNCHANGED <<begun, listed, crashes>> /\ origin' = origin
         /\ (status = "up" <=> status' = "up")
<1>1. CASE StartFails
  <2>1. /\ status # "up" /\ status' # "up"
        /\ UNCHANGED <<files, pc, record, created, poisoned, crashes>>
    BY <1>1 DEF StartFails, load_fails, disk, mutex, locals
  <2>2. \A r \in Requests : pc'[r] \in {"new", "done"}
    BY <2>1 DEF StoreInv, LockInv
  <2>3. begun' = begun /\ listed' = listed /\ origin' = origin
    BY <2>1, <2>2, StoppedBegun
  <2>4. stored_ids' = stored_ids /\ (fits(stored_bytes)' <=> fits(stored_bytes))
    BY <2>1, SameFiles
  <2>5. HistoryTyped' /\ OriginInv' /\ BegunInv'
    BY <2>1, <2>2, <2>3, <2>4
       DEF ListedInv, HistoryTyped, OriginInv, BegunInv, Submitting, Critical
  <2>6. UnlistedInv'
    BY <2>1, <2>3, <2>4 DEF ListedInv, UnlistedInv
  <2> QED
    BY <2>1, <2>3, <2>5, <2>6 DEF ListedInv
<1>2. CASE Quiet
  <2>1. UNCHANGED vars /\ status = "up" /\ \A r \in Requests : pc[r] = "done"
    BY <1>2 DEF Quiet
  <2>2. \A r \in Requests : begun[r] = None
    BY <2>1 DEF ListedInv, BegunInv, Submitting, Critical
  <2>3. begun' = [r \in Requests |-> None]
    BY <2>1 DEF Remember, prepares, vars, process, locals
  <2>4. begun' = begun
    BY <2>2, <2>3 DEF ListedInv, HistoryTyped
  <2>5. listed' = listed
    BY <2>1 DEF Remember, ListedInv, OriginInv, vars, process, index
  <2>6. origin' = origin
    BY <2>1, OriginsStay DEF ListedInv, vars, disk
  <2>7. stored_ids' = stored_ids /\ (fits(stored_bytes)' <=> fits(stored_bytes))
    BY <2>1, SameFiles DEF vars, disk
  <2>8. HistoryTyped' /\ OriginInv' /\ BegunInv' /\ UnlistedInv'
    BY <2>1, <2>4, <2>5, <2>6, <2>7 DEF ListedInv, HistoryTyped, OriginInv, BegunInv, UnlistedInv,
       vars, disk, process, index, mutex, locals
  <2> QED
    BY <2>1, <2>4, <2>5, <2>6, <2>8 DEF ListedInv, vars, process
<1> QED
  BY <1>1, <1>2

(* --------------------- the steps of the inventory ---------------------- *)

dates == [id \in Ids |-> IF id \in ToSet(listed) THEN origin[id].at ELSE 0]
earlier == [id \in Ids |-> IF id \in ToSet(listed) THEN origin[id].before ELSE {}]
loaded == crashes + (IF status = "up" THEN 1 ELSE 0)

LEMMA ListingUnchanged ==
  ASSUME UNCHANGED <<clock, begun, listed>>, dates' = dates, earlier' = earlier, loaded' = loaded
  PROVE  UNCHANGED Listing!inventory_vars
  BY DEF Listing!inventory_vars, dates, earlier, loaded

(* What is listed keeps its date.                                          *)
LEMMA DatesStay ==
  ASSUME listed' = listed, \A id \in ToSet(listed) : origin'[id] = origin[id]
  PROVE  dates' = dates /\ earlier' = earlier
<1>1. \A id \in Ids :
        /\ (IF id \in ToSet(listed) THEN origin'[id].at ELSE 0)
             = (IF id \in ToSet(listed) THEN origin[id].at ELSE 0)
        /\ (IF id \in ToSet(listed) THEN origin'[id].before ELSE {})
             = (IF id \in ToSet(listed) THEN origin[id].before ELSE {})
  OBVIOUS
<1> QED
  BY <1>1 DEF dates, earlier

(* One more payload is listed: only it gets a date.                        *)
LEMMA OneMoreDate ==
  ASSUME origin' = origin, NEW id \in Ids, id \notin ToSet(listed),
         ToSet(listed') = ToSet(listed) \cup {id}
  PROVE  /\ dates' = [dates EXCEPT ![id] = origin[id].at]
         /\ earlier' = [earlier EXCEPT ![id] = origin[id].before]
<1>1. dates' = [i \in Ids |-> IF i \in ToSet(listed) \cup {id} THEN origin[i].at ELSE 0]
  BY DEF dates
<1>2. earlier' = [i \in Ids |-> IF i \in ToSet(listed) \cup {id} THEN origin[i].before ELSE {}]
  BY DEF earlier
<1>3. dates' = [dates EXCEPT ![id] = origin[id].at]
  BY <1>1 DEF dates
<1>4. earlier' = [earlier EXCEPT ![id] = origin[id].before]
  BY <1>2 DEF earlier
<1> QED
  BY <1>3, <1>4

LEMMA PrepareDates ==
  ASSUME StoreInv, ListedInv, DatedNow, Remember, UNCHANGED clock, NEW r \in Requests, Prepare(r)
  PROVE  \E id \in Ids : Listing!Date(r, id)
<1>1. /\ UNCHANGED <<listed, status, crashes>> /\ origin' = origin /\ begun[r] = None
      /\ record'[r].id \in Ids
      /\ begun' = [begun EXCEPT ![r] =
           [payload |-> record'[r].id, at |-> clock, before |-> ToSet(listed)]]
  BY PrepareBegins
<1>2. dates' = dates /\ earlier' = earlier /\ loaded' = loaded
  BY <1>1, DatesStay DEF loaded
<1>3. Listing!stored = ToSet(listed)
  BY ListingOperators DEF Listing!stored
<1>4. Listing!Date(r, record'[r].id)
  BY <1>1, <1>2, <1>3 DEF Listing!Date, dates, earlier, loaded
<1> QED
  BY <1>1, <1>4

LEMMA CommitCommits ==
  ASSUME StoreInv, InventoryInv, ListedInv, Remember, UNCHANGED clock, NEW r \in Requests,
         CommitNew(r)
  PROVE  Listing!Commit(r)
<1> DEFINE id == record[r].id
<1>1. /\ UNCHANGED <<status, crashes>> /\ origin' = origin
      /\ id \in Ids /\ id \notin ToSet(listed)
      /\ begun[r] # None /\ begun[r].payload = id /\ origin[id] = begun[r]
      /\ begun' = [begun EXCEPT ![r] = None]
      /\ listed' = <<id>> \o listed /\ ToSet(listed') = ToSet(listed) \cup {id}
  BY CommitListed
<1> HIDE DEF id
<1>2. /\ dates' = [dates EXCEPT ![id] = begun[r].at]
      /\ earlier' = [earlier EXCEPT ![id] = begun[r].before]
      /\ loaded' = loaded
  BY <1>1, OneMoreDate DEF loaded
<1>3. Listing!unlisted(r)
  BY <1>1, ListingOperators DEF Listing!unlisted, Listing!stored
<1>4. Listing!keep(r)
  BY <1>1, <1>2 DEF Listing!keep, dates, earlier
<1>5. listed' = Listing!listed(begun[r].payload)
  BY <1>1 DEF Listing!listed
<1> QED
  BY <1>1, <1>2, <1>3, <1>4, <1>5 DEF Listing!Commit, loaded

(* Of the requests that end without a new payload, the raw reads and the   *)
(* refused ones had begun nothing.                                         *)
LEMMA EndingDrops ==
  ASSUME StoreInv, InventoryInv, ListedInv, Remember, UNCHANGED clock, NEW r \in Requests,
         Reject(r) \/ AnswerKnown(r) \/ PersistFails(r) \/ CommitUpgrade(r)
         \/ CommitOverflows(r) \/ LockPanics(r) \/ RawRead(r)
  PROVE  Listing!Drop(r) \/ UNCHANGED Listing!inventory_vars
<1>1. /\ UNCHANGED <<listed, status, crashes>> /\ origin' = origin
      /\ begun' = [begun EXCEPT ![r] = None]
  BY EndingTask
<1>2. dates' = dates /\ earlier' = earlier /\ loaded' = loaded
  BY <1>1, DatesStay DEF loaded
<1>3. CASE begun[r] # None
  BY <1>1, <1>2, <1>3 DEF Listing!Drop, dates, earlier, loaded
<1>4. CASE begun[r] = None
  <2>1. begun' = begun
    BY <1>1, <1>4 DEF ListedInv, HistoryTyped
  <2> QED
    BY <1>1, <1>2, <2>1, ListingUnchanged
<1> QED
  BY <1>3, <1>4

LEMMA NothingStutters ==
  ASSUME UNCHANGED <<clock, begun, listed, crashes>>, status = "up" <=> status' = "up",
         \A id \in ToSet(listed) : origin'[id] = origin[id]
  PROVE  UNCHANGED Listing!inventory_vars
<1>1. dates' = dates /\ earlier' = earlier
  BY DatesStay
<1>2. loaded' = loaded
  BY DEF loaded
<1> QED
  BY <1>1, <1>2, ListingUnchanged

LEMMA CrashStutters ==
  ASSUME StoreInv, InventoryInv, ListedInv, Remember, UNCHANGED clock, Crash
  PROVE  UNCHANGED Listing!inventory_vars
<1>1. /\ UNCHANGED <<begun, listed>> /\ origin' = origin
      /\ status = "up" /\ status' # "up" /\ crashes' = crashes + 1
  BY CrashLeaves
<1>2. dates' = dates /\ earlier' = earlier
  BY <1>1, DatesStay
<1>3. crashes \in Nat
  BY BoundsAssumption DEF StoreInv, TypeInv, TypeOK
<1>4. loaded' = loaded
  BY <1>1, <1>3 DEF loaded
<1> QED
  BY <1>1, <1>2, <1>4, ListingUnchanged

(* A load finds what was listed, and perhaps the file of one submission    *)
(* that was under way when the process stopped.                            *)
LEMMA LoadRestarts ==
  ASSUME StoreInv, ListedInv, Remember, UNCHANGED clock,
         NEW limit \in Limits, NEW key \in Keys \cup {None}, load(limit, key)
  PROVE  Listing!Restart
<1>1. /\ begun' = [r \in Requests |-> None] /\ origin' = origin
      /\ status # "up" /\ status' = "up" /\ crashes' = crashes
      /\ listed' \in SetToSeqs(stored_ids) /\ SortedNewestFirst(listed')
      /\ ToSet(listed') = stored_ids /\ fits(stored_bytes)
  BY LoadLists
<1>2. crashes \in Nat /\ crashes <= MaxCrashes /\ MaxCrashes \in Nat
  BY BoundsAssumption DEF StoreInv, TypeInv, TypeOK
<1>3. loaded < MaxCrashes + 1 /\ loaded' = loaded + 1
  BY <1>1, <1>2 DEF loaded
<1>4. /\ ToSet(listed) \subseteq stored_ids /\ stored_ids \subseteq Ids
      /\ \A id, other \in stored_ids \ ToSet(listed) :
           id = other /\ \E r \in Requests : begun[r] = origin[id]
  BY <1>1 DEF ListedInv, OriginInv, UnlistedInv, stored_ids
<1>5. \A id \in stored_ids : dates'[id] = files[id].submittedAt
  <2>1. \A id \in stored_ids : dates'[id] = origin[id].at
    BY <1>1, <1>4 DEF dates
  <2> QED
    BY <2>1 DEF ListedInv, OriginInv
<1>6. listed' \in Listing!sorted(stored_ids, dates')
  <2>1. \A i \in DOMAIN listed' : listed'[i] \in stored_ids
    BY <1>1 DEF ToSet
  <2>2. \A i, j \in DOMAIN listed' : i < j => dates'[listed'[i]] >= dates'[listed'[j]]
    BY <1>1, <1>5, <2>1 DEF SortedNewestFirst
  <2> QED
    BY <1>1, <2>2, ListingOperators DEF Listing!sorted, Listing!in_order
<1>7. Listing!stored = ToSet(listed)
  BY ListingOperators DEF Listing!stored
<1>8. /\ loaded < MaxCrashes + 1 /\ loaded' = loaded + 1
      /\ listed' \in Listing!sorted(stored_ids, dates')
      /\ begun' = [r \in Requests |-> None] /\ clock' = clock
  BY <1>1, <1>3, <1>6
<1>9. CASE stored_ids = ToSet(listed)
  <2>1. dates' = dates /\ earlier' = earlier
    BY <1>1, <1>9 DEF dates, earlier
  <2>2. listed' \in Listing!sorted(Listing!stored, dates')
    BY <1>7, <1>8, <1>9
  <2> QED
    BY <1>8, <2>1, <2>2 DEF Listing!Restart, Listing!load, dates, earlier, loaded
<1>10. CASE stored_ids # ToSet(listed)
  <2> PICK id \in stored_ids : id \notin ToSet(listed)
    BY <1>4, <1>10
  <2>1. stored_ids = ToSet(listed) \cup {id} /\ id \in Ids
    BY <1>4
  <2>2. PICK r \in Requests : begun[r] = origin[id]
    BY <1>4
  <2>3. begun[r] # None /\ begun[r].payload = id
    BY <2>2 DEF ListedInv, OriginInv
  <2>4. /\ dates' = [dates EXCEPT ![id] = begun[r].at]
        /\ earlier' = [earlier EXCEPT ![id] = begun[r].before]
    BY <1>1, <2>1, <2>2, OneMoreDate
  <2>5. Listing!unlisted(r)
    BY <1>7, <2>3 DEF Listing!unlisted
  <2>6. Listing!keep(r)
    BY <2>3, <2>4 DEF Listing!keep, dates, earlier
  <2>7. stored_ids = Listing!stored \cup {begun[r].payload}
    BY <1>7, <2>1, <2>3
  <2>8. listed' \in Listing!sorted(Listing!stored \cup {begun[r].payload}, dates')
    BY <1>8, <2>7
  <2> QED
    BY <1>8, <2>5, <2>6, <2>8 DEF Listing!Restart, Listing!load, dates, loaded
<1> QED
  BY <1>9, <1>10

LEMMA TickTicks ==
  ASSUME ListedInv, Tick
  PROVE  ListedInv' /\ Listing!Tick
<1>1. /\ UNCHANGED <<vars, begun, origin, listed>>
      /\ \E t \in Times : clock < t /\ clock' = t
  BY DEF Tick, history
<1>2. /\ UNCHANGED <<files, status, newest_first, poisoned, pc, record, created, crashes>>
  BY <1>1 DEF vars, disk, process, index, mutex, locals
<1>3. stored_ids' = stored_ids /\ (fits(stored_bytes)' <=> fits(stored_bytes))
  BY <1>2, SameFiles
<1>4. HistoryTyped' /\ OriginInv'
  BY <1>1, <1>2, <1>3 DEF ListedInv, HistoryTyped, OriginInv
<1>5. BegunInv' /\ UnlistedInv'
  BY <1>1, <1>2, <1>3 DEF ListedInv, BegunInv, UnlistedInv
<1>6. Listing!Tick
  BY <1>1, <1>2 DEF Listing!Tick
<1> QED
  BY <1>4, <1>5, <1>6 DEF ListedInv

(* Every step of the store is a step of the inventory or none.             *)
LEMMA ListedStep ==
  StoreInv /\ InventoryInv /\ ListedInv /\ [ListedNext]_listed_vars
    => ListedInv' /\ [Listing!InventoryNext]_(Listing!inventory_vars)
<1> SUFFICES ASSUME StoreInv, InventoryInv, ListedInv, [ListedNext]_listed_vars
             PROVE  ListedInv' /\ [Listing!InventoryNext]_(Listing!inventory_vars)
  OBVIOUS
<1>1. CASE Tick
  BY <1>1, TickTicks DEF Listing!InventoryNext
<1>2. CASE UNCHANGED listed_vars
  <2>1. UNCHANGED <<vars, clock, begun, origin, listed>>
    BY <1>2 DEF listed_vars, history
  <2>2. /\ UNCHANGED <<files, status, newest_first, poisoned, pc, record, created, crashes>>
    BY <2>1 DEF vars, disk, process, index, mutex, locals
  <2>3. stored_ids' = stored_ids /\ (fits(stored_bytes)' <=> fits(stored_bytes))
    BY <2>2, SameFiles
  <2>4. HistoryTyped' /\ OriginInv'
    BY <2>1, <2>2, <2>3 DEF ListedInv, HistoryTyped, OriginInv
  <2>5. BegunInv' /\ UnlistedInv'
    BY <2>1, <2>2, <2>3 DEF ListedInv, BegunInv, UnlistedInv
  <2>6. UNCHANGED Listing!inventory_vars
    BY <2>1, <2>2, NothingStutters
  <2> QED
    BY <2>4, <2>5, <2>6 DEF ListedInv
<1>3. CASE Next /\ DatedNow /\ Remember /\ UNCHANGED clock
  <2> USE <1>3
  <2>1. ASSUME NEW limit \in Limits, NEW key \in Keys \cup {None}, load(limit, key)
        PROVE  ListedInv' /\ [Listing!InventoryNext]_(Listing!inventory_vars)
    BY <2>1, LoadLists, LoadRestarts DEF Listing!InventoryNext
  <2>2. CASE StartFails \/ Quiet
    <3>1. /\ ListedInv' /\ UNCHANGED <<clock, begun, listed, crashes>> /\ origin' = origin
          /\ (status = "up" <=> status' = "up")
      BY <2>2, NothingHappens
    <3> QED
      BY <3>1, NothingStutters
  <2>3. CASE Crash
    BY <2>3, CrashLeaves, CrashStutters
  <2>4. ASSUME NEW r \in Requests, Prepare(r)
        PROVE  ListedInv' /\ [Listing!InventoryNext]_(Listing!inventory_vars)
    BY <2>4, PrepareBegins, PrepareDates DEF Listing!InventoryNext
  <2>5. ASSUME NEW r \in Requests,
               RawLookup(r) \/ RawRecheck(r) \/ BeginUpgrade(r) \/ BeginNew(r) \/ OpenTemp(r)
               \/ FillTemp(r)
        PROVE  ListedInv' /\ [Listing!InventoryNext]_(Listing!inventory_vars)
    <3>1. /\ ListedInv' /\ UNCHANGED <<clock, begun, listed, status, crashes>>
          /\ origin' = origin
      BY <2>5, QuietTask
    <3> QED
      BY <3>1, NothingStutters
  <2>6. ASSUME NEW r \in Requests, Rename(r)
        PROVE  ListedInv' /\ [Listing!InventoryNext]_(Listing!inventory_vars)
    <3>1. /\ ListedInv' /\ UNCHANGED <<clock, begun, listed, status, crashes>>
          /\ \A id \in ToSet(listed) : origin'[id] = origin[id]
      BY <2>6, RenameOrigin
    <3> QED
      BY <3>1, NothingStutters
  <2>7. ASSUME NEW r \in Requests, CommitNew(r)
        PROVE  ListedInv' /\ [Listing!InventoryNext]_(Listing!inventory_vars)
    BY <2>7, CommitListed, CommitCommits DEF Listing!InventoryNext
  <2>8. ASSUME NEW r \in Requests,
               Reject(r) \/ AnswerKnown(r) \/ PersistFails(r) \/ CommitUpgrade(r)
               \/ CommitOverflows(r) \/ LockPanics(r) \/ RawRead(r)
        PROVE  ListedInv' /\ [Listing!InventoryNext]_(Listing!inventory_vars)
    BY <2>8, EndingTask, EndingDrops DEF Listing!InventoryNext
  <2> QED
    BY <2>1, <2>2, <2>3, <2>4, <2>5, <2>6, <2>7, <2>8 DEF Next, Start, Arrive, Step
<1> QED
  BY <1>1, <1>2, <1>3 DEF ListedNext

LEMMA ListedIsStore == ListedSpec => Spec
<1>1. ListedInit => Init
  BY DEF ListedInit
<1>2. [ListedNext]_listed_vars => [Next]_vars
  BY DEF ListedNext, Tick, listed_vars
<1> QED
  BY <1>1, <1>2, PTL DEF ListedSpec, Spec

(* The store keeps its list as Inventory says: under its mutex, with       *)
(* failed writes, upgrades, resubmissions, panics, kills and loads, a      *)
(* payload is put in front once, and a load finds what was listed and at   *)
(* most one payload more.                                                  *)
THEOREM StoreListsAsInventory == ListedSpec => ListsAsInventory
<1>1. ListedInit => ListedInv /\ Listing!InventoryInit
  BY ListedStart, ListingStart
<1>2. ListedSpec => [](StoreInv /\ InventoryInv)
  BY ListedIsStore, InventoryInvariant
<1>3. StoreInv /\ InventoryInv /\ ListedInv /\ [ListedNext]_listed_vars => ListedInv'
  BY ListedStep
<1>4. StoreInv /\ InventoryInv /\ ListedInv /\ [ListedNext]_listed_vars
        => [Listing!InventoryNext]_(Listing!inventory_vars)
  BY ListedStep
<1> QED
  BY <1>1, <1>2, <1>3, <1>4, PTL DEF ListedSpec, ListsAsInventory, Listing!InventorySpec

LEMMA OrderedIsListing ==
  /\ Listing!InventoryInit <=> Ordered!InventoryInit
  /\ [Listing!InventoryNext]_(Listing!inventory_vars)
       <=> [Ordered!InventoryNext]_(Ordered!inventory_vars)
  /\ Listing!LatestFirst <=> Ordered!LatestFirst
<1>1. \A found, ds : Listing!sorted(found, ds) = Ordered!sorted(found, ds)
  BY ListingOperators DEF Listing!sorted, Ordered!sorted, Listing!in_order, Ordered!in_order
<1>2. Listing!stored = ToSet(listed) /\ Ordered!stored = ToSet(listed)
  BY ListingOperators DEF Listing!stored, Ordered!stored
<1>3. \A r : Listing!unlisted(r) <=> Ordered!unlisted(r)
  BY <1>2 DEF Listing!unlisted, Ordered!unlisted
<1>4. \A r : Listing!keep(r) <=> Ordered!keep(r)
  BY DEF Listing!keep, Ordered!keep
<1>5. \A r, p : Listing!Date(r, p) <=> Ordered!Date(r, p)
  BY <1>2 DEF Listing!Date, Ordered!Date
<1>6. \A r : Listing!Commit(r) <=> Ordered!Commit(r)
  BY <1>3, <1>4 DEF Listing!Commit, Ordered!Commit, Listing!listed, Ordered!listed
<1>7. \A r : Listing!Drop(r) <=> Ordered!Drop(r)
  BY DEF Listing!Drop, Ordered!Drop
<1>8. Listing!Restart <=> Ordered!Restart
  BY <1>1, <1>2, <1>3, <1>4 DEF Listing!Restart, Ordered!Restart, Listing!load, Ordered!load
<1>9. Listing!Tick <=> Ordered!Tick
  BY DEF Listing!Tick, Ordered!Tick
<1>10. Listing!InventoryNext <=> Ordered!InventoryNext
  BY <1>5, <1>6, <1>7, <1>8, <1>9 DEF Listing!InventoryNext, Ordered!InventoryNext
<1>11. UNCHANGED Listing!inventory_vars <=> UNCHANGED Ordered!inventory_vars
  BY DEF Listing!inventory_vars, Ordered!inventory_vars
<1>12. Listing!InventoryInit <=> Ordered!InventoryInit
  BY <1>1 DEF Listing!InventoryInit, Ordered!InventoryInit
<1>13. Listing!LatestFirst <=> Ordered!LatestFirst
  <2>1. \A S : Listing!Cardinality(S) = Ordered!Cardinality(S)
    BY DEF Listing!Cardinality, Ordered!Cardinality
  <2>2. \A n : Listing!snapshot(n) = Ordered!snapshot(n)
    BY DEF Listing!snapshot, Ordered!snapshot
  <2>3. \A p, q : Listing!later(p, q) <=> Ordered!later(p, q)
    BY DEF Listing!later, Ordered!later
  <2> QED
    BY <1>2, <2>1, <2>2, <2>3 DEF Listing!LatestFirst, Ordered!LatestFirst
<1> QED
  BY <1>10, <1>11, <1>12, <1>13

(* What is true of the inventory is true of the store: of two payloads     *)
(* submitted one after the other, in different seconds, the later one is   *)
(* listed first, before and after any restart.                             *)
THEOREM StoreListsLatestFirst == ListedSpec => []LatestFirst
<1>1. Listing!InventorySpec => Ordered!InventorySpec
  BY OrderedIsListing, PTL DEF Listing!InventorySpec, Ordered!InventorySpec
<1>2. Ordered!InventorySpec => []Ordered!LatestFirst
  BY OrderedAssumption, Ordered!LaterIsListedFirst
<1> QED
  BY <1>1, <1>2, OrderedIsListing, StoreListsAsInventory, PTL DEF ListsAsInventory, LatestFirst
=============================================================================

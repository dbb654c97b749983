------------------------------ MODULE Receipts ------------------------------
(***************************************************************************)
(* The records, receipts and signatures of the provider (src/src/model.rs, *)
(* src/src/signer.rs) as pure operators over symbolic data.                *)
(*                                                                         *)
(* Cryptography is symbolic.  SHA-256 is collision free, so a payload id   *)
(* is the pair it is computed from; a signature is the pair of the address *)
(* that signed and the receipt it signed, and nobody forges one.  The      *)
(* digest, r, s, v and recovery checks of the validator compare values     *)
(* derived from that pair; what is left of them is the comparison of the   *)
(* signed receipt with the record.  A receipt's namespace, checksum and    *)
(* sizeBytes are functions of its payloadId and are left out.              *)
(***************************************************************************)
EXTENDS Naturals

CONSTANTS
  Namespaces,    \* validated namespaces
  Bodies,        \* decoded payload byte strings
  SizeOf,        \* length in bytes of each body
  ContentTypes,  \* validated content types
  Contexts,      \* non-empty receipt contexts: a nonce, a payment or both
  Keys,          \* signing keys, named by the address they sign for
  Times,         \* values of the wall clock, in whole seconds
  None           \* Rust's Option::None

ASSUME SizeAssumption == SizeOf \in [Bodies -> Nat \ {0}]
ASSUME TimesAssumption == Times \subseteq Nat

Ids == Namespaces \X Bodies
Receipt == [action : {"payloadReceived", "hostPayload"}, payloadId : Ids,
            submittedAt : Times, context : Contexts \cup {None}]
PayloadSignature == [signer : Keys, receipt : Receipt]
PayloadRecord ==
  [id : Ids, namespace : Namespaces, contentType : ContentTypes \cup {None},
   sizeBytes : Nat, submittedAt : Times, body : Bodies,
   signature : PayloadSignature \cup {None}]
PayloadMetadata ==
  [id : Ids, namespace : Namespaces, contentType : ContentTypes \cup {None},
   sizeBytes : Nat, submittedAt : Times,
   signature : PayloadSignature \cup {None}]

(* None is not a value of any of the types it is the absent case of.       *)
ASSUME NoneAssumption ==
  /\ None \notin Keys \cup Contexts \cup ContentTypes
  /\ None \notin PayloadSignature
  /\ None \notin PayloadRecord
  /\ None \notin PayloadMetadata

payload_id(ns, bytes) == <<ns, bytes>>

metadata_for(rec) ==
  [id |-> rec.id, namespace |-> rec.namespace, contentType |-> rec.contentType,
   sizeBytes |-> rec.sizeBytes, submittedAt |-> rec.submittedAt,
   signature |-> rec.signature]

(* What an upgrade keeps of a record, and an answer says of a payload.     *)
Kept(m) == <<m.id, m.namespace, m.contentType, m.sizeBytes, m.submittedAt>>

(* The form of /status and /payloads: of a signature the signer and the    *)
(* hash of the receipt it covers.                                          *)
summarize_signature(sig) == [signer |-> sig.signer, messageHash |-> sig.receipt]
summarize(m) ==
  [m EXCEPT !.signature = IF @ = None THEN None ELSE summarize_signature(@)]

(* The record persisted for metadata m and the body it addresses.          *)
disk_record(m, bytes) ==
  [id |-> m.id, namespace |-> m.namespace, contentType |-> m.contentType,
   sizeBytes |-> m.sizeBytes, submittedAt |-> m.submittedAt, body |-> bytes,
   signature |-> m.signature]

receipt_for_record_with_context(m, ctx) ==
  [action |-> "payloadReceived", payloadId |-> m.id,
   submittedAt |-> m.submittedAt, context |-> ctx]

receipt_for_record(m) == receipt_for_record_with_context(m, None)

legacy_hosting_receipt_for_record(m) ==
  [receipt_for_record(m) EXCEPT !.action = "hostPayload"]

sign_receipt(key, receipt) == [signer |-> key, receipt |-> receipt]

validate_payload_signature(m, sig) ==
  sig.receipt \in {receipt_for_record(m), legacy_hosting_receipt_for_record(m)}

signature_is_current_payload_receipt(m, sig) ==
  sig.receipt = receipt_for_record(m) /\ validate_payload_signature(m, sig)

HasCurrentReceipt(m) ==
  m.signature # None /\ signature_is_current_payload_receipt(m, m.signature)

(* A record keeps a current receipt, whichever key signed it.  Any other   *)
(* signature is dropped, and replaced when this process has a key.         *)
sign_record_if_enabled(m, key) ==
  IF HasCurrentReceipt(m) THEN m
  ELSE [m EXCEPT !.signature =
          IF key = None THEN None ELSE sign_receipt(key, receipt_for_record(m))]

(* The signature returned to the submitter: the stored one, or, when the   *)
(* submission carries a nonce or a payment, one made for this answer only. *)
signature_for_context(m, ctx, key) ==
  IF ctx = None THEN m.signature
  ELSE IF key = None THEN None
  ELSE sign_receipt(key, receipt_for_record_with_context(m, ctx))

record_for(ns, bytes, ctype, now) ==
  [id |-> payload_id(ns, bytes), namespace |-> ns, contentType |-> ctype,
   sizeBytes |-> SizeOf[bytes], submittedAt |-> now, body |-> bytes,
   signature |-> None]

(* What load demands of a file before the service starts on it.            *)
validate_stored_record(rec, limit) ==
  /\ SizeOf[rec.body] <= limit
  /\ rec.sizeBytes = SizeOf[rec.body]
  /\ rec.id = payload_id(rec.namespace, rec.body)
  /\ rec.signature # None => validate_payload_signature(metadata_for(rec), rec.signature)
=============================================================================

----------------------------- MODULE Validation -----------------------------
(***************************************************************************)
(* What a submission must be and what it is turned into before the store   *)
(* sees it (src/src/validation.rs, src/src/arkiv.rs), and what load        *)
(* demands of a stored record (validate_record_shape), as pure operators.  *)
(*                                                                         *)
(* A request is made of texts.  Of a text the code asks how it is trimmed, *)
(* how it is lower-cased, how long it is, which kinds of bytes it has and  *)
(* what it decodes to; these are functions on the set Texts.  The many     *)
(* reasons to refuse a request are one value, Failure.                     *)
(***************************************************************************)
EXTENDS Receipts, Sequences, SequencesExt, FiniteSets

CONSTANTS
  Texts,         \* strings of requests and stored records
  Blank,         \* the empty string
  Trim,          \* str::trim
  Lower,         \* str::to_lowercase
  Length,        \* length in bytes
  Kinds,         \* the kinds of bytes that occur in a text
  LowerFirst,    \* texts whose first byte is a lower case letter
  Hex32,         \* 0x and 64 lower case hexadecimal digits
  ZeroNonce,     \* the Hex32 of digits 0
  EmptyBytes,    \* the byte string of length 0
  Encode,        \* STANDARD.encode of a body
  Decode,        \* STANDARD.decode of a text
  Rank,          \* the byte order of texts
  Documents,     \* JSON documents
  CanonicalJson, \* canonical_json_to_bytes: sorted keys, compact UTF-8
  Values,        \* attribute values: u64 or strings
  LongValues,    \* those that are strings of more than 128 bytes
  JSON_CONTENT_TYPE, BINARY_CONTENT_TYPE, DEFAULT_NAMESPACE,
  Failure        \* Rust's Result::Err

MAX_NAMESPACE_BYTES == 64
MAX_CONTENT_TYPE_BYTES == 128
MAX_ATTRIBUTE_NAME_BYTES == 32
Kind == {"lower", "upper", "digit", "mark", "printable", "control", "high"}

ASSUME TextsAssumption ==
  /\ Trim \in [Texts -> Texts] /\ Lower \in [Texts -> Texts]
  /\ \A t \in Texts : Trim[Trim[t]] = Trim[t]
  /\ Length \in [Texts -> Nat] /\ Kinds \in [Texts -> SUBSET Kind]
  /\ Rank \in [Texts -> Nat] /\ LowerFirst \subseteq Texts
  /\ {Blank, JSON_CONTENT_TYPE, BINARY_CONTENT_TYPE, DEFAULT_NAMESPACE} \subseteq Texts
  /\ Hex32 \subseteq Texts /\ ZeroNonce \in Hex32
ASSUME Base64Assumption ==
  /\ Encode \in [Bodies -> Texts] /\ Decode \in [Texts -> Bodies \cup {EmptyBytes, Failure}]
  /\ \A b \in Bodies : Decode[Trim[Encode[b]]] = b
  /\ CanonicalJson \in [Documents -> Bodies]
ASSUME FailureAssumption ==
  /\ Failure \notin Texts \cup Bodies \cup Nat \cup {None, EmptyBytes}
  /\ EmptyBytes \notin Bodies /\ None \notin Texts \cup Nat \cup Documents
  /\ None \notin [nonce : Hex32 \cup {None}, payment : Nat \cup {None}]

(* The validated namespaces and content types of Receipts, said without    *)
(* the code: what a validator returns, and returns unchanged.              *)
ASSUME ValidatedAssumption ==
  /\ Namespaces = {t \in Texts : /\ Trim[t] = t /\ t # Blank
                                 /\ Length[t] <= MAX_NAMESPACE_BYTES
                                 /\ Kinds[t] \subseteq {"lower", "upper", "digit", "mark"}}
  /\ ContentTypes = {t \in Texts : /\ Trim[t] = t /\ t # Blank
                                   /\ Length[t] <= MAX_CONTENT_TYPE_BYTES
                                   /\ Kinds[t] \cap {"control", "high"} = {}}
-----------------------------------------------------------------------------
(* src/src/validation.rs                                                   *)

(* Mutant: the namespace is checked trimmed and kept as it came.           *)
namespace_as_given(t) ==
  IF /\ Trim[t] # Blank
     /\ Length[Trim[t]] <= MAX_NAMESPACE_BYTES
     /\ Kinds[Trim[t]] \subseteq {"lower", "upper", "digit", "mark"}
  THEN t ELSE Failure
validate_namespace(t) ==
  IF /\ Trim[t] # Blank
     /\ Length[Trim[t]] <= MAX_NAMESPACE_BYTES
     /\ Kinds[Trim[t]] \subseteq {"lower", "upper", "digit", "mark"}
  THEN Trim[t] ELSE Failure

(* Mutant: bytes above 0x7e pass.                                          *)
content_type_utf8(t) ==
  IF t = None \/ Trim[t] = Blank THEN None
  ELSE IF Length[Trim[t]] <= MAX_CONTENT_TYPE_BYTES
  THEN Trim[t] ELSE Failure
validate_content_type(t) ==
  IF t = None \/ Trim[t] = Blank THEN None
  ELSE IF /\ Length[Trim[t]] <= MAX_CONTENT_TYPE_BYTES
          /\ Kinds[Trim[t]] \subseteq Kind \ {"control", "high"}
  THEN Trim[t] ELSE Failure

(* Mutant: a nonce keeps its spelling.                                     *)
nonce_as_given(t) ==
  IF t = None THEN None
  ELSE IF Lower[Trim[t]] \in Hex32 \ {ZeroNonce} THEN t ELSE Failure
validate_nonce(t) ==
  IF t = None THEN None
  ELSE IF Lower[Trim[t]] \in Hex32 \ {ZeroNonce} THEN Lower[Trim[t]] ELSE Failure

validate_payment(n) == IF n = 0 THEN Failure ELSE n

decode_payload_base64(t, max_payload_bytes) ==
  LET bytes == Decode[Trim[t]] IN
    IF bytes \in Bodies /\ SizeOf[bytes] <= max_payload_bytes THEN bytes ELSE Failure

(* The receipt context, None when it is empty.                             *)
receipt_context(nonce, payment) ==
  IF nonce = None /\ payment = None THEN None
  ELSE [nonce |-> nonce, payment |-> payment]

ValidatedPayload ==
  [namespace : Texts, contentType : Texts \cup {None}, bytes : Bodies,
   context : [nonce : Hex32 \cup {None}, payment : Nat \cup {None}] \cup {None}]

validate_submission(sub, max_payload_bytes) ==
  LET namespace == validate_namespace(sub.namespace)
      content_type == validate_content_type(sub.contentType)
      nonce == validate_nonce(sub.nonce)
      payment == validate_payment(sub.payment)
      bytes == decode_payload_base64(sub.payloadBase64, max_payload_bytes)
  IN IF \/ namespace = Failure \/ content_type = Failure \/ nonce = Failure
        \/ payment = Failure \/ bytes = Failure THEN Failure
     ELSE [namespace |-> namespace, contentType |-> content_type, bytes |-> bytes,
           context |-> receipt_context(nonce, payment)]

(* The shape load demands of a stored record.                              *)
validate_record_shape(rec, max_payload_bytes) ==
  /\ validate_namespace(rec.namespace) # Failure
  /\ validate_content_type(rec.contentType) # Failure
  /\ decode_payload_base64(Encode[rec.body], max_payload_bytes) # Failure
  /\ rec.sizeBytes = SizeOf[rec.body]
-----------------------------------------------------------------------------
(* src/src/arkiv.rs                                                        *)

validate_attribute_name(t) ==
  IF /\ Trim[t] # Blank
     /\ Length[Trim[t]] <= MAX_ATTRIBUTE_NAME_BYTES
     /\ Trim[t] \in LowerFirst
     /\ Kinds[Trim[t]] \subseteq {"lower", "digit", "mark"}
  THEN Trim[t] ELSE Failure

sorted(attrs) == SetToSortSeq(attrs, LAMBDA a, b : Rank[a.key] < Rank[b.key])

(* Attributes with valid names, no name twice, sorted by name.  Mutant:    *)
(* they keep the order they came in.                                       *)
attributes_as_given(attrs) ==
  LET keys == [i \in DOMAIN attrs |-> validate_attribute_name(attrs[i].key)] IN
    IF Failure \in Range(keys) \/ ~IsInjective(keys)
       \/ \E i \in DOMAIN attrs : attrs[i].value \in LongValues THEN Failure
    ELSE [i \in DOMAIN attrs |-> [key |-> keys[i], value |-> attrs[i].value]]
canonical_attributes(attrs) ==
  LET keys == [i \in DOMAIN attrs |-> validate_attribute_name(attrs[i].key)] IN
    IF Failure \in Range(keys) \/ ~IsInjective(keys)
       \/ \E i \in DOMAIN attrs : attrs[i].value \in LongValues THEN Failure
    ELSE sorted({[key |-> keys[i], value |-> attrs[i].value] : i \in DOMAIN attrs})

validate_entity_key(t) ==
  IF t = None THEN None
  ELSE IF Lower[Trim[t]] \in Hex32 THEN Lower[Trim[t]] ELSE Failure

or_else(t, default) == IF t = None THEN default ELSE t

(* An ARKIV envelope as the submission it becomes, with either the bytes   *)
(* it brings or the canonical form of its JSON document.  expiresIn is     *)
(* only copied into the answer and is left out.                            *)
arkiv_submission(env) ==
  LET json == env.payloadJson # None IN
    [namespace |-> or_else(env.namespace, DEFAULT_NAMESPACE),
     contentType |-> or_else(env.contentType,
                       IF json THEN JSON_CONTENT_TYPE ELSE BINARY_CONTENT_TYPE),
     payloadBase64 |-> IF json THEN Encode[CanonicalJson[env.payloadJson]]
                       ELSE env.payloadBase64,
     nonce |-> env.nonce, payment |-> env.payment]

prepare_submission(env, max_payload_bytes) ==
  LET attributes == canonical_attributes(env.attributes)
      entity_key == validate_entity_key(env.entityKey)
  IN IF attributes = Failure \/ entity_key = Failure
        \/ (env.payloadBase64 = None) = (env.payloadJson = None) THEN Failure
     ELSE LET payload == validate_submission(arkiv_submission(env), max_payload_bytes) IN
            IF payload = Failure THEN Failure
            ELSE [payload |-> payload,
                  arkiv |-> [namespace |-> payload.namespace,
                             contentType |-> payload.contentType,
                             payloadEncoding |-> IF env.payloadJson # None
                                                 THEN "canonicalJson" ELSE "base64",
                             attributes |-> attributes, entityKey |-> entity_key,
                             context |-> payload.context]]
=============================================================================

---------------------------- MODULE IngressProofs ----------------------------
(***************************************************************************)
(* Proofs about Validation, Ingress and Client, for all texts, limits,     *)
(* keys and numbers of requests and restarts.                              *)
(***************************************************************************)
EXTENDS Client, TLAPS

(* -------------------------- validation --------------------------------- *)

(* A validated namespace is its own validated form.                        *)
LEMMA NamespaceValid ==
  ASSUME NEW t \in Texts
  PROVE  /\ validate_namespace(t) # Failure =>
              validate_namespace(t) = Trim[t] /\ Trim[t] \in Namespaces
         /\ t \in Namespaces => validate_namespace(t) = t
  BY TextsAssumption, ValidatedAssumption DEF validate_namespace

LEMMA ContentTypeValid ==
  ASSUME NEW t \in Texts \cup {None}
  PROVE  /\ validate_content_type(t) # Failure => validate_content_type(t) \in ContentTypes \cup {None}
         /\ t \in ContentTypes \cup {None} => validate_content_type(t) = t
<1>1. ASSUME t \in Texts, Trim[t] # Blank, Length[Trim[t]] <= MAX_CONTENT_TYPE_BYTES,
             Kinds[Trim[t]] \subseteq Kind \ {"control", "high"}
      PROVE  Trim[t] \in ContentTypes
  BY <1>1, TextsAssumption, ValidatedAssumption
<1>2. ASSUME t \in ContentTypes
      PROVE  /\ t \in Texts /\ Trim[t] = t /\ t # Blank /\ Length[t] <= MAX_CONTENT_TYPE_BYTES
             /\ Kinds[t] \subseteq Kind \ {"control", "high"}
  BY <1>2, TextsAssumption, ValidatedAssumption
<1>3. None \notin Texts
  BY FailureAssumption
<1> QED
  BY <1>1, <1>2, <1>3 DEF validate_content_type

(* What a submission that passes is turned into.                           *)
LEMMA SubmissionValid ==
  ASSUME NEW sub, NEW limit, sub.namespace \in Texts, sub.payloadBase64 \in Texts,
         sub.contentType \in Texts \cup {None}, validate_submission(sub, limit) # Failure
  PROVE  LET payload == validate_submission(sub, limit) IN
           /\ payload.namespace \in Namespaces /\ payload.namespace = Trim[sub.namespace]
           /\ payload.contentType \in ContentTypes \cup {None}
           /\ payload.bytes \in Bodies /\ payload.bytes = Decode[Trim[sub.payloadBase64]]
           /\ SizeOf[payload.bytes] <= limit
<1>1. /\ validate_namespace(sub.namespace) # Failure
      /\ validate_content_type(sub.contentType) # Failure
      /\ decode_payload_base64(sub.payloadBase64, limit) # Failure
      /\ validate_submission(sub, limit) =
           [namespace |-> validate_namespace(sub.namespace),
            contentType |-> validate_content_type(sub.contentType),
            bytes |-> decode_payload_base64(sub.payloadBase64, limit),
            context |-> receipt_context(validate_nonce(sub.nonce), validate_payment(sub.payment))]
  BY DEF validate_submission
<1>2. LET bytes == decode_payload_base64(sub.payloadBase64, limit) IN
        /\ bytes \in Bodies /\ bytes = Decode[Trim[sub.payloadBase64]]
        /\ SizeOf[bytes] <= limit
  BY <1>1 DEF decode_payload_base64
<1> QED
  BY <1>1, <1>2, NamespaceValid, ContentTypeValid

(* The submission that an ARKIV envelope means has the texts of one.       *)
LEMMA EnvelopeMeans ==
  ASSUME NEW env \in Envelopes, (env.payloadBase64 = None) # (env.payloadJson = None)
  PROVE  LET sub == arkiv_submission(env) IN
           /\ sub.namespace \in Texts /\ sub.payloadBase64 \in Texts
           /\ sub.contentType \in Texts \cup {None}
<1>1. /\ env.namespace \in Texts \cup {None} /\ env.contentType \in Texts \cup {None}
      /\ env.payloadBase64 \in Texts \cup {None} /\ env.payloadJson \in Documents \cup {None}
  BY SubmissionsAssumption
<1>2. env.payloadJson # None => Encode[CanonicalJson[env.payloadJson]] \in Texts
  BY <1>1, Base64Assumption
<1> QED
  BY <1>1, <1>2, TextsAssumption DEF arkiv_submission, or_else

(* What the handler of either route hands to the store.                    *)
LEMMA Prepared ==
  ASSUME NEW req \in Requests, extracts(req), prepared(req) # Failure
  PROVE  LET payload == prepared(req).payload IN
           /\ payload.namespace \in Namespaces /\ payload.contentType \in ContentTypes \cup {None}
           /\ payload.bytes \in Bodies /\ SizeOf[payload.bytes] <= max_payload_bytes
           /\ payload_id(payload.namespace, payload.bytes) = content(req)
<1>1. CASE req.route = "/payloads"
  <2>1. req.body \in Submissions
    BY <1>1 DEF Requests, extracts
  <2>2. /\ req.body.namespace \in Texts /\ req.body.payloadBase64 \in Texts
        /\ req.body.contentType \in Texts \cup {None}
    BY <2>1, SubmissionsAssumption
  <2>3. /\ validate_submission(req.body, max_payload_bytes) # Failure
        /\ prepared(req).payload = validate_submission(req.body, max_payload_bytes)
    BY <1>1 DEF prepared
  <2>4. meant(req) = req.body
    BY <1>1 DEF meant
  <2> QED
    BY <2>2, <2>3, <2>4, SubmissionValid DEF content, payload_id
<1>2. CASE req.route # "/payloads"
  <2>1. req.body \in Envelopes
    BY <1>2 DEF Requests, extracts
  <2> DEFINE sub == arkiv_submission(req.body)
  <2>2. /\ (req.body.payloadBase64 = None) # (req.body.payloadJson = None)
        /\ validate_submission(sub, max_payload_bytes) # Failure
        /\ prepared(req).payload = validate_submission(sub, max_payload_bytes)
    BY <1>2 DEF prepared, prepare_submission
  <2>3. /\ sub.namespace \in Texts /\ sub.payloadBase64 \in Texts
        /\ sub.contentType \in Texts \cup {None}
    BY <2>1, <2>2, EnvelopeMeans
  <2>4. meant(req) = sub
    BY <1>2 DEF meant
  <2> HIDE DEF sub
  <2> QED
    BY <2>2, <2>3, <2>4, SubmissionValid DEF content, payload_id
<1> QED
  BY <1>1, <1>2
-----------------------------------------------------------------------------
(* ------------------------ the inductive invariant ---------------------- *)

(* A stored record is one that validation let through.                     *)
Sound(rec, limit) ==
  /\ rec.namespace \in Namespaces /\ rec.contentType \in ContentTypes \cup {None}
  /\ rec.body \in Bodies /\ SizeOf[rec.body] <= limit
  /\ rec.id = payload_id(rec.namespace, rec.body) /\ rec.sizeBytes = SizeOf[rec.body]
  /\ rec.signature # None => validate_payload_signature(metadata_for(rec), rec.signature)

SettingsInv ==
  /\ status \in {"down", "up", "failed"}
  /\ max_payload_bytes \in Limits \cup {0} /\ ingress_key \in BearerKeys \cup {None}
  /\ signer \in Keys \cup {None}
  /\ accepted_limit \in Limits \cup {0} /\ starts \in 0 .. MaxStarts
  /\ status = "up" => max_payload_bytes <= accepted_limit

StoredInv == \A rec \in stored : Sound(rec, accepted_limit)

(* An answer is about the payload its request means, which is stored, and  *)
(* its receipt is made for the nonce and the payment of the request.       *)
AnswersInv ==
  /\ \A a \in answers : a.request \in Requests /\ a.status \in {200, 201, 400, 401, 413}
  /\ \A a \in accepted :
       /\ a.outcome.record.id = content(a.request)
       /\ \E rec \in stored : rec.id = a.outcome.record.id
  /\ \A a, b \in accepted :
       content(a.request) = content(b.request) /\ a.status = 201 /\ b.status = 201 => a = b

NoncePaymentOK(req) ==
  nonce_and_payment(req)[1] \in Hex32 \cup {None} /\ nonce_and_payment(req)[2] \in Nat \cup {None}

ReceiptsInv ==
  \A a \in {x \in accepted : x.outcome.signature # None} :
    /\ NoncePaymentOK(a.request)
    /\ a.outcome.signature.receipt.context =
         receipt_context(nonce_and_payment(a.request)[1], nonce_and_payment(a.request)[2])
    /\ a.outcome.arkiv # None =>
         a.outcome.arkiv.context = a.outcome.signature.receipt.context

(* The attributes of an envelope, its names trimmed, as one sorted value.  *)
by_name(attrs) ==
  sorted({[key |-> Trim[attrs[i].key], value |-> attrs[i].value] : i \in DOMAIN attrs})

(* The attributes of an ARKIV answer are that value.                      *)
ArkivInv ==
  \A a \in {x \in accepted : x.outcome.arkiv # None} :
    a.outcome.arkiv.attributes = by_name(a.request.body.attributes)

IngressInv == SettingsInv /\ StoredInv /\ AnswersInv /\ ReceiptsInv /\ ArkivInv
-----------------------------------------------------------------------------
(* --------------------------- what a step does -------------------------- *)

(* The context of a validated submission is that of the nonce and the      *)
(* payment it names.                                                       *)
LEMMA SubmissionContext ==
  ASSUME NEW sub, NEW limit, sub.nonce \in Texts \cup {None}, sub.payment \in Nat \cup {None},
         validate_submission(sub, limit) # Failure
  PROVE  LET nonce == IF sub.nonce = None THEN None ELSE Lower[Trim[sub.nonce]] IN
           /\ nonce \in Hex32 \cup {None}
           /\ validate_submission(sub, limit).context = receipt_context(nonce, sub.payment)
<1>1. /\ validate_nonce(sub.nonce) # Failure /\ validate_payment(sub.payment) # Failure
      /\ validate_submission(sub, limit).context =
           receipt_context(validate_nonce(sub.nonce), validate_payment(sub.payment))
  BY DEF validate_submission
<1>2. /\ validate_nonce(sub.nonce) = IF sub.nonce = None THEN None ELSE Lower[Trim[sub.nonce]]
      /\ validate_nonce(sub.nonce) \in Hex32 \cup {None}
  BY <1>1 DEF validate_nonce
<1>3. validate_payment(sub.payment) = sub.payment
  BY <1>1 DEF validate_payment
<1> QED
  BY <1>1, <1>2, <1>3

(* Canonical attributes are that value.                                    *)
LEMMA AttributesSorted ==
  ASSUME NEW attrs, canonical_attributes(attrs) # Failure
  PROVE  canonical_attributes(attrs) = by_name(attrs)
<1> DEFINE keys == [i \in DOMAIN attrs |-> validate_attribute_name(attrs[i].key)]
<1>1. /\ Failure \notin Range(keys)
      /\ canonical_attributes(attrs) =
           sorted({[key |-> keys[i], value |-> attrs[i].value] : i \in DOMAIN attrs})
  BY DEF canonical_attributes
<1>2. ASSUME NEW i \in DOMAIN attrs
      PROVE  keys[i] = Trim[attrs[i].key]
  <2>1. keys[i] # Failure
    BY <1>1 DEF Range
  <2> QED
    BY <2>1 DEF validate_attribute_name
<1>3. {[key |-> keys[i], value |-> attrs[i].value] : i \in DOMAIN attrs}
        = {[key |-> Trim[attrs[i].key], value |-> attrs[i].value] : i \in DOMAIN attrs}
  BY <1>2
<1> QED
  BY <1>1, <1>3 DEF by_name

(* The contexts of what either route prepares.                             *)
LEMMA PreparedContext ==
  ASSUME NEW req \in Requests, extracts(req), prepared(req) # Failure
  PROVE  /\ NoncePaymentOK(req)
         /\ prepared(req).payload.context =
              receipt_context(nonce_and_payment(req)[1], nonce_and_payment(req)[2])
         /\ prepared(req).arkiv # None =>
              /\ prepared(req).arkiv.context = prepared(req).payload.context
              /\ prepared(req).arkiv.attributes = by_name(req.body.attributes)
<1>1. CASE req.route = "/payloads"
  <2>1. /\ req.body.nonce \in Texts \cup {None} /\ req.body.payment \in Nat \cup {None}
    BY <1>1, SubmissionsAssumption DEF Requests, extracts
  <2>2. /\ validate_submission(req.body, max_payload_bytes) # Failure
        /\ prepared(req).payload = validate_submission(req.body, max_payload_bytes)
        /\ prepared(req).arkiv = None
    BY <1>1 DEF prepared
  <2>3. meant(req) = req.body
    BY <1>1 DEF meant
  <2> QED
    BY <2>1, <2>2, <2>3, SubmissionContext DEF nonce_and_payment, NoncePaymentOK
<1>2. CASE req.route # "/payloads"
  <2> DEFINE env == req.body
             sub == arkiv_submission(env)
             payload == validate_submission(sub, max_payload_bytes)
  <2>1. env \in Envelopes
    BY <1>2 DEF Requests, extracts
  <2>2. /\ sub.nonce \in Texts \cup {None} /\ sub.payment \in Nat \cup {None}
    BY <2>1, SubmissionsAssumption DEF arkiv_submission
  <2>3. /\ canonical_attributes(env.attributes) # Failure
        /\ payload # Failure
        /\ prepared(req).payload = payload
        /\ prepared(req).arkiv.context = payload.context
        /\ prepared(req).arkiv.attributes = canonical_attributes(env.attributes)
    BY <1>2 DEF prepared, prepare_submission
  <2>4. meant(req) = sub
    BY <1>2 DEF meant
  <2>5. /\ NoncePaymentOK(req)
        /\ payload.context =
             receipt_context(nonce_and_payment(req)[1], nonce_and_payment(req)[2])
    <3> HIDE DEF sub
    <3> QED
      BY <2>2, <2>3, <2>4, SubmissionContext DEF nonce_and_payment, NoncePaymentOK
  <2> QED
    BY <2>3, <2>5, AttributesSorted
<1> QED
  BY <1>1, <1>2

(* Making the receipt of a record current keeps it sound, and the receipt  *)
(* has no context.                                                         *)
LEMMA SignedIsSound ==
  ASSUME NEW rec, NEW limit, Sound(rec, limit), NEW key
  PROVE  LET m == sign_record_if_enabled(metadata_for(rec), key) IN
           /\ m.id = rec.id
           /\ m.signature # None => m.signature.receipt.context = None
           /\ Sound(disk_record(m, rec.body), limit) /\ disk_record(m, rec.body).id = rec.id
<1> DEFINE m0 == metadata_for(rec)
           m == sign_record_if_enabled(m0, key)
<1>1. CASE HasCurrentReceipt(m0)
  <2>1. m = m0
    BY <1>1 DEF sign_record_if_enabled
  <2>2. m0.signature.receipt.context = None
    BY <1>1 DEF HasCurrentReceipt, signature_is_current_payload_receipt, receipt_for_record,
                receipt_for_record_with_context
  <2>3. LET d == disk_record(m, rec.body) IN
          /\ d.id = rec.id /\ d.namespace = rec.namespace /\ d.contentType = rec.contentType
          /\ d.sizeBytes = rec.sizeBytes /\ d.body = rec.body /\ d.signature = rec.signature
          /\ metadata_for(d) = m0
    BY <2>1 DEF metadata_for, disk_record
  <2>4. m.id = rec.id
    BY <2>1 DEF metadata_for
  <2>5. Sound(disk_record(m, rec.body), limit)
    BY <2>3 DEF Sound
  <2> QED
    BY <2>1, <2>2, <2>3, <2>4, <2>5
<1>2. CASE ~HasCurrentReceipt(m0)
  <2> DEFINE sig == IF key = None THEN None ELSE sign_receipt(key, receipt_for_record(m0))
  <2>1. m = [m0 EXCEPT !.signature = sig]
    BY <1>2 DEF sign_record_if_enabled
  <2>2. /\ m.id = rec.id /\ m.namespace = rec.namespace /\ m.contentType = rec.contentType
        /\ m.sizeBytes = rec.sizeBytes /\ m.submittedAt = rec.submittedAt /\ m.signature = sig
    BY <2>1 DEF metadata_for
  <2>3. sig # None => sig.receipt = receipt_for_record(m0) /\ sig.receipt.context = None
    BY DEF sign_receipt, receipt_for_record, receipt_for_record_with_context
  <2>4. receipt_for_record(metadata_for(disk_record(m, rec.body))) = receipt_for_record(m0)
    BY <2>2 DEF receipt_for_record, receipt_for_record_with_context, metadata_for, disk_record
  <2>5. LET d == disk_record(m, rec.body) IN
          /\ d.id = rec.id /\ d.namespace = rec.namespace /\ d.contentType = rec.contentType
          /\ d.sizeBytes = rec.sizeBytes /\ d.body = rec.body /\ d.signature = sig
    BY <2>2 DEF disk_record
  <2>6. Sound(disk_record(m, rec.body), limit)
    <3> HIDE DEF sig, m, m0
    <3> QED
      BY <2>3, <2>4, <2>5 DEF Sound, validate_payload_signature
  <2> QED
    BY <2>2, <2>3, <2>5, <2>6
<1> QED
  BY <1>1, <1>2

(* A fresh record is sound.                                                *)
LEMMA NewIsSound ==
  ASSUME NEW ns \in Namespaces, NEW bytes \in Bodies, NEW ctype \in ContentTypes \cup {None},
         NEW limit, SizeOf[bytes] <= limit, NEW now
  PROVE  LET rec == record_for(ns, bytes, ctype, now) IN
           Sound(rec, limit) /\ rec.id = payload_id(ns, bytes) /\ rec.body = bytes
  BY DEF record_for, Sound, payload_id

(* A receipt that is returned is made for the context of its submission.   *)
LEMMA ContextOfAnswer ==
  ASSUME NEW m, NEW ctx, NEW key, m.signature # None => m.signature.receipt.context = None,
         signature_for_context(m, ctx, key) # None
  PROVE  signature_for_context(m, ctx, key).receipt.context = ctx
  BY DEF signature_for_context, sign_receipt, receipt_for_record_with_context

(* Limits and sizes are numbers.                                           *)
LEMMA LimitsAreNat ==
  ASSUME SettingsInv
  PROVE  /\ max_payload_bytes \in Nat /\ accepted_limit \in Nat
         /\ \A b \in Bodies : SizeOf[b] \in Nat
  BY SettingsAssumption, SizeAssumption DEF SettingsInv

(* A request that is accepted: its answer, and what it stores.             *)
LEMMA Accepts ==
  ASSUME NEW req \in Requests, SettingsInv, StoredInv, Accept(req)
  PROVE  \E code, outcome :
           /\ code \in {200, 201}
           /\ respond(req, code, outcome)
           /\ outcome.record.id = content(req)
           /\ outcome.arkiv = prepared(req).arkiv
           /\ outcome.signature # None =>
                outcome.signature.receipt.context = prepared(req).payload.context
           /\ code = 201 => \A rec \in stored : rec.id # content(req)
           /\ \A rec \in stored : \E r \in stored' : r.id = rec.id
           /\ \E r \in stored' : r.id = content(req)
           /\ \A r \in stored' : Sound(r, accepted_limit)
<1> DEFINE payload == prepared(req).payload
           id == payload_id(payload.namespace, payload.bytes)
           outcome(m, created) ==
             [record |-> m, signature |-> signature_for_context(m, payload.context, signer),
              context |-> payload.context, arkiv |-> prepared(req).arkiv, created |-> created]
           signed(rec) == sign_record_if_enabled(metadata_for(rec), signer)
<1>1. extracts(req) /\ prepared(req) # Failure /\ status = "up"
  BY DEF Accept, serves
<1>2. /\ payload.namespace \in Namespaces /\ payload.contentType \in ContentTypes \cup {None}
      /\ payload.bytes \in Bodies /\ SizeOf[payload.bytes] <= accepted_limit
      /\ id = content(req)
  <2>1. /\ payload.namespace \in Namespaces /\ payload.contentType \in ContentTypes \cup {None}
        /\ payload.bytes \in Bodies /\ SizeOf[payload.bytes] <= max_payload_bytes
        /\ id = content(req)
    BY <1>1, Prepared
  <2>2. max_payload_bytes <= accepted_limit
    BY <1>1 DEF SettingsInv
  <2> QED
    BY <2>1, <2>2, LimitsAreNat
<1>3. ASSUME NEW rec, Sound(rec, accepted_limit), NEW created
      PROVE  LET o == outcome(signed(rec), created) IN
               /\ o.record.id = rec.id /\ o.arkiv = prepared(req).arkiv
               /\ o.signature # None => o.signature.receipt.context = payload.context
  BY <1>3, SignedIsSound, ContextOfAnswer
<1>4. CASE \E rec \in stored :
             /\ rec.id = id
             /\ stored' = IF signed(rec).signature = None THEN stored
                          ELSE (stored \ {rec}) \cup {disk_record(signed(rec), payload.bytes)}
             /\ respond(req, 200, outcome(signed(rec), FALSE))
  <2>1. PICK rec \in stored :
          /\ rec.id = id
          /\ stored' = IF signed(rec).signature = None THEN stored
                       ELSE (stored \ {rec}) \cup {disk_record(signed(rec), payload.bytes)}
          /\ respond(req, 200, outcome(signed(rec), FALSE))
    BY <1>4
  <2>2. Sound(rec, accepted_limit) /\ rec.body = payload.bytes
    <3>1. Sound(rec, accepted_limit)
      BY DEF StoredInv
    <3>2. <<rec.namespace, rec.body>> = <<payload.namespace, payload.bytes>>
      BY <3>1, <2>1 DEF Sound, payload_id
    <3> QED
      BY <3>1, <3>2
  <2>3. /\ Sound(disk_record(signed(rec), payload.bytes), accepted_limit)
        /\ disk_record(signed(rec), payload.bytes).id = id
    BY <2>1, <2>2, SignedIsSound
  <2>4. /\ \A x \in stored : \E r \in stored' : r.id = x.id
        /\ \E r \in stored' : r.id = id
        /\ \A r \in stored' : Sound(r, accepted_limit)
    <3> HIDE DEF signed, id, payload
    <3> QED
      BY <2>1, <2>3 DEF StoredInv
  <2> DEFINE o == outcome(signed(rec), FALSE)
  <2>5. /\ o.record.id = content(req) /\ o.arkiv = prepared(req).arkiv
        /\ o.signature # None => o.signature.receipt.context = prepared(req).payload.context
    BY <1>2, <1>3, <2>1, <2>2
  <2>6. respond(req, 200, o)
    BY <2>1
  <2>7. \E r \in stored' : r.id = content(req)
    BY <1>2, <2>4
  <2> HIDE DEF o
  <2> QED
    BY <2>4, <2>5, <2>6, <2>7
<1>5. CASE /\ \A rec \in stored : rec.id # id
           /\ \E now \in Times :
                LET rec == record_for(payload.namespace, payload.bytes, payload.contentType, now)
                IN /\ stored' = stored \cup {disk_record(signed(rec), payload.bytes)}
                   /\ respond(req, 201, outcome(signed(rec), TRUE))
  <2> DEFINE new(now) ==
               record_for(payload.namespace, payload.bytes, payload.contentType, now)
  <2>1. PICK now \in Times :
          /\ stored' = stored \cup {disk_record(signed(new(now)), payload.bytes)}
          /\ respond(req, 201, outcome(signed(new(now)), TRUE))
    BY <1>5
  <2>2. /\ Sound(new(now), accepted_limit) /\ new(now).id = id
        /\ new(now).body = payload.bytes
    BY <1>2, NewIsSound
  <2>3. /\ Sound(disk_record(signed(new(now)), payload.bytes), accepted_limit)
        /\ disk_record(signed(new(now)), payload.bytes).id = id
    BY <2>2, SignedIsSound
  <2>4. /\ \A x \in stored : \E r \in stored' : r.id = x.id
        /\ \E r \in stored' : r.id = id
        /\ \A r \in stored' : Sound(r, accepted_limit)
    <3> HIDE DEF signed, id, payload, new
    <3> QED
      BY <2>1, <2>3 DEF StoredInv
  <2> DEFINE o == outcome(signed(new(now)), TRUE)
  <2>5. /\ o.record.id = content(req) /\ o.arkiv = prepared(req).arkiv
        /\ o.signature # None => o.signature.receipt.context = prepared(req).payload.context
    BY <1>2, <1>3, <2>2
  <2>6. respond(req, 201, o)
    BY <2>1
  <2>7. /\ \E r \in stored' : r.id = content(req)
        /\ \A rec \in stored : rec.id # content(req)
    BY <1>2, <1>5, <2>4
  <2> HIDE DEF o
  <2> QED
    BY <2>4, <2>5, <2>6, <2>7
<1> QED
  <2>1. \/ \E rec \in stored :
             /\ rec.id = id
             /\ stored' = IF signed(rec).signature = None THEN stored
                          ELSE (stored \ {rec}) \cup {disk_record(signed(rec), payload.bytes)}
             /\ respond(req, 200, outcome(signed(rec), FALSE))
        \/ /\ \A rec \in stored : rec.id # id
           /\ \E now \in Times :
                LET rec == record_for(payload.namespace, payload.bytes, payload.contentType, now)
                IN /\ stored' = stored \cup {disk_record(signed(rec), payload.bytes)}
                   /\ respond(req, 201, outcome(signed(rec), TRUE))
    BY DEF Accept, submit_outcome
  <2> QED
    BY <2>1, <1>4, <1>5

(* A request that is refused: nothing is stored, nothing accepted.         *)
LEMMA Refuses ==
  ASSUME NEW req \in Requests, RefuseBody(req) \/ RefuseBearer(req) \/ RefuseSubmission(req)
  PROVE  /\ \E code \in {400, 401, 413} :
              answers' = answers \cup
                {[request |-> req, limit |-> max_payload_bytes, status |-> code, outcome |-> None]}
         /\ stored' = stored /\ accepted' = accepted
<1>1. \E code \in {400, 401, 413} :
        answers' = answers \cup
          {[request |-> req, limit |-> max_payload_bytes, status |-> code, outcome |-> None]}
  BY DEF RefuseBody, RefuseBearer, RefuseSubmission, respond
<1>2. stored' = stored
  BY DEF RefuseBody, RefuseBearer, RefuseSubmission
<1>3. accepted' = accepted
  BY <1>1 DEF accepted
<1> QED
  BY <1>1, <1>2, <1>3

(* The answer of Accepts as the one new member of accepted.                *)
LEMMA AcceptedAfter ==
  ASSUME NEW req, NEW code \in {200, 201}, NEW outcome, respond(req, code, outcome)
  PROVE  \E a : /\ answers' = answers \cup {a} /\ accepted' = accepted \cup {a}
                /\ a.request = req /\ a.status = code /\ a.outcome = outcome
<1> DEFINE a == [request |-> req, limit |-> max_payload_bytes, status |-> code,
                 outcome |-> outcome]
<1>1. answers' = answers \cup {a}
  BY DEF respond
<1>2. accepted' = accepted \cup {a}
  BY <1>1 DEF accepted
<1>3. a.request = req /\ a.status = code /\ a.outcome = outcome
  OBVIOUS
<1> HIDE DEF a
<1> QED
  BY <1>1, <1>2, <1>3

(* -------------------------- the invariant stays ------------------------ *)

LEMMA SettingsStay ==
  ASSUME SettingsInv, [Next]_vars
  PROVE  SettingsInv'
<1>1. CASE Start
  <2>1. PICK limit \in Limits, bearer \in BearerKeys \cup {None}, key \in Keys \cup {None} :
          /\ max_payload_bytes' = limit /\ ingress_key' = bearer /\ signer' = key
          /\ status' = IF Loads(limit) THEN "up" ELSE "failed"
          /\ accepted_limit' =
               IF Loads(limit) /\ limit > accepted_limit THEN limit ELSE accepted_limit
    BY <1>1 DEF Start
  <2>2. starts' \in 0 .. MaxStarts
    BY <1>1, MaxAssumption DEF Start, SettingsInv
  <2>3. limit \in Nat /\ accepted_limit \in Nat
    BY SettingsAssumption, LimitsAreNat
  <2>4. status' = "up" => limit <= accepted_limit'
    BY <2>1, <2>3
  <2>5. status' \in {"down", "up", "failed"}
    BY <2>1
  <2>6. accepted_limit' \in Limits \cup {0}
    BY <2>1 DEF SettingsInv
  <2> QED
    BY <2>1, <2>2, <2>4, <2>5, <2>6 DEF SettingsInv
<1>2. CASE Stop
  BY <1>2 DEF Stop, SettingsInv
<1>3. ASSUME NEW req \in Requests, Serve(req)
      PROVE  SettingsInv'
  <2>1. UNCHANGED <<process, accepted_limit, starts>>
    BY <1>3 DEF Serve, RefuseBody, RefuseBearer, RefuseSubmission, Accept, serves
  <2> QED
    BY <2>1 DEF process, SettingsInv
<1>4. CASE UNCHANGED vars
  BY <1>4 DEF vars, process, SettingsInv
<1> QED
  BY <1>1, <1>2, <1>3, <1>4 DEF Next, Quiet

LEMMA StoredStay ==
  ASSUME SettingsInv, StoredInv, [Next]_vars
  PROVE  StoredInv'
<1>1. CASE Start
  <2>1. stored' = stored /\ accepted_limit <= accepted_limit' /\ accepted_limit' \in Nat
    BY <1>1, SettingsAssumption, LimitsAreNat DEF Start
  <2>2. ASSUME NEW rec \in stored
        PROVE  Sound(rec, accepted_limit')
    BY <2>1, LimitsAreNat DEF StoredInv, Sound
  <2> QED
    BY <2>1, <2>2 DEF StoredInv
<1>2. CASE Stop
  BY <1>2 DEF Stop, StoredInv
<1>3. ASSUME NEW req \in Requests, Serve(req)
      PROVE  StoredInv'
  <2>1. accepted_limit' = accepted_limit
    BY <1>3 DEF Serve, RefuseBody, RefuseBearer, RefuseSubmission, Accept, serves
  <2>2. CASE RefuseBody(req) \/ RefuseBearer(req) \/ RefuseSubmission(req)
    BY <2>1, <2>2, Refuses DEF StoredInv
  <2>3. CASE Accept(req)
    BY <2>1, <2>3, Accepts DEF StoredInv
  <2> QED
    BY <1>3, <2>2, <2>3 DEF Serve
<1>4. CASE UNCHANGED vars
  BY <1>4 DEF vars, StoredInv
<1> QED
  BY <1>1, <1>2, <1>3, <1>4 DEF Next, Quiet

(* The conjuncts about answers, over the same three kinds of steps.        *)
LEMMA AnswersStay ==
  ASSUME SettingsInv, StoredInv, AnswersInv, [Next]_vars
  PROVE  AnswersInv'
<1>1. CASE UNCHANGED <<stored, answers>>
  BY <1>1 DEF AnswersInv, accepted
<1>2. ASSUME NEW req \in Requests, Serve(req)
      PROVE  AnswersInv'
  <2>1. CASE RefuseBody(req) \/ RefuseBearer(req) \/ RefuseSubmission(req)
    <3>1. stored' = stored /\ accepted' = accepted
      BY <2>1, Refuses
    <3>2. \A a \in answers' : a.request \in Requests /\ a.status \in {200, 201, 400, 401, 413}
      BY <2>1, Refuses DEF AnswersInv
    <3> QED
      BY <3>1, <3>2 DEF AnswersInv
  <2>2. CASE Accept(req)
    <3>1. PICK code, outcome :
            /\ code \in {200, 201}
            /\ respond(req, code, outcome)
            /\ outcome.record.id = content(req)
            /\ code = 201 => \A rec \in stored : rec.id # content(req)
            /\ \A rec \in stored : \E r \in stored' : r.id = rec.id
            /\ \E r \in stored' : r.id = content(req)
      BY <2>2, Accepts
    <3>2. PICK a : /\ answers' = answers \cup {a} /\ accepted' = accepted \cup {a}
                   /\ a.request = req /\ a.status = code /\ a.outcome = outcome
      BY <3>1, AcceptedAfter
    <3>3. \A x \in answers' : x.request \in Requests /\ x.status \in {200, 201, 400, 401, 413}
      BY <3>1, <3>2 DEF AnswersInv
    <3>4. ASSUME NEW x \in accepted'
          PROVE  /\ x.outcome.record.id = content(x.request)
                 /\ \E r \in stored' : r.id = x.outcome.record.id
      BY <3>1, <3>2 DEF AnswersInv
    <3>5. ASSUME NEW x \in accepted', NEW y \in accepted',
                 content(x.request) = content(y.request), x.status = 201, y.status = 201
          PROVE  x = y
      <4>1. ASSUME NEW z \in accepted, code = 201
            PROVE  content(z.request) # content(req)
        BY <3>1, <4>1 DEF AnswersInv
      <4> QED
        BY <3>2, <3>5, <4>1 DEF AnswersInv
    <3> QED
      BY <3>3, <3>4, <3>5 DEF AnswersInv
  <2> QED
    BY <1>2, <2>1, <2>2 DEF Serve
<1> QED
  BY <1>1, <1>2 DEF Next, Start, Stop, Quiet, vars

LEMMA ReceiptsStay ==
  ASSUME SettingsInv, StoredInv, ReceiptsInv, ArkivInv, [Next]_vars
  PROVE  ReceiptsInv' /\ ArkivInv'
<1>1. CASE UNCHANGED <<stored, answers>>
  BY <1>1 DEF ReceiptsInv, ArkivInv, accepted
<1>2. ASSUME NEW req \in Requests, Serve(req)
      PROVE  ReceiptsInv' /\ ArkivInv'
  <2>1. CASE RefuseBody(req) \/ RefuseBearer(req) \/ RefuseSubmission(req)
    BY <2>1, Refuses DEF ReceiptsInv, ArkivInv
  <2>2. CASE Accept(req)
    <3>1. PICK code, outcome :
            /\ code \in {200, 201}
            /\ respond(req, code, outcome)
            /\ outcome.arkiv = prepared(req).arkiv
            /\ outcome.signature # None =>
                 outcome.signature.receipt.context = prepared(req).payload.context
      BY <2>2, Accepts
    <3>2. PICK a : /\ answers' = answers \cup {a} /\ accepted' = accepted \cup {a}
                   /\ a.request = req /\ a.status = code /\ a.outcome = outcome
      BY <3>1, AcceptedAfter
    <3>3. extracts(req) /\ prepared(req) # Failure
      BY <2>2 DEF Accept
    <3>4. ASSUME NEW x \in accepted', x.outcome.signature # None
          PROVE  /\ NoncePaymentOK(x.request)
                 /\ x.outcome.signature.receipt.context =
                      receipt_context(nonce_and_payment(x.request)[1],
                                      nonce_and_payment(x.request)[2])
                 /\ x.outcome.arkiv # None =>
                      x.outcome.arkiv.context = x.outcome.signature.receipt.context
      BY <3>1, <3>2, <3>3, <3>4, PreparedContext DEF ReceiptsInv
    <3>5. ASSUME NEW x \in accepted', x.outcome.arkiv # None
          PROVE  x.outcome.arkiv.attributes = by_name(x.request.body.attributes)
      BY <3>1, <3>2, <3>3, <3>5, PreparedContext DEF ArkivInv
    <3>6. ReceiptsInv'
      BY <3>4 DEF ReceiptsInv
    <3>7. ArkivInv'
      BY <3>5 DEF ArkivInv
    <3> QED
      BY <3>6, <3>7
  <2> QED
    BY <1>2, <2>1, <2>2 DEF Serve
<1> QED
  BY <1>1, <1>2 DEF Next, Start, Stop, Quiet, vars

(* -------------------------- the initial states ------------------------- *)

LEMMA InitInvariant ==
  ASSUME Init
  PROVE  IngressInv
<1>1. SettingsInv
  <2>1. accepted_limit \in Limits \cup {0}
    BY DEF Init
  <2> QED
    BY <2>1, MaxAssumption DEF Init, SettingsInv
<1>2. StoredInv
  <2>1. CASE stored = {}
    BY <2>1 DEF StoredInv
  <2>2. ASSUME NEW rec \in EarlierRecords, validate_stored_record(rec, accepted_limit)
        PROVE  Sound(rec, accepted_limit)
    <3>1. PICK id \in EarlierIds, now \in Times, key \in Keys :
            rec = earlier_record(id, now, key)
      BY <2>2 DEF EarlierRecords
    <3>2. id[1] \in Namespaces /\ id[2] \in Bodies
      BY MaxAssumption DEF Ids
    <3>3. /\ rec.namespace = id[1] /\ rec.contentType = None /\ rec.body = id[2]
      BY <3>1 DEF earlier_record, record_for, metadata_for, disk_record
    <3> QED
      BY <2>2, <3>2, <3>3 DEF Sound, validate_stored_record
  <2> QED
    BY <2>1, <2>2 DEF Init, StoredInv
<1>3. answers = {} /\ accepted = {}
  BY DEF Init, accepted
<1> QED
  BY <1>1, <1>2, <1>3 DEF IngressInv, AnswersInv, ReceiptsInv, ArkivInv

(* The invariant holds in every reachable state.                           *)
THEOREM IngressInvariant == Spec => []IngressInv
<1>1. Init => IngressInv
  BY InitInvariant
<1>2. IngressInv /\ [Next]_vars => IngressInv'
  BY SettingsStay, StoredStay, AnswersStay, ReceiptsStay DEF IngressInv
<1> QED
  BY <1>1, <1>2, PTL DEF Spec
-----------------------------------------------------------------------------
(* ----------------------------- properties ------------------------------ *)

(* A sound record passes load under the limit it is sound for.             *)
LEMMA SoundLoads ==
  ASSUME NEW limit, NEW rec, Sound(rec, limit)
  PROVE  validate_record_shape(rec, limit) /\ validate_stored_record(rec, limit)
<1>1. validate_namespace(rec.namespace) # Failure
  BY NamespaceValid, ValidatedAssumption, FailureAssumption DEF Sound
<1>2. validate_content_type(rec.contentType) # Failure
  <2>1. rec.contentType \in Texts \cup {None}
    BY ValidatedAssumption DEF Sound
  <2> QED
    BY <2>1, ContentTypeValid, FailureAssumption DEF Sound
<1>3. decode_payload_base64(Encode[rec.body], limit) # Failure
  BY Base64Assumption, FailureAssumption DEF Sound, decode_payload_base64
<1> QED
  BY <1>1, <1>2, <1>3 DEF Sound, validate_record_shape, validate_stored_record

(* Settings, records and answers have their types (Start, Accept).         *)
THEOREM IngressTypes == Spec => []IngressTypeOK
<1>1. IngressInv => IngressTypeOK
  BY DEF IngressInv, SettingsInv, StoredInv, Sound, AnswersInv, IngressTypeOK
<1> QED
  BY <1>1, IngressInvariant, PTL

(* Whatever submit_payload or submit_arkiv_payload accepted, load accepts  *)
(* again (validate_submission against validate_record_shape).              *)
THEOREM AcceptedLoads == Spec => []AcceptedIsLoadable
<1>1. IngressInv => AcceptedIsLoadable
  BY SoundLoads DEF IngressInv, StoredInv, AcceptedIsLoadable, Loads
<1> QED
  BY <1>1, IngressInvariant, PTL

(* Requests get the same id exactly if they mean the same payload, and     *)
(* only one of them a 201 (validate_namespace, payload_id, submit).        *)
THEOREM OneIdPerPayload == Spec => []OnePayloadOneId
<1>1. IngressInv => OnePayloadOneId
  BY DEF IngressInv, AnswersInv, OnePayloadOneId
<1> QED
  BY <1>1, IngressInvariant, PTL

(* An accepted content type is one the raw response can carry              *)
(* (validate_content_type against content_type_header).                    *)
THEOREM ContentTypeIsServed == Spec => []StoredTypeIsServed
<1>1. IngressInv => StoredTypeIsServed
  BY ValidatedAssumption
     DEF IngressInv, StoredInv, Sound, StoredTypeIsServed, content_type_header
<1> QED
  BY <1>1, IngressInvariant, PTL

(* Receipt contexts tell nonces and payments apart (validate_nonce,        *)
(* signature_for_context).                                                 *)
THEOREM NoncesToldApart == Spec => []ReceiptsTellNoncesApart
<1>1. ASSUME NEW n1 \in Hex32 \cup {None}, NEW p1 \in Nat \cup {None},
             NEW n2 \in Hex32 \cup {None}, NEW p2 \in Nat \cup {None},
             receipt_context(n1, p1) = receipt_context(n2, p2)
      PROVE  n1 = n2 /\ p1 = p2
  <2> DEFINE both(n, p) == [nonce |-> n, payment |-> p]
  <2>1. both(n1, p1) # None /\ both(n2, p2) # None
    BY FailureAssumption
  <2>2. both(n1, p1) = both(n2, p2) => n1 = n2 /\ p1 = p2
    OBVIOUS
  <2> HIDE DEF both
  <2>3. \A n, p : receipt_context(n, p) = IF n = None /\ p = None THEN None ELSE both(n, p)
    BY DEF receipt_context, both
  <2> QED
    BY <1>1, <2>1, <2>2, <2>3
<1>2. ASSUME ReceiptsInv
      PROVE  ReceiptsTellNoncesApart
  <2>1. ASSUME NEW a \in accepted, a.outcome.signature # None
        PROVE  /\ NoncePaymentOK(a.request)
               /\ a.outcome.signature.receipt.context =
                    receipt_context(nonce_and_payment(a.request)[1],
                                    nonce_and_payment(a.request)[2])
               /\ a.outcome.arkiv # None =>
                    a.outcome.arkiv.context = a.outcome.signature.receipt.context
    BY <1>2, <2>1 DEF ReceiptsInv
  <2>2. ASSUME NEW a \in accepted, a.outcome.signature # None,
               NEW b \in accepted, b.outcome.signature # None
        PROVE  nonce_and_payment(a.request) = nonce_and_payment(b.request)
                 <=> a.outcome.signature.receipt.context = b.outcome.signature.receipt.context
    <3>1. \A req : nonce_and_payment(req) =
                     <<nonce_and_payment(req)[1], nonce_and_payment(req)[2]>>
      BY DEF nonce_and_payment
    <3> QED
      BY <1>1, <2>1, <2>2, <3>1 DEF NoncePaymentOK
  <2> QED
    BY <2>1, <2>2 DEF ReceiptsTellNoncesApart
<1> QED
  BY <1>2, IngressInvariant, PTL DEF IngressInv

(* The ARKIV answer does not depend on the order or the white space of the *)
(* attributes' names (canonical_attributes).                               *)
THEOREM AttributesAreOneValue == Spec => []AttributesAreCanonical
<1> DEFINE named(attrs) == {<<Trim[x.key], x.value>> : x \in ToSet(attrs)}
           records(attrs) ==
             {[key |-> Trim[attrs[i].key], value |-> attrs[i].value] : i \in DOMAIN attrs}
<1>1. ASSUME NEW s, NEW t, named(s) = named(t)
      PROVE  records(s) \subseteq records(t)
  <2>1. ASSUME NEW i \in DOMAIN s
        PROVE  \E j \in DOMAIN t : Trim[s[i].key] = Trim[t[j].key] /\ s[i].value = t[j].value
    <3>1. <<Trim[s[i].key], s[i].value>> \in named(t)
      BY <1>1 DEF ToSet
    <3> QED
      BY <3>1 DEF ToSet
  <2> QED
    BY <2>1
<1>2. ASSUME NEW s, NEW t, named(s) = named(t)
      PROVE  by_name(s) = by_name(t)
  <2>1. records(s) = records(t)
    BY <1>1, <1>2
  <2> QED
    BY <2>1 DEF by_name
<1>3. IngressInv => AttributesAreCanonical
  BY <1>2 DEF IngressInv, ArkivInv, AttributesAreCanonical
<1> QED
  BY <1>3, IngressInvariant, PTL

(* ------------------ one record behind every answer --------------------- *)

(* A payload has one record, which no later submission changes but for its *)
(* signature; every answer describes that record, and its receipt is about *)
(* it.                                                                     *)
AboutRecord(code, outcome) ==
  /\ outcome.signature # None =>
       outcome.signature.receipt =
         receipt_for_record_with_context(outcome.record, outcome.context)
  /\ outcome.arkiv # None =>
       /\ outcome.arkiv.namespace = outcome.record.namespace
       /\ code = 201 => outcome.arkiv.contentType = outcome.record.contentType

RecordsInv ==
  /\ \A r, s \in stored : r.id = s.id => r = s
  /\ \A a \in accepted :
       /\ \E rec \in stored : Kept(a.outcome.record) = Kept(rec)
       /\ AboutRecord(a.status, a.outcome)

(* Signing keeps what is known of a record, and its receipt is current.    *)
LEMMA SignedKeeps ==
  ASSUME NEW rec, NEW key, NEW bytes
  PROVE  LET m == sign_record_if_enabled(metadata_for(rec), key) IN
           /\ Kept(m) = Kept(rec) /\ Kept(disk_record(m, bytes)) = Kept(rec)
           /\ m.id = rec.id /\ m.namespace = rec.namespace /\ m.contentType = rec.contentType
           /\ disk_record(m, bytes).id = rec.id
           /\ m.signature # None => m.signature.receipt = receipt_for_record_with_context(m, None)
<1> DEFINE m0 == metadata_for(rec)
           m == sign_record_if_enabled(m0, key)
           sig == IF key = None THEN None ELSE sign_receipt(key, receipt_for_record(m0))
<1>1. CASE HasCurrentReceipt(m0)
  <2>1. m = m0
    BY <1>1 DEF sign_record_if_enabled
  <2>2. m.signature.receipt = receipt_for_record_with_context(m, None)
    BY <1>1, <2>1 DEF HasCurrentReceipt, signature_is_current_payload_receipt, receipt_for_record
  <2> QED
    BY <2>1, <2>2 DEF metadata_for, disk_record, Kept
<1>2. CASE ~HasCurrentReceipt(m0)
  <2>1. m = [m0 EXCEPT !.signature = sig]
    BY <1>2 DEF sign_record_if_enabled
  <2>2. /\ m.id = rec.id /\ m.namespace = rec.namespace /\ m.contentType = rec.contentType
        /\ m.sizeBytes = rec.sizeBytes /\ m.submittedAt = rec.submittedAt /\ m.signature = sig
    BY <2>1 DEF metadata_for
  <2>3. sig # None => sig.receipt = receipt_for_record_with_context(m0, None)
    BY DEF sign_receipt, receipt_for_record
  <2>4. receipt_for_record_with_context(m, None) = receipt_for_record_with_context(m0, None)
    BY <2>2 DEF receipt_for_record_with_context, metadata_for
  <2>5. m.signature # None => m.signature.receipt = receipt_for_record_with_context(m, None)
    <3> HIDE DEF m, m0, sig
    <3> QED
      BY <2>2, <2>3, <2>4
  <2>6. /\ Kept(m) = Kept(rec) /\ Kept(disk_record(m, bytes)) = Kept(rec)
        /\ disk_record(m, bytes).id = rec.id
    <3> HIDE DEF m, m0, sig
    <3> QED
      BY <2>2 DEF disk_record, Kept
  <2> QED
    BY <2>2, <2>5, <2>6
<1> QED
  BY <1>1, <1>2

(* An answer made from metadata whose receipt is current is about it.      *)
LEMMA OutcomeIsAbout ==
  ASSUME NEW req \in Requests, extracts(req), prepared(req) # Failure, NEW m, NEW c, NEW code,
         m.signature # None => m.signature.receipt = receipt_for_record_with_context(m, None),
         m.namespace = prepared(req).payload.namespace,
         code = 201 => m.contentType = prepared(req).payload.contentType
  PROVE  AboutRecord(code, submit_outcome(req, m, c))
<1> DEFINE o == submit_outcome(req, m, c)
           ctx == prepared(req).payload.context
<1>1. /\ o.record = m /\ o.context = ctx /\ o.arkiv = prepared(req).arkiv
      /\ o.signature = signature_for_context(m, ctx, signer)
  BY DEF submit_outcome
<1>2. o.signature # None => o.signature.receipt = receipt_for_record_with_context(m, ctx)
  BY <1>1 DEF signature_for_context, sign_receipt
<1>3. o.arkiv # None => /\ o.arkiv.namespace = prepared(req).payload.namespace
                        /\ o.arkiv.contentType = prepared(req).payload.contentType
  BY <1>1 DEF prepared, prepare_submission
<1>4. AboutRecord(code, o)
  <2> HIDE DEF o, ctx
  <2> QED
    BY <1>1, <1>2, <1>3 DEF AboutRecord
<1> QED
  BY <1>4

(* What an accepted request does to the stored records and its answer.     *)
LEMMA AcceptsKeep ==
  ASSUME NEW req \in Requests, StoredInv, RecordsInv, Accept(req)
  PROVE  \E code, outcome :
           /\ code \in {200, 201}
           /\ respond(req, code, outcome)
           /\ \E r \in stored' : Kept(outcome.record) = Kept(r)
           /\ AboutRecord(code, outcome)
           /\ \A rec \in stored : \E r \in stored' : Kept(rec) = Kept(r)
           /\ \A r, s \in stored' : r.id = s.id => r = s
<1> DEFINE payload == prepared(req).payload
           id == payload_id(payload.namespace, payload.bytes)
           signed(rec) == sign_record_if_enabled(metadata_for(rec), signer)
           disk(rec) == disk_record(signed(rec), payload.bytes)
           o(rec, c) == submit_outcome(req, signed(rec), c)
           new(now) ==
             record_for(payload.namespace, payload.bytes, payload.contentType, now)
<1>1. extracts(req) /\ prepared(req) # Failure
  BY DEF Accept
<1>2. ASSUME NEW rec
      PROVE  /\ Kept(signed(rec)) = Kept(rec) /\ Kept(disk(rec)) = Kept(rec)
             /\ signed(rec).namespace = rec.namespace /\ disk(rec).id = rec.id
             /\ signed(rec).contentType = rec.contentType
             /\ signed(rec).signature # None => signed(rec).signature.receipt =
                  receipt_for_record_with_context(signed(rec), None)
  BY SignedKeeps
<1>3. ASSUME NEW rec, NEW c
      PROVE  o(rec, c).record = signed(rec)
  BY DEF submit_outcome
<1>4. \/ \E rec \in stored :
           /\ rec.id = id
           /\ stored' = IF signed(rec).signature = None THEN stored
                        ELSE (stored \ {rec}) \cup {disk(rec)}
           /\ respond(req, 200, o(rec, FALSE))
      \/ /\ \A rec \in stored : rec.id # id
         /\ \E now \in Times :
              /\ stored' = stored \cup {disk(new(now))}
              /\ respond(req, 201, o(new(now), TRUE))
  BY DEF Accept
<1>5. \A r, s \in stored : r.id = s.id => r = s
  BY DEF RecordsInv
<1>6. \A rec \in stored : rec.id = id => rec.namespace = payload.namespace
  BY DEF StoredInv, Sound, payload_id
<1>7. ASSUME NEW now
      PROVE  /\ new(now).id = id /\ new(now).namespace = payload.namespace
             /\ new(now).contentType = payload.contentType
  BY DEF record_for
<1>8. CASE \E rec \in stored :
             /\ rec.id = id
             /\ stored' = IF signed(rec).signature = None THEN stored
                          ELSE (stored \ {rec}) \cup {disk(rec)}
             /\ respond(req, 200, o(rec, FALSE))
  <2>1. PICK rec \in stored :
          /\ rec.id = id
          /\ stored' = IF signed(rec).signature = None THEN stored
                       ELSE (stored \ {rec}) \cup {disk(rec)}
          /\ respond(req, 200, o(rec, FALSE))
    BY <1>8
  <2>2. AboutRecord(200, o(rec, FALSE))
    <3> HIDE DEF signed, new, disk
    <3>1. signed(rec).namespace = payload.namespace
      BY <1>2, <1>6, <2>1
    <3>2. signed(rec).signature # None =>
            signed(rec).signature.receipt = receipt_for_record_with_context(signed(rec), None)
      BY <1>2
    <3>3. 200 = 201 => signed(rec).contentType = payload.contentType
      OBVIOUS
    <3>4. AboutRecord(200, submit_outcome(req, signed(rec), FALSE))
      BY <1>1, <3>1, <3>2, <3>3, OutcomeIsAbout
    <3> QED
      BY <3>4
  <2>3. /\ Kept(signed(rec)) = Kept(rec) /\ Kept(disk(rec)) = Kept(rec) /\ disk(rec).id = rec.id
        /\ o(rec, FALSE).record = signed(rec)
    BY <1>2, <1>3
  <2>4. /\ \A x \in stored : \E r \in stored' : Kept(x) = Kept(r)
        /\ \E r \in stored' : Kept(o(rec, FALSE).record) = Kept(r)
        /\ \A r, s \in stored' : r.id = s.id => r = s
    <3> HIDE DEF o, disk, signed, id
    <3>1. CASE signed(rec).signature = None
      BY <1>5, <2>1, <2>3, <3>1
    <3>2. CASE signed(rec).signature # None
      <4>1. stored' = (stored \ {rec}) \cup {disk(rec)}
        BY <2>1, <3>2
      <4>2. \A x \in stored : \E r \in stored' : Kept(x) = Kept(r)
        BY <2>3, <4>1
      <4>3. \A r, s \in stored' : r.id = s.id => r = s
        BY <1>5, <2>1, <2>3, <4>1
      <4> QED
        BY <2>3, <4>1, <4>2, <4>3
    <3> QED
      BY <3>1, <3>2
  <2> DEFINE outcome == o(rec, FALSE)
  <2>5. /\ respond(req, 200, outcome) /\ AboutRecord(200, outcome)
        /\ \E r \in stored' : Kept(outcome.record) = Kept(r)
    BY <2>1, <2>2, <2>4
  <2> HIDE DEF outcome
  <2> QED
    BY <2>4, <2>5
<1>9. CASE /\ \A rec \in stored : rec.id # id
           /\ \E now \in Times :
                /\ stored' = stored \cup {disk(new(now))}
                /\ respond(req, 201, o(new(now), TRUE))
  <2>1. PICK now \in Times :
          /\ stored' = stored \cup {disk(new(now))}
          /\ respond(req, 201, o(new(now), TRUE))
    BY <1>9
  <2>2. AboutRecord(201, o(new(now), TRUE))
    <3> HIDE DEF signed, new
    <3>1. /\ signed(new(now)).namespace = payload.namespace
          /\ signed(new(now)).contentType = payload.contentType
      BY <1>2, <1>7
    <3>2. signed(new(now)).signature # None =>
            signed(new(now)).signature.receipt =
              receipt_for_record_with_context(signed(new(now)), None)
      BY <1>2
    <3> QED
      BY <1>1, <3>1, <3>2, OutcomeIsAbout
  <2>3. /\ Kept(signed(new(now))) = Kept(new(now)) /\ Kept(disk(new(now))) = Kept(new(now))
        /\ disk(new(now)).id = id /\ o(new(now), TRUE).record = signed(new(now))
    <3> HIDE DEF new, signed, o, disk, id
    <3> QED
      BY <1>2, <1>3, <1>7
  <2>4. \A rec \in stored : rec.id # id
    BY <1>9
  <2> HIDE DEF o, disk, new, signed, id
  <2>5. /\ \A x \in stored : \E r \in stored' : Kept(x) = Kept(r)
        /\ \E r \in stored' : Kept(o(new(now), TRUE).record) = Kept(r)
    BY <2>1, <2>3
  <2>6. \A r, s \in stored' : r.id = s.id => r = s
    BY <1>5, <2>1, <2>3, <2>4
  <2> DEFINE outcome == o(new(now), TRUE)
  <2>7. /\ respond(req, 201, outcome) /\ AboutRecord(201, outcome)
        /\ \E r \in stored' : Kept(outcome.record) = Kept(r)
    BY <2>1, <2>2, <2>5
  <2> HIDE DEF outcome
  <2> QED
    BY <2>5, <2>6, <2>7
<1> QED
  BY <1>4, <1>8, <1>9

LEMMA RecordsStay ==
  ASSUME StoredInv, RecordsInv, [Next]_vars
  PROVE  RecordsInv'
<1>1. CASE UNCHANGED <<stored, answers>>
  BY <1>1 DEF RecordsInv, accepted
<1>2. ASSUME NEW req \in Requests, Serve(req)
      PROVE  RecordsInv'
  <2>1. CASE RefuseBody(req) \/ RefuseBearer(req) \/ RefuseSubmission(req)
    BY <2>1, Refuses DEF RecordsInv
  <2>2. CASE Accept(req)
    <3>1. PICK code, outcome :
            /\ code \in {200, 201}
            /\ respond(req, code, outcome)
            /\ \E r \in stored' : Kept(outcome.record) = Kept(r)
            /\ AboutRecord(code, outcome)
            /\ \A rec \in stored : \E r \in stored' : Kept(rec) = Kept(r)
            /\ \A r, s \in stored' : r.id = s.id => r = s
      BY <2>2, AcceptsKeep
    <3>2. PICK a : /\ answers' = answers \cup {a} /\ accepted' = accepted \cup {a}
                   /\ a.request = req /\ a.status = code /\ a.outcome = outcome
      BY <3>1, AcceptedAfter
    <3>3. ASSUME NEW x \in accepted'
          PROVE  /\ \E r \in stored' : Kept(x.outcome.record) = Kept(r)
                 /\ AboutRecord(x.status, x.outcome)
      <4>1. CASE x = a
        BY <3>1, <3>2, <4>1
      <4>2. CASE x \in accepted
        <5>1. PICK rec \in stored : Kept(x.outcome.record) = Kept(rec)
          BY <4>2 DEF RecordsInv
        <5> QED
          BY <3>1, <4>2, <5>1 DEF RecordsInv
      <4> QED
        BY <3>2, <4>1, <4>2
    <3> QED
      BY <3>1, <3>3 DEF RecordsInv, AboutRecord
  <2> QED
    BY <1>2, <2>1, <2>2 DEF Serve
<1> QED
  BY <1>1, <1>2 DEF Next, Start, Stop, Quiet, vars

LEMMA RecordsInvariant == Spec => []RecordsInv
<1>1. Init => RecordsInv
  BY DEF Init, RecordsInv, accepted
<1>2. IngressInv /\ RecordsInv /\ [Next]_vars => RecordsInv'
  BY RecordsStay DEF IngressInv
<1> QED
  BY <1>1, <1>2, IngressInvariant, PTL DEF Spec

(* All answers about one payload describe one record, and the ARKIV        *)
(* context of the one that created it agrees with it (submit,              *)
(* prepare_submission).                                                    *)
THEOREM AnswersDescribeOneRecord == Spec => []AnswersAgree
<1>1. RecordsInv => AnswersAgree
  <2> SUFFICES ASSUME RecordsInv
               PROVE  AnswersAgree
    OBVIOUS
  <2>1. \A a \in accepted : AboutRecord(a.status, a.outcome)
    BY DEF RecordsInv
  <2>2. ASSUME NEW a \in accepted, NEW b \in accepted,
               a.outcome.record.id = b.outcome.record.id
        PROVE  Kept(a.outcome.record) = Kept(b.outcome.record)
    <3>1. PICK r \in stored : Kept(a.outcome.record) = Kept(r)
      BY DEF RecordsInv
    <3>2. PICK s \in stored : Kept(b.outcome.record) = Kept(s)
      BY DEF RecordsInv
    <3>3. r.id = s.id
      BY <2>2, <3>1, <3>2 DEF Kept
    <3> QED
      BY <3>1, <3>2, <3>3 DEF RecordsInv
  <2> QED
    BY <2>1, <2>2 DEF AnswersAgree, AboutRecord
<1> QED
  BY <1>1, RecordsInvariant, PTL
-----------------------------------------------------------------------------
(* --------------------- the promise of PayloadService ------------------- *)

(* A set of records as the map of PayloadService.                          *)
PayloadMap(S) ==
  [id \in Ids |-> IF \E rec \in S : rec.id = id
                  THEN metadata_for(CHOOSE rec \in S : rec.id = id) ELSE None]
StoredPayloads == PayloadMap(stored)

(* PayloadService with the records for its map.  Its answers are a         *)
(* property of their own: there a store and an answer are two steps, here  *)
(* Accept is both.                                                         *)
Service == INSTANCE PayloadService WITH
  Requests <- {}, stored <- StoredPayloads,
  reply <- [r \in {} |-> None], served <- [r \in {} |-> None]
StoresAsService == Service!Spec

(* What PayloadService says of an answer: it describes what is stored when *)
(* it is given, with the key of the process that gives it, and is a first  *)
(* answer only if no other spoke of its payload before.                    *)
DescribesStore(o) ==
  LET m == StoredPayloads'[o.record.id] IN
    /\ m # None
    /\ signer # None => HasCurrentReceipt(m)
    /\ o.record = sign_record_if_enabled(m, signer)
    /\ o.signature = signature_for_context(o.record, o.context, signer)
AnswersAsService ==
  [][\A a \in accepted' \ accepted :
       /\ DescribesStore(a.outcome)
       /\ a.status = IF a.outcome.created THEN 201 ELSE 200
       /\ a.outcome.created =>
            \A b \in accepted : b.outcome.record.id # a.outcome.record.id]_vars

(* --------------------------- their operators --------------------------- *)

(* PayloadService has its own instances of the operators of Receipts.      *)
LEMMA ServiceOperators ==
  /\ Service!Ids = Ids /\ Service!PayloadMetadata = PayloadMetadata
  /\ \A m : Service!HasCurrentReceipt(m) <=> HasCurrentReceipt(m)
  /\ \A m, key : Service!sign_record_if_enabled(m, key) = sign_record_if_enabled(m, key)
  /\ \A rec : Service!metadata_for(rec) = metadata_for(rec)
  /\ \A ns, bytes, ctype, now :
       Service!record_for(ns, bytes, ctype, now) = record_for(ns, bytes, ctype, now)
  /\ \A m, sig : Service!validate_payload_signature(m, sig) <=> validate_payload_signature(m, sig)
<1> USE DEF Service!receipt_for_record, Service!receipt_for_record_with_context,
            Service!legacy_hosting_receipt_for_record, Service!sign_receipt,
            receipt_for_record, receipt_for_record_with_context,
            legacy_hosting_receipt_for_record, sign_receipt
<1>1. Service!Ids = Ids
  BY DEF Service!Ids, Ids
<1>2. Service!PayloadMetadata = PayloadMetadata
  BY <1>1 DEF Service!PayloadMetadata, PayloadMetadata, Service!PayloadSignature,
       PayloadSignature, Service!Receipt, Receipt
<1>3. \A m, sig : Service!validate_payload_signature(m, sig) <=> validate_payload_signature(m, sig)
  BY DEF Service!validate_payload_signature, validate_payload_signature
<1>4. \A m : Service!HasCurrentReceipt(m) <=> HasCurrentReceipt(m)
  BY <1>3 DEF Service!HasCurrentReceipt, HasCurrentReceipt,
       Service!signature_is_current_payload_receipt, signature_is_current_payload_receipt
<1>5. \A m, key : Service!sign_record_if_enabled(m, key) = sign_record_if_enabled(m, key)
  BY <1>4 DEF Service!sign_record_if_enabled, sign_record_if_enabled
<1>6. \A rec : Service!metadata_for(rec) = metadata_for(rec)
  BY DEF Service!metadata_for, metadata_for
<1>7. \A ns, bytes, ctype, now :
        Service!record_for(ns, bytes, ctype, now) = record_for(ns, bytes, ctype, now)
  BY DEF Service!record_for, record_for, Service!payload_id, payload_id
<1> QED
  BY <1>1, <1>2, <1>3, <1>4, <1>5, <1>6, <1>7

LEMMA MetadataOfRecord ==
  ASSUME NEW rec \in PayloadRecord
  PROVE  /\ metadata_for(rec) \in PayloadMetadata /\ metadata_for(rec).id = rec.id
         /\ disk_record(metadata_for(rec), rec.body) = rec
  BY DEF metadata_for, disk_record, PayloadRecord, PayloadMetadata

LEMMA RecordOfMetadata ==
  ASSUME NEW m \in PayloadMetadata, NEW bytes \in Bodies
  PROVE  /\ disk_record(m, bytes) \in PayloadRecord /\ disk_record(m, bytes).id = m.id
         /\ metadata_for(disk_record(m, bytes)) = m
  BY DEF metadata_for, disk_record, PayloadRecord, PayloadMetadata

(* Metadata that was signed: typed, of the same payload, with a current    *)
(* receipt or, without a key, none; signing it again changes nothing.      *)
LEMMA Signed ==
  ASSUME NEW m0 \in PayloadMetadata, NEW key \in Keys \cup {None}
  PROVE  LET m == sign_record_if_enabled(m0, key) IN
           /\ m \in PayloadMetadata /\ m.id = m0.id
           /\ HasCurrentReceipt(m) \/ (m.signature = None /\ key = None)
           /\ sign_record_if_enabled(m, key) = m
<1> DEFINE m == sign_record_if_enabled(m0, key)
           sig == sign_receipt(key, receipt_for_record(m0))
<1>1. CASE HasCurrentReceipt(m0)
  <2>1. m = m0
    BY <1>1 DEF sign_record_if_enabled
  <2> QED
    BY <1>1, <2>1
<1>2. CASE ~HasCurrentReceipt(m0) /\ key = None
  <2>1. m = [m0 EXCEPT !.signature = None]
    BY <1>2 DEF sign_record_if_enabled
  <2>2. m \in PayloadMetadata /\ m.id = m0.id /\ m.signature = None
    BY <2>1 DEF PayloadMetadata
  <2>3. sign_record_if_enabled(m, key) = [m EXCEPT !.signature = None]
    <3> HIDE DEF m
    <3> QED
      BY <1>2, <2>2 DEF sign_record_if_enabled, HasCurrentReceipt
  <2>4. [m EXCEPT !.signature = None] = m
    <3> HIDE DEF m
    <3> QED
      BY <2>2 DEF PayloadMetadata
  <2> QED
    BY <1>2, <2>2, <2>3, <2>4
<1>3. CASE ~HasCurrentReceipt(m0) /\ key # None
  <2>1. m = [m0 EXCEPT !.signature = sig]
    BY <1>3 DEF sign_record_if_enabled
  <2>2. receipt_for_record(m0) \in Receipt
    BY DEF receipt_for_record, receipt_for_record_with_context, Receipt, PayloadMetadata
  <2>3. sig \in PayloadSignature /\ sig.receipt = receipt_for_record(m0)
    BY <1>3, <2>2 DEF sign_receipt, PayloadSignature
  <2> HIDE DEF sig
  <2>4. m \in PayloadMetadata /\ m.id = m0.id /\ m.submittedAt = m0.submittedAt /\ m.signature = sig
    BY <2>1, <2>3 DEF PayloadMetadata
  <2> HIDE DEF m
  <2>5. receipt_for_record(m) = receipt_for_record(m0)
    BY <2>4 DEF receipt_for_record, receipt_for_record_with_context
  <2>6. HasCurrentReceipt(m)
    BY <2>3, <2>4, <2>5, NoneAssumption
       DEF HasCurrentReceipt, signature_is_current_payload_receipt, validate_payload_signature
  <2>7. sign_record_if_enabled(m, key) = m
    BY <2>6 DEF sign_record_if_enabled
  <2> QED
    BY <2>4, <2>6, <2>7 DEF m
<1> QED
  BY <1>1, <1>2, <1>3

(* ------------------------------ the map -------------------------------- *)

OneEach(S) == S \subseteq PayloadRecord /\ \A r, s \in S : r.id = s.id => r = s

LEMMA MapOf ==
  ASSUME NEW S, OneEach(S)
  PROVE  /\ \A rec \in S : /\ rec.id \in Ids /\ PayloadMap(S)[rec.id] = metadata_for(rec)
                           /\ PayloadMap(S)[rec.id] # None
         /\ \A id \in Ids : (\A rec \in S : rec.id # id) => PayloadMap(S)[id] = None
         /\ PayloadMap(S) \in [Ids -> PayloadMetadata \cup {None}]
<1>1. ASSUME NEW rec \in S
      PROVE  /\ rec.id \in Ids /\ PayloadMap(S)[rec.id] = metadata_for(rec)
             /\ metadata_for(rec) \in PayloadMetadata
  <2>1. rec \in PayloadRecord /\ rec.id \in Ids
    BY DEF OneEach, PayloadRecord
  <2>2. (CHOOSE r \in S : r.id = rec.id) = rec
    BY DEF OneEach
  <2> QED
    BY <2>1, <2>2, MetadataOfRecord DEF PayloadMap
<1>2. ASSUME NEW id \in Ids, \A rec \in S : rec.id # id
      PROVE  PayloadMap(S)[id] = None
  BY <1>2 DEF PayloadMap
<1>3. ASSUME NEW id \in Ids
      PROVE  PayloadMap(S)[id] \in PayloadMetadata \cup {None}
  <2>1. CASE \E rec \in S : rec.id = id
    BY <1>1, <2>1
  <2>2. CASE \A rec \in S : rec.id # id
    BY <1>2, <2>2
  <2> QED
    BY <2>1, <2>2
<1>4. PayloadMap(S) = [id \in Ids |-> PayloadMap(S)[id]]
  BY DEF PayloadMap
<1> QED
  BY <1>1, <1>2, <1>3, <1>4, NoneAssumption

(* One record is added, or takes the place of that of the same payload.    *)
LEMMA MapChanges ==
  ASSUME NEW S, NEW T, OneEach(S), OneEach(T), NEW d \in T,
         \A r \in S : r.id # d.id => r \in T,
         \A r \in T : r.id # d.id => r \in S
  PROVE  PayloadMap(T) = [PayloadMap(S) EXCEPT ![d.id] = metadata_for(d)]
<1>1. /\ PayloadMap(S) \in [Ids -> PayloadMetadata \cup {None}]
      /\ PayloadMap(T) \in [Ids -> PayloadMetadata \cup {None}]
      /\ d.id \in Ids /\ PayloadMap(T)[d.id] = metadata_for(d)
  BY MapOf
<1>2. ASSUME NEW id \in Ids, id # d.id
      PROVE  PayloadMap(T)[id] = PayloadMap(S)[id]
  <2>1. CASE \E r \in S : r.id = id
    BY <1>2, <2>1, MapOf
  <2>2. CASE \A r \in S : r.id # id
    <3>1. \A r \in T : r.id # id
      BY <1>2, <2>2
    <3> QED
      BY <2>2, <3>1, MapOf
  <2> QED
    BY <2>1, <2>2
<1> QED
  BY <1>1, <1>2


(* ------------------------------ each step ------------------------------ *)

TypedInv == stored \subseteq PayloadRecord

(* What an accepted request does, in values: it answers with metadata m,   *)
(* signed with the key of the process from m0, the metadata of the record  *)
(* it finds or of the one it makes.                                        *)
AnswersWith(req, code, new, m, key) ==
  \E o : /\ respond(req, code, o)
         /\ o.record = m /\ o.created = new
         /\ o.signature = signature_for_context(m, o.context, key)
FindsKnown(m0, m, bytes) ==
  \E rec \in stored :
    /\ metadata_for(rec) = m0 /\ rec.body = bytes
    /\ stored' = IF m.signature = None THEN stored
                 ELSE (stored \ {rec}) \cup {disk_record(m, bytes)}
MakesNew(m0, m, bytes) ==
  /\ \A rec \in stored : rec.id # m0.id
  /\ stored' = stored \cup {disk_record(m, bytes)}
  /\ \E ctype \in ContentTypes \cup {None}, now \in Times :
       m0 = metadata_for(record_for(m0.id[1], m0.id[2], ctype, now))

LEMMA AcceptsWith ==
  ASSUME NEW req \in Requests, SettingsInv, StoredInv, TypedInv, Accept(req)
  PROVE  \E key \in Keys \cup {None}, bytes \in Bodies, m0 \in PayloadMetadata :
           LET m == sign_record_if_enabled(m0, key) IN
             /\ signer = key
             /\ \/ AnswersWith(req, 200, FALSE, m, key) /\ FindsKnown(m0, m, bytes)
                \/ AnswersWith(req, 201, TRUE, m, key) /\ MakesNew(m0, m, bytes)
<1>1. extracts(req) /\ prepared(req) # Failure
  BY DEF Accept
<1>2. PICK ns \in Namespaces, ctype \in ContentTypes \cup {None}, bytes \in Bodies :
        /\ prepared(req).payload.namespace = ns /\ prepared(req).payload.contentType = ctype
        /\ prepared(req).payload.bytes = bytes
  BY <1>1, Prepared
<1>3. PICK key \in Keys \cup {None} : signer = key
  BY DEF SettingsInv
<1> DEFINE signed(m0) == sign_record_if_enabled(m0, key)
           new(now) == record_for(ns, bytes, ctype, now)
           Outcome(m, o, c) ==
             o.record = m /\ o.created = c /\ o.signature = signature_for_context(m, o.context, key)
<1>4. \A m, c : Outcome(m, submit_outcome(req, m, c), c)
  BY <1>3 DEF submit_outcome
<1>6. \/ \E rec \in stored :
           /\ rec.id = payload_id(ns, bytes)
           /\ stored' = IF signed(metadata_for(rec)).signature = None THEN stored
                        ELSE (stored \ {rec}) \cup {disk_record(signed(metadata_for(rec)), bytes)}
           /\ respond(req, 200, submit_outcome(req, signed(metadata_for(rec)), FALSE))
      \/ /\ \A rec \in stored : rec.id # payload_id(ns, bytes)
         /\ \E now \in Times :
              /\ stored' = stored \cup {disk_record(signed(metadata_for(new(now))), bytes)}
              /\ respond(req, 201, submit_outcome(req, signed(metadata_for(new(now))), TRUE))
  BY <1>2, <1>3 DEF Accept
<1>7. CASE \E rec \in stored :
             /\ rec.id = payload_id(ns, bytes)
             /\ stored' = IF signed(metadata_for(rec)).signature = None THEN stored
                          ELSE (stored \ {rec}) \cup {disk_record(signed(metadata_for(rec)), bytes)}
             /\ respond(req, 200, submit_outcome(req, signed(metadata_for(rec)), FALSE))
  <2>1. PICK rec \in stored :
          /\ rec.id = payload_id(ns, bytes)
          /\ stored' = IF signed(metadata_for(rec)).signature = None THEN stored
                       ELSE (stored \ {rec}) \cup {disk_record(signed(metadata_for(rec)), bytes)}
          /\ respond(req, 200, submit_outcome(req, signed(metadata_for(rec)), FALSE))
    BY <1>7
  <2>2. PICK m0 \in PayloadMetadata : m0 = metadata_for(rec)
    BY MetadataOfRecord DEF TypedInv
  <2>3. rec.body = bytes
    BY <2>1 DEF StoredInv, Sound, payload_id
  <2>4. AnswersWith(req, 200, FALSE, signed(m0), key)
    <3> DEFINE answer == submit_outcome(req, signed(m0), FALSE)
    <3>1. respond(req, 200, answer)
      BY <2>1, <2>2
    <3>2. Outcome(signed(m0), answer, FALSE)
      BY <1>4
    <3> HIDE DEF answer
    <3> QED
      BY <3>1, <3>2 DEF AnswersWith
  <2>5. FindsKnown(m0, signed(m0), bytes)
    BY <2>1, <2>2, <2>3 DEF FindsKnown
  <2> QED
    BY <1>3, <2>4, <2>5
<1>8. CASE /\ \A rec \in stored : rec.id # payload_id(ns, bytes)
           /\ \E now \in Times :
                /\ stored' = stored \cup {disk_record(signed(metadata_for(new(now))), bytes)}
                /\ respond(req, 201, submit_outcome(req, signed(metadata_for(new(now))), TRUE))
  <2>1. PICK now \in Times :
          /\ stored' = stored \cup {disk_record(signed(metadata_for(new(now))), bytes)}
          /\ respond(req, 201, submit_outcome(req, signed(metadata_for(new(now))), TRUE))
    BY <1>8
  <2>2. new(now) \in PayloadRecord /\ new(now).id = <<ns, bytes>>
    BY SizeAssumption DEF record_for, payload_id, PayloadRecord, Ids
  <2>3. PICK m0 \in PayloadMetadata : m0 = metadata_for(new(now)) /\ m0.id = <<ns, bytes>>
    BY <2>2, MetadataOfRecord
  <2>4. AnswersWith(req, 201, TRUE, signed(m0), key)
    <3> DEFINE answer == submit_outcome(req, signed(m0), TRUE)
    <3>1. respond(req, 201, answer)
      BY <2>1, <2>3
    <3>2. Outcome(signed(m0), answer, TRUE)
      BY <1>4
    <3> HIDE DEF answer
    <3> QED
      BY <3>1, <3>2 DEF AnswersWith
  <2>5. MakesNew(m0, signed(m0), bytes)
    <3>1. m0 = metadata_for(record_for(m0.id[1], m0.id[2], ctype, now))
      BY <2>3
    <3> QED
      BY <1>8, <2>1, <2>3, <3>1 DEF MakesNew, payload_id
  <2> QED
    BY <1>3, <2>4, <2>5
<1> QED
  BY <1>6, <1>7, <1>8


(* A set of records after one of an accepted request, in values: the map   *)
(* of PayloadService then holds the signed metadata, and if it changes it  *)
(* is by storing the payload, or by attaching a receipt to it.             *)
LEMMA MapAfter ==
  ASSUME NEW S, NEW T, OneEach(S), OneEach(T),
         NEW key \in Keys \cup {None}, NEW bytes \in Bodies, NEW m0 \in PayloadMetadata, NEW rec \in S,
         metadata_for(rec) = m0, rec.body = bytes,
         T = IF sign_record_if_enabled(m0, key).signature = None THEN S
             ELSE (S \ {rec}) \cup {disk_record(sign_record_if_enabled(m0, key), bytes)}
  PROVE  LET m == sign_record_if_enabled(m0, key) IN
           /\ m0.id \in Ids /\ PayloadMap(S)[m0.id] = m0 /\ m0 # None /\ PayloadMap(T)[m0.id] # None
           /\ key # None => HasCurrentReceipt(PayloadMap(T)[m0.id])
           /\ m = sign_record_if_enabled(PayloadMap(T)[m0.id], key)
           /\ \/ PayloadMap(T) = PayloadMap(S)
              \/ /\ key # None /\ ~HasCurrentReceipt(m0)
                 /\ PayloadMap(T) = [PayloadMap(S) EXCEPT ![m0.id] = m]
<1> DEFINE m == sign_record_if_enabled(m0, key)
           d == disk_record(m, bytes)
<1>1. /\ m \in PayloadMetadata /\ m.id = m0.id
      /\ HasCurrentReceipt(m) \/ (m.signature = None /\ key = None)
      /\ sign_record_if_enabled(m, key) = m
  BY Signed
<1>2. d \in PayloadRecord /\ d.id = m.id /\ metadata_for(d) = m
  BY <1>1, RecordOfMetadata
<1>3. /\ rec \in PayloadRecord /\ m0.id = rec.id /\ m0.id \in Ids
      /\ PayloadMap(S)[m0.id] = m0 /\ m0 # None /\ disk_record(m0, bytes) = rec
  BY MapOf, MetadataOfRecord DEF OneEach
<1>4. T = IF m.signature = None THEN S ELSE (S \ {rec}) \cup {d}
  OBVIOUS
<1>5. HasCurrentReceipt(m0) => m = m0
  BY DEF sign_record_if_enabled
<1> HIDE DEF m, d
<1>6. CASE m.signature = None
  <2>1. T = S /\ key = None
    BY <1>1, <1>4, <1>6 DEF HasCurrentReceipt
  <2> QED
    BY <1>3, <2>1 DEF m
<1>7. CASE m.signature # None
  <2>1. T = (S \ {rec}) \cup {d} /\ d \in T
    BY <1>4, <1>7
  <2>2. /\ \A r \in S : r.id # d.id => r \in T
        /\ \A r \in T : r.id # d.id => r \in S
    BY <1>1, <1>2, <1>3, <2>1
  <2>3. PayloadMap(T) = [PayloadMap(S) EXCEPT ![m0.id] = m]
    BY <1>1, <1>2, <2>1, <2>2, MapChanges
  <2>4. PayloadMap(S) \in [Ids -> PayloadMetadata \cup {None}]
    BY MapOf
  <2>5. PayloadMap(T)[m0.id] = m /\ m # None
    BY <1>1, <1>3, <2>3, <2>4, NoneAssumption
  <2>6. CASE HasCurrentReceipt(m0)
    <3>1. PayloadMap(T) = PayloadMap(S)
      <4>1. m = PayloadMap(S)[m0.id]
        BY <1>3, <1>5, <2>6
      <4>2. [PayloadMap(S) EXCEPT ![m0.id] = PayloadMap(S)[m0.id]] = PayloadMap(S)
        BY <1>3, <2>4
      <4> QED
        BY <2>3, <4>1, <4>2
    <3> QED
      BY <1>1, <1>3, <1>7, <2>5, <3>1 DEF m
  <2>7. CASE ~HasCurrentReceipt(m0)
    <3>1. key # None
      <4>1. CASE key = None
        <5>1. m = [m0 EXCEPT !.signature = None]
          BY <2>7, <4>1 DEF m, sign_record_if_enabled
        <5>2. m.signature = None
          BY <5>1 DEF PayloadMetadata
        <5> QED
          BY <1>7, <5>2
      <4> QED
        BY <4>1
    <3> QED
      BY <1>1, <1>3, <1>7, <2>3, <2>5, <2>7, <3>1 DEF m
  <2> QED
    BY <2>6, <2>7
<1> QED
  BY <1>6, <1>7

LEMMA MapAfterNew ==
  ASSUME NEW S, NEW T, OneEach(S), OneEach(T),
         NEW key \in Keys \cup {None}, NEW bytes \in Bodies, NEW m0 \in PayloadMetadata,
         \A rec \in S : rec.id # m0.id,
         T = S \cup {disk_record(sign_record_if_enabled(m0, key), bytes)}
  PROVE  LET m == sign_record_if_enabled(m0, key) IN
           /\ m0.id \in Ids /\ PayloadMap(S)[m0.id] = None /\ PayloadMap(T)[m0.id] # None
           /\ key # None => HasCurrentReceipt(PayloadMap(T)[m0.id])
           /\ m = sign_record_if_enabled(PayloadMap(T)[m0.id], key)
           /\ PayloadMap(T) = [PayloadMap(S) EXCEPT ![m0.id] = m]
<1> DEFINE m == sign_record_if_enabled(m0, key)
           d == disk_record(m, bytes)
<1>1. /\ m \in PayloadMetadata /\ m.id = m0.id
      /\ HasCurrentReceipt(m) \/ (m.signature = None /\ key = None)
      /\ sign_record_if_enabled(m, key) = m
  BY Signed
<1>2. d \in PayloadRecord /\ d.id = m.id /\ metadata_for(d) = m
  BY <1>1, RecordOfMetadata
<1>3. m0.id \in Ids /\ T = S \cup {d} /\ d \in T
  BY DEF PayloadMetadata
<1> HIDE DEF m, d
<1>4. PayloadMap(T) = [PayloadMap(S) EXCEPT ![m0.id] = m]
  BY <1>1, <1>2, <1>3, MapChanges
<1>5. PayloadMap(S) \in [Ids -> PayloadMetadata \cup {None}] /\ PayloadMap(S)[m0.id] = None
  BY <1>3, MapOf
<1>6. PayloadMap(T)[m0.id] = m /\ m # None
  BY <1>1, <1>3, <1>4, <1>5, NoneAssumption
<1> QED
  BY <1>1, <1>3, <1>4, <1>5, <1>6 DEF m


LEMMA TypedAfter ==
  ASSUME NEW req \in Requests, SettingsInv, StoredInv, TypedInv, Accept(req)
  PROVE  TypedInv'
<1>1. PICK key \in Keys \cup {None}, bytes \in Bodies, m0 \in PayloadMetadata :
        LET m == sign_record_if_enabled(m0, key) IN
          FindsKnown(m0, m, bytes) \/ MakesNew(m0, m, bytes)
  BY AcceptsWith
<1> DEFINE m == sign_record_if_enabled(m0, key)
<1>2. disk_record(m, bytes) \in PayloadRecord
  BY Signed, RecordOfMetadata
<1> HIDE DEF m
<1>3. stored' \subseteq stored \cup {disk_record(m, bytes)}
  BY <1>1 DEF FindsKnown, MakesNew, m
<1> QED
  BY <1>2, <1>3 DEF TypedInv

LEMMA TypedStart == Init => TypedInv
<1> SUFFICES ASSUME NEW id \in Ids, NEW now \in Times, NEW key \in Keys
             PROVE  earlier_record(id, now, key) \in PayloadRecord
  BY MaxAssumption DEF Init, TypedInv, EarlierRecords
<1> DEFINE rec == record_for(id[1], id[2], None, now)
           m == metadata_for(rec)
           sig == sign_receipt(key, legacy_hosting_receipt_for_record(m))
<1>1. id[1] \in Namespaces /\ id[2] \in Bodies
  BY DEF Ids
<1>2. rec \in PayloadRecord
  BY <1>1, SizeAssumption DEF record_for, payload_id, PayloadRecord, Ids
<1>3. m \in PayloadMetadata
  BY <1>2, MetadataOfRecord
<1> HIDE DEF rec, m
<1>4. sig \in PayloadSignature
  BY <1>3 DEF sign_receipt, legacy_hosting_receipt_for_record, receipt_for_record,
       receipt_for_record_with_context, PayloadSignature, Receipt, PayloadMetadata
<1> HIDE DEF sig
<1>5. [m EXCEPT !.signature = sig] \in PayloadMetadata
  BY <1>3, <1>4 DEF PayloadMetadata
<1>6. disk_record([m EXCEPT !.signature = sig], id[2]) \in PayloadRecord
  BY <1>1, <1>5, RecordOfMetadata
<1> QED
  BY <1>6 DEF earlier_record, sig, m, rec

LEMMA TypedStays == IngressInv /\ TypedInv /\ [Next]_vars => TypedInv'
<1> SUFFICES ASSUME IngressInv, TypedInv, [Next]_vars PROVE TypedInv'
  OBVIOUS
<1>1. CASE stored' = stored
  BY <1>1 DEF TypedInv
<1>2. ASSUME NEW req \in Requests, Accept(req) PROVE TypedInv'
  BY <1>2, TypedAfter DEF IngressInv
<1> QED
  BY <1>1, <1>2, Refuses DEF Next, Serve, Start, Stop, Quiet, vars

(* An accepted request is a step of PayloadService and its answer.         *)
LEMMA AcceptServes ==
  ASSUME NEW req \in Requests, IngressInv, RecordsInv, TypedInv, RecordsInv', Accept(req)
  PROVE  /\ \/ StoredPayloads' = StoredPayloads
            \/ \E id \in Ids : Service!Store(id) \/ Service!Attach(id)
         /\ \A a \in accepted' \ accepted :
              /\ DescribesStore(a.outcome)
              /\ a.status = IF a.outcome.created THEN 201 ELSE 200
              /\ a.outcome.created =>
                   \A b \in accepted : b.outcome.record.id # a.outcome.record.id
<1>1. PICK key \in Keys \cup {None}, bytes \in Bodies, m0 \in PayloadMetadata :
        LET m == sign_record_if_enabled(m0, key) IN
          /\ signer = key
          /\ \/ AnswersWith(req, 200, FALSE, m, key) /\ FindsKnown(m0, m, bytes)
             \/ AnswersWith(req, 201, TRUE, m, key) /\ MakesNew(m0, m, bytes)
  BY AcceptsWith DEF IngressInv
<1> PICK m : m = sign_record_if_enabled(m0, key)
  OBVIOUS
<1> PICK id : id = m0.id
  OBVIOUS
<1>2. OneEach(stored) /\ OneEach(stored')
  BY TypedAfter DEF IngressInv, OneEach, RecordsInv, TypedInv
<1>3. m.id = id
  BY Signed
<1>4. ASSUME NEW code \in {200, 201}, NEW new \in BOOLEAN, code = IF new THEN 201 ELSE 200,
             AnswersWith(req, code, new, m, key),
             new => \A rec \in stored : rec.id # id,
             PayloadMap(stored')[id] # None,
             key # None => HasCurrentReceipt(PayloadMap(stored')[id]),
             m = sign_record_if_enabled(PayloadMap(stored')[id], key),
             NEW a \in accepted' \ accepted
      PROVE  /\ DescribesStore(a.outcome)
             /\ a.status = IF a.outcome.created THEN 201 ELSE 200
             /\ a.outcome.created =>
                  \A b \in accepted : b.outcome.record.id # a.outcome.record.id
  <2>1. PICK o : /\ respond(req, code, o) /\ o.record = m /\ o.created = new
                 /\ o.signature = signature_for_context(m, o.context, key)
    BY <1>4 DEF AnswersWith
  <2>2. PICK x : accepted' = accepted \cup {x} /\ x.status = code /\ x.outcome = o
    BY <2>1, AcceptedAfter
  <2>3. a.outcome = o /\ a.status = code
    BY <1>4, <2>2
  <2>4. DescribesStore(o)
    BY <1>1, <1>3, <1>4, <2>1 DEF DescribesStore, StoredPayloads
  <2>5. new => \A b \in accepted : b.outcome.record.id # id
    BY <1>4 DEF IngressInv, AnswersInv
  <2>6. DescribesStore(a.outcome)
    BY <2>3, <2>4 DEF DescribesStore
  <2> QED
    BY <1>3, <1>4, <2>1, <2>3, <2>5, <2>6
<1>5. CASE AnswersWith(req, 200, FALSE, m, key) /\ FindsKnown(m0, m, bytes)
  <2>1. PICK rec \in stored :
          /\ metadata_for(rec) = m0 /\ rec.body = bytes
          /\ stored' = IF m.signature = None THEN stored
                       ELSE (stored \ {rec}) \cup {disk_record(m, bytes)}
    BY <1>5 DEF FindsKnown
  <2>2. /\ id \in Ids /\ PayloadMap(stored)[id] = m0 /\ m0 # None
        /\ PayloadMap(stored')[id] # None
        /\ key # None => HasCurrentReceipt(PayloadMap(stored')[id])
        /\ m = sign_record_if_enabled(PayloadMap(stored')[id], key)
        /\ \/ PayloadMap(stored') = PayloadMap(stored)
           \/ /\ key # None /\ ~HasCurrentReceipt(m0)
              /\ PayloadMap(stored') = [PayloadMap(stored) EXCEPT ![id] = m]
    <3>1. PICK S, T : S = stored /\ T = stored'
      OBVIOUS
    <3>2. /\ OneEach(S) /\ OneEach(T) /\ rec \in S
          /\ T = IF sign_record_if_enabled(m0, key).signature = None THEN S
                 ELSE (S \ {rec}) \cup {disk_record(sign_record_if_enabled(m0, key), bytes)}
      BY <1>2, <2>1, <3>1
    <3>3. /\ m0.id \in Ids /\ PayloadMap(S)[m0.id] = m0 /\ m0 # None
          /\ PayloadMap(T)[m0.id] # None
          /\ key # None => HasCurrentReceipt(PayloadMap(T)[m0.id])
          /\ m = sign_record_if_enabled(PayloadMap(T)[m0.id], key)
          /\ \/ PayloadMap(T) = PayloadMap(S)
             \/ /\ key # None /\ ~HasCurrentReceipt(m0)
                /\ PayloadMap(T) = [PayloadMap(S) EXCEPT ![m0.id] = m]
      BY <2>1, <3>2, MapAfter
    <3> QED
      BY <3>1, <3>3
  <2>3. ASSUME key # None, ~HasCurrentReceipt(m0),
               StoredPayloads' = [StoredPayloads EXCEPT ![id] = m]
        PROVE  Service!Attach(id)
    <3>1. key \in Keys /\ StoredPayloads[id] = m0
      BY <2>2, <2>3 DEF StoredPayloads
    <3> QED
      BY <2>2, <2>3, <3>1, ServiceOperators DEF Service!Attach
  <2> QED
    BY <1>4, <1>5, <2>2, <2>3 DEF StoredPayloads
<1>6. CASE AnswersWith(req, 201, TRUE, m, key) /\ MakesNew(m0, m, bytes)
  <2>1. /\ \A rec \in stored : rec.id # id
        /\ stored' = stored \cup {disk_record(m, bytes)}
    BY <1>6 DEF MakesNew
  <2>2. PICK ctype \in ContentTypes \cup {None}, now \in Times :
          m0 = metadata_for(record_for(id[1], id[2], ctype, now))
    BY <1>6 DEF MakesNew
  <2>3. /\ id \in Ids /\ PayloadMap(stored)[id] = None /\ PayloadMap(stored')[id] # None
        /\ key # None => HasCurrentReceipt(PayloadMap(stored')[id])
        /\ m = sign_record_if_enabled(PayloadMap(stored')[id], key)
        /\ PayloadMap(stored') = [PayloadMap(stored) EXCEPT ![id] = m]
    BY <1>2, <2>1, MapAfterNew
  <2>4. Service!Store(id)
    <3>1. StoredPayloads[id] = None /\ StoredPayloads' = [StoredPayloads EXCEPT ![id] = m]
      BY <2>3 DEF StoredPayloads
    <3> QED
      BY <2>2, <3>1, ServiceOperators DEF Service!Store
  <2> QED
    BY <1>4, <1>6, <2>1, <2>3, <2>4
<1> QED
  BY <1>1, <1>5, <1>6


LEMMA StoresInit == IngressInv /\ RecordsInv /\ TypedInv /\ Init => Service!Init
<1> SUFFICES ASSUME IngressInv, RecordsInv, TypedInv, Init PROVE Service!Init
  OBVIOUS
<1>1. OneEach(stored)
  BY DEF OneEach, RecordsInv, TypedInv
<1>2. StoredPayloads \in [Ids -> PayloadMetadata \cup {None}]
  BY <1>1, MapOf DEF StoredPayloads
<1>3. ASSUME NEW id \in Ids, StoredPayloads[id] # None
      PROVE  /\ StoredPayloads[id].id = id
             /\ StoredPayloads[id].signature # None =>
                  /\ StoredPayloads[id].signature.signer \in Keys
                  /\ validate_payload_signature(StoredPayloads[id], StoredPayloads[id].signature)
  <2>1. PICK rec \in stored : rec.id = id
    BY <1>1, <1>3, MapOf DEF StoredPayloads
  <2>2. /\ StoredPayloads[id] = metadata_for(rec) /\ rec \in PayloadRecord
        /\ metadata_for(rec) \in PayloadMetadata /\ metadata_for(rec).id = id
        /\ metadata_for(rec).signature = rec.signature
    BY <1>1, <2>1, MapOf, MetadataOfRecord DEF StoredPayloads, OneEach, metadata_for
  <2>3. rec.signature # None => /\ rec.signature.signer \in Keys
                                /\ validate_payload_signature(metadata_for(rec), rec.signature)
    BY <2>1, <2>2, NoneAssumption DEF IngressInv, StoredInv, Sound, PayloadRecord, PayloadSignature
  <2> QED
    BY <2>2, <2>3
<1> QED
  BY <1>2, <1>3, ServiceOperators DEF Service!Init, Service!Genuine

LEMMA TypedInvariant == Spec => [](IngressInv /\ RecordsInv /\ TypedInv)
<1>1. Init => TypedInv
  BY TypedStart
<1>2. IngressInv /\ TypedInv /\ [Next]_vars => TypedInv'
  BY TypedStays
<1> QED
  BY <1>1, <1>2, IngressInvariant, RecordsInvariant, PTL DEF Spec

(* A step that is not an accepted request stores and answers nothing.      *)
LEMMA OnlyAcceptStores ==
  ASSUME [Next]_vars
  PROVE  (stored' = stored /\ accepted' = accepted) \/ \E req \in Requests : Accept(req)
<1>1. CASE Start \/ Stop \/ Quiet \/ UNCHANGED vars
  BY <1>1 DEF Start, Stop, Quiet, vars, accepted
<1>2. ASSUME NEW req \in Requests, Serve(req)
      PROVE  (stored' = stored /\ accepted' = accepted) \/ Accept(req)
  BY <1>2, Refuses DEF Serve
<1> QED
  BY <1>1, <1>2 DEF Next

(* The one-step store of the handlers keeps the promise of PayloadService, *)
(* as the store of many steps does (ImplementsService of PayloadStore):    *)
(* whatever is asked, under whatever settings, a payload is stored once    *)
(* and changes only by a current receipt that it did not have.             *)
THEOREM HandlersImplementService == Spec => StoresAsService
<1>1. IngressInv /\ RecordsInv /\ TypedInv /\ Init => Service!Init
  BY StoresInit
<1>2. ASSUME IngressInv, RecordsInv, TypedInv, RecordsInv', [Next]_vars
      PROVE  [Service!Next]_Service!vars
  <2>1. CASE stored' = stored
    BY <2>1 DEF Service!vars, StoredPayloads, PayloadMap
  <2>2. ASSUME NEW req \in Requests, Accept(req)
        PROVE  [Service!Next]_Service!vars
    <3>1. CASE StoredPayloads' = StoredPayloads
      BY <3>1 DEF Service!vars
    <3>2. CASE \E id \in Ids : Service!Store(id) \/ Service!Attach(id)
      BY <3>2, ServiceOperators DEF Service!Next
    <3> QED
      BY <1>2, <2>2, <3>1, <3>2, AcceptServes
  <2> QED
    BY <1>2, <2>1, <2>2, OnlyAcceptStores
<1>3. IngressInv /\ RecordsInv /\ TypedInv /\ RecordsInv' /\ [Next]_vars
        => [Service!Next]_Service!vars
  BY <1>2
<1> QED
  BY <1>1, <1>3, TypedInvariant, PTL DEF Spec, StoresAsService, Service!Spec

(* What the handlers answer is what PayloadService would: metadata of what *)
(* is stored at that moment, with a current receipt whenever the process   *)
(* has a key, and a 201 only if no answer spoke of the payload before.     *)
THEOREM HandlersAnswerAsService == Spec => AnswersAsService
<1>1. ASSUME IngressInv, RecordsInv, TypedInv, RecordsInv', [Next]_vars,
             NEW a \in accepted' \ accepted
      PROVE  /\ DescribesStore(a.outcome)
             /\ a.status = IF a.outcome.created THEN 201 ELSE 200
             /\ a.outcome.created =>
                  \A b \in accepted : b.outcome.record.id # a.outcome.record.id
  <2>1. PICK req \in Requests : Accept(req)
    BY <1>1, OnlyAcceptStores
  <2> QED
    BY <1>1, <2>1, AcceptServes
<1>2. IngressInv /\ RecordsInv /\ TypedInv /\ RecordsInv' /\ [Next]_vars =>
        [\A a \in accepted' \ accepted :
           /\ DescribesStore(a.outcome)
           /\ a.status = IF a.outcome.created THEN 201 ELSE 200
           /\ a.outcome.created =>
                \A b \in accepted : b.outcome.record.id # a.outcome.record.id]_vars
  BY <1>1
<1> QED
  BY <1>2, TypedInvariant, PTL DEF Spec, AnswersAsService

(* --------------------- receipts that a client holds -------------------- *)

(* What the client recomputes is a function of id and date.                *)
LEMMA ReceiptOfKept ==
  ASSUME NEW m, NEW n, Kept(m) = Kept(n)
  PROVE  receiptForMetadata(m) = receipt_for_record_with_context(n, None)
  BY DEF Kept, receiptForMetadata, receipt_for_record_with_context

(* Receipts verify as long as they are held (verifySignature against       *)
(* submit, sign_record_if_enabled and every later process).                *)
THEOREM HeldReceiptsVerify == Spec => []ReceiptsVerify
<1>1. ASSUME StoredInv, NEW rec \in stored, rec.signature # None
      PROVE  verifySignature(metadata_for(rec), rec.signature)
  <2>1. validate_payload_signature(metadata_for(rec), rec.signature)
    BY <1>1 DEF StoredInv, Sound
  <2>2. receiptForMetadata(metadata_for(rec)) = receipt_for_record(metadata_for(rec))
    BY DEF receiptForMetadata, receipt_for_record, receipt_for_record_with_context
  <2> HIDE DEF metadata_for
  <2> QED
    BY <2>1, <2>2 DEF verifySignature, validate_payload_signature,
                      legacy_hosting_receipt_for_record
<1>2. ASSUME RecordsInv, NEW a \in accepted, a.outcome.context = None,
             a.outcome.signature # None
      PROVE  \E m \in fetched(a.outcome.record.id) : verifySignature(m, a.outcome.signature)
  <2>1. PICK rec \in stored : Kept(a.outcome.record) = Kept(rec)
    BY <1>2 DEF RecordsInv
  <2>2. a.outcome.signature.receipt = receipt_for_record_with_context(a.outcome.record, None)
    BY <1>2 DEF RecordsInv, AboutRecord
  <2>3. Kept(metadata_for(rec)) = Kept(a.outcome.record)
    BY <2>1 DEF Kept, metadata_for
  <2>4. receiptForMetadata(metadata_for(rec)) = a.outcome.signature.receipt
    BY <2>2, <2>3, ReceiptOfKept
  <2>5. verifySignature(metadata_for(rec), a.outcome.signature)
    BY <2>4 DEF verifySignature
  <2>6. metadata_for(rec) \in fetched(a.outcome.record.id)
    BY <2>1 DEF fetched, Kept
  <2> QED
    BY <2>5, <2>6
<1>3. IngressInv /\ RecordsInv => ReceiptsVerify
  BY <1>1, <1>2 DEF IngressInv, ReceiptsVerify
<1> QED
  BY <1>3, IngressInvariant, RecordsInvariant, PTL
=============================================================================

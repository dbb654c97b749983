------------------------------- MODULE Ingress -------------------------------
(***************************************************************************)
(* The POST handlers (submit_payload and submit_arkiv_payload in           *)
(* src/src/server.rs) from the bytes of a request to its answer, in front  *)
(* of a store that acts in one step, over several runs of the process with *)
(* other settings.                                                         *)
(*                                                                         *)
(* The store is the one map that PayloadStore is shown to implement, so a  *)
(* handler is one step here: extractor, bearer check, validation, store.   *)
(* The settings, MAX_PAYLOAD_BYTES, INGRESS_BEARER_KEY and                 *)
(* SIGNER_PRIVATE_KEY, are those of the running process.                   *)
(***************************************************************************)
EXTENDS Validation

CONSTANTS
  Submissions,   \* bodies of POST /payloads
  Envelopes,     \* bodies of POST /arkiv/payloads
  Malformed,     \* a body that is no JSON object of the expected fields
  BearerKeys,    \* values of the bearer key
  Limits,        \* values of MAX_PAYLOAD_BYTES
  DocumentSize,  \* bytes of each JSON document as it is sent
  Overhead,      \* bytes of a request around its payload
  BODY_LIMIT,    \* bytes of a request that axum's Json extractor reads
  EarlierIds,    \* bound: ids of the payloads that may already be there
  BearerBodies,  \* bound: bodies that are also sent with a bearer key
  MaxAnswers,    \* bound: how many different answers are given
  MaxStarts      \* bound: how often the process is started

ASSUME SubmissionsAssumption ==
  /\ \A sub \in Submissions :
       /\ {sub.namespace, sub.payloadBase64} \subseteq Texts
       /\ {sub.contentType, sub.nonce} \subseteq Texts \cup {None}
       /\ sub.payment \in Nat \cup {None}
  /\ \A env \in Envelopes :
       /\ {env.namespace, env.contentType, env.payloadBase64, env.entityKey, env.nonce}
            \subseteq Texts \cup {None}
       /\ env.payloadJson \in Documents \cup {None} /\ env.payment \in Nat \cup {None}
       /\ env.attributes \in Seq([key : Texts, value : Values])
ASSUME SettingsAssumption == Limits \subseteq Nat \ {0} /\ BODY_LIMIT \in Nat
ASSUME MaxAssumption == MaxAnswers \in Nat /\ MaxStarts \in Nat /\ EarlierIds \subseteq Ids

VARIABLES
  status,             \* the process: "down", "up", or "failed" in load
  max_payload_bytes, ingress_key, signer,  \* its settings
  stored,             \* the stored records
  answers,            \* every answer given, with its request: history
  accepted_limit,     \* the largest limit a process has run with: history
  starts              \* how often the process was started

process == <<status, max_payload_bytes, ingress_key, signer>>
vars == <<process, stored, answers, accepted_limit, starts>>

Requests ==
  {req \in
     [route : {"/payloads"}, bearer : BearerKeys \cup {None}, body : Submissions \cup {Malformed}]
     \cup
     [route : {"/arkiv/payloads"}, bearer : BearerKeys \cup {None}, body : Envelopes \cup {Malformed}] :
     req.bearer # None => req.body \in BearerBodies}

(* What an earlier version may have left: nothing, or a payload with a     *)
(* receipt of the former form, accepted under some limit.                  *)
earlier_record(id, now, key) ==
  LET m == metadata_for(record_for(id[1], id[2], None, now)) IN
    disk_record([m EXCEPT !.signature = sign_receipt(key, legacy_hosting_receipt_for_record(m))],
                id[2])
EarlierRecords ==
  {earlier_record(id, now, key) : id \in EarlierIds, now \in Times, key \in Keys}

Init ==
  /\ status = "down" /\ max_payload_bytes = 0 /\ ingress_key = None /\ signer = None
  /\ \/ stored = {} /\ accepted_limit = 0
     \/ \E rec \in EarlierRecords, limit \in Limits :
          /\ validate_record_shape(rec, limit) /\ validate_stored_record(rec, limit)
          /\ stored = {rec} /\ accepted_limit = limit
  /\ answers = {} /\ starts = 0

(* main: the settings are read, the directory is loaded or refused.        *)
Loads(limit) ==
  \A rec \in stored : validate_record_shape(rec, limit) /\ validate_stored_record(rec, limit)

Start ==
  /\ status # "up" /\ starts < MaxStarts
  /\ starts' = starts + 1
  /\ \E limit \in Limits, bearer \in BearerKeys \cup {None}, key \in Keys \cup {None} :
       /\ max_payload_bytes' = limit /\ ingress_key' = bearer /\ signer' = key
       /\ status' = IF Loads(limit) THEN "up" ELSE "failed"
       /\ accepted_limit' =
            IF Loads(limit) /\ limit > accepted_limit THEN limit ELSE accepted_limit
  /\ UNCHANGED <<stored, answers>>

Stop ==
  /\ status = "up" /\ starts < MaxStarts
  /\ status' = "down" /\ max_payload_bytes' = 0 /\ ingress_key' = None /\ signer' = None
  /\ UNCHANGED <<stored, answers, accepted_limit, starts>>
-----------------------------------------------------------------------------
(* The content type of GET /payloads/{id}/raw: HeaderValue::from_str takes *)
(* printable ASCII only.                                                   *)
content_type_header(t) ==
  IF t # None /\ Kinds[t] \cap {"control", "high"} = {} THEN t ELSE BINARY_CONTENT_TYPE

(* What the Json extractor sees before any handler code runs.              *)
wire_size(req) ==
  IF req.route = "/payloads" \/ req.body.payloadJson = None
  THEN Overhead + (IF req.body.payloadBase64 = None THEN 0 ELSE Length[req.body.payloadBase64])
  ELSE Overhead + DocumentSize[req.body.payloadJson]
extracts(req) == req.body # Malformed /\ wire_size(req) <= BODY_LIMIT

authorize_ingress(req) == ingress_key = None \/ req.bearer = ingress_key

(* Mutant: the ARKIV route checks a limit that is not this process's.      *)
prepared_any_limit(req) ==
  IF req.route = "/payloads"
  THEN LET payload == validate_submission(req.body, max_payload_bytes) IN
         IF payload = Failure THEN Failure ELSE [payload |-> payload, arkiv |-> None]
  ELSE prepare_submission(req.body, BODY_LIMIT)
prepared(req) ==
  IF req.route = "/payloads"
  THEN LET payload == validate_submission(req.body, max_payload_bytes) IN
         IF payload = Failure THEN Failure ELSE [payload |-> payload, arkiv |-> None]
  ELSE prepare_submission(req.body, max_payload_bytes)

(* An answer, with the request and the settings it was given under.        *)
respond(req, status_code, outcome) ==
  answers' = answers \cup
    {[request |-> req, limit |-> max_payload_bytes, status |-> status_code,
      outcome |-> outcome]}

serves(req) ==
  /\ status = "up" /\ Cardinality(answers) < MaxAnswers
  /\ UNCHANGED <<process, accepted_limit, starts>>

(* 400, 415 or 422 for what is not JSON, 413 for what is too large: the    *)
(* extractor refuses before the bearer key is looked at.                   *)
RefuseBody(req) ==
  /\ serves(req)
  /\ ~extracts(req)
  /\ respond(req, IF req.body = Malformed THEN 400 ELSE 413, None)
  /\ UNCHANGED stored

RefuseBearer(req) ==
  /\ serves(req)
  /\ extracts(req) /\ ~authorize_ingress(req)
  /\ respond(req, 401, None)
  /\ UNCHANGED stored

RefuseSubmission(req) ==
  /\ serves(req)
  /\ extracts(req) /\ authorize_ingress(req) /\ prepared(req) = Failure
  /\ respond(req, 400, None)
  /\ UNCHANGED stored

(* The outcome of a submission for metadata m, with the ARKIV context of   *)
(* its own envelope.  Mutant: the metadata says what was sent.             *)
submit_outcome_as_sent(req, m, created) ==
  LET payload == prepared(req).payload IN
    [record |-> [m EXCEPT !.contentType = payload.contentType],
     signature |-> signature_for_context(m, payload.context, signer),
     context |-> payload.context, arkiv |-> prepared(req).arkiv, created |-> created]
submit_outcome(req, m, created) ==
  LET payload == prepared(req).payload IN
    [record |-> m, signature |-> signature_for_context(m, payload.context, signer),
     context |-> payload.context, arkiv |-> prepared(req).arkiv, created |-> created]

(* PayloadStore::submit, as one step: the known payload, its receipt made  *)
(* current if there is a key, or a new one.                                *)
Accept(req) ==
  /\ serves(req)
  /\ extracts(req) /\ authorize_ingress(req) /\ prepared(req) # Failure
  /\ LET payload == prepared(req).payload
         id == payload_id(payload.namespace, payload.bytes)
         known == {rec \in stored : rec.id = id}
     IN \/ \E rec \in known :
             LET m == sign_record_if_enabled(metadata_for(rec), signer) IN
               /\ stored' = IF m.signature = None THEN stored
                            ELSE (stored \ {rec}) \cup {disk_record(m, payload.bytes)}
               /\ respond(req, 200, submit_outcome(req, m, FALSE))
        \/ /\ known = {}
           /\ \E now \in Times :
                LET rec == record_for(payload.namespace, payload.bytes, payload.contentType, now)
                    m == sign_record_if_enabled(metadata_for(rec), signer) IN
                  /\ stored' = stored \cup {disk_record(m, payload.bytes)}
                  /\ respond(req, 201, submit_outcome(req, m, TRUE))

Serve(req) ==
  RefuseBody(req) \/ RefuseBearer(req) \/ RefuseSubmission(req) \/ Accept(req)

(* The bounds of the instance are used up and the process runs on.         *)
Quiet ==
  /\ Cardinality(answers) = MaxAnswers \/ status = "failed"
  /\ starts = MaxStarts
  /\ UNCHANGED vars

Next == Start \/ Stop \/ (\E req \in Requests : Serve(req)) \/ Quiet

Spec == Init /\ [][Next]_vars
-----------------------------------------------------------------------------
accepted == {a \in answers : a.status \in {200, 201}}

(* The submission a request means, on either route.                        *)
meant(req) ==
  IF req.route = "/payloads" THEN req.body ELSE arkiv_submission(req.body)
content(req) == <<Trim[meant(req).namespace], Decode[Trim[meant(req).payloadBase64]]>>
nonce_and_payment(req) ==
  <<IF meant(req).nonce = None THEN None ELSE Lower[Trim[meant(req).nonce]],
    meant(req).payment>>

(* The settings are those of the process, what is stored and answered has  *)
(* the shape the other modules expect of validated data.                   *)
IngressTypeOK ==
  /\ status \in {"down", "up", "failed"}
  /\ max_payload_bytes \in Limits \cup {0} /\ ingress_key \in BearerKeys \cup {None}
  /\ signer \in Keys \cup {None}
  /\ \A rec \in stored :
       /\ rec.namespace \in Namespaces /\ rec.contentType \in ContentTypes \cup {None}
       /\ rec.body \in Bodies
  /\ \A a \in answers : a.request \in Requests /\ a.status \in {200, 201, 400, 401, 413}
  /\ accepted_limit \in Limits \cup {0} /\ starts \in 0 .. MaxStarts

(* validate_submission and validate_record_shape agree: whatever either    *)
(* route accepted, under whatever settings, load accepts again under the   *)
(* largest limit a process has run with, so that raising the limit and     *)
(* putting it back, or changing a key, never leaves a directory that does  *)
(* not load.                                                               *)
AcceptedIsLoadable == Loads(accepted_limit)

(* One payload, one id: requests of either route, in any spelling, get the *)
(* same id exactly if they mean the same namespace and the same bytes; and *)
(* only one of their answers is a 201.                                     *)
OnePayloadOneId ==
  \A a, b \in accepted :
    /\ content(a.request) = content(b.request) <=> a.outcome.record.id = b.outcome.record.id
    /\ content(a.request) = content(b.request) /\ a.status = 201 /\ b.status = 201 => a = b

(* Receipts are a replay protection: two of them have the same context     *)
(* exactly if their requests named the same nonce, in any spelling, and    *)
(* the same payment; and the ARKIV context says what the receipt says.     *)
ReceiptsTellNoncesApart ==
  \A a, b \in {x \in accepted : x.outcome.signature # None} :
    LET receipt(x) == x.outcome.signature.receipt IN
      /\ nonce_and_payment(a.request) = nonce_and_payment(b.request)
           <=> receipt(a).context = receipt(b).context
      /\ a.outcome.arkiv # None => a.outcome.arkiv.context = receipt(a).context

(* The ARKIV context does not depend on the order in which an envelope     *)
(* lists its attributes, nor on white space around their names.            *)
AttributesAreCanonical ==
  LET named(a) == {<<Trim[x.key], x.value>> : x \in ToSet(a.request.body.attributes)} IN
    \A a, b \in {x \in accepted : x.outcome.arkiv # None} :
      named(a) = named(b) => a.outcome.arkiv.attributes = b.outcome.arkiv.attributes

(* All answers about one payload describe one record, that of the first    *)
(* submission, whatever the later ones sent; the ARKIV context names the   *)
(* namespace it is stored in, and the content type of its own envelope,    *)
(* which is the stored one only if this envelope created the payload.      *)
AnswersAgree ==
  /\ \A a, b \in accepted : a.outcome.record.id = b.outcome.record.id =>
       Kept(a.outcome.record) = Kept(b.outcome.record)
  /\ \A a \in {x \in accepted : x.outcome.arkiv # None} :
       /\ a.outcome.arkiv.namespace = a.outcome.record.namespace
       /\ a.status = 201 => a.outcome.arkiv.contentType = a.outcome.record.contentType

(* A stored content type is always one that the raw response can carry: no *)
(* payload is served under the fallback type although one was accepted.    *)
StoredTypeIsServed ==
  \A rec \in stored :
    rec.contentType # None => content_type_header(rec.contentType) = rec.contentType
=============================================================================

--------------------------- MODULE PayloadService ---------------------------
(***************************************************************************)
(* What the provider promises to its clients (README.md, instructions.md), *)
(* with the store as one map: a payload is stored once and never changes;  *)
(* a current receipt may be attached to one that has none; an answer is    *)
(* about what is stored at the moment it is given.                         *)
(***************************************************************************)
EXTENDS Receipts

CONSTANT Requests  \* HTTP requests, each answered at most once

VARIABLES
  stored,  \* metadata of the stored payloads, by id
  reply,   \* the 200 a submission was answered with, or None
  served   \* the answer to a GET of /payloads/{id}/raw, or None

vars == <<stored, reply, served>>

Genuine(m, sig) ==
  sig # None => sig.signer \in Keys /\ validate_payload_signature(m, sig)

Init ==
  /\ stored \in [Ids -> PayloadMetadata \cup {None}]
  /\ \A id \in Ids : stored[id] # None =>
       stored[id].id = id /\ Genuine(stored[id], stored[id].signature)
  /\ reply = [r \in Requests |-> None]
  /\ served = [r \in Requests |-> None]

(* A new payload is stored, with a current receipt or none.                *)
Store(id) ==
  /\ stored[id] = None
  /\ \E ctype \in ContentTypes \cup {None}, now \in Times, key \in Keys \cup {None} :
       stored' = [stored EXCEPT ![id] = sign_record_if_enabled(
                    metadata_for(record_for(id[1], id[2], ctype, now)), key)]
  /\ UNCHANGED <<reply, served>>

(* A stored payload without a current receipt gets one.                    *)
Attach(id) ==
  /\ stored[id] # None /\ ~HasCurrentReceipt(stored[id])
  /\ \E key \in Keys :
       stored' = [stored EXCEPT ![id] = sign_record_if_enabled(stored[id], key)]
  /\ UNCHANGED <<reply, served>>

(* A submission is answered by a process with this key or without one: it  *)
(* was the first of its payload only if no answer spoke of it before.      *)
Answer(r) ==
  /\ reply[r] = None
  /\ \E id \in Ids, ctx \in Contexts \cup {None}, key \in Keys \cup {None},
        new \in BOOLEAN :
       /\ stored[id] # None
       /\ key # None => HasCurrentReceipt(stored[id])
       /\ new => \A q \in Requests : reply[q] # None => reply[q].record.id # id
       /\ LET m == sign_record_if_enabled(stored[id], key) IN
            reply' = [reply EXCEPT ![r] =
              [record |-> m, context |-> ctx,
               signature |-> signature_for_context(m, ctx, key), created |-> new]]
  /\ UNCHANGED <<stored, served>>

Serve(r) ==
  /\ served[r] = None
  /\ \E id \in Ids :
       /\ stored[id] # None
       /\ served' = [served EXCEPT ![r] =
            [id |-> id, contentType |-> stored[id].contentType, body |-> id[2]]]
  /\ UNCHANGED <<stored, reply>>

Next ==
  \/ \E id \in Ids : Store(id) \/ Attach(id)
  \/ \E r \in Requests : Answer(r) \/ Serve(r)

Spec == Init /\ [][Next]_vars
=============================================================================

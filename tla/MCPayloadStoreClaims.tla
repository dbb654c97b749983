------------------------ MODULE MCPayloadStoreClaims ------------------------
(* What the documents say of submissions and the code does not always do.  *)
EXTENDS MCPayloadStore

(* README.md:105, of POST /payloads: "The response returns payload         *)
(* metadata and any receipt signature".  Without a nonce or a payment that *)
(* is the metadata of the payload with the signature it has at that time,  *)
(* as GET /payloads/{id} returns them.                                     *)
PostReturnsAnySignature ==
  [][\A r \in Requests : reply'[r] # reply[r] /\ reply'[r].context = None =>
       LET stored == metadata_for(files[reply'[r].record.id]) IN
         stored.signature # None => reply'[r].signature # None]_vars
=============================================================================

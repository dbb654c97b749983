------------------------------ MODULE MCClient ------------------------------
(* Instances of Client for TLC, and what the documents say that the code   *)
(* does not always do.                                                     *)
EXTENDS MCIngress, Client
LOCAL INSTANCE TLC

Input(ns, payload, nonce, payment) ==
  [namespace |-> ns, contentType |-> "text/plain", payload |-> payload, payloadBase64 |-> None,
   nonce |-> nonce, payment |-> payment]
MCInputs ==
  {Input("ns", small, None, None), Input("ns", large, "", None), Input("ns", small, "0xa", None),
   Input("ns", small, None, 1)}
MCPaddedInputs == {Input(" ns ", small, None, None), Input("ns", small, None, None)}
MCHugeInputs == {Input("ns", huge, None, None), Input("ns", small, None, None)}
Bodies_of(inputs) == {submit_body(i) : i \in {x \in inputs : submits(x)}}
MCClientSubmissions == Bodies_of(MCInputs)
MCPaddedSubmissions == Bodies_of(MCPaddedInputs)
MCHugeSubmissions == Bodies_of(MCHugeInputs)

AllSubmissions == MCSubmissions \cup MCClientSubmissions
Symmetry == Permutations(Keys)

(* clients/js/README.md:35: "Submit a payload and verify the returned      *)
(* receipt signature."  Every receipt that is returned verifies against    *)
(* the metadata it is returned with.                                       *)
ReturnedReceiptsVerify ==
  \A a \in accepted :
    a.outcome.signature # None => verifySignature(a.outcome.record, a.outcome.signature)

(* clients/js/src/client.ts, above predictPayloadId: "Predict the content  *)
(* address and checksum the server will assign to a payload".              *)
PredictedIdIsAssigned ==
  \A a \in {x \in accepted : x.request.route = "/payloads"} :
    a.outcome.record.id =
      predictPayloadId(a.request.body.namespace, Decode[Trim[a.request.body.payloadBase64]])

(* README.md:31, of MAX_PAYLOAD_BYTES: "Maximum decoded payload size."  A  *)
(* payload of at most that size is not refused as too large.               *)
LimitIsDecodedSize ==
  \A a \in {x \in answers : x.status = 413} :
    LET bytes == Decode[Trim[meant(a.request).payloadBase64]] IN
      bytes \in Bodies => SizeOf[bytes] > a.limit
=============================================================================

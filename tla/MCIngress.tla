----------------------------- MODULE MCIngress -----------------------------
(* Instances of Ingress for TLC: a handful of texts, each for one way the  *)
(* code tells texts apart.                                                 *)
EXTENDS Ingress
LOCAL INSTANCE TLC

CONSTANTS small, large, huge,  \* bodies of 1, 3 and 6 bytes
          json2, json3, json4, \* bodies that JSON documents may have beside large
          d1, d2, d3, d4       \* JSON documents

(* f as a table, whose values TLC does not compute at every use.           *)
Table(f) == f @@ f

(* Objects in an array in an object: d1, d2 with other orders and another  *)
(* number for the same, d3 with a key twice, and d4 that means another one.*)
Scalar(literal) == [kind |-> "scalar", literal |-> literal, items |-> << >>]
Array(value) == [kind |-> "array", literal |-> "", items |-> <<[key |-> "", value |-> value]>>]
Object(members) == [kind |-> "object", literal |-> "", items |-> members]
Member(key, value) == [key |-> key, value |-> value]
A(literal) == Member("a", Scalar(literal))
In(value) == Member("b", Array(value))
Ordered == Object(<<A("1"), Member("b", Scalar("1.0"))>>)
Reversed == Object(<<Member("b", Scalar("1e0")), A("1")>>)
Tree == Table([d \in Documents |-> Object(
  CASE d = d1 -> <<A("1"), In(Ordered)>> [] d = d2 -> <<In(Reversed), A("1")>>
    [] d = d3 -> <<A("1.0"), In(Ordered), A("1")>> [] d = d4 -> <<A("1.0"), In(Ordered)>>)])
MCTrees ==
  {Scalar(l) : l \in {"1", "1.0", "1e0"}} \cup {Ordered, Reversed}
  \cup {Array(Ordered), Array(Reversed)} \cup {Tree[d] : d \in Documents}
MCNumber == Table([l \in {"1", "1.0", "1e0"} |-> IF l = "1" THEN "1" ELSE "1.0"])
JsonKeys == <<"a", "b">>
ByKey == INSTANCE CanonicalJson
  WITH Trees <- MCTrees, Keys <- JsonKeys, Number <- MCNumber, preserve_order <- FALSE
AsSent == INSTANCE CanonicalJson
  WITH Trees <- MCTrees, Keys <- JsonKeys, Number <- MCNumber, preserve_order <- TRUE
Form == Table([d \in Documents |-> ByKey!canonical_json_to_bytes(Tree[d])])
FormAsSent == Table([d \in Documents |-> AsSent!canonical_json_to_bytes(Tree[d])])
SameMeaning == Table([d \in Documents |-> {e \in Documents : ByKey!Same[Tree[d], Tree[e]]}])

MCTexts == {"", " ", "ns", " ns ", "n/s", "long", "arkiv.entities", "text/plain", " text/plain",
            "text/\n", "application/json", "application/octet-stream",
            "0xa", " 0XA", "0XA", "0x0", "c21s", " c21s", "bGFy", "aHVnZWh1", "=", "j2", "j3", "j4",
            "id", " id", "type", "Type"}
MCTrim == [t \in MCTexts |->
  CASE t = " " -> "" [] t = " ns " -> "ns" [] t = " text/plain" -> "text/plain"
    [] t = " 0XA" -> "0XA" [] t = " c21s" -> "c21s" [] t = " id" -> "id" [] OTHER -> t]
MCLower == [t \in MCTexts |->
  CASE t \in {"0XA", " 0XA"} -> "0xa" [] t = "Type" -> "type" [] OTHER -> t]
MCLength == [t \in MCTexts |->
  CASE t = "" -> 0 [] t = "long" -> 129 [] t = "aHVnZWh1" -> 8 [] OTHER -> 4]
MCKinds == [t \in MCTexts |->
  CASE t = "" -> {} [] t \in {"ns", "long", "id", "type"} -> {"lower"}
    [] t = "arkiv.entities" -> {"lower", "mark"} [] t = "Type" -> {"upper", "lower"}
    [] t = "text/\n" -> {"lower", "printable", "control"}
    [] t \in {"0xa", "0x0", "j2", "j3", "j4"} -> {"lower", "digit"} [] t = "0XA" -> {"upper", "digit"}
    [] t \in {"c21s", "bGFy", "aHVnZWh1"} -> {"lower", "upper", "digit"}
    [] OTHER -> {"lower", "printable"}]
MCLowerFirst == {"ns", "long", "id", "type", "arkiv.entities", "c21s", "bGFy", "aHVnZWh1",
                 "text/plain", "text/\n", "j2", "j3", "j4"}
MCDecode == [t \in MCTexts |->
  CASE t = "" -> EmptyBytes [] t = "c21s" -> small [] t = "bGFy" -> large
    [] t = "aHVnZWh1" -> huge [] t = "j2" -> json2 [] t = "j3" -> json3
    [] t = "j4" -> json4 [] OTHER -> Failure]
MCEncode == [b \in Bodies |-> CHOOSE t \in MCTexts : MCTrim[t] = t /\ MCDecode[t] = b]
MCRank == [t \in MCTexts |-> IF t = "id" THEN 1 ELSE IF t = "type" THEN 2 ELSE 0]
MCSizeOf == [b \in Bodies |-> CASE b = small -> 1 [] b = huge -> 6 [] OTHER -> 3]
BodyOf == CHOOSE body \in [{Form[d] : d \in Documents} -> {large, json2, json3, json4}] :
            body[Form[d1]] = large /\ \A x, y \in DOMAIN body : body[x] = body[y] => x = y
MCCanonicalJson == Table([d \in Documents |-> BodyOf[Form[d]]])
MCDocumentSize == [d \in Documents |-> 4]
MCNamespaces == {"ns", "id", "type", "Type", "arkiv.entities", "0xa", "0x0", "0XA",
                 "c21s", "bGFy", "aHVnZWh1", "j2", "j3", "j4"}
MCContentTypes == {t \in MCTexts : MCTrim[t] = t /\ t # "" /\ MCLength[t] <= 128
                                   /\ MCKinds[t] \cap {"control", "high"} = {}}
MCContexts == [nonce : {"0xa"}, payment : {None, 1}] \cup [nonce : {None}, payment : {1}]

Sub(ns, ctype, b64, nonce, payment) ==
  [namespace |-> ns, contentType |-> ctype, payloadBase64 |-> b64, nonce |-> nonce,
   payment |-> payment]
Env(ns, b64, json, attrs, nonce, payment) ==
  [namespace |-> ns, contentType |-> None, payloadBase64 |-> b64, payloadJson |-> json,
   attributes |-> attrs, entityKey |-> None, nonce |-> nonce, payment |-> payment]
Attr(k, v) == [key |-> k, value |-> v]

MCSubmissions ==
  {Sub("ns", None, "bGFy", None, None), Sub(" ns ", " text/plain", "c21s", None, None),
   Sub("ns", "text/\n", " c21s", "0xa", None), Sub("ns", None, "c21s", " 0XA", None),
   Sub("n/s", None, "c21s", None, None),
   Sub("long", " ", "c21s", None, None), Sub("ns", None, "=", None, None),
   Sub("ns", None, "c21s", "0x0", None), Sub("ns", None, "c21s", None, 0),
   Sub("ns", None, "aHVnZWh1", None, None)}
MCEnvelopes ==
  {Env(None, None, d1, <<Attr("id", "v"), Attr("type", "w")>>, None, None),
   Env(None, None, d2, <<Attr("type", "w"), Attr(" id", "v")>>, "0xa", 1),
   Env("ns", "bGFy", None, <<>>, "0XA", None),
   Env("ns", "bGFy", None, <<Attr("id", "x")>>, None, None),
   Env("ns", "bGFy", d1, <<>>, None, None),
   Env(None, None, d3, <<>>, None, None), Env(None, None, d4, <<>>, None, None)}
(* The bearer key has no part in what becomes of a request that passes.    *)
MCBearerBodies ==
  {b \in MCSubmissions : b.payloadBase64 = "bGFy" \/ b.namespace = "n/s"}
  \cup {e \in MCEnvelopes : e.payloadJson = d1 /\ e.payloadBase64 = None}
MCEarlierIds == {<<"ns", small>>}

(* Accepted JSON documents get one payload id exactly if they mean the     *)
(* same, and would whichever Map serde_json was built with: the order in   *)
(* which an object was written leaves no trace in the id.                  *)
OneFormPerDocument ==
  LET doc(a) == a.request.body.payloadJson
      bytes(a) == a.outcome.record.id[2]
      docs == {a \in accepted : a.outcome.arkiv # None /\ a.request.body.payloadJson # None}
  IN \A a, b \in docs :
       /\ bytes(a) = bytes(b) <=> doc(b) \in SameMeaning[doc(a)]
       /\ Form[doc(a)] = FormAsSent[doc(a)]
=============================================================================

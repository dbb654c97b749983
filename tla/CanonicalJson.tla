--------------------------- MODULE CanonicalJson ----------------------------
(***************************************************************************)
(* canonical_json_to_bytes (src/src/arkiv.rs) and the parser in front of   *)
(* it: when two senders of POST /arkiv/payloads mean one JSON document,    *)
(* its bytes, and with them its payload id, have to be one.                *)
(*                                                                         *)
(* A document is a tree with its members in the order they were sent, and  *)
(* a key may come twice.  serde_json keeps an object in a Map, which is    *)
(* sorted by key, or in the order of insertion when a dependency of the    *)
(* build asks for that (the feature preserve_order): normalize_json must   *)
(* not depend on which.  Bytes are a sequence of tokens.                   *)
(* The recursions are functions on Trees and what becomes of them.         *)
(***************************************************************************)
EXTENDS Naturals, Sequences, SequencesExt

CONSTANTS
  Trees,          \* documents and their parts
  Keys,           \* keys of objects, in the order of their bytes: a sequence
  Number,         \* how serde_json prints each literal, as "1.0" for "1e0"
  preserve_order  \* which Map serde_json was built with

(* Trees: a scalar has a literal, an array and an object have items.       *)
scalar(literal) == [kind |-> "scalar", literal |-> literal, items |-> << >>]

before(m, n) == IndexFirstSubSeq(<<m.key>>, Keys) < IndexFirstSubSeq(<<n.key>>, Keys)

(* Map::insert: a key that is there keeps its place and gets the value.    *)
insert(map, m) ==
  IF \E i \in DOMAIN map : map[i].key = m.key
    THEN [i \in DOMAIN map |-> IF map[i].key = m.key THEN m ELSE map[i]]
    ELSE IF preserve_order THEN Append(map, m) ELSE SortSeq(Append(map, m), before)

collect(members) == FoldLeft(insert, << >>, members)

(* Mutant of sorted: left to the Map of serde_json.                        *)
as_parsed(items) == items
(* pairs.sort_by                                                           *)
sorted(items) == SortSeq(items, before)

(* The items of a value, each transformed by f.                            *)
each(items, f) == [i \in DOMAIN items |-> [items[i] EXCEPT !.value = f[@]]]

(* serde_json::Value from the text.                                        *)
parse[doc \in Trees] ==
  CASE doc.kind = "scalar" -> scalar(Number[doc.literal])
    [] doc.kind = "array"  -> [doc EXCEPT !.items = each(@, parse)]
    [] doc.kind = "object" -> [doc EXCEPT !.items = collect(each(@, parse))]
Parsed == {parse[doc] : doc \in Trees}

(* The members of an object are sorted, normalized and collected again.    *)
normalize_json[value \in Parsed] ==
  CASE value.kind = "scalar" -> value
    [] value.kind = "array"  -> [value EXCEPT !.items = each(@, normalize_json)]
    [] value.kind = "object" ->
         [value EXCEPT !.items = collect(each(sorted(@), normalize_json))]
Normalized == {normalize_json[value] : value \in Parsed}

(* serde_json::to_vec                                                      *)
to_vec[value \in Normalized] ==
  LET written == [i \in DOMAIN value.items |->
                    (IF value.kind = "object" THEN <<value.items[i].key, ":">> ELSE << >>)
                    \o to_vec[value.items[i].value] \o <<",">>]
  IN CASE value.kind = "scalar" -> <<value.literal>>
       [] value.kind = "array"  -> <<"[">> \o FlattenSeq(written) \o <<"]">>
       [] value.kind = "object" -> <<"{">> \o FlattenSeq(written) \o <<"}">>

canonical_json_to_bytes(doc) == to_vec[normalize_json[parse[doc]]]
-----------------------------------------------------------------------------
(* What RFC 8259 leaves of a document: the order of an object's members    *)
(* means nothing, that of an array does, and of two members with one key   *)
(* parsers take the last.                                                  *)
meant(items, key) ==
  items[CHOOSE i \in DOMAIN items :
          items[i].key = key /\ \A j \in DOMAIN items : items[j].key = key => j <= i].value
keys_of(doc) == {doc.items[i].key : i \in DOMAIN doc.items}

Same[x \in Trees, y \in Trees] ==
  /\ x.kind = y.kind
  /\ CASE x.kind = "scalar" -> Number[x.literal] = Number[y.literal]
       [] x.kind = "array"  ->
            /\ Len(x.items) = Len(y.items)
            /\ \A i \in DOMAIN x.items : Same[x.items[i].value, y.items[i].value]
       [] x.kind = "object" ->
            /\ keys_of(x) = keys_of(y)
            /\ \A key \in keys_of(x) : Same[meant(x.items, key), meant(y.items, key)]
=============================================================================

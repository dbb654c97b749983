--------------------------- MODULE MCPayloadStore ---------------------------
(* Instances of PayloadStore for TLC; the .cfg files choose among these.   *)
EXTENDS PayloadStoreInvariant

CONSTANTS small, large  \* bodies

MCSizeOf == [b \in Bodies |-> IF b = large THEN 2 ELSE 1]
MCTimes == {1, 2}
MCOneTime == {1}

Symmetry == Permutations(Requests)
=============================================================================

--------------------------- MODULE MCListedStore ----------------------------
(* Instances of ListedStore for TLC.                                       *)
EXTENDS ListedStore

CONSTANTS small, large  \* bodies

MCSizeOf == [b \in Bodies |-> IF b = large THEN 2 ELSE 1]
MCTimes == {1, 2}

Symmetry == Permutations(Requests)
=============================================================================

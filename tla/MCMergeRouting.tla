--------------------------- MODULE MCMergeRouting --------------------------
(* Instances of MergeRouting for TLC. *)
EXTENDS MergeRouting, TLC

CONSTANTS list, set, lists, general, renamed

\* renamed is general with another parameter name, which matchit refuses.
RoutePatterns == <<general, renamed, lists>>

ClashingPatterns == {<<general, renamed>>}

Handlers == [p \in PatternSet |-> IF p = lists THEN "list" ELSE "set"]

\* A key matches all patterns of its kind.
Kinds == [k \in Keys |-> IF k = list THEN "list" ELSE "set"]

Matching == [k \in Keys |-> {p \in PatternSet : Handlers[p] = Kinds[k]}]

ElementSymmetry == Permutations(Elements)
=============================================================================

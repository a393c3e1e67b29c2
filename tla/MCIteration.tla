---------------------------- MODULE MCIteration ----------------------------
(* Instances of Iteration for TLC. *)
EXTENDS Iteration

\* Four strings, in bytewise and in natural order.
FourKeys == {"a1", "a10", "a2", "b"}

Bytewise == <<"a1", "a10", "a2", "b">>

Natural == <<"a1", "a2", "a10", "b">>

BothOrders == {Bytewise, Natural}

Prefixed ==
  [p \in FourKeys |-> IF p = "a1" THEN {"a1", "a10"} ELSE {p}]
=============================================================================

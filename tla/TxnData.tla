------------------------------ MODULE TxnData ------------------------------
(* The data of the transaction models.  A value is a counter, 0 standing    *)
(* for an absent key.  A client adds to a value (a merge, or a put of one   *)
(* more than the value it read) or replaces it (a put of a value it did not *)
(* compute from the old one, a delete).                                     *)
EXTENDS Integers

\* A value nobody knows of.
NotRead == -1

\* What a client asks for on a key.
Effects == [reset : BOOLEAN, add : Nat]

NoEffect == [reset |-> FALSE, add |-> 0]

\* The value an effect produces from the value v.
Apply(e, v) == (IF e.reset THEN 0 ELSE v) + e.add

\* What the write batch of a RocksDB transaction holds for a key.
Entries == [op : {"none", "put", "merge", "delete"}, n : Nat]

NoEntry == [op |-> "none", n |-> 0]

\* What a batch entry makes of the committed value v; the merge operator
\* appends its operands to the value, which on counters is addition.
Merged(e, v) ==
  CASE e.op = "none"   -> v
    [] e.op = "put"    -> e.n
    [] e.op = "merge"  -> v + e.n
    [] e.op = "delete" -> 0

\* A merge on a batch entry other than another merge has a known base.
MergedEntry(e) ==
  [ op |-> IF e.op \in {"none", "merge"} THEN "merge" ELSE "put",
    n |-> IF e.op \in {"none", "delete"} THEN 1 ELSE e.n + 1 ]
=============================================================================

-------------------------- MODULE MCPessimisticTxn -------------------------
(* Instances of PessimisticTxn for TLC. *)
EXTENDS PessimisticTxn, TLC

CONSTANTS c1, c2, k1, k2

\* k1 lives in the default column family, k2 in a named one.
TwoCfs == (k1 :> "default") @@ (k2 :> "orders_cf")

Opened == {"orders_cf"}

ClientSymmetry == Permutations(Clients)
=============================================================================

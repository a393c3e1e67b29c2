-------------------------- MODULE MCOptimisticTxn --------------------------
(* Instances of OptimisticTxn for TLC. *)
EXTENDS OptimisticTxn, TLC

CONSTANTS c1, c2, c3, k1, k2

\* k1 lives in the default column family, k2 in a named one.
TwoCfs == (k1 :> "default") @@ (k2 :> "accounts")

OneCf == (k1 :> "default")

Opened == {"accounts"}

SnapshotOnly == {TRUE}

BothModes == BOOLEAN

TwoAttempts == { [kind |-> "FixedRetry", max_attempts |-> 2] }

AllPolicies == { [kind |-> "FixedRetry", max_attempts |-> n] : n \in 0..2 }
               \cup { [kind |-> "NoRetry", max_attempts |-> 0] }

ClientSymmetry == Permutations(Clients)
=============================================================================

-------------------------- MODULE MCContextHandles -------------------------
(* Instances of ContextHandles for TLC. *)
EXTENDS ContextHandles, TLC

CONSTANTS w1, w2, w3

OneOfEach == (w1 :> "OptimisticTransactionContext") @@ (w2 :> "BatchWriter")
             @@ (w3 :> "TransactionContext")

OnePessimistic == (w1 :> "TransactionContext")

OneBatch == (w1 :> "BatchWriter")
=============================================================================

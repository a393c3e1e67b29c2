--------------------------- MODULE ContextHandles --------------------------
(* The three RAII wrappers that own a native RocksDB object in a            *)
(* ManuallyDrop field: TransactionContext (tx/context.rs),                  *)
(* OptimisticTransactionContext (tx/optimistic_context.rs) and BatchWriter  *)
(* (batch.rs).  ManuallyDrop<T> never drops its T: the native object is     *)
(* destroyed only where the code takes it out, and taking it out (or        *)
(* ptr::read) leaves the bytes behind for whoever looks again.              *)
(*                                                                          *)
(* One wrapper lives from new() to the end of its Drop.  A finalizing       *)
(* method consumes it: the method's body runs, then Drop.                   *)
EXTENDS Integers

CONSTANTS Wrappers,     \* wrapper objects
          KindOf,       \* the type of every wrapper
          MaxUses       \* bound: operations staged on a wrapper

Kinds == {"TransactionContext", "OptimisticTransactionContext", "BatchWriter"}

ASSUME KindAssumption == KindOf \in [Wrappers -> Kinds]
ASSUME BoundAssumption == MaxUses \in Nat

VARIABLES
  pc,        \* "none", "open", "dropping" (Drop is next), "gone"
  completed, \* the wrapper's completed / committed_or_discarded flag
  native,    \* its native object: "none", "live", "destroyed"
  staged,    \* operations staged in the native object
  applied,   \* operations that reached the database
  result,    \* what the finalizing method returned: "none", "ok", "err"
  misuse     \* a destroyed native object was called or destroyed again

vars == <<pc, completed, native, staged, applied, result, misuse>>

Init ==
  /\ pc = [w \in Wrappers |-> "none"]
  /\ completed = [w \in Wrappers |-> FALSE]
  /\ native = [w \in Wrappers |-> "none"]
  /\ staged = [w \in Wrappers |-> 0]
  /\ applied = [w \in Wrappers |-> 0]
  /\ result = [w \in Wrappers |-> "none"]
  /\ misuse = [w \in Wrappers |-> FALSE]

\* A native call: on a destroyed object it is a use after free.
Touch(w) == misuse' = [misuse EXCEPT ![w] = @ \/ native[w] # "live"]

Destroy(w) == native' = [native EXCEPT ![w] = "destroyed"]

New(w) ==
  /\ pc[w] = "none"
  /\ pc' = [pc EXCEPT ![w] = "open"]
  /\ native' = [native EXCEPT ![w] = "live"]
  /\ UNCHANGED <<completed, staged, applied, result, misuse>>

\* set, merge, delete: refused once completed.
Use(w) ==
  /\ pc[w] = "open" /\ ~completed[w] /\ staged[w] < MaxUses
  /\ staged' = [staged EXCEPT ![w] = @ + 1]
  /\ Touch(w)
  /\ UNCHANGED <<pc, completed, native, applied, result>>

Finalize(w, kind) ==
  /\ pc[w] = "open" /\ KindOf[w] = kind
  /\ ~completed[w]
  /\ pc' = [pc EXCEPT ![w] = "dropping"]
  /\ Touch(w)

\* Mutant of Outcome: the effects are applied twice.
OutcomeTwice(w, ok, effects) ==
  /\ result' = [result EXCEPT ![w] = IF ok THEN "ok" ELSE "err"]
  /\ applied' = [applied EXCEPT ![w] = IF ok THEN 2 * effects ELSE 0]

\* Mutant of Outcome: a failed commit has applied its effects.
OutcomeRegardless(w, ok, effects) ==
  /\ result' = [result EXCEPT ![w] = IF ok THEN "ok" ELSE "err"]
  /\ applied' = [applied EXCEPT ![w] = effects]

\* What the native commit, write or rollback returned.
Outcome(w, ok, effects) ==
  /\ result' = [result EXCEPT ![w] = IF ok THEN "ok" ELSE "err"]
  /\ applied' = [applied EXCEPT ![w] = IF ok THEN effects ELSE 0]

\* TransactionContext::commit: the transaction is copied out, committed and
\* destroyed; completed is set after the `?`.
tx_commit(w, ok) ==
  /\ Finalize(w, "TransactionContext")
  /\ Outcome(w, ok, staged[w])
  /\ Destroy(w)
  /\ completed' = [completed EXCEPT ![w] = ok]
  /\ UNCHANGED staged

\* TransactionContext::rollback: called in place; nothing is taken out.
tx_rollback(w, ok) ==
  /\ Finalize(w, "TransactionContext")
  /\ Outcome(w, ok, 0)
  /\ completed' = [completed EXCEPT ![w] = ok]
  /\ UNCHANGED <<native, staged>>

\* Mutant of optimistic_commit: completed only after the `?`.
optimistic_commit_late(w, ok) ==
  /\ Finalize(w, "OptimisticTransactionContext")
  /\ Outcome(w, ok, staged[w])
  /\ Destroy(w)
  /\ completed' = [completed EXCEPT ![w] = ok]
  /\ UNCHANGED staged

\* OptimisticTransactionContext::commit: taken out and completed first.
optimistic_commit(w, ok) ==
  /\ Finalize(w, "OptimisticTransactionContext")
  /\ Outcome(w, ok, staged[w])
  /\ Destroy(w)
  /\ completed' = [completed EXCEPT ![w] = TRUE]
  /\ UNCHANGED staged

optimistic_rollback(w, ok) ==
  /\ Finalize(w, "OptimisticTransactionContext")
  /\ Outcome(w, ok, 0)
  /\ Destroy(w)
  /\ completed' = [completed EXCEPT ![w] = TRUE]
  /\ UNCHANGED staged

\* BatchWriter::commit: the batch is moved into write() and freed there; the
\* flag is set after the `?`.
batch_commit(w, ok) ==
  /\ Finalize(w, "BatchWriter")
  /\ Outcome(w, ok, staged[w])
  /\ Destroy(w)
  /\ completed' = [completed EXCEPT ![w] = ok]
  /\ UNCHANGED staged

batch_discard(w) ==
  /\ Finalize(w, "BatchWriter")
  /\ Outcome(w, TRUE, 0)
  /\ Destroy(w)
  /\ completed' = [completed EXCEPT ![w] = TRUE]
  /\ UNCHANGED staged

\* The wrapper goes out of scope unfinalized.
Abandon(w) ==
  /\ pc[w] = "open"
  /\ pc' = [pc EXCEPT ![w] = "dropping"]
  /\ UNCHANGED <<completed, native, staged, applied, result, misuse>>

\* Mutant of DropContext: rolled back in place.
DropContextInPlace(w) ==
  /\ KindOf[w] # "BatchWriter"
  /\ IF completed[w] THEN UNCHANGED misuse ELSE Touch(w)
  /\ UNCHANGED native

\* Drop of the two contexts: take the transaction out, roll back, destroy.
DropContext(w) ==
  /\ KindOf[w] # "BatchWriter"
  /\ IF completed[w]
     THEN UNCHANGED <<native, misuse>>
     ELSE Touch(w) /\ Destroy(w)

\* Drop of BatchWriter: a log message; the ManuallyDrop field is left alone.
DropBatch(w) ==
  /\ KindOf[w] = "BatchWriter"
  /\ UNCHANGED <<native, misuse>>

Drop(w) ==
  /\ pc[w] = "dropping"
  /\ pc' = [pc EXCEPT ![w] = "gone"]
  /\ DropContext(w) \/ DropBatch(w)
  /\ UNCHANGED <<completed, staged, applied, result>>

Next ==
  \E w \in Wrappers :
    \/ New(w) \/ Use(w) \/ Abandon(w) \/ Drop(w) \/ batch_discard(w)
    \/ \E ok \in BOOLEAN : \/ tx_commit(w, ok) \/ tx_rollback(w, ok)
                           \/ optimistic_commit(w, ok) \/ optimistic_rollback(w, ok)
                           \/ batch_commit(w, ok)

Spec == Init /\ [][Next]_vars

-----------------------------------------------------------------------------
\* Every variable has its type.
TypeOK ==
  /\ pc \in [Wrappers -> {"none", "open", "dropping", "gone"}]
  /\ completed \in [Wrappers -> BOOLEAN]
  /\ native \in [Wrappers -> {"none", "live", "destroyed"}]
  /\ staged \in [Wrappers -> 0..MaxUses]
  /\ applied \in [Wrappers -> 0..MaxUses]
  /\ result \in [Wrappers -> {"none", "ok", "err"}]
  /\ misuse \in [Wrappers -> BOOLEAN]

\* A destroyed native object is called or destroyed again in one case only,
\* Drop after a TransactionContext commit that failed: the flag is still unset
\* then.  OptimisticTransactionContext, which sets it first, and BatchWriter,
\* whose Drop touches nothing, never do, whichever methods follow each other.
MisuseOnlyAfterFailedCommit ==
  \A w \in Wrappers : misuse[w] =>
    /\ KindOf[w] = "TransactionContext"
    /\ pc[w] = "gone" /\ result[w] = "err" /\ ~completed[w]

\* What has become of the native object of a wrapper that is gone.  That of an
\* OptimisticTransactionContext is destroyed, whatever ended it; that of a
\* BatchWriter exactly if a finalizing method consumed it, since Drop
\* (batch.rs:218) leaves an abandoned one alone; that of a TransactionContext
\* unless rollback returned Ok (context.rs:366): an Ok that leaves staged
\* operations out of the database leaves the transaction behind too.
EndOfNativeObject ==
  \A w \in Wrappers : pc[w] = "gone" =>
    CASE KindOf[w] = "OptimisticTransactionContext" -> native[w] = "destroyed"
      [] KindOf[w] = "BatchWriter" -> native[w] = IF result[w] = "none" THEN "live" ELSE "destroyed"
      [] KindOf[w] = "TransactionContext" ->
           /\ native[w] = "live" => result[w] = "ok" /\ completed[w] /\ applied[w] = 0
           /\ native[w] = "destroyed" => (result[w] = "ok" => applied[w] = staged[w])
           /\ native[w] # "none"

\* A wrapper leaves effects in the database only through a commit that
\* returned Ok, and then all that was staged.
AllOrNothing ==
  \A w \in Wrappers : applied[w] # 0 => result[w] = "ok" /\ applied[w] = staged[w]

-----------------------------------------------------------------------------
(* What the documentation and the comments say of all wrappers.             *)

\* README.md on TransactionContext: "a safe, RAII-based API that guarantees
\* automatic rollback on drop": no native object is used after its end.
NoUseAfterDestroy == \A w \in Wrappers : ~misuse[w]

\* batch.rs:237, of a BatchWriter that was neither committed nor discarded:
\* "the `ManuallyDrop<WriteBatch>` will drop the inner `WriteBatch` when
\* `BatchWriter` is dropped".
BatchFreed ==
  \A w \in Wrappers : KindOf[w] = "BatchWriter" /\ pc[w] = "gone" => native[w] = "destroyed"
=============================================================================

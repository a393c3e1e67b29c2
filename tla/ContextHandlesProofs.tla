------------------------ MODULE ContextHandlesProofs -----------------------
(* Proofs about ContextHandles, for any wrappers of the three kinds.        *)
EXTENDS ContextHandles, TLAPS

\* What the flag, the native object and the result of a wrapper have to do
\* with each other between new() and the end of Drop.  The three properties
\* speak of the moment Drop is over; this is what they come from: until a
\* finalizing method runs, the object is live and nothing has been applied,
\* and afterwards the flag tells whether it is still there, except for a
\* commit of TransactionContext or BatchWriter that failed.
Life(w) ==
  /\ pc[w] = "none" => native[w] = "none"
  /\ pc[w] \in {"none", "open"} => ~completed[w] /\ result[w] = "none"
  /\ pc[w] = "open" => native[w] = "live"
  /\ pc[w] # "gone" => ~misuse[w]
  /\ result[w] = "none" => applied[w] = 0 /\ ~completed[w]
  /\ applied[w] # 0 => result[w] = "ok" /\ applied[w] = staged[w]
  /\ pc[w] = "dropping" =>
       \/ result[w] = "none" /\ native[w] = "live"
       \/ native[w] = "destroyed" /\ (completed[w] \/ result[w] = "err")
       \/ KindOf[w] = "TransactionContext" /\ native[w] = "live" /\ applied[w] = 0
            /\ result[w] # "none" /\ (completed[w] <=> result[w] = "ok")
  /\ KindOf[w] = "OptimisticTransactionContext" /\ result[w] # "none" =>
       completed[w] /\ native[w] = "destroyed"
  /\ KindOf[w] = "BatchWriter" /\ pc[w] = "dropping" =>
       native[w] = IF result[w] = "none" THEN "live" ELSE "destroyed"
  /\ KindOf[w] = "TransactionContext" /\ pc[w] = "dropping" /\ native[w] = "destroyed" =>
       (result[w] = "ok" => applied[w] = staged[w])

IInv ==
  /\ TypeOK
  /\ \A w \in Wrappers : Life(w)
  /\ MisuseOnlyAfterFailedCommit
  /\ EndOfNativeObject

\* The wrappers a step leaves alone keep their invariant.
SameWrapper(v) ==
  /\ pc'[v] = pc[v] /\ completed'[v] = completed[v] /\ native'[v] = native[v]
  /\ staged'[v] = staged[v] /\ applied'[v] = applied[v] /\ result'[v] = result[v]
  /\ misuse'[v] = misuse[v]

\* The properties of one wrapper.
WrapperInv(w) ==
  /\ Life(w)
  /\ misuse[w] => /\ KindOf[w] = "TransactionContext"
                  /\ pc[w] = "gone" /\ result[w] = "err" /\ ~completed[w]
  /\ pc[w] = "gone" =>
       CASE KindOf[w] = "OptimisticTransactionContext" -> native[w] = "destroyed"
         [] KindOf[w] = "BatchWriter" -> native[w] = IF result[w] = "none" THEN "live" ELSE "destroyed"
         [] KindOf[w] = "TransactionContext" ->
              /\ native[w] = "live" => result[w] = "ok" /\ completed[w] /\ applied[w] = 0
              /\ native[w] = "destroyed" => (result[w] = "ok" => applied[w] = staged[w])
              /\ native[w] # "none"

\* What one method of wrapper w does.
Method(w) ==
  \/ New(w) \/ Use(w) \/ Abandon(w) \/ Drop(w) \/ batch_discard(w)
  \/ \E ok \in BOOLEAN : \/ tx_commit(w, ok) \/ tx_rollback(w, ok)
                         \/ optimistic_commit(w, ok) \/ optimistic_rollback(w, ok)
                         \/ batch_commit(w, ok)

\* A method keeps the types and leaves the other wrappers alone.
LEMMA MethodType ==
  ASSUME TypeOK, NEW w \in Wrappers, Method(w)
  PROVE  TypeOK' /\ \A v \in Wrappers : v # w => SameWrapper(v)
<1> DEFINE Others == \A v \in Wrappers : v # w => SameWrapper(v)
<1> USE BoundAssumption DEF TypeOK, SameWrapper
<1>1. CASE New(w)
  BY <1>1 DEF New
<1>2. CASE Use(w)
  BY <1>2 DEF Use, Touch
<1>3. CASE Abandon(w)
  BY <1>3 DEF Abandon
<1>4. CASE Drop(w)
  BY <1>4 DEF Drop, DropContext, DropBatch, Touch, Destroy
<1>5. CASE batch_discard(w)
  BY <1>5 DEF batch_discard, Finalize, Outcome, Destroy, Touch
<1>6. ASSUME NEW ok \in BOOLEAN, tx_commit(w, ok) PROVE TypeOK' /\ Others
  BY <1>6 DEF tx_commit, Finalize, Outcome, Destroy, Touch
<1>7. ASSUME NEW ok \in BOOLEAN, tx_rollback(w, ok) PROVE TypeOK' /\ Others
  BY <1>7 DEF tx_rollback, Finalize, Outcome, Destroy, Touch
<1>8. ASSUME NEW ok \in BOOLEAN, optimistic_commit(w, ok) PROVE TypeOK' /\ Others
  BY <1>8 DEF optimistic_commit, Finalize, Outcome, Destroy, Touch
<1>9. ASSUME NEW ok \in BOOLEAN, optimistic_rollback(w, ok) PROVE TypeOK' /\ Others
  BY <1>9 DEF optimistic_rollback, Finalize, Outcome, Destroy, Touch
<1>10. ASSUME NEW ok \in BOOLEAN, batch_commit(w, ok) PROVE TypeOK' /\ Others
  BY <1>10 DEF batch_commit, Finalize, Outcome, Destroy, Touch
<1>11. QED
  BY <1>1, <1>2, <1>3, <1>4, <1>5, <1>6, <1>7, <1>8, <1>9, <1>10 DEF Method

\* A method keeps the invariant of its own wrapper.
LEMMA MethodLife ==
  ASSUME TypeOK, NEW w \in Wrappers, WrapperInv(w), Method(w)
  PROVE  WrapperInv(w)'
<1> USE KindAssumption, BoundAssumption DEF TypeOK, WrapperInv, Life, Kinds
<1>1. CASE New(w)
  BY <1>1 DEF New
<1>2. CASE Use(w)
  BY <1>2 DEF Use, Touch
<1>3. CASE Abandon(w)
  BY <1>3 DEF Abandon
<1>4. CASE Drop(w)
  <2>1. CASE KindOf[w] # "BatchWriter" /\ ~completed[w]
    BY <1>4, <2>1 DEF Drop, DropContext, DropBatch, Touch, Destroy
  <2>2. CASE KindOf[w] = "BatchWriter" \/ completed[w]
    BY <1>4, <2>2 DEF Drop, DropContext, DropBatch
  <2>3. QED
    BY <2>1, <2>2
<1>5. CASE batch_discard(w)
  BY <1>5 DEF batch_discard, Finalize, Outcome, Destroy, Touch
<1>6. ASSUME NEW ok \in BOOLEAN, tx_commit(w, ok) PROVE WrapperInv(w)'
  BY <1>6 DEF tx_commit, Finalize, Outcome, Destroy, Touch
<1>7. ASSUME NEW ok \in BOOLEAN, tx_rollback(w, ok) PROVE WrapperInv(w)'
  BY <1>7 DEF tx_rollback, Finalize, Outcome, Destroy, Touch
<1>8. ASSUME NEW ok \in BOOLEAN, optimistic_commit(w, ok) PROVE WrapperInv(w)'
  BY <1>8 DEF optimistic_commit, Finalize, Outcome, Destroy, Touch
<1>9. ASSUME NEW ok \in BOOLEAN, optimistic_rollback(w, ok) PROVE WrapperInv(w)'
  BY <1>9 DEF optimistic_rollback, Finalize, Outcome, Destroy, Touch
<1>10. ASSUME NEW ok \in BOOLEAN, batch_commit(w, ok) PROVE WrapperInv(w)'
  BY <1>10 DEF batch_commit, Finalize, Outcome, Destroy, Touch
<1>11. QED
  BY <1>1, <1>2, <1>3, <1>4, <1>5, <1>6, <1>7, <1>8, <1>9, <1>10 DEF Method

\* IInv in terms of single wrappers, in a state and in its successor.
LEMMA InvForm ==
  /\ IInv <=> TypeOK /\ \A w \in Wrappers : WrapperInv(w)
  /\ IInv' <=> TypeOK' /\ \A w \in Wrappers : WrapperInv(w)'
BY DEF IInv, WrapperInv, MisuseOnlyAfterFailedCommit, EndOfNativeObject

\* IInv is inductive.
LEMMA StepInv ==
  ASSUME IInv, [Next]_vars
  PROVE  IInv'
<1>1. CASE UNCHANGED vars
  BY <1>1, InvForm DEF vars, TypeOK, WrapperInv, Life
<1>2. CASE Next
  <2>1. PICK w \in Wrappers : Method(w)
    BY <1>2 DEF Next, Method
  <2>2. TypeOK' /\ WrapperInv(w)'
    BY <2>1, MethodType, MethodLife, InvForm
  <2>3. ASSUME NEW v \in Wrappers, v # w PROVE WrapperInv(v)'
    <3>1. WrapperInv(v) /\ SameWrapper(v)
      BY <2>1, <2>3, MethodType, InvForm
    <3>2. QED
      BY <3>1 DEF WrapperInv, Life, SameWrapper
  <2>4. QED
    BY <2>2, <2>3, InvForm
<1>3. QED
  BY <1>1, <1>2

\* IInv holds in every state.
LEMMA LifeInvariant == Spec => []IInv
<1>1. Init => IInv
  <2>1. Init => TypeOK
    BY BoundAssumption DEF Init, TypeOK
  <2>2. Init => \A w \in Wrappers : WrapperInv(w)
    BY DEF Init, WrapperInv, Life
  <2>3. QED
    BY <2>1, <2>2, InvForm
<1>2. IInv /\ [Next]_vars => IInv'
  BY StepInv
<1>3. QED
  BY <1>1, <1>2, PTL DEF Spec

\* Every variable of the wrappers keeps its type.
THEOREM TypeCorrect == Spec => []TypeOK
<1>1. IInv => TypeOK
  BY DEF IInv
<1>2. QED
  BY <1>1, LifeInvariant, PTL

\* Whatever is called on any number of wrappers, the only call of a destroyed
\* native object is made by Drop after a TransactionContext commit that failed.
THEOREM DestroyedOnce == Spec => []MisuseOnlyAfterFailedCommit
<1>1. IInv => MisuseOnlyAfterFailedCommit
  BY DEF IInv
<1>2. QED
  BY <1>1, LifeInvariant, PTL

\* Which wrappers, once gone, have destroyed their native object, and which
\* have left it behind: a TransactionContext that was rolled back, and a
\* BatchWriter that was abandoned.
THEOREM DestroyedOrLeftBehind == Spec => []EndOfNativeObject
<1>1. IInv => EndOfNativeObject
  BY DEF IInv
<1>2. QED
  BY <1>1, LifeInvariant, PTL

\* Operations reach the database only through a commit that returned Ok, and
\* then all that were staged: none of a failed commit or an abandoned wrapper.
THEOREM WholeOrNothing == Spec => []AllOrNothing
<1>1. IInv => AllOrNothing
  BY DEF IInv, Life, AllOrNothing
<1>2. QED
  BY <1>1, LifeInvariant, PTL
=============================================================================

------------------------ MODULE PessimisticTxnProofs -----------------------
(* Proofs about PessimisticTxn, for every set of clients and keys and all    *)
(* bounds.                                                                  *)
EXTENDS PessimisticTxn, TLAPS

DbTyped == value \in [Keys -> Nat]

(* KnownIsLocked is not inductive by itself.  A batch entry does what the   *)
(* client asked for at the current value only; that the value of a written  *)
(* key does not change is due to its lock (LocksMatchTransactions), and a   *)
(* key that is not written must have no effect to begin with, or the next   *)
(* commit of somebody else would make a difference.                         *)

\* What transaction t, which holds the locks of the keys M, has of the key k,
\* whose committed value is v.
KeyView(t, k, v, M) ==
  /\ t.frozen[k] => k \in M /\ t.local[k] = Apply(t.intent[k], v)
  /\ Merged(t.batch[k], v) = Apply(t.intent[k], v)
  /\ t.batch[k].op # "none" => k \in M
  /\ t.batch[k].op = "none" => t.intent[k] = NoEffect

View(t, va, M) == \A k \in Keys : KeyView(t, k, va[k], M)

\* The keys whose locks c holds according to the lock table lk.
Mine(c, lk) == {k \in Keys : lk[k] = c}

\* The locks belong to open transactions, and nobody waits for himself.
LocksOfOpen ==
  /\ \A k \in Keys : lock[k] # NoOne => pc[lock[k]] \in {"running", "waiting"}
  /\ \A c \in Clients : pc[c] = "waiting" => lock[want[c].key] # c

\* Only an open transaction has contents.
ClosedIsNew == \A c \in Clients : pc[c] \in {"idle", "done"} => txn[c] = NewTxn

IInv ==
  /\ TypeOK /\ LocksOfOpen /\ ClosedIsNew
  /\ \A c \in Clients : View(txn[c], value, Mine(c, lock))

-----------------------------------------------------------------------------
(* Operations of the transaction object. *)

\* The committed value seen through a batch entry is a natural number, and
\* so is what an effect makes of it.
LEMMA MergedType ==
  ASSUME NEW e \in Entries, NEW v \in Nat
  PROVE  Merged(e, v) \in Nat
BY DEF Entries, Merged

\* One more increment, on the values an effect produces.
LEMMA ApplyInc ==
  ASSUME NEW e \in Effects, NEW v \in Nat
  PROVE  /\ Apply([e EXCEPT !.add = @ + 1], v) = Apply(e, v) + 1
         /\ [e EXCEPT !.add = @ + 1] \in Effects
         /\ Apply(e, v) \in Nat
BY DEF Effects, Apply

\* A new transaction is well typed and has nothing.
LEMMA NewTxnFacts ==
  /\ NewTxn \in TxnSet
  /\ \A va \in [Keys -> Nat] : \A M : View(NewTxn, va, M)
<1>1. NewTxn \in TxnSet
  BY DEF NewTxn, TxnSet, Entries, NoEntry, Effects, NoEffect, NotRead
<1>2. ASSUME NEW va \in [Keys -> Nat], NEW M, NEW k \in Keys PROVE KeyView(NewTxn, k, va[k], M)
  BY DEF KeyView, NewTxn, NoEntry, NoEffect, Merged, Apply
<1>3. QED
  BY <1>1, <1>2 DEF View

\* Staging a write of a key whose lock is held keeps type and view, if the
\* entry does what the effect asks for and the known value is its outcome.
LEMMA StageView ==
  ASSUME DbTyped, NEW t \in TxnSet, NEW M, View(t, value, M),
         NEW k \in Keys, NEW e \in Entries, e.op # "none", NEW i \in Effects,
         NEW l \in Nat \cup {NotRead}, NEW f \in BOOLEAN,
         Merged(e, value[k]) = Apply(i, value[k]),
         f => l = Apply(i, value[k])
  PROVE  /\ Stage(t, k, e, i, l, f) \in TxnSet
         /\ View(Stage(t, k, e, i, l, f), value, M \cup {k})
<1> DEFINE u == Stage(t, k, e, i, l, f)
<1>1. /\ u.batch = [t.batch EXCEPT ![k] = e]
      /\ u.local = [t.local EXCEPT ![k] = l]
      /\ u.frozen = [t.frozen EXCEPT ![k] = f]
      /\ u.intent = [t.intent EXCEPT ![k] = i]
  BY DEF Stage
<1>2. u \in TxnSet
  BY DEF Stage, TxnSet
<1>3. KeyView(u, k, value[k], M \cup {k})
  <2>1. u.batch[k] = e /\ u.local[k] = l /\ u.intent[k] = i /\ u.frozen[k] = f
    BY <1>1 DEF TxnSet
  <2>2. QED
    BY <2>1 DEF KeyView
<1>4. ASSUME NEW j \in Keys, j # k PROVE KeyView(u, j, value[j], M \cup {k})
  <2>1. /\ u.batch[j] = t.batch[j] /\ u.local[j] = t.local[j]
        /\ u.intent[j] = t.intent[j] /\ u.frozen[j] = t.frozen[j]
    BY <1>1, <1>4 DEF TxnSet
  <2>2. KeyView(t, j, value[j], M)
    BY DEF View
  <2>3. QED
    BY <2>1, <2>2 DEF KeyView
<1>5. QED
  BY <1>2, <1>3, <1>4 DEF View

\* A read of keys of which the locks of L are held keeps type and view.
LEMMA GetView ==
  ASSUME DbTyped, NEW t \in TxnSet, NEW M, View(t, value, M),
         NEW K \in SUBSET Keys, NEW L, NEW N, L \subseteq N, M \subseteq N
  PROVE  TxnGet(t, K, L) \in TxnSet /\ View(TxnGet(t, K, L), value, N)
<1> DEFINE u == TxnGet(t, K, L)
<1>1. \A k \in Keys : Merged(t.batch[k], value[k]) \in Nat
  BY MergedType DEF DbTyped, TxnSet
<1>2. u \in TxnSet
  <2> DEFINE F == [k \in Keys |-> IF k \in K THEN k \in L ELSE t.frozen[k]]
             O == [k \in Keys |-> IF k \in K THEN Merged(t.batch[k], value[k]) ELSE t.local[k]]
  <2>1. \A k \in Keys : t.frozen[k] \in BOOLEAN
    BY DEF TxnSet
  <2>2. F \in [Keys -> BOOLEAN]
    <3>1. ASSUME NEW k \in Keys PROVE (IF k \in K THEN k \in L ELSE t.frozen[k]) \in BOOLEAN
      <4>1. CASE k \in K
        BY <4>1
      <4>2. CASE k \notin K
        BY <2>1, <4>2
      <4>3. QED
        BY <4>1, <4>2
    <3>2. QED
      BY <3>1
  <2>3. O \in [Keys -> Nat \cup {NotRead}]
    BY <1>1 DEF TxnSet
  <2>4. u = [ops |-> t.ops + 1, batch |-> t.batch, local |-> O, frozen |-> F, intent |-> t.intent]
    BY DEF TxnGet
  <2> HIDE DEF F, O, u
  <2>5. QED
    BY <2>2, <2>3, <2>4 DEF TxnSet
<1>3. ASSUME NEW k \in Keys PROVE KeyView(u, k, value[k], N)
  <2>1. /\ u.batch[k] = t.batch[k] /\ u.intent[k] = t.intent[k]
        /\ u.local[k] = IF k \in K THEN Merged(t.batch[k], value[k]) ELSE t.local[k]
    BY DEF TxnGet
  <2>2. u.frozen[k] => IF k \in K THEN k \in L ELSE t.frozen[k]
    BY DEF TxnGet
  <2>3. KeyView(t, k, value[k], M)
    BY DEF View
  <2>4. QED
    BY <2>1, <2>2, <2>3 DEF KeyView
<1>4. QED
  BY <1>2, <1>3 DEF View

\* An operation under the lock of its key keeps type and view.
LEMMA PerformView ==
  ASSUME DbTyped, NEW t \in TxnSet, NEW M, View(t, value, M),
         NEW k \in Keys, NEW op \in LockOps
  PROVE  Perform(t, k, op) \in TxnSet /\ View(Perform(t, k, op), value, M \cup {k})
<1> DEFINE Good(u) == u \in TxnSet /\ View(u, value, M \cup {k})
<1>0. /\ value[k] \in Nat /\ t.batch[k] \in Entries /\ t.intent[k] \in Effects
      /\ t.local[k] \in Nat \cup {NotRead} /\ t.frozen[k] \in BOOLEAN
      /\ KeyView(t, k, value[k], M)
  BY DEF DbTyped, TxnSet, View
<1>1. Good(TxnPut(t, k))
  <2> DEFINE n == IF t.local[k] = NotRead THEN 1 ELSE t.local[k] + 1
             e == [op |-> "put", n |-> n]
             i == IF t.frozen[k] THEN [t.intent[k] EXCEPT !.add = @ + 1]
                  ELSE [reset |-> TRUE, add |-> n]
  <2>1. n \in Nat
    BY <1>0 DEF NotRead
  <2>2. e \in Entries /\ e.op # "none" /\ Merged(e, value[k]) = n
    BY <2>1 DEF Entries, Merged
  <2>3. i \in Effects /\ Apply(i, value[k]) = n
    <3>1. CASE t.frozen[k]
      <4>1. t.local[k] = Apply(t.intent[k], value[k]) /\ t.local[k] \in Nat
        BY <1>0, <3>1, ApplyInc DEF KeyView
      <4>2. n = t.local[k] + 1
        BY <4>1 DEF NotRead
      <4>3. i = [t.intent[k] EXCEPT !.add = @ + 1]
        BY <3>1
      <4> HIDE DEF n, i
      <4>4. QED
        BY <1>0, <4>1, <4>2, <4>3, ApplyInc
    <3>2. CASE ~t.frozen[k]
      <4>1. i = [reset |-> TRUE, add |-> n]
        BY <3>2
      <4> HIDE DEF n, i
      <4>2. QED
        BY <2>1, <4>1 DEF Effects, Apply
    <3>3. QED
      BY <3>1, <3>2
  <2>4. TxnPut(t, k) = Stage(t, k, e, i, n, TRUE)
    BY DEF TxnPut
  <2> HIDE DEF n, e, i
  <2>5. QED
    <3>1. n \in Nat \cup {NotRead} /\ n = Apply(i, value[k]) /\ Merged(e, value[k]) = Apply(i, value[k])
      BY <2>1, <2>2, <2>3
    <3>2. Good(Stage(t, k, e, i, n, TRUE))
      BY <2>2, <2>3, <3>1, StageView
    <3>3. QED
      BY <2>4, <3>2
<1>2. Good(TxnMerge(t, k))
  <2> DEFINE e == MergedEntry(t.batch[k])
             i == [t.intent[k] EXCEPT !.add = @ + 1]
             l == IF t.local[k] = NotRead THEN NotRead ELSE t.local[k] + 1
  <2>1. e \in Entries /\ e.op # "none"
    BY <1>0 DEF MergedEntry, Entries
  <2>2. Merged(e, value[k]) = Merged(t.batch[k], value[k]) + 1
    BY <1>0 DEF MergedEntry, Entries, Merged
  <2>3. i \in Effects /\ Apply(i, value[k]) = Apply(t.intent[k], value[k]) + 1
    BY <1>0, ApplyInc
  <2>4. l \in Nat \cup {NotRead}
    BY <1>0
  <2>5. ASSUME t.frozen[k] PROVE l = Apply(i, value[k])
    <3>1. t.local[k] = Apply(t.intent[k], value[k]) /\ t.local[k] \in Nat
      BY <1>0, <2>5, ApplyInc DEF KeyView
    <3>2. l = t.local[k] + 1
      BY <3>1 DEF NotRead
    <3> HIDE DEF i, l
    <3>3. QED
      BY <2>3, <3>1, <3>2
  <2>6. TxnMerge(t, k) = Stage(t, k, e, i, l, t.frozen[k])
    BY DEF TxnMerge
  <2>7. Merged(e, value[k]) = Apply(i, value[k])
    BY <1>0, <2>2, <2>3 DEF KeyView
  <2> HIDE DEF e, i, l
  <2>8. QED
    BY <1>0, <2>1, <2>3, <2>4, <2>5, <2>6, <2>7, StageView
<1>3. Good(TxnDelete(t, k))
  <2> DEFINE e == [op |-> "delete", n |-> 0]
             i == [reset |-> TRUE, add |-> 0]
  <2>1. e \in Entries /\ e.op # "none" /\ i \in Effects
    BY DEF Entries, Effects
  <2>2. Merged(e, value[k]) = 0 /\ Apply(i, value[k]) = 0
    BY DEF Merged, Apply
  <2>3. QED
    BY <2>1, <2>2, StageView DEF TxnDelete
<1>4. Good(TxnGet(t, {k}, {k}))
  BY GetView
<1>5. QED
  BY <1>1, <1>2, <1>3, <1>4 DEF Perform, LockOps

\* What others do to keys whose locks a transaction does not hold, leaves its
\* view alone: it has nothing to do with such keys.
LEMMA OthersView ==
  ASSUME NEW t, NEW va, NEW va2 \in [Keys -> Nat], NEW M, View(t, va, M),
         \A k \in Keys : k \in M => va2[k] = va[k]
  PROVE  View(t, va2, M)
<1>1. ASSUME NEW k \in Keys PROVE KeyView(t, k, va2[k], M)
  <2>1. KeyView(t, k, va[k], M) /\ va2[k] \in Nat
    BY DEF View
  <2>2. CASE k \in M
    BY <2>1, <2>2
  <2>3. CASE k \notin M
    BY <2>1, <2>3 DEF KeyView, NoEffect, Merged, Apply
  <2>4. QED
    BY <2>2, <2>3
<1>2. QED
  BY <1>1 DEF View
-----------------------------------------------------------------------------
(* The steps. *)

\* Every operation, through whichever handle, takes a lock or reads.
LEMMA OperationStep ==
  ASSUME NEW c \in Clients, Operation(c)
  PROVE  \/ \E k \in Keys, op \in LockOps : Acquire(c, k, op)
         \/ \E K \in SUBSET Keys : Look(c, K)
<1>1. "put" \in LockOps /\ "merge" \in LockOps /\ "delete" \in LockOps /\ "get_for_update" \in LockOps
  BY DEF LockOps
<1>2. \A k \in Keys : {k} \in SUBSET Keys
  OBVIOUS
<1>3. \A cf : {k \in Keys : CfOf[k] = cf} \in SUBSET Keys
  OBVIOUS
<1>4. ASSUME NEW k \in Keys,
             \/ get_in_txn(c, k) \/ ctx_get(c, k) \/ ctx_get_cf(c, k)
      PROVE  Look(c, {k})
  BY <1>4 DEF get_in_txn, ctx_get, ctx_get_cf
<1>5. ASSUME NEW k \in Keys,
             \/ put_in_txn_cf(c, k) \/ merge_in_txn(c, k) \/ delete_in_txn(c, k)
             \/ ctx_set(c, k) \/ ctx_merge(c, k) \/ ctx_delete(c, k)
             \/ ctx_put_cf(c, k) \/ ctx_merge_cf(c, k) \/ ctx_delete_cf(c, k) \/ tx_mut(c, k)
      PROVE  \E op \in LockOps : Acquire(c, k, op)
  BY <1>1, <1>5 DEF put_in_txn_cf, merge_in_txn, delete_in_txn, ctx_set, ctx_merge, ctx_delete,
                    ctx_put_cf, ctx_merge_cf, ctx_delete_cf, tx_mut
<1>6. ASSUME NEW cf, ctx_iterate(c, cf) PROVE Look(c, {k \in Keys : CfOf[k] = cf})
  BY <1>6 DEF ctx_iterate
<1>7. QED
  BY <1>2, <1>3, <1>4, <1>5, <1>6 DEF Operation

\* A write outside transactions is a batch entry applied at once.
LEMMA DirectWriteStep ==
  ASSUME DirectWrite
  PROVE  \E k \in Keys, e \in Entries : StoreWrite(k, e)
<1>1. PICK k \in Keys : store_put(k) \/ store_merge(k) \/ store_delete(k)
  BY DEF DirectWrite
<1>2. /\ [op |-> "put", n |-> 1] \in Entries
      /\ [op |-> "merge", n |-> 1] \in Entries
      /\ [op |-> "delete", n |-> 0] \in Entries
  BY DEF Entries
<1>3. QED
  BY <1>1, <1>2 DEF store_put, store_merge, store_delete

\* Client c has, or gets, the lock of k and does op: all views survive.
LEMMA TakesLock ==
  ASSUME IInv, NEW c \in Clients, NEW k \in Keys, NEW op \in LockOps, Free(c, k),
         lock' = [lock EXCEPT ![k] = c],
         txn' = [txn EXCEPT ![c] = Perform(txn[c], k, op)],
         UNCHANGED value
  PROVE  /\ lock' \in [Keys -> Clients \cup {NoOne}]
         /\ txn' \in [Clients -> TxnSet]
         /\ \A d \in Clients : View(txn'[d], value', Mine(d, lock'))
<1>0. /\ lock \in [Keys -> Clients \cup {NoOne}] /\ txn \in [Clients -> TxnSet] /\ DbTyped
      /\ \A d \in Clients : View(txn[d], value, Mine(d, lock))
  BY DEF IInv, TypeOK, DbTyped
<1>1. Mine(c, lock') = Mine(c, lock) \cup {k}
  BY <1>0 DEF Mine
<1>2. ASSUME NEW d \in Clients, d # c PROVE Mine(d, lock') = Mine(d, lock)
  <2>1. \A j \in Keys : lock'[j] = d <=> lock[j] = d
    BY <1>0, <1>2, NoOneAssumption DEF Free
  <2>2. QED
    BY <2>1 DEF Mine
<1>3. Perform(txn[c], k, op) \in TxnSet /\ View(Perform(txn[c], k, op), value, Mine(c, lock'))
  <2>1. txn[c] \in TxnSet /\ View(txn[c], value, Mine(c, lock)) /\ DbTyped
    BY <1>0
  <2>2. ASSUME NEW t \in TxnSet, NEW M, View(t, value, M)
        PROVE  Perform(t, k, op) \in TxnSet /\ View(Perform(t, k, op), value, M \cup {k})
    BY <2>1, <2>2, PerformView
  <2>3. /\ Perform(txn[c], k, op) \in TxnSet
        /\ View(Perform(txn[c], k, op), value, Mine(c, lock) \cup {k})
    BY <2>1, <2>2
  <2>4. QED
    BY <1>1, <2>3
<1>4. ASSUME NEW d \in Clients PROVE View(txn'[d], value', Mine(d, lock'))
  <2>1. CASE d = c
    BY <1>0, <1>3, <2>1
  <2>2. CASE d # c
    <3>1. Mine(d, lock') = Mine(d, lock) /\ txn'[d] = txn[d]
      BY <1>0, <1>2, <2>2
    <3>2. QED
      BY <1>0, <3>1
  <2>3. QED
    BY <2>1, <2>2
<1>5. QED
  BY <1>0, <1>3, <1>4

\* begin_transaction in any of its forms.
LEMMA BeginInv ==
  ASSUME IInv, NEW c \in Clients, Open(c)
  PROVE  IInv'
<1> USE DEF IInv, TypeOK
<1>1. PICK how \in {"execute", "context", "manual"} : Begin(c, how)
  BY DEF Open, begin_transaction, execute_transaction, transaction_context
<1>2. TypeOK'
  BY <1>1 DEF Begin
<1>3. LocksOfOpen' /\ ClosedIsNew'
  BY <1>1 DEF Begin, LocksOfOpen, ClosedIsNew
<1>4. \A d \in Clients : View(txn[d], value, Mine(d, lock))'
  BY <1>1 DEF Begin, View, Mine, KeyView
<1>5. QED
  BY <1>2, <1>3, <1>4

\* An operation that finds its lock free, or has it already.
LEMMA AcquireInv ==
  ASSUME IInv, NEW c \in Clients, NEW k \in Keys, NEW op \in LockOps, Acquire(c, k, op)
  PROVE  IInv'
<1> USE DEF IInv, TypeOK
<1>1. CASE Free(c, k)
  <2>1. /\ lock' \in [Keys -> Clients \cup {NoOne}] /\ txn' \in [Clients -> TxnSet]
        /\ \A d \in Clients : View(txn'[d], value', Mine(d, lock'))
    BY <1>1, TakesLock DEF Acquire
  <2>2. TypeOK'
    BY <1>1, <2>1 DEF Acquire
  <2>3. LocksOfOpen'
    BY <1>1 DEF Acquire, InTxn, LocksOfOpen
  <2>4. ClosedIsNew'
    BY <1>1 DEF Acquire, InTxn, ClosedIsNew
  <2>5. QED
    BY <2>1, <2>2, <2>3, <2>4 DEF View, Mine, KeyView
<1>2. CASE ~Free(c, k)
  <2>1. [op |-> op, key |-> k] \in [op : LockOps, key : Keys] /\ [op |-> op, key |-> k] # NoWant
    BY DEF NoWant, LockOps
  <2>2. TypeOK'
    BY <1>2, <2>1 DEF Acquire, InTxn
  <2>3. LocksOfOpen'
    BY <1>2 DEF Acquire, InTxn, LocksOfOpen, Free
  <2>4. ClosedIsNew'
    BY <1>2 DEF Acquire, InTxn, ClosedIsNew
  <2>5. QED
    BY <1>2, <2>2, <2>3, <2>4 DEF Acquire, View, Mine, KeyView
<1>3. QED
  BY <1>1, <1>2

\* An operation whose wait for the lock is over.
LEMMA GrantedInv ==
  ASSUME IInv, NEW c \in Clients, Granted(c)
  PROVE  IInv'
<1> USE DEF IInv, TypeOK
<1>1. want[c].op \in LockOps /\ want[c].key \in Keys
  BY DEF Granted
<1>2. /\ lock' \in [Keys -> Clients \cup {NoOne}] /\ txn' \in [Clients -> TxnSet]
      /\ \A d \in Clients : View(txn'[d], value', Mine(d, lock'))
  BY <1>1, TakesLock DEF Granted, Free
<1>3. TypeOK'
  BY <1>1, <1>2 DEF Granted
<1>4. LocksOfOpen'
  BY <1>1 DEF Granted, LocksOfOpen
<1>5. ClosedIsNew'
  BY <1>1 DEF Granted, ClosedIsNew
<1>6. QED
  BY <1>2, <1>3, <1>4, <1>5 DEF View, Mine, KeyView

\* An operation that fails is counted and leaves the rest alone.
LEMMA CountedType ==
  ASSUME NEW t \in TxnSet
  PROVE  [t EXCEPT !.ops = @ + 1] \in TxnSet
BY DEF TxnSet

\* An operation that gave up at the lock timeout.
LEMMA TimedOutInv ==
  ASSUME IInv, NEW c \in Clients, TimedOut(c)
  PROVE  IInv'
<1> USE DEF IInv, TypeOK
<1> DEFINE u == [txn[c] EXCEPT !.ops = @ + 1]
<1>1. u \in TxnSet /\ txn' = [txn EXCEPT ![c] = u]
  <2>1. txn[c] \in TxnSet
    OBVIOUS
  <2>2. u \in TxnSet
    BY <2>1, CountedType
  <2>3. txn' = [txn EXCEPT ![c] = u]
    BY DEF TimedOut
  <2>4. QED
    BY <2>2, <2>3
<1>2. u.batch = txn[c].batch /\ u.local = txn[c].local /\ u.frozen = txn[c].frozen /\ u.intent = txn[c].intent
  BY DEF TxnSet
<1> HIDE DEF u
<1>3. TypeOK'
  BY <1>1 DEF TimedOut
<1>4. LocksOfOpen'
  BY DEF TimedOut, LocksOfOpen
<1>5. ClosedIsNew'
  BY <1>1 DEF TimedOut, ClosedIsNew
<1>6. ASSUME NEW d \in Clients PROVE View(txn'[d], value', Mine(d, lock'))
  <2>1. View(txn[d], value, Mine(d, lock)) /\ UNCHANGED <<value, lock>>
    BY DEF TimedOut
  <2>2. View(txn'[d], value, Mine(d, lock))
    BY <1>1, <1>2, <2>1 DEF View, KeyView
  <2>3. QED
    BY <2>1, <2>2
<1>7. QED
  BY <1>3, <1>4, <1>5, <1>6 DEF View, Mine, KeyView

\* A read without a lock.
LEMMA LookInv ==
  ASSUME IInv, NEW c \in Clients, NEW K \in SUBSET Keys, Look(c, K)
  PROVE  IInv'
<1> USE DEF IInv, TypeOK
<1> DEFINE u == TxnGet(txn[c], K, {k \in K : lock[k] = c})
<1>1. txn' = [txn EXCEPT ![c] = u]
  BY DEF Look
<1>2. u \in TxnSet /\ View(u, value, Mine(c, lock))
  <2>1. {k \in K : lock[k] = c} \subseteq Mine(c, lock)
    BY DEF Mine
  <2>2. QED
    BY <2>1, GetView DEF DbTyped
<1> HIDE DEF u
<1>3. TypeOK'
  BY <1>1, <1>2 DEF Look
<1>4. LocksOfOpen' /\ ClosedIsNew'
  BY <1>1 DEF Look, InTxn, LocksOfOpen, ClosedIsNew
<1>5. \A d \in Clients : View(txn'[d], value', Mine(d, lock'))
  BY <1>1, <1>2 DEF Look
<1>6. QED
  BY <1>3, <1>4, <1>5 DEF View, Mine, KeyView

\* The end of a transaction, with the database unchanged or changed on keys
\* whose locks it held.
LEMMA EndInv ==
  ASSUME IInv, NEW c \in Clients, pc[c] = "running", NEW r \in Results, End(c, r),
         value' \in [Keys -> Nat],
         \A k \in Keys : lock[k] # c => value'[k] = value[k]
  PROVE  IInv'
<1> USE DEF IInv, TypeOK
<1>1. NewTxn \in TxnSet /\ \A M : View(NewTxn, value', M)
  BY NewTxnFacts
<1>2. TypeOK'
  BY <1>1 DEF End
<1>3. LocksOfOpen'
  BY NoOneAssumption DEF End, LocksOfOpen
<1>4. ClosedIsNew'
  BY DEF End, ClosedIsNew
<1>5. ASSUME NEW d \in Clients PROVE View(txn'[d], value', Mine(d, lock'))
  <2>1. CASE d = c
    BY <1>1, <2>1 DEF End
  <2>2. CASE d # c
    <3>1. \A k \in Keys : lock'[k] = d <=> lock[k] = d
      BY <2>2, NoOneAssumption DEF End
    <3>2. Mine(d, lock') = Mine(d, lock) /\ txn'[d] = txn[d]
      BY <2>2, <3>1 DEF Mine, End
    <3>3. \A k \in Keys : k \in Mine(d, lock) => value'[k] = value[k]
      BY <2>2 DEF Mine
    <3>4. QED
      BY <3>2, <3>3, OthersView
  <2>3. QED
    BY <2>1, <2>2
<1>6. QED
  BY <1>2, <1>3, <1>4, <1>5 DEF View, Mine, KeyView

\* commit, rollback and Drop.
LEMMA FinishInv ==
  ASSUME IInv, NEW c \in Clients, Finish(c)
  PROVE  IInv'
<1> USE DEF IInv, TypeOK
<1>1. CASE CommitOk(c)
  <2>1. ASSUME NEW k \in Keys PROVE /\ Merged(txn[c].batch[k], value[k]) \in Nat
                                    /\ lock[k] # c => Merged(txn[c].batch[k], value[k]) = value[k]
    <3>1. txn[c].batch[k] \in Entries /\ value[k] \in Nat
      BY DEF TxnSet
    <3>2. txn[c].batch[k].op # "none" => lock[k] = c
      BY DEF View, KeyView, Mine
    <3>3. QED
      BY <3>1, <3>2, MergedType DEF Merged
  <2>2. value' \in [Keys -> Nat] /\ \A k \in Keys : lock[k] # c => value'[k] = value[k]
    BY <1>1, <2>1 DEF CommitOk
  <2>3. QED
    BY <1>1, <2>2, EndInv DEF CommitOk, Results
<1>2. CASE CommitErr(c)
  BY <1>2, EndInv DEF CommitErr, Results
<1>3. CASE Rollback(c)
  BY <1>3, EndInv DEF Rollback, Results
<1>4. QED
  BY <1>1, <1>2, <1>3 DEF Finish

\* A write outside transactions takes a free lock.
LEMMA DirectWriteInv ==
  ASSUME IInv, DirectWrite
  PROVE  IInv'
<1> USE DEF IInv, TypeOK
<1>1. PICK k \in Keys, e \in Entries : StoreWrite(k, e)
  BY DirectWriteStep
<1>2. Merged(e, value[k]) \in Nat
  BY MergedType
<1>3. TypeOK' /\ LocksOfOpen' /\ ClosedIsNew'
  BY <1>1, <1>2 DEF StoreWrite, LocksOfOpen, ClosedIsNew
<1>4. ASSUME NEW d \in Clients PROVE View(txn'[d], value', Mine(d, lock'))
  <2>1. \A j \in Keys : j \in Mine(d, lock) => value'[j] = value[j]
    BY <1>1, NoOneAssumption DEF Mine, StoreWrite
  <2>2. View(txn[d], value', Mine(d, lock))
    BY <1>3, <2>1, OthersView
  <2>3. QED
    BY <1>1, <2>2 DEF StoreWrite
<1>5. QED
  BY <1>3, <1>4 DEF View, Mine, KeyView

\* Every step preserves the invariant.
LEMMA StepInv ==
  ASSUME IInv, [Next]_vars
  PROVE  IInv'
<1>1. CASE UNCHANGED vars
  BY <1>1 DEF vars, IInv, TypeOK, LocksOfOpen, ClosedIsNew, View, KeyView, Mine
<1>2. ASSUME NEW c \in Clients, Operation(c) PROVE IInv'
  BY <1>2, OperationStep, AcquireInv, LookInv
<1>3. ASSUME NEW c \in Clients, Open(c) \/ Granted(c) \/ TimedOut(c) \/ Finish(c) PROVE IInv'
  BY <1>3, BeginInv, GrantedInv, TimedOutInv, FinishInv
<1>4. CASE DirectWrite
  BY <1>4, DirectWriteInv
<1>5. QED
  BY <1>1, <1>2, <1>3, <1>4 DEF Next

\* The invariant the other results rest on.
LEMMA Invariant == Spec => []IInv
<1>1. Init => IInv
  <2> SUFFICES ASSUME Init PROVE IInv
    OBVIOUS
  <2>1. NewTxn \in TxnSet /\ value \in [Keys -> Nat]
    BY NewTxnFacts DEF Init
  <2>2. TypeOK
    BY <2>1 DEF Init, TypeOK, Results
  <2>3. LocksOfOpen /\ ClosedIsNew
    BY DEF Init, LocksOfOpen, ClosedIsNew
  <2>4. ASSUME NEW c \in Clients PROVE View(txn[c], value, Mine(c, lock))
    BY <2>1, NewTxnFacts DEF Init
  <2>5. QED
    BY <2>2, <2>3, <2>4 DEF IInv
<1>2. QED
  BY <1>1, StepInv, PTL DEF Spec

-----------------------------------------------------------------------------
(* What the runs check. *)

\* The type invariant; an operation is pending exactly while its caller waits.
THEOREM TypeCorrect == Spec => []TypeOK
<1>1. IInv => TypeOK
  BY DEF IInv
<1>2. QED
  BY <1>1, Invariant, PTL

\* However a transaction ends, no lock of it survives, and no open transaction
\* lacks the lock of a key it has written, for any number of clients and keys.
THEOREM LocksBelongToOpen == Spec => []LocksMatchTransactions
<1>1. ASSUME IInv PROVE LocksMatchTransactions
  <2>1. ASSUME NEW c \in Clients, NEW k \in Written(txn[c]) PROVE lock[k] = c
    BY <1>1 DEF IInv, View, KeyView, Mine, Written
  <2>2. QED
    BY <1>1, <2>1 DEF IInv, LocksOfOpen, LocksMatchTransactions
<1>2. QED
  BY <1>1, Invariant, PTL

\* A value learnt under a lock stays the current one until the transaction
\* ends, whatever the others do.
THEOREM LockedIsFrozen == Spec => []KnownIsLocked
<1>1. ASSUME IInv PROVE KnownIsLocked
  BY <1>1 DEF IInv, View, KeyView, Mine, KnownIsLocked
<1>2. QED
  BY <1>1, Invariant, PTL

-----------------------------------------------------------------------------
(* The refinement of AtomicTxn. *)

\* The outcome of a client whose call is at p and returned r.
OutcomeOf(p, r) ==
  CASE p = "idle" -> "idle"
    [] p \in {"running", "waiting"} -> "open"
    [] p = "done" -> IF r = "ok" THEN "ok" ELSE "failed"

Intents == [c \in Clients |-> txn[c].intent]

Outcomes == [c \in Clients |-> OutcomeOf(pc[c], result[c])]

\* From the effects i to the effects j by asking for one more increment or a
\* replacement of the key k, or for nothing.
Asked(i, j, k) ==
  \/ j = i
  \/ \E f \in Effects : /\ f.reset \/ f = [i[k] EXCEPT !.add = @ + 1]
                        /\ j = [i EXCEPT ![k] = f]

\* That is what an operation does.
LEMMA PerformAsks ==
  ASSUME NEW t \in TxnSet, NEW k \in Keys, NEW op \in LockOps
  PROVE  Asked(t.intent, Perform(t, k, op).intent, k)
<1> USE DEF Asked
<1>0. t.intent[k] \in Effects /\ t.local[k] \in Nat \cup {NotRead}
  BY DEF TxnSet
<1> DEFINE inc == [t.intent[k] EXCEPT !.add = @ + 1]
<1>1. inc \in Effects
  BY <1>0 DEF Effects
<1>2. CASE op = "put"
  <2> DEFINE n == IF t.local[k] = NotRead THEN 1 ELSE t.local[k] + 1
             i == IF t.frozen[k] THEN inc ELSE [reset |-> TRUE, add |-> n]
  <2>1. n \in Nat
    BY <1>0 DEF NotRead
  <2>2. i \in Effects /\ (i.reset \/ i = inc)
    <3>1. CASE t.frozen[k]
      BY <1>1, <3>1
    <3>2. CASE ~t.frozen[k]
      <4>1. i = [reset |-> TRUE, add |-> n]
        BY <3>2
      <4> HIDE DEF n, i
      <4>2. QED
        BY <2>1, <4>1 DEF Effects
    <3>3. QED
      BY <3>1, <3>2
  <2>3. Perform(t, k, op).intent = [t.intent EXCEPT ![k] = i]
    BY <1>2 DEF Perform, TxnPut, Stage
  <2> HIDE DEF n, i
  <2>4. QED
    BY <2>2, <2>3
<1>3. CASE op = "merge"
  <2>1. Perform(t, k, op).intent = [t.intent EXCEPT ![k] = inc]
    BY <1>3 DEF Perform, TxnMerge, Stage
  <2> HIDE DEF inc
  <2>2. QED
    BY <1>1, <2>1 DEF inc
<1>4. CASE op = "delete"
  <2>1. Perform(t, k, op).intent = [t.intent EXCEPT ![k] = [reset |-> TRUE, add |-> 0]]
    BY <1>4 DEF Perform, TxnDelete, Stage
  <2>2. [reset |-> TRUE, add |-> 0] \in Effects
    BY DEF Effects
  <2>3. QED
    BY <2>1, <2>2
<1>5. CASE op = "get_for_update"
  BY <1>5 DEF Perform, TxnGet
<1>6. QED
  BY <1>2, <1>3, <1>4, <1>5 DEF LockOps

\* The abstract next-state relation in terms of the mapped variables.
AbstractNext ==
  \/ \E c \in Clients :
       \/ /\ Outcomes[c] = "idle" /\ Outcomes' = [Outcomes EXCEPT ![c] = "open"]
          /\ Intents' = [Intents EXCEPT ![c] = [k \in Keys |-> NoEffect]]
          /\ UNCHANGED value
       \/ \E k \in Keys :
          /\ Outcomes[c] = "open"
          /\ Atomic!Asks(Intents[c][k], Intents'[c][k])
          /\ Intents' = [Intents EXCEPT ![c][k] = Intents'[c][k]]
          /\ UNCHANGED <<value, Outcomes>>
       \/ /\ Outcomes[c] = "open" /\ Outcomes' = [Outcomes EXCEPT ![c] = "ok"]
          /\ value' = [k \in Keys |-> Apply(Intents[c][k], value[k])]
          /\ Intents' = [Intents EXCEPT ![c] = [k \in Keys |-> NoEffect]]
       \/ /\ Outcomes[c] = "open" /\ Outcomes' = [Outcomes EXCEPT ![c] = "failed"]
          /\ Intents' = [Intents EXCEPT ![c] = [k \in Keys |-> NoEffect]]
          /\ UNCHANGED value
  \/ \E k \in Keys :
       /\ value'[k] \in Nat /\ value' = [value EXCEPT ![k] = value'[k]]
       /\ UNCHANGED <<Intents, Outcomes>>
  \/ UNCHANGED <<value, Intents, Outcomes>>

\* It is the one of AtomicTxn under the refinement mapping.
LEMMA MapsToAtomic == AbstractNext => [Atomic!Next]_(Atomic!vars)
<1> SUFFICES ASSUME AbstractNext PROVE [Atomic!Next]_(Atomic!vars)
  OBVIOUS
<1> USE DEF Outcomes, Intents, OutcomeOf
<1>0. Atomic!NoEffect = NoEffect /\ \A e, v : Atomic!Apply(e, v) = Apply(e, v)
  BY DEF NoEffect, Apply, Atomic!NoEffect, Atomic!Apply
<1>1. ASSUME NEW c \in Clients, Outcomes[c] = "idle", Outcomes' = [Outcomes EXCEPT ![c] = "open"],
             Intents' = [Intents EXCEPT ![c] = [k \in Keys |-> NoEffect]], UNCHANGED value
      PROVE  Atomic!Start(c)
  BY <1>0, <1>1 DEF Atomic!Start
<1>2. ASSUME NEW c \in Clients, NEW k \in Keys, Outcomes[c] = "open",
             Atomic!Asks(Intents[c][k], Intents'[c][k]),
             Intents' = [Intents EXCEPT ![c][k] = Intents'[c][k]], UNCHANGED <<value, Outcomes>>
      PROVE  Atomic!Request(c, k)
  BY <1>2 DEF Atomic!Request
<1>3. ASSUME NEW c \in Clients, Outcomes[c] = "open", Outcomes' = [Outcomes EXCEPT ![c] = "ok"],
             value' = [k \in Keys |-> Apply(Intents[c][k], value[k])],
             Intents' = [Intents EXCEPT ![c] = [k \in Keys |-> NoEffect]]
      PROVE  Atomic!Commit(c)
  BY <1>0, <1>3 DEF Atomic!Commit
<1>4. ASSUME NEW c \in Clients, Outcomes[c] = "open", Outcomes' = [Outcomes EXCEPT ![c] = "failed"],
             Intents' = [Intents EXCEPT ![c] = [k \in Keys |-> NoEffect]], UNCHANGED value
      PROVE  Atomic!Fail(c)
  BY <1>0, <1>4 DEF Atomic!Fail
<1>5. ASSUME NEW k \in Keys, value'[k] \in Nat, value' = [value EXCEPT ![k] = value'[k]],
             UNCHANGED <<Intents, Outcomes>>
      PROVE  Atomic!DirectWrite(k)
  BY <1>5 DEF Atomic!DirectWrite
<1>6. ASSUME UNCHANGED <<value, Intents, Outcomes>> PROVE UNCHANGED Atomic!vars
  BY <1>6 DEF Atomic!vars
<1> HIDE DEF Outcomes, Intents, OutcomeOf
<1>7. QED
  BY <1>1, <1>2, <1>3, <1>4, <1>5, <1>6 DEF AbstractNext, Atomic!Next

\* Beginning a transaction starts with nothing asked for.
LEMMA BeginMaps ==
  ASSUME IInv, NEW c \in Clients, Open(c)
  PROVE  AbstractNext
<1>1. PICK how : Begin(c, how)
  BY DEF Open, begin_transaction, execute_transaction, transaction_context
<1>2. Outcomes[c] = "idle"
  BY <1>1 DEF Begin, Outcomes, OutcomeOf
<1>3. Outcomes' = [Outcomes EXCEPT ![c] = "open"]
  BY <1>1 DEF IInv, TypeOK, Begin, Outcomes, OutcomeOf
<1>4. txn[c].intent = [k \in Keys |-> NoEffect]
  BY <1>1 DEF Begin, IInv, ClosedIsNew, NewTxn
<1>5. Intents' = [Intents EXCEPT ![c] = [k \in Keys |-> NoEffect]]
  BY <1>1, <1>4 DEF Begin, Intents
<1>6. UNCHANGED value
  BY <1>1 DEF Begin
<1>7. QED
  BY <1>2, <1>3, <1>5, <1>6 DEF AbstractNext

\* While a transaction stays open its operations are requests or reads.
LEMMA OpenMaps ==
  ASSUME IInv, NEW c \in Clients, pc[c] \in {"running", "waiting"}, NEW p \in {"running", "waiting"},
         pc' = [pc EXCEPT ![c] = p], NEW u, txn' = [txn EXCEPT ![c] = u], UNCHANGED <<value, result>>,
         u.intent = txn[c].intent \/ \E k \in Keys : Asked(txn[c].intent, u.intent, k)
  PROVE  AbstractNext
<1>0. txn \in [Clients -> TxnSet] /\ pc \in [Clients -> {"idle", "running", "waiting", "done"}]
  BY DEF IInv, TypeOK
<1>1. UNCHANGED Outcomes /\ Outcomes[c] = "open"
  BY <1>0 DEF Outcomes, OutcomeOf
<1>2. Intents' = [Intents EXCEPT ![c] = u.intent]
  BY <1>0 DEF Intents
<1>3. CASE u.intent = txn[c].intent
  <2>1. UNCHANGED Intents
    BY <1>2, <1>3 DEF Intents
  <2>2. QED
    BY <1>1, <2>1 DEF AbstractNext
<1>4. ASSUME NEW k \in Keys, NEW f \in Effects,
             f.reset \/ f = [txn[c].intent[k] EXCEPT !.add = @ + 1],
             u.intent = [txn[c].intent EXCEPT ![k] = f]
      PROVE  AbstractNext
  <2>1. txn[c].intent \in [Keys -> Effects]
    BY <1>0 DEF TxnSet
  <2>2. Intents[c] = txn[c].intent /\ Intents'[c] = [txn[c].intent EXCEPT ![k] = f]
    BY <1>2, <1>4 DEF Intents
  <2>3. Intents'[c][k] = f
    BY <2>1, <2>2
  <2>4. Intents' = [Intents EXCEPT ![c][k] = f]
    BY <1>2, <1>4, <2>2 DEF Intents
  <2>5. Atomic!Asks(Intents[c][k], Intents'[c][k])
    BY <1>4, <2>2, <2>3 DEF Atomic!Asks, Atomic!Effects, Effects
  <2>6. QED
    BY <1>1, <2>3, <2>4, <2>5 DEF AbstractNext
<1>5. QED
  BY <1>3, <1>4 DEF Asked

\* A transaction that ends has its whole effect if it returns Ok, because what
\* its batch does is what was asked for, and none otherwise.
LEMMA FinishMaps ==
  ASSUME IInv, NEW c \in Clients, Finish(c)
  PROVE  AbstractNext
<1>0. TypeOK /\ pc[c] = "running" /\ Outcomes[c] = "open"
  BY DEF IInv, Finish, CommitOk, CommitErr, Rollback, Outcomes, OutcomeOf
<1>1. ASSUME NEW r, End(c, r) PROVE Intents' = [Intents EXCEPT ![c] = [k \in Keys |-> NoEffect]]
  BY <1>0, <1>1 DEF End, TypeOK, Intents, NewTxn
<1>2. ASSUME NEW r, End(c, r)
      PROVE  Outcomes' = [Outcomes EXCEPT ![c] = IF r = "ok" THEN "ok" ELSE "failed"]
  BY <1>0, <1>2 DEF End, TypeOK, Outcomes, OutcomeOf
<1>3. CASE CommitOk(c)
  <2>1. ASSUME NEW k \in Keys PROVE Merged(txn[c].batch[k], value[k]) = Apply(Intents[c][k], value[k])
    BY DEF IInv, View, KeyView, Intents
  <2>2. value' = [k \in Keys |-> Apply(Intents[c][k], value[k])]
    BY <1>3, <2>1 DEF CommitOk
  <2>3. End(c, "ok")
    BY <1>3 DEF CommitOk
  <2>4. Outcomes' = [Outcomes EXCEPT ![c] = "ok"]
    BY <1>2, <2>3
  <2>5. QED
    BY <1>0, <1>1, <2>2, <2>3, <2>4 DEF AbstractNext
<1>4. ASSUME NEW r, r # "ok", End(c, r), UNCHANGED value PROVE AbstractNext
  <2>1. Outcomes' = [Outcomes EXCEPT ![c] = "failed"]
    BY <1>2, <1>4
  <2>2. QED
    BY <1>0, <1>1, <1>4, <2>1 DEF AbstractNext
<1>5. QED
  BY <1>3, <1>4 DEF Finish, CommitErr, Rollback

\* Every step is a step of the abstract store or changes nothing of it.
LEMMA StepMaps ==
  ASSUME IInv, [Next]_vars
  PROVE  AbstractNext
<1>0. TypeOK
  BY DEF IInv
<1>1. CASE UNCHANGED vars
  BY <1>1 DEF vars, AbstractNext, Intents, Outcomes
<1>2. ASSUME NEW c \in Clients, NEW k \in Keys, NEW op \in LockOps, Acquire(c, k, op) PROVE AbstractNext
  <2>0. txn[c] \in TxnSet /\ pc[c] = "running"
    BY <1>0, <1>2 DEF TypeOK, Acquire, InTxn
  <2>1. CASE Free(c, k)
    <3>1. pc' = [pc EXCEPT ![c] = "running"]
      BY <1>0, <1>2, <2>0, <2>1 DEF TypeOK, Acquire
    <3> DEFINE u == Perform(txn[c], k, op)
    <3>2. txn' = [txn EXCEPT ![c] = u] /\ UNCHANGED <<value, result>>
      BY <1>2, <2>1 DEF Acquire
    <3>3. Asked(txn[c].intent, u.intent, k)
      BY <2>0, PerformAsks
    <3> HIDE DEF u
    <3>4. QED
      BY <2>0, <3>1, <3>2, <3>3, OpenMaps
  <2>2. CASE ~Free(c, k)
    <3>1. pc' = [pc EXCEPT ![c] = "waiting"] /\ UNCHANGED <<value, result, txn>>
      BY <1>2, <2>2 DEF Acquire
    <3>2. txn' = [txn EXCEPT ![c] = txn[c]]
      BY <1>0, <3>1 DEF TypeOK
    <3>3. QED
      BY <2>0, <3>1, <3>2, OpenMaps
  <2>3. QED
    BY <2>1, <2>2
<1>3. ASSUME NEW c \in Clients, NEW K, Look(c, K) PROVE AbstractNext
  <2> DEFINE u == TxnGet(txn[c], K, {k \in K : lock[k] = c})
  <2>1. txn' = [txn EXCEPT ![c] = u] /\ UNCHANGED <<value, result>> /\ pc[c] = "running"
    BY <1>3 DEF Look, InTxn
  <2>2. pc' = [pc EXCEPT ![c] = "running"]
    BY <1>0, <1>3 DEF TypeOK, Look, InTxn
  <2>3. u.intent = txn[c].intent
    BY DEF TxnGet
  <2> HIDE DEF u
  <2>4. QED
    BY <2>1, <2>2, <2>3, OpenMaps
<1>4. ASSUME NEW c \in Clients, Granted(c) PROVE AbstractNext
  <2> DEFINE u == Perform(txn[c], want[c].key, want[c].op)
  <2>1. txn[c] \in TxnSet /\ want[c].key \in Keys /\ want[c].op \in LockOps
    BY <1>0, <1>4 DEF TypeOK, Granted
  <2>2. /\ pc' = [pc EXCEPT ![c] = "running"] /\ UNCHANGED <<value, result>> /\ pc[c] = "waiting"
        /\ txn' = [txn EXCEPT ![c] = u]
    BY <1>4 DEF Granted
  <2>3. Asked(txn[c].intent, u.intent, want[c].key)
    BY <2>1, PerformAsks
  <2> HIDE DEF u
  <2>4. QED
    BY <2>1, <2>2, <2>3, OpenMaps
<1>5. ASSUME NEW c \in Clients, TimedOut(c) PROVE AbstractNext
  <2> DEFINE u == [txn[c] EXCEPT !.ops = @ + 1]
  <2>1. /\ pc' = [pc EXCEPT ![c] = "running"] /\ UNCHANGED <<value, result>> /\ pc[c] = "waiting"
        /\ txn' = [txn EXCEPT ![c] = u]
    BY <1>5 DEF TimedOut
  <2>2. u.intent = txn[c].intent
    BY <1>0 DEF TypeOK, TxnSet
  <2> HIDE DEF u
  <2>3. QED
    BY <2>1, <2>2, OpenMaps
<1>6. CASE DirectWrite
  <2>1. PICK k \in Keys, e \in Entries : StoreWrite(k, e)
    BY <1>6, DirectWriteStep
  <2>2. Merged(e, value[k]) \in Nat
    BY <1>0, MergedType DEF TypeOK
  <2>3. value'[k] \in Nat /\ value' = [value EXCEPT ![k] = value'[k]]
    BY <1>0, <2>1, <2>2 DEF TypeOK, StoreWrite
  <2>4. UNCHANGED <<Intents, Outcomes>>
    BY <2>1 DEF StoreWrite, Intents, Outcomes
  <2>5. QED
    BY <2>3, <2>4 DEF AbstractNext
<1>7. ASSUME NEW c \in Clients, Operation(c) PROVE AbstractNext
  BY <1>2, <1>3, <1>7, OperationStep
<1>8. QED
  BY <1>1, <1>4, <1>5, <1>6, <1>7, BeginMaps, FinishMaps DEF Next

\* Transactions are atomic for every number of clients, keys and operations:
\* the locks alone make what a client computed from values it read under them
\* a read-modify-write of the values at its commit.
THEOREM LocksMakeAtomic == Spec => AtomicSpec
<1>1. Init => Atomic!Init
  BY DEF Init, Atomic!Init, NewTxn, NoEffect, Atomic!NoEffect
<1>2. IInv /\ [Next]_vars => [Atomic!Next]_(Atomic!vars)
  BY StepMaps, MapsToAtomic
<1>3. QED
  BY <1>1, <1>2, Invariant, PTL DEF Spec, AtomicSpec, Atomic!Spec
=============================================================================

------------------------ MODULE OptimisticTxnProofs ------------------------
(* Proofs about OptimisticTxn, for every set of clients and keys, every     *)
(* retry policy and every bound.                                            *)
EXTENDS OptimisticTxn, TLAPS

\* The results of the operations a transaction supports.
OpResult(t, u) ==
  \/ \E k \in Keys : u = TxnPut(t, k) \/ u = TxnMerge(t, k) \/ u = TxnDelete(t, k)
  \/ \E K \in SUBSET Keys : u = TxnGet(t, K)

DbTyped ==
  /\ seq \in Nat
  /\ value \in [Keys -> Nat]
  /\ version \in [Keys -> 0..seq]

\* A new transaction is well typed (transaction_opt).
LEMMA NewTxnType ==
  ASSUME NEW iso \in BOOLEAN, NEW now \in Nat
  PROVE  NewTxn(iso, now) \in TxnSet
BY DEF NewTxn, TxnSet, Entries, NoEntry, Effects, NoEffect, NotRead

\* Staging a write keeps the transaction well typed.
LEMMA StageType ==
  ASSUME DbTyped, NEW t \in TxnSet, NEW k \in Keys, NEW e \in Entries,
         NEW i \in Effects, NEW l \in Nat \cup {NotRead}
  PROVE  Stage(t, k, e, i, l) \in TxnSet
<1>1. Track(t, k) \in Nat
  BY DEF DbTyped, Track, TxnSet
<1>2. version[k] \in Nat
  BY DEF DbTyped
<1>3. QED
  BY <1>1, <1>2 DEF Stage, TxnSet

\* The committed value seen through a batch entry is a natural number.
LEMMA MergedType ==
  ASSUME NEW e \in Entries, NEW v \in Nat
  PROVE  Merged(e, v) \in Nat
BY DEF Entries, Merged

\* put, merge, delete and get keep the transaction well typed.
LEMMA OpType ==
  ASSUME DbTyped, NEW t \in TxnSet, NEW u, OpResult(t, u)
  PROVE  u \in TxnSet
<1>1. ASSUME NEW k \in Keys, u = TxnPut(t, k) PROVE u \in TxnSet
  <2>1. CASE t.local[k] = NotRead
    <3>1. /\ [op |-> "put", n |-> 1] \in Entries
          /\ [reset |-> TRUE, add |-> 1] \in Effects
      BY DEF Entries, Effects
    <3>2. QED
      BY <1>1, <2>1, <3>1, StageType DEF TxnPut
  <2>2. CASE t.local[k] # NotRead
    <3>1. t.local[k] \in Nat /\ t.intent[k] \in Effects
      BY <2>2 DEF TxnSet
    <3>2. /\ [op |-> "put", n |-> t.local[k] + 1] \in Entries
          /\ [t.intent[k] EXCEPT !.add = @ + 1] \in Effects
          /\ t.local[k] + 1 \in Nat
      BY <3>1 DEF Entries, Effects
    <3>3. QED
      BY <1>1, <2>2, <3>2, StageType DEF TxnPut
  <2>3. QED
    BY <2>1, <2>2
<1>2. ASSUME NEW k \in Keys, u = TxnMerge(t, k) PROVE u \in TxnSet
  <2>1. t.batch[k] \in Entries /\ t.intent[k] \in Effects /\ t.local[k] \in Nat \cup {NotRead}
    BY DEF TxnSet
  <2>2. /\ MergedEntry(t.batch[k]) \in Entries
        /\ [t.intent[k] EXCEPT !.add = @ + 1] \in Effects
    BY <2>1 DEF MergedEntry, Entries, Effects
  <2>3. (IF t.local[k] = NotRead THEN NotRead ELSE t.local[k] + 1) \in Nat \cup {NotRead}
    BY <2>1
  <2>4. QED
    BY <1>2, <2>2, <2>3, StageType DEF TxnMerge
<1>3. ASSUME NEW k \in Keys, u = TxnDelete(t, k) PROVE u \in TxnSet
  <2>1. /\ [op |-> "delete", n |-> 0] \in Entries
        /\ [reset |-> TRUE, add |-> 0] \in Effects
    BY DEF Entries, Effects
  <2>2. QED
    BY <1>3, <2>1, StageType DEF TxnDelete
<1>4. ASSUME NEW K \in SUBSET Keys, u = TxnGet(t, K) PROVE u \in TxnSet
  <2>1. \A k \in Keys : /\ Merged(t.batch[k], value[k]) \in Nat
                        /\ version[k] \in Nat
    BY MergedType DEF DbTyped, TxnSet
  <2>2. QED
    BY <1>4, <2>1 DEF TxnGet, TxnSet
<1>5. QED
  BY <1>1, <1>2, <1>3, <1>4 DEF OpResult

\* Every operation of a closure or a context changes nothing but its own
\* transaction, by one of the operations of the transaction object.
LEMMA OperationStep ==
  ASSUME NEW c \in Clients, Operation(c)
  PROVE  /\ pc[c] = "running"
         /\ UNCHANGED <<db, call>>
         /\ \E u : OpResult(txn[c], u) /\ txn' = [txn EXCEPT ![c] = u]
<1>1. ASSUME NEW k \in Keys, set(c, k) \/ put_cf(c, k)
      PROVE  /\ pc[c] = "running" /\ UNCHANGED <<db, call>>
             /\ txn' = [txn EXCEPT ![c] = TxnPut(txn[c], k)]
  BY <1>1 DEF set, put_cf, InTxn
<1>2. ASSUME NEW k \in Keys, merge(c, k) \/ merge_cf(c, k)
      PROVE  /\ pc[c] = "running" /\ UNCHANGED <<db, call>>
             /\ txn' = [txn EXCEPT ![c] = TxnMerge(txn[c], k)]
  BY <1>2 DEF merge, merge_cf, InTxn
<1>3. ASSUME NEW k \in Keys, delete(c, k) \/ delete_cf(c, k)
      PROVE  /\ pc[c] = "running" /\ UNCHANGED <<db, call>>
             /\ txn' = [txn EXCEPT ![c] = TxnDelete(txn[c], k)]
  BY <1>3 DEF delete, delete_cf, InTxn
<1>4. ASSUME NEW k \in Keys, get(c, k) \/ get_cf(c, k)
      PROVE  /\ pc[c] = "running" /\ UNCHANGED <<db, call>>
             /\ txn' = [txn EXCEPT ![c] = TxnGet(txn[c], {k})]
  BY <1>4 DEF get, get_cf, InTxn
<1>5. ASSUME NEW cf, iterate(c, cf)
      PROVE  /\ pc[c] = "running" /\ UNCHANGED <<db, call>>
             /\ txn' = [txn EXCEPT ![c] = TxnGet(txn[c], {k \in Keys : CfOf[k] = cf})]
  BY <1>5 DEF iterate, InTxn
<1>6. \A k \in Keys : {k} \in SUBSET Keys
  OBVIOUS
<1>7. \A cf : {k \in Keys : CfOf[k] = cf} \in SUBSET Keys
  OBVIOUS
<1>8. QED
  BY <1>1, <1>2, <1>3, <1>4, <1>5, <1>6, <1>7 DEF Operation, OpResult

-----------------------------------------------------------------------------
(* Type correctness. *)

\* Opening a transaction, with the builder or as a context.
LEMMA BeginType ==
  ASSUME TypeOK, NEW c \in Clients, Begin(c)
  PROVE  TypeOK'
<1> USE DEF TypeOK
<1>1. ASSUME NEW p \in Policies, NEW iso \in BOOLEAN, Execute(c, iso, p) PROVE TypeOK'
  <2>1. p \in PolicySet
    BY PolicyAssumption
  <2>2. NewTxn(iso, seq) \in TxnSet
    BY NewTxnType
  <2>3. QED
    BY <1>1, <2>1, <2>2 DEF Execute, db
<1>2. ASSUME NEW iso \in BOOLEAN, OpenContext(c, iso) PROVE TypeOK'
  <2>1. NewTxn(iso, seq) \in TxnSet
    BY NewTxnType
  <2>2. QED
    BY <1>2, <2>1 DEF OpenContext, db
<1>3. QED
  BY <1>1, <1>2 DEF Begin, execute_with_snapshot, execute_unisolated,
                    transaction_context, blind_transaction_context

\* Ending an attempt, in each of the ways the code has.
LEMMA FinishType ==
  ASSUME TypeOK, NEW c \in Clients, Finish(c)
  PROVE  TypeOK'
<1> USE DEF TypeOK
<1>1. NoTxn \in TxnSet
  BY NewTxnType DEF NoTxn
<1>2. txn[c] \in TxnSet /\ txn[c].iso \in BOOLEAN
  BY DEF TxnSet
<1>3. NewTxn(txn[c].iso, 0) \in TxnSet /\ NewTxn(txn[c].iso, seq) \in TxnSet
  BY <1>2, NewTxnType
<1>4. CASE ClosureErr(c)
  BY <1>1, <1>4 DEF ClosureErr, Return, db, Results
<1>5. CASE CommitOk(c)
  <2>1. seq' \in Nat /\ seq' >= seq
    BY <1>5 DEF CommitOk
  <2>2. value' \in [Keys -> Nat]
    <3>1. \A k \in Keys : Merged(txn[c].batch[k], value[k]) \in Nat
      BY <1>2, MergedType DEF TxnSet
    <3>2. QED
      BY <1>5, <3>1 DEF CommitOk
  <2>3. version' \in [Keys -> 0..seq']
    <3>1. ASSUME NEW k \in Keys
          PROVE  (IF k \in Written(txn[c]) THEN seq + 1 ELSE version[k]) \in 0..seq'
      BY <1>5 DEF CommitOk
    <3>2. QED
      BY <1>5, <3>1 DEF CommitOk
  <2>4. QED
    BY <1>1, <1>5, <2>1, <2>2, <2>3 DEF CommitOk, Return, Results
<1>6. ASSUME CommitErr(c), conflicts' \in [Clients -> Nat] PROVE TypeOK'
  BY <1>1, <1>3, <1>6 DEF CommitErr, BuilderCommitErr, ContextCommitErr, Return, db, Results
<1>7. CASE CommitBusy(c)
  BY <1>6, <1>7 DEF CommitBusy
<1>8. CASE CommitFault(c)
  BY <1>6, <1>8 DEF CommitFault
<1>9. CASE NextAttempt(c)
  BY <1>3, <1>9 DEF NextAttempt, db
<1>10. CASE rollback(c)
  BY <1>1, <1>10 DEF rollback, Return, db, Results
<1>11. QED
  BY <1>4, <1>5, <1>7, <1>8, <1>9, <1>10 DEF Finish

\* A write outside transactions is a batch entry applied at once.
LEMMA DirectWriteStep ==
  ASSUME DirectWrite
  PROVE  \E k \in Keys, e \in Entries : e.op # "none" /\ StoreWrite(k, e)
<1>1. PICK k \in Keys : store_put(k) \/ store_merge(k) \/ store_delete(k)
  BY DEF DirectWrite
<1>2. /\ [op |-> "put", n |-> 1] \in Entries
      /\ [op |-> "merge", n |-> 1] \in Entries
      /\ [op |-> "delete", n |-> 0] \in Entries
  BY DEF Entries
<1>3. QED
  BY <1>1, <1>2 DEF store_put, store_merge, store_delete

\* A write outside transactions keeps the types.
LEMMA DirectWriteType ==
  ASSUME TypeOK, DirectWrite
  PROVE  TypeOK'
<1> USE DEF TypeOK
<1>1. PICK k \in Keys, e \in Entries : StoreWrite(k, e)
  BY DirectWriteStep
<1>2. Merged(e, value[k]) \in Nat
  BY MergedType
<1>3. version' \in [Keys -> 0..seq']
  BY <1>1 DEF StoreWrite
<1>4. QED
  BY <1>1, <1>2, <1>3 DEF StoreWrite, call

\* Every step of the builder, the contexts and the store keeps the types.
LEMMA StepType ==
  ASSUME TypeOK, [Next]_vars
  PROVE  TypeOK'
<1>1. ASSUME NEW c \in Clients, Operation(c) PROVE TypeOK'
  <2>1. PICK u : OpResult(txn[c], u) /\ txn' = [txn EXCEPT ![c] = u]
    BY <1>1, OperationStep
  <2>2. u \in TxnSet
    BY <2>1, OpType DEF TypeOK, DbTyped
  <2>3. UNCHANGED <<db, call>>
    BY <1>1, OperationStep
  <2>4. QED
    BY <2>1, <2>2, <2>3 DEF TypeOK, db, call
<1>2. CASE UNCHANGED vars
  BY <1>2 DEF TypeOK, vars
<1>3. QED
  BY <1>1, <1>2, BeginType, FinishType, DirectWriteType DEF Next

\* Every variable keeps its type, and no key has a version newer than the
\* database's sequence number.
THEOREM TypeCorrect == Spec => []TypeOK
<1>1. Init => TypeOK
  <2>1. NoTxn \in TxnSet
    BY NewTxnType DEF NoTxn
  <2>2. QED
    BY <2>1 DEF Init, TypeOK, PolicySet, Results
<1>2. TypeOK /\ [Next]_vars => TypeOK'
  BY StepType
<1>3. QED
  BY <1>1, <1>2, PTL DEF Spec

-----------------------------------------------------------------------------
(* The inductive invariant CurrentOrNewer, with the database it speaks of   *)
(* as parameters: sequence number s, values va and versions ve.             *)

CurrentIn(t, k, va, ve) ==
  /\ t.readVer[k] # NotRead => t.readVer[k] = ve[k]
  /\ t.local[k] # NotRead => t.local[k] = Apply(t.intent[k], va[k])
  /\ Merged(t.batch[k], va[k]) = Apply(t.intent[k], va[k])

KeyView(t, k, va, ve) ==
  /\ t.batch[k].op # "none" => t.tracked[k] = t.snap
  /\ t.batch[k].op = "none" => t.intent[k] = NoEffect
  /\ ve[k] > t.snap \/ CurrentIn(t, k, va, ve)

ViewIn(t, s, va, ve) == t.snap <= s /\ \A k \in Keys : KeyView(t, k, va, ve)

\* CurrentOrNewer in terms of ViewIn, in a state and in its successor.
LEMMA ViewForm ==
  /\ CurrentOrNewer <=>
       \A c \in Clients : pc[c] = "running" /\ txn[c].iso
                            => ViewIn(txn[c], seq, value, version)
  /\ CurrentOrNewer' <=>
       \A c \in Clients : pc'[c] = "running" /\ txn'[c].iso
                            => ViewIn(txn'[c], seq', value', version')
BY DEF CurrentOrNewer, ViewIn, KeyView, CurrentIn, Current, Written

\* A transaction opened on a snapshot knows nothing, so nothing out of date.
LEMMA NewView ==
  ASSUME DbTyped
  PROVE  ViewIn(NewTxn(TRUE, seq), seq, value, version)
BY DEF DbTyped, ViewIn, KeyView, CurrentIn, NewTxn, NoEntry, NoEffect, Merged, Apply, NotRead

\* Staging a write of k keeps the view if, seen from current knowledge, the
\* new entry does what the new effect asks for and the known value is its
\* outcome; the write is validated against the snapshot.
LEMMA StageView ==
  ASSUME DbTyped, NEW t \in TxnSet, t.iso, ViewIn(t, seq, value, version),
         NEW k \in Keys, NEW e \in Entries, e.op # "none",
         NEW i \in Effects, NEW l \in Nat \cup {NotRead},
         CurrentIn(t, k, value, version) =>
            /\ Merged(e, value[k]) = Apply(i, value[k])
            /\ l # NotRead => l = Apply(i, value[k])
  PROVE  ViewIn(Stage(t, k, e, i, l), seq, value, version)
<1> DEFINE u == Stage(t, k, e, i, l)
<1>1. /\ u.snap = t.snap /\ u.readVer = t.readVer
      /\ u.batch = [t.batch EXCEPT ![k] = e]
      /\ u.tracked = [t.tracked EXCEPT ![k] = Track(t, k)]
      /\ u.local = [t.local EXCEPT ![k] = l]
      /\ u.intent = [t.intent EXCEPT ![k] = i]
  BY DEF Stage
<1>2. Track(t, k) = t.snap
  BY DEF Track, Written, ViewIn, KeyView
<1>3. KeyView(u, k, value, version)
  <2>1. u.batch[k] = e /\ u.tracked[k] = t.snap /\ u.local[k] = l /\ u.intent[k] = i
    BY <1>1, <1>2 DEF TxnSet
  <2>2. version[k] > t.snap \/ CurrentIn(t, k, value, version)
    BY DEF ViewIn, KeyView
  <2>3. QED
    BY <1>1, <2>1, <2>2 DEF KeyView, CurrentIn
<1>4. ASSUME NEW j \in Keys, j # k PROVE KeyView(u, j, value, version)
  <2>1. /\ u.batch[j] = t.batch[j] /\ u.tracked[j] = t.tracked[j]
        /\ u.local[j] = t.local[j] /\ u.intent[j] = t.intent[j]
    BY <1>1, <1>4 DEF TxnSet
  <2>2. KeyView(t, j, value, version)
    BY DEF ViewIn
  <2>3. QED
    BY <1>1, <2>1, <2>2 DEF KeyView, CurrentIn
<1>5. QED
  BY <1>1, <1>3, <1>4 DEF ViewIn

\* One more increment, on the values an effect produces.
LEMMA ApplyInc ==
  ASSUME NEW e \in Effects, NEW v \in Nat
  PROVE  /\ Apply([e EXCEPT !.add = @ + 1], v) = Apply(e, v) + 1
         /\ [e EXCEPT !.add = @ + 1] \in Effects
         /\ Apply(e, v) \in Nat
BY DEF Effects, Apply

\* put, merge, delete and get keep the view of a snapshot transaction.
LEMMA OpView ==
  ASSUME DbTyped, NEW t \in TxnSet, t.iso, ViewIn(t, seq, value, version),
         NEW u, OpResult(t, u)
  PROVE  ViewIn(u, seq, value, version)
<1>0. \A k \in Keys : /\ value[k] \in Nat /\ t.batch[k] \in Entries
                      /\ t.intent[k] \in Effects /\ t.local[k] \in Nat \cup {NotRead}
  BY DEF DbTyped, TxnSet
<1>1. ASSUME NEW k \in Keys, u = TxnPut(t, k) PROVE ViewIn(u, seq, value, version)
  <2>1. CASE t.local[k] = NotRead
    <3> DEFINE e == [op |-> "put", n |-> 1]
               i == [reset |-> TRUE, add |-> 1]
    <3>1. e \in Entries /\ e.op # "none" /\ i \in Effects
      BY DEF Entries, Effects
    <3>2. Merged(e, value[k]) = 1 /\ Apply(i, value[k]) = 1
      BY DEF Merged, Apply
    <3>3. QED
      BY <1>1, <2>1, <3>1, <3>2, StageView DEF TxnPut
  <2>2. CASE t.local[k] # NotRead
    <3> DEFINE e == [op |-> "put", n |-> t.local[k] + 1]
               i == [t.intent[k] EXCEPT !.add = @ + 1]
    <3>1. t.local[k] \in Nat /\ e \in Entries /\ e.op # "none"
      BY <1>0, <2>2 DEF Entries
    <3>2. Merged(e, value[k]) = t.local[k] + 1
      BY DEF Merged
    <3>3. i \in Effects /\ Apply(i, value[k]) = Apply(t.intent[k], value[k]) + 1
      BY <1>0, ApplyInc
    <3>4. CurrentIn(t, k, value, version) => t.local[k] + 1 = Apply(i, value[k])
      BY <2>2, <3>3 DEF CurrentIn
    <3>5. u = Stage(t, k, e, i, t.local[k] + 1)
      BY <1>1, <2>2 DEF TxnPut
    <3> HIDE DEF e, i
    <3>6. QED
      BY <3>1, <3>2, <3>3, <3>4, <3>5, StageView
  <2>3. QED
    BY <2>1, <2>2
<1>2. ASSUME NEW k \in Keys, u = TxnMerge(t, k) PROVE ViewIn(u, seq, value, version)
  <2> DEFINE e == MergedEntry(t.batch[k])
             i == [t.intent[k] EXCEPT !.add = @ + 1]
             l == IF t.local[k] = NotRead THEN NotRead ELSE t.local[k] + 1
  <2>1. e \in Entries /\ e.op # "none"
    BY <1>0 DEF MergedEntry, Entries
  <2>2. Merged(e, value[k]) = Merged(t.batch[k], value[k]) + 1
    BY <1>0 DEF MergedEntry, Entries, Merged
  <2>3. i \in Effects /\ Apply(i, value[k]) = Apply(t.intent[k], value[k]) + 1
    BY <1>0, ApplyInc
  <2>4. l \in Nat \cup {NotRead}
    BY <1>0
  <2>5. CurrentIn(t, k, value, version) =>
          /\ Merged(e, value[k]) = Apply(i, value[k])
          /\ l # NotRead => l = Apply(i, value[k])
    BY <2>2, <2>3 DEF CurrentIn
  <2>6. u = Stage(t, k, e, i, l)
    BY <1>2 DEF TxnMerge
  <2> HIDE DEF e, i, l
  <2>7. QED
    BY <2>1, <2>3, <2>4, <2>5, <2>6, StageView
<1>3. ASSUME NEW k \in Keys, u = TxnDelete(t, k) PROVE ViewIn(u, seq, value, version)
  <2> DEFINE e == [op |-> "delete", n |-> 0]
             i == [reset |-> TRUE, add |-> 0]
  <2>1. e \in Entries /\ e.op # "none" /\ i \in Effects
    BY DEF Entries, Effects
  <2>2. Merged(e, value[k]) = 0 /\ Apply(i, value[k]) = 0
    BY DEF Merged, Apply
  <2>3. QED
    BY <1>3, <2>1, <2>2, StageView DEF TxnDelete
<1>4. ASSUME NEW K \in SUBSET Keys, u = TxnGet(t, K) PROVE ViewIn(u, seq, value, version)
  <2>1. /\ u.snap = t.snap /\ u.batch = t.batch /\ u.tracked = t.tracked /\ u.intent = t.intent
        /\ \A k \in Keys :
             /\ u.local[k] = IF k \in K THEN Merged(t.batch[k], value[k]) ELSE t.local[k]
             /\ u.readVer[k] = IF k \in K /\ t.batch[k].op \in {"none", "merge"}
                               THEN version[k] ELSE t.readVer[k]
    BY <1>4 DEF TxnGet
  <2>2. ASSUME NEW k \in Keys PROVE KeyView(u, k, value, version)
    BY <2>1 DEF ViewIn, KeyView, CurrentIn
  <2>3. QED
    BY <2>1, <2>2 DEF ViewIn
<1>5. QED
  BY <1>1, <1>2, <1>3, <1>4 DEF OpResult

\* No operation changes what the transaction is validated against.
LEMMA OpSnap ==
  ASSUME NEW t, NEW u, OpResult(t, u)
  PROVE  u.iso = t.iso /\ u.snap = t.snap
<1>1. \A k, e, i, l : /\ Stage(t, k, e, i, l).iso = t.iso
                      /\ Stage(t, k, e, i, l).snap = t.snap
  BY DEF Stage
<1>2. \A k : TxnPut(t, k).iso = t.iso /\ TxnPut(t, k).snap = t.snap
  BY <1>1 DEF TxnPut
<1>3. \A k : TxnMerge(t, k).iso = t.iso /\ TxnMerge(t, k).snap = t.snap
  BY <1>1 DEF TxnMerge
<1>4. \A k : TxnDelete(t, k).iso = t.iso /\ TxnDelete(t, k).snap = t.snap
  BY <1>1 DEF TxnDelete
<1>5. \A K : TxnGet(t, K).iso = t.iso /\ TxnGet(t, K).snap = t.snap
  BY DEF TxnGet
<1>6. QED
  BY <1>2, <1>3, <1>4, <1>5 DEF OpResult

\* Commits of others leave a view alone: a key they write gets a version newer
\* than the snapshot, the other keys keep value and version.
LEMMA OthersView ==
  ASSUME NEW t, NEW s \in Nat, NEW s2 \in Nat, NEW va, NEW ve, NEW va2, NEW ve2,
         t.snap \in Nat, ViewIn(t, s, va, ve), s <= s2,
         \A k \in Keys : \/ va2[k] = va[k] /\ ve2[k] = ve[k]
                         \/ ve2[k] = s + 1
  PROVE  ViewIn(t, s2, va2, ve2)
<1>1. ASSUME NEW k \in Keys PROVE KeyView(t, k, va2, ve2)
  <2>1. KeyView(t, k, va, ve) /\ t.snap <= s
    BY DEF ViewIn
  <2>2. CASE va2[k] = va[k] /\ ve2[k] = ve[k]
    BY <2>1, <2>2 DEF KeyView, CurrentIn
  <2>3. CASE ve2[k] = s + 1
    BY <2>1, <2>3 DEF KeyView
  <2>4. QED
    BY <2>2, <2>3
<1>2. QED
  BY <1>1 DEF ViewIn

\* What a step of client c, or of a direct writer, leaves of the other clients
\* and of the database.
LEMMA DbMoves ==
  ASSUME TypeOK, Next
  PROVE  /\ seq <= seq'
         /\ \A k \in Keys : \/ value'[k] = value[k] /\ version'[k] = version[k]
                            \/ version'[k] = seq + 1
<1> USE DEF TypeOK
<1>1. ASSUME UNCHANGED db
      PROVE  seq <= seq' /\ \A k \in Keys : value'[k] = value[k] /\ version'[k] = version[k]
  BY <1>1 DEF db
<1>2. ASSUME NEW c \in Clients, CommitOk(c)
      PROVE  /\ seq <= seq'
             /\ \A k \in Keys : \/ value'[k] = value[k] /\ version'[k] = version[k]
                                \/ version'[k] = seq + 1
  BY <1>2 DEF CommitOk, Written, Merged
<1>3. ASSUME DirectWrite
      PROVE  /\ seq <= seq'
             /\ \A k \in Keys : \/ value'[k] = value[k] /\ version'[k] = version[k]
                                \/ version'[k] = seq + 1
  BY <1>3, DirectWriteStep DEF StoreWrite
<1>4. ASSUME NEW c \in Clients, Begin(c) PROVE UNCHANGED db
  BY <1>4 DEF Begin, execute_with_snapshot, execute_unisolated, transaction_context,
              blind_transaction_context, Execute, OpenContext
<1>5. ASSUME NEW c \in Clients, Operation(c) PROVE UNCHANGED db
  BY <1>5, OperationStep
<1>6. ASSUME NEW c \in Clients, Finish(c), ~CommitOk(c) PROVE UNCHANGED db
  BY <1>6 DEF Finish, ClosureErr, CommitBusy, CommitFault, CommitErr, BuilderCommitErr,
              ContextCommitErr, NextAttempt, rollback
<1>7. QED
  BY <1>1, <1>2, <1>3, <1>4, <1>5, <1>6 DEF Next

\* The client whose step it is: it opens a snapshot transaction, operates in
\* it, or ends it; all other clients keep theirs.
LEMMA ClientMoves ==
  ASSUME TypeOK, NEW c \in Clients, Begin(c) \/ Operation(c) \/ Finish(c)
  PROVE  /\ \A d \in Clients : d # c => pc'[d] = pc[d] /\ txn'[d] = txn[d]
         /\ pc'[c] = "running" =>
              \/ UNCHANGED db /\ pc[c] # "running"
                   /\ \E iso \in BOOLEAN : txn'[c] = NewTxn(iso, seq)
              \/ UNCHANGED db /\ pc[c] = "running" /\ OpResult(txn[c], txn'[c])
<1> USE DEF TypeOK
<1>1. CASE Begin(c)
  <2>1. PICK iso \in BOOLEAN : /\ pc[c] = "idle" /\ UNCHANGED db
                               /\ pc' = [pc EXCEPT ![c] = "running"]
                               /\ txn' = [txn EXCEPT ![c] = NewTxn(iso, seq)]
    BY <1>1 DEF Begin, execute_with_snapshot, execute_unisolated, transaction_context,
                blind_transaction_context, Execute, OpenContext
  <2>2. QED
    BY <2>1
<1>2. CASE Operation(c)
  <2>1. PICK u : OpResult(txn[c], u) /\ txn' = [txn EXCEPT ![c] = u]
    BY <1>2, OperationStep
  <2>2. pc[c] = "running" /\ UNCHANGED <<db, pc>>
    BY <1>2, OperationStep DEF call
  <2>3. QED
    BY <2>1, <2>2
<1>3. CASE NextAttempt(c)
  <2>1. txn[c].iso \in BOOLEAN
    BY DEF TxnSet
  <2>2. QED
    BY <1>3, <2>1 DEF NextAttempt
<1>4. CASE Finish(c) /\ ~NextAttempt(c)
  <2>1. \E x, y : /\ pc' = [pc EXCEPT ![c] = x] /\ x # "running"
                  /\ txn' = [txn EXCEPT ![c] = y]
    BY <1>4 DEF Finish, ClosureErr, CommitOk, CommitBusy, CommitFault, CommitErr,
                BuilderCommitErr, ContextCommitErr, rollback, Return
  <2>2. QED
    BY <2>1
<1>5. QED
  BY <1>1, <1>2, <1>3, <1>4

\* Every step keeps the views of the snapshot transactions.
LEMMA StepView ==
  ASSUME TypeOK, CurrentOrNewer, [Next]_vars
  PROVE  CurrentOrNewer'
<1>1. CASE UNCHANGED vars
  BY <1>1, ViewForm DEF vars
<1>2. CASE Next
  <2>1. TypeOK'
    BY <1>2, StepType
  <2>2. SUFFICES ASSUME NEW d \in Clients, pc'[d] = "running", txn'[d].iso
                 PROVE  ViewIn(txn'[d], seq', value', version')
    BY ViewForm
  <2>3. ASSUME pc[d] = "running", txn'[d] = txn[d]
        PROVE  ViewIn(txn'[d], seq', value', version')
    <3>1. ViewIn(txn[d], seq, value, version)
      BY <2>2, <2>3, ViewForm
    <3>2. txn[d].snap \in Nat /\ seq \in Nat /\ seq' \in Nat
      BY <2>1 DEF TypeOK, TxnSet
    <3>3. QED
      BY <1>2, <2>3, <3>1, <3>2, DbMoves, OthersView
  <2>4. CASE DirectWrite
    <3>1. UNCHANGED <<pc, txn>>
      BY <2>4, DirectWriteStep DEF StoreWrite, call
    <3>2. QED
      BY <2>2, <2>3, <3>1
  <2>5. ASSUME NEW c \in Clients, Begin(c) \/ Operation(c) \/ Finish(c)
        PROVE  ViewIn(txn'[d], seq', value', version')
    <3>1. CASE d # c
      BY <2>2, <2>3, <2>5, <3>1, ClientMoves
    <3>2. CASE d = c
      <4>1. CASE UNCHANGED db /\ \E iso \in BOOLEAN : txn'[c] = NewTxn(iso, seq)
        <5>1. txn'[c] = NewTxn(TRUE, seq)
          BY <2>2, <3>2, <4>1 DEF NewTxn
        <5>2. QED
          BY <3>2, <4>1, <5>1, NewView DEF db, TypeOK, DbTyped
      <4>2. CASE UNCHANGED db /\ pc[c] = "running" /\ OpResult(txn[c], txn'[c])
        <5>1. txn'[c].iso = txn[c].iso
          BY <4>2, OpSnap
        <5>2. ViewIn(txn[c], seq, value, version) /\ txn[c].iso
          BY <2>2, <3>2, <4>2, <5>1, ViewForm
        <5>3. ViewIn(txn'[c], seq, value, version)
          BY <4>2, <5>2, OpView DEF TypeOK, DbTyped
        <5>4. QED
          BY <3>2, <4>2, <5>3 DEF db
      <4>3. QED
        BY <2>2, <2>5, <3>2, <4>1, <4>2, ClientMoves
    <3>3. QED
      BY <3>1, <3>2
  <2>6. QED
    BY <1>2, <2>4, <2>5 DEF Next
<1>3. QED
  BY <1>1, <1>2

\* What a live snapshot transaction knows of a key is current unless the key
\* has a version newer than its snapshot.
THEOREM ViewsCurrentOrNewer == Spec => []CurrentOrNewer
<1>1. Init => CurrentOrNewer
  BY DEF Init, CurrentOrNewer
<1>2. TypeOK /\ CurrentOrNewer /\ [Next]_vars => CurrentOrNewer'
  BY StepView
<1>3. QED
  BY <1>1, <1>2, TypeCorrect, PTL DEF Spec

\* Only a successful commit() makes a call return Ok.
LEMMA CommitsOnlyByCommitOk ==
  ASSUME TypeOK, [Next]_vars, NEW c \in Clients, Commits(c)
  PROVE  CommitOk(c)
<1> USE DEF TypeOK, Commits
<1>1. ASSUME NEW d \in Clients, Finish(d), d # c PROVE result'[c] = result[c]
  BY <1>1 DEF Finish, ClosureErr, CommitOk, CommitBusy, CommitFault, CommitErr,
              BuilderCommitErr, ContextCommitErr, NextAttempt, rollback, Return
<1>2. ASSUME Finish(c), ~CommitOk(c) PROVE FALSE
  BY <1>2 DEF Finish, ClosureErr, CommitBusy, CommitFault, CommitErr,
              BuilderCommitErr, ContextCommitErr, NextAttempt, rollback, Return
<1>3. ASSUME NEW d \in Clients, Begin(d) PROVE UNCHANGED result
  BY <1>3 DEF Begin, execute_with_snapshot, execute_unisolated, transaction_context,
              blind_transaction_context, Execute, OpenContext
<1>4. ASSUME NEW d \in Clients, Operation(d) PROVE UNCHANGED result
  BY <1>4, OperationStep DEF call
<1>5. ASSUME DirectWrite PROVE UNCHANGED result
  BY <1>5, DirectWriteStep DEF StoreWrite, call
<1>6. QED
  BY <1>1, <1>2, <1>3, <1>4, <1>5 DEF Next, vars

\* A snapshot transaction that read a key and writes it commits only if the
\* version it read is the latest: no update is lost.
THEOREM LosesNoUpdate == Spec => NoLostUpdate
<1> DEFINE Kept == \A c \in Clients : Commits(c) /\ txn[c].iso =>
                     \A k \in Written(txn[c]) :
                       txn[c].readVer[k] # NotRead => txn[c].readVer[k] = version[k]
<1>1. TypeOK /\ CurrentOrNewer /\ [Next]_vars => Kept
  <2>1. SUFFICES ASSUME TypeOK, CurrentOrNewer, [Next]_vars, NEW c \in Clients,
                        Commits(c), txn[c].iso, NEW k \in Written(txn[c]),
                        txn[c].readVer[k] # NotRead
                 PROVE  txn[c].readVer[k] = version[k]
    OBVIOUS
  <2>2. pc[c] = "running" /\ ~Busy(txn[c])
    BY <2>1, CommitsOnlyByCommitOk DEF CommitOk
  <2>3. k \in Keys /\ txn[c].tracked[k] = txn[c].snap
    BY <2>1, <2>2 DEF CurrentOrNewer, Written
  <2>4. txn[c].snap \in Nat /\ version[k] \in Nat
    BY <2>1, <2>3 DEF TypeOK, TxnSet
  <2>5. ~(version[k] > txn[c].snap)
    BY <2>1, <2>2, <2>3, <2>4 DEF Busy
  <2>6. Current(txn[c], k)
    BY <2>1, <2>2, <2>3, <2>5 DEF CurrentOrNewer
  <2>7. QED
    BY <2>1, <2>6 DEF Current
<1>2. QED
  BY <1>1, TypeCorrect, ViewsCurrentOrNewer, PTL DEF Spec, NoLostUpdate

-----------------------------------------------------------------------------
(* The retry budget.  RetryBudget is not inductive: that a call which gives *)
(* up has used all its attempts follows from the counter being below the    *)
(* limit while it sleeps, and that conflicts never outnumber attempts from  *)
(* the attempt in progress not having failed yet.                           *)

CallInv(c) ==
  /\ pc[c] = "idle" => conflicts[c] = 0 /\ result[c] = "none"
  /\ via[c] = "builder" =>
       /\ attempt[c] >= 1 /\ attempt[c] <= Allowed(policy[c])
       /\ pc[c] = "running" => conflicts[c] < attempt[c]
       /\ pc[c] = "backoff" => should_retry(policy[c], attempt[c])
       /\ conflicts[c] <= attempt[c]
       /\ result[c] = "gave_up" => pc[c] = "done" /\ attempt[c] = Allowed(policy[c])

\* What a policy allows is a positive number, the one at which it gives up.
LEMMA AllowedFacts ==
  ASSUME NEW p \in PolicySet, NEW n \in Nat, n >= 1, n <= Allowed(p)
  PROVE  /\ Allowed(p) \in Nat /\ Allowed(p) >= 1
         /\ should_retry(p, n) => n + 1 <= Allowed(p)
         /\ ~should_retry(p, n) => n = Allowed(p)
BY DEF PolicySet, Allowed, should_retry

\* Every way an attempt begins or ends keeps the books of its call.
LEMMA CallStep ==
  ASSUME TypeOK, NEW c \in Clients, CallInv(c), Begin(c) \/ Finish(c)
  PROVE  CallInv(c)'
<1>0. /\ policy[c] \in PolicySet /\ attempt[c] \in Nat /\ conflicts[c] \in Nat
      /\ pc \in [Clients -> {"idle", "running", "backoff", "done"}]
      /\ via \in [Clients -> {"none", "builder", "context"}]
      /\ policy \in [Clients -> PolicySet] /\ attempt \in [Clients -> Nat]
      /\ result \in [Clients -> Results] /\ conflicts \in [Clients -> Nat]
  BY DEF TypeOK
<1> USE <1>0 DEF CallInv
<1>1. ASSUME NEW p \in Policies, NEW iso, Execute(c, iso, p) PROVE CallInv(c)'
  <2>1. p \in PolicySet
    BY PolicyAssumption
  <2>2. 1 <= Allowed(p)
    BY <2>1 DEF PolicySet, Allowed
  <2>3. /\ pc'[c] = "running" /\ policy'[c] = p /\ attempt'[c] = 1
        /\ conflicts'[c] = 0 /\ result'[c] = "none"
    BY <1>1 DEF Execute
  <2>4. QED
    BY <2>2, <2>3
<1>2. ASSUME NEW iso, OpenContext(c, iso) PROVE CallInv(c)'
  BY <1>2 DEF OpenContext
<1>3. CASE ClosureErr(c)
  BY <1>3 DEF ClosureErr, Return
<1>4. CASE CommitOk(c)
  BY <1>4 DEF CommitOk, Return
<1>5. CASE rollback(c)
  BY <1>5 DEF rollback, Return
<1>6. CASE NextAttempt(c)
  BY <1>6, AllowedFacts DEF NextAttempt
<1>7. ASSUME CommitErr(c), conflicts'[c] \in {conflicts[c], conflicts[c] + 1} PROVE CallInv(c)'
  <2>1. CASE ContextCommitErr(c)
    BY <1>7, <2>1 DEF ContextCommitErr, Return
  <2>2. CASE BuilderCommitErr(c) /\ should_retry(policy[c], attempt[c])
    BY <1>7, <2>2 DEF BuilderCommitErr
  <2>3. CASE BuilderCommitErr(c) /\ ~should_retry(policy[c], attempt[c])
    BY <1>7, <2>3, AllowedFacts DEF BuilderCommitErr, Return
  <2>4. QED
    BY <1>7, <2>1, <2>2, <2>3 DEF CommitErr
<1>8. CASE CommitBusy(c) \/ CommitFault(c)
  BY <1>7, <1>8 DEF CommitBusy, CommitFault
<1>9. QED
  BY <1>1, <1>2, <1>3, <1>4, <1>5, <1>6, <1>8
     DEF Begin, Finish, execute_with_snapshot, execute_unisolated, transaction_context,
         blind_transaction_context

\* A step of one client leaves the calls of the others alone.
LEMMA OthersCall ==
  ASSUME TypeOK, NEW c \in Clients, Begin(c) \/ Finish(c), NEW d \in Clients, d # c
  PROVE  /\ pc'[d] = pc[d] /\ via'[d] = via[d] /\ policy'[d] = policy[d]
         /\ attempt'[d] = attempt[d] /\ result'[d] = result[d] /\ conflicts'[d] = conflicts[d]
<1> USE DEF TypeOK
<1>1. CASE Begin(c)
  BY <1>1 DEF Begin, execute_with_snapshot, execute_unisolated, transaction_context,
              blind_transaction_context, Execute, OpenContext
<1>2. CASE CommitBusy(c) \/ CommitFault(c)
  BY <1>2 DEF CommitBusy, CommitFault, CommitErr, BuilderCommitErr, ContextCommitErr, Return
<1>3. CASE ClosureErr(c) \/ CommitOk(c) \/ NextAttempt(c) \/ rollback(c)
  BY <1>3 DEF ClosureErr, CommitOk, NextAttempt, rollback, Return
<1>4. QED
  BY <1>1, <1>2, <1>3 DEF Finish

\* A call of the builder makes as many attempts as its policy allows before it
\* gives up, for every policy and however many clients compete.
THEOREM RetriesWithinBudget == Spec => []RetryBudget
<1> DEFINE Books == \A c \in Clients : CallInv(c)
<1>1. Init => Books
  BY DEF Init, CallInv
<1>2. ASSUME TypeOK, Books, [Next]_vars PROVE Books'
  <2>1. ASSUME UNCHANGED call PROVE Books'
    BY <1>2, <2>1 DEF call, CallInv
  <2>2. ASSUME NEW c \in Clients, Begin(c) \/ Finish(c), NEW d \in Clients PROVE CallInv(d)'
    <3>1. CASE d = c
      BY <1>2, <2>2, <3>1, CallStep
    <3>2. CASE d # c
      BY <1>2, <2>2, <3>2, OthersCall DEF CallInv
    <3>3. QED
      BY <3>1, <3>2
  <2>3. ASSUME NEW c \in Clients, Operation(c) PROVE UNCHANGED call
    BY <2>3, OperationStep
  <2>4. ASSUME DirectWrite PROVE UNCHANGED call
    BY <2>4, DirectWriteStep DEF StoreWrite
  <2>5. ASSUME UNCHANGED vars PROVE UNCHANGED call
    BY <2>5 DEF vars, call
  <2>6. QED
    BY <1>2, <2>1, <2>2, <2>3, <2>4, <2>5 DEF Next
<1>3. Books => RetryBudget
  BY DEF CallInv, RetryBudget
<1>4. QED
  BY <1>1, <1>2, <1>3, TypeCorrect, PTL DEF Spec

-----------------------------------------------------------------------------
(* Written keys are protected from their first write on, in both modes.     *)

\* A key t has written has not been written by anybody else since, or its
\* version is newer than the number its write is validated against.
Guarded(t, s, ve) ==
  /\ t.iso => t.snap <= s
  /\ \A k \in Keys : t.batch[k].op # "none" =>
       t.tracked[k] <= s /\ (ve[k] > t.tracked[k] \/ t.base[k] = ve[k])

GuardInv == \A c \in Clients : pc[c] = "running" => Guarded(txn[c], seq, version)

\* Staging a write keeps what is staged already, and guards the new key.
LEMMA StageGuard ==
  ASSUME DbTyped, NEW t \in TxnSet, Guarded(t, seq, version), NEW k \in Keys, NEW e, NEW i, NEW l
  PROVE  Guarded(Stage(t, k, e, i, l), seq, version)
<1> DEFINE u == Stage(t, k, e, i, l)
<1>1. /\ u.snap = t.snap /\ u.iso = t.iso
      /\ u.batch = [t.batch EXCEPT ![k] = e]
      /\ u.tracked = [t.tracked EXCEPT ![k] = Track(t, k)]
      /\ u.base = [t.base EXCEPT ![k] = IF k \in Written(t) THEN @ ELSE version[k]]
  BY DEF Stage
<1>2. /\ Track(t, k) <= seq
      /\ \/ version[k] > Track(t, k)
         \/ version[k] = IF k \in Written(t) THEN t.base[k] ELSE version[k]
  <2>1. CASE t.batch[k].op # "none"
    BY <2>1 DEF Guarded, Track, Written
  <2>2. CASE t.batch[k].op = "none"
    BY <2>2 DEF Guarded, Track, Written, DbTyped
  <2>3. QED
    BY <2>1, <2>2
<1>3. u.tracked[k] <= seq /\ (version[k] > u.tracked[k] \/ u.base[k] = version[k])
  <2>1. u.tracked[k] = Track(t, k) /\ u.base[k] = IF k \in Written(t) THEN t.base[k] ELSE version[k]
    BY <1>1 DEF TxnSet
  <2> HIDE DEF u
  <2>2. QED
    BY <1>2, <2>1
<1>4. ASSUME NEW j \in Keys, j # k
      PROVE  u.batch[j] = t.batch[j] /\ u.tracked[j] = t.tracked[j] /\ u.base[j] = t.base[j]
  BY <1>1, <1>4 DEF TxnSet
<1> HIDE DEF u
<1>5. Guarded(u, seq, version)
  BY <1>1, <1>3, <1>4 DEF Guarded
<1>6. QED
  BY <1>5 DEF u

\* The operations keep the guards.
LEMMA OpGuard ==
  ASSUME DbTyped, NEW t \in TxnSet, Guarded(t, seq, version), NEW u, OpResult(t, u)
  PROVE  Guarded(u, seq, version)
<1>1. ASSUME NEW k \in Keys, u = TxnPut(t, k) \/ u = TxnMerge(t, k) \/ u = TxnDelete(t, k)
      PROVE  \E e, i, l : u = Stage(t, k, e, i, l)
  BY <1>1 DEF TxnPut, TxnMerge, TxnDelete
<1>2. ASSUME NEW K, u = TxnGet(t, K) PROVE Guarded(u, seq, version)
  BY <1>2 DEF TxnGet, Guarded
<1>3. QED
  BY <1>1, <1>2, StageGuard DEF OpResult

\* Commits of others leave the guards alone.
LEMMA OthersGuard ==
  ASSUME NEW t, NEW s \in Nat, NEW s2 \in Nat, NEW ve, NEW ve2, s <= s2,
         t.snap \in Nat, \A k \in Keys : t.tracked[k] \in Nat, Guarded(t, s, ve),
         \A k \in Keys : ve2[k] = ve[k] \/ ve2[k] = s + 1
  PROVE  Guarded(t, s2, ve2)
<1>1. ASSUME NEW k \in Keys, t.batch[k].op # "none"
      PROVE  t.tracked[k] <= s2 /\ (ve2[k] > t.tracked[k] \/ t.base[k] = ve2[k])
  BY <1>1 DEF Guarded
<1>2. QED
  BY <1>1 DEF Guarded

\* Every step keeps the guards of the transactions in progress.
LEMMA StepGuard ==
  ASSUME TypeOK, GuardInv, [Next]_vars
  PROVE  GuardInv'
<1>1. CASE UNCHANGED vars
  BY <1>1 DEF vars, GuardInv, Guarded
<1>2. CASE Next
  <2>1. TypeOK'
    BY <1>2, StepType
  <2>2. SUFFICES ASSUME NEW d \in Clients, pc'[d] = "running"
                 PROVE  Guarded(txn'[d], seq', version')
    BY DEF GuardInv, Guarded
  <2>3. ASSUME pc[d] = "running", txn'[d] = txn[d]
        PROVE  Guarded(txn'[d], seq', version')
    <3>1. Guarded(txn[d], seq, version)
      BY <2>3 DEF GuardInv
    <3>2. txn[d].snap \in Nat /\ seq \in Nat /\ seq' \in Nat /\ \A k \in Keys : txn[d].tracked[k] \in Nat
      BY <2>1 DEF TypeOK, TxnSet
    <3>3. seq <= seq' /\ \A k \in Keys : version'[k] = version[k] \/ version'[k] = seq + 1
      BY <1>2, DbMoves
    <3>4. QED
      BY <2>3, <3>1, <3>2, <3>3, OthersGuard
  <2>4. CASE DirectWrite
    <3>1. UNCHANGED <<pc, txn>>
      BY <2>4, DirectWriteStep DEF StoreWrite, call
    <3>2. QED
      BY <2>2, <2>3, <3>1
  <2>5. ASSUME NEW c \in Clients, Begin(c) \/ Operation(c) \/ Finish(c)
        PROVE  Guarded(txn'[d], seq', version')
    <3>1. CASE d # c
      BY <2>2, <2>3, <2>5, <3>1, ClientMoves
    <3>2. CASE d = c
      <4>1. CASE UNCHANGED db /\ \E iso \in BOOLEAN : txn'[c] = NewTxn(iso, seq)
        <5>1. PICK iso \in BOOLEAN : txn'[c] = NewTxn(iso, seq)
          BY <4>1
        <5>2. Guarded(NewTxn(iso, seq), seq, version)
          BY DEF Guarded, NewTxn, NoEntry, TypeOK
        <5>3. QED
          BY <3>2, <4>1, <5>1, <5>2 DEF db
      <4>2. CASE UNCHANGED db /\ pc[c] = "running" /\ OpResult(txn[c], txn'[c])
        <5>1. Guarded(txn'[c], seq, version)
          BY <4>2, OpGuard DEF TypeOK, DbTyped, GuardInv
        <5>2. QED
          BY <3>2, <4>2, <5>1 DEF db
      <4>3. QED
        BY <2>2, <2>5, <3>2, <4>1, <4>2, ClientMoves
    <3>3. QED
      BY <3>1, <3>2
  <2>6. QED
    BY <1>2, <2>4, <2>5 DEF Next
<1>3. QED
  BY <1>1, <1>2

\* With or without a snapshot, a commit that is acknowledged overwrites nothing
\* that was written to its keys after its own first write there.
THEOREM ProtectsWrites == Spec => WritesProtected
<1> DEFINE Kept == \A c \in Clients : Commits(c) =>
                     \A k \in Written(txn[c]) : txn[c].base[k] = version[k]
<1>1. Init => GuardInv
  BY DEF Init, GuardInv
<1>2. TypeOK /\ GuardInv /\ [Next]_vars => GuardInv'
  BY StepGuard
<1>3. TypeOK /\ GuardInv /\ [Next]_vars => Kept
  <2>1. SUFFICES ASSUME TypeOK, GuardInv, [Next]_vars, NEW c \in Clients, Commits(c),
                        NEW k \in Written(txn[c])
                 PROVE  txn[c].base[k] = version[k]
    OBVIOUS
  <2>2. pc[c] = "running" /\ ~Busy(txn[c])
    BY <2>1, CommitsOnlyByCommitOk DEF CommitOk
  <2>3. k \in Keys /\ ~(version[k] > txn[c].tracked[k])
    BY <2>1, <2>2 DEF Busy, Written
  <2>4. QED
    BY <2>1, <2>2, <2>3 DEF GuardInv, Guarded, Written
<1>4. QED
  BY <1>1, <1>2, <1>3, TypeCorrect, PTL DEF Spec, WritesProtected

-----------------------------------------------------------------------------
(* Conflicts are paid for.  ConflictsPaidFor is not inductive: what counts  *)
(* is that the conflicts so far are no more than the snapshot of the        *)
(* attempt in progress, which a refused commit shows to be behind seq.      *)

\* In a store used with snapshots only.
PaidInv ==
  Isolations = {TRUE} => \A c \in Clients :
    /\ conflicts[c] <= seq
    /\ pc[c] = "idle" => conflicts[c] = 0
    /\ pc[c] \in {"running", "backoff"} => txn[c].iso = TRUE
    /\ pc[c] = "running" => conflicts[c] <= txn[c].snap

\* A refused attempt has a snapshot that somebody's commit has left behind.
LEMMA BusyIsBehind ==
  ASSUME TypeOK, CurrentOrNewer, NEW c \in Clients, pc[c] = "running", txn[c].iso = TRUE, Busy(txn[c])
  PROVE  txn[c].snap < seq
<1>1. PICK k \in Written(txn[c]) : version[k] > txn[c].tracked[k]
  BY DEF Busy
<1>2. k \in Keys /\ txn[c].tracked[k] = txn[c].snap
  BY <1>1 DEF CurrentOrNewer, Written
<1>3. version[k] \in 0..seq /\ txn[c].snap \in Nat /\ seq \in Nat
  BY <1>2 DEF TypeOK, TxnSet
<1>4. QED
  BY <1>1, <1>2, <1>3

\* Every step keeps it.
LEMMA StepPaid ==
  ASSUME TypeOK, CurrentOrNewer, PaidInv, [Next]_vars
  PROVE  PaidInv'
<1> SUFFICES ASSUME Isolations = {TRUE}, NEW d \in Clients
             PROVE  /\ conflicts'[d] <= seq'
                    /\ pc'[d] = "idle" => conflicts'[d] = 0
                    /\ pc'[d] \in {"running", "backoff"} => txn'[d].iso = TRUE
                    /\ pc'[d] = "running" => conflicts'[d] <= txn'[d].snap
  BY DEF PaidInv
<1> DEFINE Goal == /\ conflicts'[d] <= seq'
                   /\ pc'[d] = "idle" => conflicts'[d] = 0
                   /\ pc'[d] \in {"running", "backoff"} => txn'[d].iso = TRUE
                   /\ pc'[d] = "running" => conflicts'[d] <= txn'[d].snap
<1>0. /\ seq \in Nat /\ conflicts \in [Clients -> Nat] /\ txn \in [Clients -> TxnSet]
      /\ pc \in [Clients -> {"idle", "running", "backoff", "done"}]
      /\ conflicts[d] \in Nat /\ conflicts[d] <= seq
      /\ pc[d] = "idle" => conflicts[d] = 0
      /\ pc[d] \in {"running", "backoff"} => txn[d].iso = TRUE
      /\ pc[d] = "running" => conflicts[d] <= txn[d].snap
  BY DEF TypeOK, PaidInv
<1>1. seq' \in Nat /\ seq <= seq'
  <2>1. TypeOK'
    BY StepType
  <2>2. CASE UNCHANGED vars
    BY <2>2, <1>0 DEF vars
  <2>3. QED
    BY <2>1, <2>2, DbMoves DEF TypeOK
<1>2. ASSUME pc'[d] = pc[d], txn'[d] = txn[d], conflicts'[d] = conflicts[d] PROVE Goal
  BY <1>0, <1>1, <1>2
<1>3. CASE UNCHANGED vars \/ DirectWrite
  <2>1. UNCHANGED <<pc, txn, conflicts>>
    BY <1>3, DirectWriteStep DEF vars, StoreWrite, call
  <2>2. QED
    BY <1>2, <2>1
<1>4. ASSUME NEW c \in Clients, Begin(c) \/ Operation(c) \/ Finish(c), c # d PROVE Goal
  <2>1. pc'[d] = pc[d] /\ txn'[d] = txn[d]
    BY <1>4, ClientMoves
  <2>2. conflicts'[d] = conflicts[d]
    BY <1>4, OthersCall, OperationStep DEF call
  <2>3. QED
    BY <1>2, <2>1, <2>2
<1>5. CASE Operation(d)
  <2>1. UNCHANGED <<pc, conflicts>>
    BY <1>5, OperationStep DEF call
  <2>2. PICK u : OpResult(txn[d], u) /\ txn' = [txn EXCEPT ![d] = u]
    BY <1>5, OperationStep
  <2>3. txn'[d].iso = txn[d].iso /\ txn'[d].snap = txn[d].snap
    BY <1>0, <2>2, OpSnap
  <2>4. QED
    BY <1>0, <1>1, <2>1, <2>3
<1>6. CASE Begin(d)
  <2>1. /\ pc[d] = "idle" /\ UNCHANGED <<conflicts, seq>>
        /\ pc' = [pc EXCEPT ![d] = "running"]
        /\ \E iso \in Isolations : txn' = [txn EXCEPT ![d] = NewTxn(iso, seq)]
    BY <1>6 DEF Begin, execute_with_snapshot, execute_unisolated, transaction_context,
                blind_transaction_context, Execute, OpenContext, db
  <2>2. txn'[d] = NewTxn(TRUE, seq)
    BY <1>0, <2>1
  <2>3. txn'[d].iso = TRUE /\ txn'[d].snap = seq
    BY <2>2 DEF NewTxn
  <2>4. QED
    BY <1>0, <2>1, <2>3
<1>7. CASE NextAttempt(d)
  <2>1. /\ pc[d] = "backoff" /\ UNCHANGED <<conflicts, seq>>
        /\ pc' = [pc EXCEPT ![d] = "running"]
        /\ txn' = [txn EXCEPT ![d] = NewTxn(txn[d].iso, seq)]
    BY <1>7 DEF NextAttempt, db
  <2>2. txn'[d].iso = TRUE /\ txn'[d].snap = seq
    BY <1>0, <2>1 DEF NewTxn
  <2>3. QED
    BY <1>0, <2>1, <2>2
<1>8. CASE ClosureErr(d) \/ CommitOk(d) \/ rollback(d)
  <2>1. pc'[d] = "done" /\ conflicts' = conflicts
    BY <1>0, <1>8 DEF ClosureErr, CommitOk, rollback, Return
  <2>2. QED
    BY <1>0, <1>1, <2>1
<1>9. CASE CommitBusy(d) \/ CommitFault(d)
  <2>1. pc[d] = "running" /\ UNCHANGED seq
    BY <1>9 DEF CommitBusy, CommitFault, CommitErr, BuilderCommitErr, ContextCommitErr, db
  <2>2. \/ pc'[d] = "done"
        \/ pc'[d] = "backoff" /\ txn' = [txn EXCEPT ![d] = NewTxn(txn[d].iso, 0)]
    BY <1>0, <1>9 DEF CommitBusy, CommitFault, CommitErr, BuilderCommitErr, ContextCommitErr, Return
  <2>3. pc'[d] = "backoff" => txn'[d].iso = TRUE
    BY <1>0, <2>1, <2>2 DEF NewTxn
  <2>4. conflicts'[d] <= seq
    <3>1. CASE CommitBusy(d)
      <4>1. txn[d].snap < seq /\ txn[d].snap \in Nat
        BY <1>0, <2>1, <3>1, BusyIsBehind DEF CommitBusy, TxnSet
      <4>2. conflicts'[d] = conflicts[d] + 1
        BY <1>0, <3>1 DEF CommitBusy
      <4>3. QED
        BY <1>0, <2>1, <4>1, <4>2
    <3>2. CASE CommitFault(d)
      BY <1>0, <3>2 DEF CommitFault
    <3>3. QED
      BY <1>9, <3>1, <3>2
  <2>5. QED
    BY <2>1, <2>2, <2>3, <2>4
<1>10. QED
  BY <1>3, <1>4, <1>5, <1>6, <1>7, <1>8, <1>9 DEF Next, Finish

\* It holds throughout.
LEMMA PaidInvariant == Spec => []PaidInv
<1>1. Init => PaidInv
  BY DEF Init, PaidInv
<1>2. TypeOK /\ CurrentOrNewer /\ PaidInv /\ [Next]_vars => PaidInv'
  BY StepPaid
<1>3. QED
  BY <1>1, <1>2, TypeCorrect, ViewsCurrentOrNewer, PTL DEF Spec

\* Each refusal of a snapshot transaction is paid for by a commit of its own,
\* whatever the policies: retrying cannot livelock the store.
THEOREM ConflictsArePaidFor == Spec => []ConflictsPaidFor
<1>1. PaidInv => ConflictsPaidFor
  BY DEF PaidInv, ConflictsPaidFor
<1>2. QED
  BY <1>1, PaidInvariant, PTL

-----------------------------------------------------------------------------
(* The refinement of AtomicTxn, in a store used with snapshots only.        *)

\* The outcome of a client whose call is at p and returned r.
OutcomeOf(p, r) ==
  CASE p = "idle" -> "idle"
    [] p \in {"running", "backoff"} -> "open"
    [] p = "done" -> IF r = "ok" THEN "ok" ELSE "failed"

Intents == [c \in Clients |-> txn[c].intent]

Outcomes == [c \in Clients |-> OutcomeOf(pc[c], result[c])]

Nothing == [k \in Keys |-> NoEffect]

\* The abstract next-state relation in terms of the mapped variables.
AbstractNext ==
  \/ \E c \in Clients :
       \/ /\ Outcomes[c] = "idle" /\ Outcomes' = [Outcomes EXCEPT ![c] = "open"]
          /\ Intents' = [Intents EXCEPT ![c] = Nothing] /\ UNCHANGED value
       \/ /\ Outcomes[c] = "open" /\ Intents' = [Intents EXCEPT ![c] = Nothing]
          /\ UNCHANGED <<value, Outcomes>>
       \/ \E k \in Keys :
          /\ Outcomes[c] = "open"
          /\ Atomic!Asks(Intents[c][k], Intents'[c][k])
          /\ Intents' = [Intents EXCEPT ![c][k] = Intents'[c][k]]
          /\ UNCHANGED <<value, Outcomes>>
       \/ /\ Outcomes[c] = "open" /\ Outcomes' = [Outcomes EXCEPT ![c] = "ok"]
          /\ value' = [k \in Keys |-> Apply(Intents[c][k], value[k])]
          /\ Intents' = [Intents EXCEPT ![c] = Nothing]
       \/ /\ Outcomes[c] = "open" /\ Outcomes' = [Outcomes EXCEPT ![c] = "failed"]
          /\ Intents' = [Intents EXCEPT ![c] = Nothing] /\ UNCHANGED value
  \/ \E k \in Keys :
       /\ value'[k] \in Nat /\ value' = [value EXCEPT ![k] = value'[k]]
       /\ UNCHANGED <<Intents, Outcomes>>
  \/ UNCHANGED <<value, Intents, Outcomes>>

\* It is the one of AtomicTxn under the refinement mapping.
LEMMA MapsToAtomic == AbstractNext => [Atomic!Next]_(Atomic!vars)
<1> SUFFICES ASSUME AbstractNext PROVE [Atomic!Next]_(Atomic!vars)
  OBVIOUS
<1> USE DEF Outcomes, Intents, OutcomeOf
<1>0. Nothing = [k \in Keys |-> Atomic!NoEffect] /\ \A e, v : Atomic!Apply(e, v) = Apply(e, v)
  BY DEF Nothing, NoEffect, Apply, Atomic!NoEffect, Atomic!Apply
<1>1. ASSUME NEW c \in Clients, Outcomes[c] = "idle", Outcomes' = [Outcomes EXCEPT ![c] = "open"],
             Intents' = [Intents EXCEPT ![c] = Nothing], UNCHANGED value
      PROVE  Atomic!Start(c)
  BY <1>0, <1>1 DEF Atomic!Start
<1>2. ASSUME NEW c \in Clients, Outcomes[c] = "open", Intents' = [Intents EXCEPT ![c] = Nothing],
             UNCHANGED <<value, Outcomes>>
      PROVE  Atomic!Restart(c)
  BY <1>0, <1>2 DEF Atomic!Restart
<1>3. ASSUME NEW c \in Clients, NEW k \in Keys, Outcomes[c] = "open",
             Atomic!Asks(Intents[c][k], Intents'[c][k]),
             Intents' = [Intents EXCEPT ![c][k] = Intents'[c][k]], UNCHANGED <<value, Outcomes>>
      PROVE  Atomic!Request(c, k)
  BY <1>3 DEF Atomic!Request
<1>4. ASSUME NEW c \in Clients, Outcomes[c] = "open", Outcomes' = [Outcomes EXCEPT ![c] = "ok"],
             value' = [k \in Keys |-> Apply(Intents[c][k], value[k])],
             Intents' = [Intents EXCEPT ![c] = Nothing]
      PROVE  Atomic!Commit(c)
  BY <1>0, <1>4 DEF Atomic!Commit
<1>5. ASSUME NEW c \in Clients, Outcomes[c] = "open", Outcomes' = [Outcomes EXCEPT ![c] = "failed"],
             Intents' = [Intents EXCEPT ![c] = Nothing], UNCHANGED value
      PROVE  Atomic!Fail(c)
  BY <1>0, <1>5 DEF Atomic!Fail
<1>6. ASSUME NEW k \in Keys, value'[k] \in Nat, value' = [value EXCEPT ![k] = value'[k]],
             UNCHANGED <<Intents, Outcomes>>
      PROVE  Atomic!DirectWrite(k)
  BY <1>6 DEF Atomic!DirectWrite
<1>7. ASSUME UNCHANGED <<value, Intents, Outcomes>> PROVE UNCHANGED Atomic!vars
  BY <1>7 DEF Atomic!vars
<1> HIDE DEF Outcomes, Intents, OutcomeOf
<1>8. QED
  BY <1>1, <1>2, <1>3, <1>4, <1>5, <1>6, <1>7 DEF AbstractNext, Atomic!Next

\* From the effects i to the effects j by asking for one more increment or a
\* replacement of one key, or for nothing.
Asked(i, j) ==
  \/ j = i
  \/ \E k \in Keys, f \in Effects : /\ f.reset \/ f = [i[k] EXCEPT !.add = @ + 1]
                                    /\ j = [i EXCEPT ![k] = f]

\* That is what an operation does.
LEMMA OpAsks ==
  ASSUME NEW t \in TxnSet, NEW u, OpResult(t, u)
  PROVE  Asked(t.intent, u.intent)
<1>0. \A k \in Keys : t.intent[k] \in Effects /\ [t.intent[k] EXCEPT !.add = @ + 1] \in Effects
  BY ApplyInc DEF TxnSet
<1>1. ASSUME NEW k \in Keys, u = TxnPut(t, k) PROVE Asked(t.intent, u.intent)
  <2>1. CASE t.local[k] = NotRead
    <3>1. u.intent = [t.intent EXCEPT ![k] = [reset |-> TRUE, add |-> 1]]
      BY <1>1, <2>1 DEF TxnPut, Stage
    <3>2. [reset |-> TRUE, add |-> 1] \in Effects
      BY DEF Effects
    <3>3. QED
      BY <3>1, <3>2 DEF Asked
  <2>2. CASE t.local[k] # NotRead
    <3>1. u.intent = [t.intent EXCEPT ![k] = [t.intent[k] EXCEPT !.add = @ + 1]]
      BY <1>1, <2>2 DEF TxnPut, Stage
    <3>2. QED
      BY <1>0, <3>1 DEF Asked
  <2>3. QED
    BY <2>1, <2>2
<1>2. ASSUME NEW k \in Keys, u = TxnMerge(t, k) PROVE Asked(t.intent, u.intent)
  <2>1. u.intent = [t.intent EXCEPT ![k] = [t.intent[k] EXCEPT !.add = @ + 1]]
    BY <1>2 DEF TxnMerge, Stage
  <2>2. QED
    BY <1>0, <2>1 DEF Asked
<1>3. ASSUME NEW k \in Keys, u = TxnDelete(t, k) PROVE Asked(t.intent, u.intent)
  <2>1. u.intent = [t.intent EXCEPT ![k] = [reset |-> TRUE, add |-> 0]]
    BY <1>3 DEF TxnDelete, Stage
  <2>2. [reset |-> TRUE, add |-> 0] \in Effects
    BY DEF Effects
  <2>3. QED
    BY <2>1, <2>2 DEF Asked
<1>4. ASSUME NEW K, u = TxnGet(t, K) PROVE Asked(t.intent, u.intent)
  BY <1>4 DEF TxnGet, Asked
<1>5. QED
  BY <1>1, <1>2, <1>3, <1>4 DEF OpResult

\* An operation is a request, or a read that changes nothing.
LEMMA OperationMaps ==
  ASSUME TypeOK, NEW c \in Clients, Operation(c)
  PROVE  AbstractNext
<1>0. txn \in [Clients -> TxnSet] /\ txn[c] \in TxnSet
  BY DEF TypeOK
<1>1. PICK u : OpResult(txn[c], u) /\ txn' = [txn EXCEPT ![c] = u]
  BY OperationStep
<1>2. UNCHANGED <<value, Outcomes>> /\ Outcomes[c] = "open"
  <2>1. UNCHANGED <<value, pc, result>> /\ pc[c] = "running"
    BY OperationStep DEF db, call
  <2>2. QED
    BY <2>1 DEF Outcomes, OutcomeOf
<1>3. Intents' = [Intents EXCEPT ![c] = u.intent]
  BY <1>0, <1>1 DEF Intents
<1>4. Asked(txn[c].intent, u.intent)
  BY <1>0, <1>1, OpAsks
<1>5. CASE u.intent = txn[c].intent
  <2>1. UNCHANGED Intents
    BY <1>3, <1>5 DEF Intents
  <2>2. QED
    BY <1>2, <2>1 DEF AbstractNext
<1>6. ASSUME NEW k \in Keys, NEW f \in Effects,
             f.reset \/ f = [txn[c].intent[k] EXCEPT !.add = @ + 1],
             u.intent = [txn[c].intent EXCEPT ![k] = f]
      PROVE  AbstractNext
  <2>1. txn[c].intent \in [Keys -> Effects]
    BY <1>0 DEF TxnSet
  <2>2. Intents[c] = txn[c].intent /\ Intents'[c] = [txn[c].intent EXCEPT ![k] = f]
    BY <1>3, <1>6 DEF Intents
  <2>3. Intents'[c][k] = f
    BY <2>1, <2>2
  <2>4. Intents' = [Intents EXCEPT ![c][k] = f]
    BY <1>3, <1>6, <2>2 DEF Intents
  <2>5. Atomic!Asks(Intents[c][k], Intents'[c][k])
    BY <1>6, <2>2, <2>3 DEF Atomic!Asks, Atomic!Effects, Effects
  <2>6. QED
    BY <1>2, <2>3, <2>4, <2>5 DEF AbstractNext
<1>7. QED
  BY <1>4, <1>5, <1>6 DEF Asked

\* A transaction that is dropped, retried or new has nothing to ask for.
LEMMA NewIntents ==
  ASSUME TypeOK, NEW c \in Clients, NEW iso, NEW now, txn' = [txn EXCEPT ![c] = NewTxn(iso, now)]
  PROVE  Intents' = [Intents EXCEPT ![c] = Nothing]
<1>1. NewTxn(iso, now).intent = Nothing
  BY DEF NewTxn, Nothing
<1>2. QED
  BY <1>1 DEF TypeOK, Intents

\* Opening a transaction.
LEMMA BeginMaps ==
  ASSUME TypeOK, NEW c \in Clients, Begin(c)
  PROVE  AbstractNext
<1>1. /\ pc[c] = "idle" /\ UNCHANGED <<value, result>>
      /\ pc' = [pc EXCEPT ![c] = "running"]
      /\ \E iso : txn' = [txn EXCEPT ![c] = NewTxn(iso, seq)]
  BY DEF Begin, execute_with_snapshot, execute_unisolated, transaction_context,
         blind_transaction_context, Execute, OpenContext, db
<1>2. Outcomes[c] = "idle" /\ Outcomes' = [Outcomes EXCEPT ![c] = "open"]
  BY <1>1 DEF TypeOK, Outcomes, OutcomeOf
<1>3. Intents' = [Intents EXCEPT ![c] = Nothing]
  BY <1>1, NewIntents
<1>4. QED
  BY <1>1, <1>2, <1>3 DEF AbstractNext

\* A commit that is not refused does what was asked for, because all that the
\* transaction knows of the keys it writes is current.
LEMMA CommitMaps ==
  ASSUME TypeOK, CurrentOrNewer, NEW c \in Clients, txn[c].iso = TRUE, CommitOk(c)
  PROVE  value' = [k \in Keys |-> Apply(Intents[c][k], value[k])]
<1>1. ASSUME NEW k \in Keys PROVE Merged(txn[c].batch[k], value[k]) = Apply(Intents[c][k], value[k])
  <2>0. Intents[c][k] = txn[c].intent[k] /\ value[k] \in Nat
    BY DEF Intents, TypeOK
  <2>1. CASE txn[c].batch[k].op = "none"
    <3>1. txn[c].intent[k] = NoEffect
      BY <2>1 DEF CommitOk, CurrentOrNewer, Written
    <3>2. QED
      BY <2>0, <2>1, <3>1 DEF Merged, Apply, NoEffect
  <2>2. CASE txn[c].batch[k].op # "none"
    <3>1. txn[c].tracked[k] = txn[c].snap /\ (version[k] > txn[c].snap \/ Current(txn[c], k))
      BY <2>2 DEF CommitOk, CurrentOrNewer, Written
    <3>2. ~(version[k] > txn[c].tracked[k])
      BY <2>2 DEF CommitOk, Busy, Written
    <3>3. QED
      BY <2>0, <3>1, <3>2 DEF Current
  <2>3. QED
    BY <2>1, <2>2
<1>2. QED
  BY <1>1 DEF CommitOk

\* An attempt that ends without a retry.
LEMMA ReturnMaps ==
  ASSUME TypeOK, NEW c \in Clients, pc[c] = "running", NEW r, Return(c, r)
  PROVE  /\ Outcomes[c] = "open" /\ Intents' = [Intents EXCEPT ![c] = Nothing]
         /\ Outcomes' = [Outcomes EXCEPT ![c] = IF r = "ok" THEN "ok" ELSE "failed"]
<1>1. Intents' = [Intents EXCEPT ![c] = Nothing]
  BY NewIntents DEF Return, NoTxn
<1>2. Outcomes[c] = "open"
  BY DEF Outcomes, OutcomeOf
<1>3. Outcomes' = [Outcomes EXCEPT ![c] = IF r = "ok" THEN "ok" ELSE "failed"]
  BY DEF Return, TypeOK, Outcomes, OutcomeOf
<1>4. QED
  BY <1>1, <1>2, <1>3

\* However an attempt ends, it is a commit, a failure or a fresh start.
LEMMA FinishMaps ==
  ASSUME TypeOK, CurrentOrNewer, PaidInv, Isolations = {TRUE}, NEW c \in Clients, Finish(c)
  PROVE  AbstractNext
<1>1. CASE CommitOk(c)
  <2>1. pc[c] = "running" /\ Return(c, "ok") /\ txn[c].iso = TRUE
    BY <1>1 DEF CommitOk, PaidInv
  <2>2. value' = [k \in Keys |-> Apply(Intents[c][k], value[k])]
    BY <1>1, <2>1, CommitMaps
  <2>3. /\ Outcomes[c] = "open" /\ Intents' = [Intents EXCEPT ![c] = Nothing]
        /\ Outcomes' = [Outcomes EXCEPT ![c] = "ok"]
    BY <2>1, ReturnMaps
  <2>4. QED
    BY <2>2, <2>3 DEF AbstractNext
<1>2. ASSUME pc[c] = "running", NEW r, r # "ok", Return(c, r), UNCHANGED db PROVE AbstractNext
  <2>1. /\ Outcomes[c] = "open" /\ Intents' = [Intents EXCEPT ![c] = Nothing]
        /\ Outcomes' = [Outcomes EXCEPT ![c] = "failed"]
    BY <1>2, ReturnMaps
  <2>2. UNCHANGED value
    BY <1>2 DEF db
  <2>3. QED
    BY <2>1, <2>2 DEF AbstractNext
<1>3. ASSUME pc[c] \in {"running", "backoff"}, NEW p \in {"running", "backoff"},
             pc' = [pc EXCEPT ![c] = p], NEW iso, NEW now, txn' = [txn EXCEPT ![c] = NewTxn(iso, now)],
             UNCHANGED <<db, result>>
      PROVE  AbstractNext
  <2>1. Intents' = [Intents EXCEPT ![c] = Nothing]
    BY <1>3, NewIntents
  <2>2. Outcomes[c] = "open" /\ UNCHANGED Outcomes
    BY <1>3 DEF TypeOK, Outcomes, OutcomeOf
  <2>3. UNCHANGED value
    BY <1>3 DEF db
  <2>4. QED
    BY <2>1, <2>2, <2>3 DEF AbstractNext
<1>4. CASE NextAttempt(c)
  BY <1>3, <1>4 DEF NextAttempt
<1>5. CASE ClosureErr(c)
  BY <1>2, <1>5 DEF ClosureErr
<1>6. CASE rollback(c)
  BY <1>2, <1>6 DEF rollback
<1>7. CASE CommitErr(c)
  <2>1. CASE ContextCommitErr(c)
    BY <1>2, <2>1 DEF ContextCommitErr
  <2>2. CASE BuilderCommitErr(c) /\ should_retry(policy[c], attempt[c])
    BY <1>3, <2>2 DEF BuilderCommitErr
  <2>3. CASE BuilderCommitErr(c) /\ ~should_retry(policy[c], attempt[c])
    BY <1>2, <2>3 DEF BuilderCommitErr
  <2>4. QED
    BY <1>7, <2>1, <2>2, <2>3 DEF CommitErr
<1>8. QED
  BY <1>1, <1>4, <1>5, <1>6, <1>7 DEF Finish, CommitBusy, CommitFault

\* A write outside transactions changes one key.
LEMMA DirectWriteMaps ==
  ASSUME TypeOK, DirectWrite
  PROVE  AbstractNext
<1>1. PICK k \in Keys, e \in Entries : StoreWrite(k, e)
  BY DirectWriteStep
<1>2. Merged(e, value[k]) \in Nat
  BY MergedType DEF TypeOK
<1>3. value'[k] \in Nat /\ value' = [value EXCEPT ![k] = value'[k]]
  BY <1>1, <1>2 DEF TypeOK, StoreWrite
<1>4. UNCHANGED <<Intents, Outcomes>>
  BY <1>1 DEF StoreWrite, call, Intents, Outcomes
<1>5. QED
  BY <1>3, <1>4 DEF AbstractNext

\* Snapshot transactions are atomic read-modify-writes for every number of
\* clients, keys, operations and attempts: validating the written keys against
\* the snapshot is enough.
THEOREM SnapshotsAreAtomic ==
  ASSUME Isolations = {TRUE}
  PROVE  Spec => AtomicSpec
<1>1. Init => Atomic!Init
  BY DEF Init, Atomic!Init, NoTxn, NewTxn, NoEffect, Atomic!NoEffect
<1>2. TypeOK /\ CurrentOrNewer /\ PaidInv /\ [Next]_vars => [Atomic!Next]_(Atomic!vars)
  <2> SUFFICES ASSUME TypeOK, CurrentOrNewer, PaidInv, [Next]_vars PROVE AbstractNext
    BY MapsToAtomic
  <2>1. CASE UNCHANGED vars
    BY <2>1 DEF vars, AbstractNext, Intents, Outcomes
  <2>2. QED
    BY <2>1, BeginMaps, OperationMaps, FinishMaps, DirectWriteMaps DEF Next
<1>3. QED
  BY <1>1, <1>2, TypeCorrect, ViewsCurrentOrNewer, PaidInvariant, PTL DEF Spec, AtomicSpec, Atomic!Spec
=============================================================================

--------------------------- MODULE PessimisticTxn --------------------------
(* Pessimistic transactions: RocksDbCFTxnStore (tx/cf_tx_store.rs), its     *)
(* execute_transaction, the raw Tx of begin_transaction (tx/mod.rs), the    *)
(* TransactionContext (tx/context.rs) and writes on the store itself        *)
(* (tx/macros.rs).                                                          *)
(*                                                                          *)
(* RocksDB's TransactionDB is external: a write of a key first takes the    *)
(* key's exclusive lock and keeps it until the transaction ends; a caller   *)
(* waits for a lock held by somebody else, at most the lock timeout, with   *)
(* no deadlock detection (TransactionOptions::default()).  Reads take no    *)
(* lock and return the latest committed value, unless get_for_update is     *)
(* called on the transaction itself.                                        *)
EXTENDS TxnData

CONSTANTS Clients,      \* threads using the store
          Keys,         \* keys, each in one column family
          CfOf,         \* the column family of every key
          cf_names,     \* column families listed when the store was opened
          NoOne,        \* holder of a free lock
          MaxOps,       \* bound: operations in one transaction
          MaxWrites     \* bound: writes outside transactions

DefaultCf == "default"

ASSUME NoOneAssumption == NoOne \notin Clients
ASSUME BoundAssumption == MaxOps \in Nat /\ MaxWrites \in Nat

VARIABLES
  value,     \* committed value of every key
  lock,      \* holder of every key's lock
  pc,        \* per client: "idle", "running", "waiting", "done"
  via,       \* per client: "none", "execute", "context", "manual"
  want,      \* per client: the operation waiting for a lock
  txn,       \* per client: the rocksdb::Transaction and what the client knows
  result,    \* per client: what the call returned
  direct     \* writes outside transactions so far

vars == <<value, lock, pc, via, want, txn, result, direct>>

LockOps == {"put", "merge", "delete", "get_for_update"}

\* local, frozen and intent are the client's: the value it knows of a key,
\* whether it learnt it under the key's lock, and the effect it asked for.
TxnSet == [ ops : Nat, batch : [Keys -> Entries],
            local : [Keys -> Nat \cup {NotRead}], frozen : [Keys -> BOOLEAN],
            intent : [Keys -> Effects] ]

NewTxn ==
  [ ops |-> 0, batch |-> [k \in Keys |-> NoEntry],
    local |-> [k \in Keys |-> NotRead], frozen |-> [k \in Keys |-> FALSE],
    intent |-> [k \in Keys |-> NoEffect] ]

NoWant == [op |-> "none"]

Written(t) == {k \in Keys : t.batch[k].op # "none"}

\* A write: entry e, effect i, known value l, learnt under the lock or not.
Stage(t, k, e, i, l, f) ==
  [ ops |-> t.ops + 1, batch |-> [t.batch EXCEPT ![k] = e],
    local |-> [t.local EXCEPT ![k] = l], frozen |-> [t.frozen EXCEPT ![k] = f],
    intent |-> [t.intent EXCEPT ![k] = i] ]

\* One more than the known value, 1 if none is known.  Computed from a value
\* read under the lock it is an increment, otherwise it overwrites.
TxnPut(t, k) ==
  LET n == IF t.local[k] = NotRead THEN 1 ELSE t.local[k] + 1
  IN  Stage(t, k, [op |-> "put", n |-> n],
            IF t.frozen[k] THEN [t.intent[k] EXCEPT !.add = @ + 1]
            ELSE [reset |-> TRUE, add |-> n],
            n, TRUE)

TxnMerge(t, k) ==
  Stage(t, k, MergedEntry(t.batch[k]), [t.intent[k] EXCEPT !.add = @ + 1],
        IF t.local[k] = NotRead THEN NotRead ELSE t.local[k] + 1, t.frozen[k])

TxnDelete(t, k) ==
  Stage(t, k, [op |-> "delete", n |-> 0], [reset |-> TRUE, add |-> 0], 0, TRUE)

\* A read of the keys K, of which the transaction has the locks of L.  Own
\* writes are seen first, then the latest committed value.
TxnGet(t, K, L) ==
  [ ops |-> t.ops + 1, batch |-> t.batch,
    local |-> [k \in Keys |-> IF k \in K THEN Merged(t.batch[k], value[k]) ELSE t.local[k]],
    frozen |-> [k \in Keys |-> IF k \in K THEN k \in L ELSE t.frozen[k]],
    intent |-> t.intent ]

Perform(t, k, op) ==
  CASE op = "put" -> TxnPut(t, k)
    [] op = "merge" -> TxnMerge(t, k)
    [] op = "delete" -> TxnDelete(t, k)
    [] op = "get_for_update" -> TxnGet(t, {k}, {k})

-----------------------------------------------------------------------------
Init ==
  /\ value = [k \in Keys |-> 0]
  /\ lock = [k \in Keys |-> NoOne]
  /\ pc = [c \in Clients |-> "idle"]
  /\ via = [c \in Clients |-> "none"]
  /\ want = [c \in Clients |-> NoWant]
  /\ txn = [c \in Clients |-> NewTxn]
  /\ result = [c \in Clients |-> "none"]
  /\ direct = 0

\* begin_transaction, called by the user or by one of the wrappers.
Begin(c, how) ==
  /\ pc[c] = "idle"
  /\ pc' = [pc EXCEPT ![c] = "running"]
  /\ via' = [via EXCEPT ![c] = how]
  /\ UNCHANGED <<value, lock, want, txn, result, direct>>

begin_transaction(c) == Begin(c, "manual")

execute_transaction(c) == Begin(c, "execute")

transaction_context(c) == Begin(c, "context")

get_cf_handle(cf) == cf \in cf_names

\* The default column family needs no handle; others must have been opened.
Addressable(k) == CfOf[k] = DefaultCf \/ get_cf_handle(CfOf[k])

InTxn(c) == pc[c] = "running" /\ txn[c].ops < MaxOps

Free(c, k) == lock[k] \in {NoOne, c}

\* The lock is taken and the operation done, or the caller waits.
Acquire(c, k, op) ==
  /\ InTxn(c) /\ Addressable(k)
  /\ IF Free(c, k)
     THEN /\ lock' = [lock EXCEPT ![k] = c]
          /\ txn' = [txn EXCEPT ![c] = Perform(txn[c], k, op)]
          /\ UNCHANGED <<pc, want>>
     ELSE /\ pc' = [pc EXCEPT ![c] = "waiting"]
          /\ want' = [want EXCEPT ![c] = [op |-> op, key |-> k]]
          /\ UNCHANGED <<lock, txn>>
  /\ UNCHANGED <<value, via, result, direct>>

\* The lock was released in time.
Granted(c) ==
  /\ pc[c] = "waiting" /\ lock[want[c].key] = NoOne
  /\ lock' = [lock EXCEPT ![want[c].key] = c]
  /\ txn' = [txn EXCEPT ![c] = Perform(txn[c], want[c].key, want[c].op)]
  /\ pc' = [pc EXCEPT ![c] = "running"]
  /\ want' = [want EXCEPT ![c] = NoWant]
  /\ UNCHANGED <<value, via, result, direct>>

\* Mutant of TimedOut: the operation that gave up is left behind.
TimedOutStale(c) ==
  /\ pc[c] = "waiting"
  /\ pc' = [pc EXCEPT ![c] = "running"]
  /\ txn' = [txn EXCEPT ![c].ops = @ + 1]
  /\ UNCHANGED <<value, lock, via, want, result, direct>>

\* Mutant of TimedOut: the timeout is looked at only when the lock is free.
TimedOutLate(c) ==
  /\ pc[c] = "waiting" /\ lock[want[c].key] = NoOne
  /\ pc' = [pc EXCEPT ![c] = "running"]
  /\ want' = [want EXCEPT ![c] = NoWant]
  /\ txn' = [txn EXCEPT ![c].ops = @ + 1]
  /\ UNCHANGED <<value, lock, via, result, direct>>

\* The lock timeout: the operation returns an error and stages nothing.  The
\* transaction stays open and keeps its other locks.
TimedOut(c) ==
  /\ pc[c] = "waiting"
  /\ pc' = [pc EXCEPT ![c] = "running"]
  /\ want' = [want EXCEPT ![c] = NoWant]
  /\ txn' = [txn EXCEPT ![c].ops = @ + 1]
  /\ UNCHANGED <<value, lock, via, result, direct>>

\* A read without a lock.
Look(c, K) ==
  /\ InTxn(c)
  /\ \A k \in K : Addressable(k)
  /\ txn' = [txn EXCEPT ![c] = TxnGet(txn[c], K, {k \in K : lock[k] = c})]
  /\ UNCHANGED <<value, lock, pc, via, want, result, direct>>

(* Operations on a Transaction, through the store. *)
put_in_txn_cf(c, k) == via[c] # "context" /\ Acquire(c, k, "put")

merge_in_txn(c, k) == via[c] # "context" /\ Acquire(c, k, "merge")

delete_in_txn(c, k) == via[c] # "context" /\ Acquire(c, k, "delete")

get_in_txn(c, k) == via[c] # "context" /\ Look(c, {k})

(* The same through a TransactionContext, which is never completed here:    *)
(* commit and rollback consume it.                                          *)
ctx_put_cf(c, k) == via[c] = "context" /\ Acquire(c, k, "put")

ctx_merge_cf(c, k) == via[c] = "context" /\ Acquire(c, k, "merge")

ctx_delete_cf(c, k) == via[c] = "context" /\ Acquire(c, k, "delete")

ctx_get_cf(c, k) == via[c] = "context" /\ Look(c, {k})

ctx_set(c, k) == CfOf[k] = DefaultCf /\ ctx_put_cf(c, k)

ctx_merge(c, k) == CfOf[k] = DefaultCf /\ ctx_merge_cf(c, k)

ctx_delete(c, k) == CfOf[k] = DefaultCf /\ ctx_delete_cf(c, k)

ctx_get(c, k) == CfOf[k] = DefaultCf /\ ctx_get_cf(c, k)

ctx_iterate(c, cf) == via[c] = "context" /\ Look(c, {k \in Keys : CfOf[k] = cf})

\* Mutant of tx_mut: a plain get.
tx_mut_unlocked(c, k) ==
  /\ InTxn(c) /\ Addressable(k)
  /\ txn' = [txn EXCEPT ![c] = TxnGet(txn[c], {k}, {k})]
  /\ UNCHANGED <<value, lock, pc, via, want, result, direct>>

\* tx_mut() gives access to get_for_update.
tx_mut(c, k) == Acquire(c, k, "get_for_update")

-----------------------------------------------------------------------------
\* The end of a transaction: its locks are released and it is dropped.
End(c, r) ==
  /\ lock' = [k \in Keys |-> IF lock[k] = c THEN NoOne ELSE lock[k]]
  /\ pc' = [pc EXCEPT ![c] = "done"]
  /\ result' = [result EXCEPT ![c] = r]
  /\ txn' = [txn EXCEPT ![c] = NewTxn]
  /\ UNCHANGED <<via, want, direct>>

CommitOk(c) ==
  /\ pc[c] = "running"
  /\ value' = [k \in Keys |-> Merged(txn[c].batch[k], value[k])]
  /\ End(c, "ok")

\* Mutant of CommitErr: the error is dropped.
CommitErrDropped(c) ==
  /\ pc[c] = "running"
  /\ End(c, "ok")
  /\ UNCHANGED value

\* commit() returned an error; nothing was applied.
CommitErr(c) ==
  /\ pc[c] = "running"
  /\ End(c, "commit_err")
  /\ UNCHANGED value

\* Mutant of Rollback: the transaction object is forgotten, not ended.
RollbackForgotten(c) ==
  /\ pc[c] = "running"
  /\ pc' = [pc EXCEPT ![c] = "done"]
  /\ result' = [result EXCEPT ![c] = "rolled_back"]
  /\ txn' = [txn EXCEPT ![c] = NewTxn]
  /\ UNCHANGED <<value, lock, via, want, direct>>

\* The closure of execute_transaction returned an error, the context or the
\* Tx was rolled back or dropped.
Rollback(c) ==
  /\ pc[c] = "running"
  /\ End(c, "rolled_back")
  /\ UNCHANGED value

\* A write on the store is a transaction of its own: it waits for the lock.
StoreWrite(k, e) ==
  /\ Addressable(k) /\ direct < MaxWrites /\ lock[k] = NoOne
  /\ value' = [value EXCEPT ![k] = Merged(e, @)]
  /\ direct' = direct + 1
  /\ UNCHANGED <<lock, pc, via, want, txn, result>>

store_put(k) == StoreWrite(k, [op |-> "put", n |-> 1])

store_merge(k) == StoreWrite(k, [op |-> "merge", n |-> 1])

store_delete(k) == StoreWrite(k, [op |-> "delete", n |-> 0])

-----------------------------------------------------------------------------
Open(c) == begin_transaction(c) \/ execute_transaction(c) \/ transaction_context(c)

Operation(c) ==
  \/ \E k \in Keys :
       \/ put_in_txn_cf(c, k) \/ merge_in_txn(c, k) \/ delete_in_txn(c, k) \/ get_in_txn(c, k)
       \/ ctx_set(c, k) \/ ctx_merge(c, k) \/ ctx_delete(c, k) \/ ctx_get(c, k)
       \/ ctx_put_cf(c, k) \/ ctx_merge_cf(c, k) \/ ctx_delete_cf(c, k) \/ ctx_get_cf(c, k)
       \/ tx_mut(c, k)
  \/ \E cf \in {CfOf[k] : k \in Keys} : ctx_iterate(c, cf)

Finish(c) == CommitOk(c) \/ CommitErr(c) \/ Rollback(c)

DirectWrite == \E k \in Keys : store_put(k) \/ store_merge(k) \/ store_delete(k)

Next ==
  \/ \E c \in Clients : Open(c) \/ Operation(c) \/ Granted(c) \/ TimedOut(c) \/ Finish(c)
  \/ DirectWrite

Spec == Init /\ [][Next]_vars

\* The lock timeout fires, and a closure or a context that is not blocked ends.
FairSpec ==
  Spec /\ \A c \in Clients : WF_vars(TimedOut(c)) /\ WF_vars(Finish(c))

-----------------------------------------------------------------------------
Results == {"none", "ok", "commit_err", "rolled_back"}

\* Every variable has its type; an operation is pending exactly while its
\* caller waits for a lock.
TypeOK ==
  /\ value \in [Keys -> Nat]
  /\ lock \in [Keys -> Clients \cup {NoOne}]
  /\ pc \in [Clients -> {"idle", "running", "waiting", "done"}]
  /\ via \in [Clients -> {"none", "execute", "context", "manual"}]
  /\ want \in [Clients -> {NoWant} \cup [op : LockOps, key : Keys]]
  /\ \A c \in Clients : pc[c] = "waiting" <=> want[c] # NoWant
  /\ txn \in [Clients -> TxnSet]
  /\ result \in [Clients -> Results]
  /\ direct \in Nat

\* Exactly the open transactions hold locks, on every key they have written or
\* read for update: an ended transaction, however it ended, blocks nobody, and
\* no open one has lost the lock of a key it is about to commit.
LocksMatchTransactions ==
  /\ \A k \in Keys : lock[k] # NoOne => pc[lock[k]] \in {"running", "waiting"}
  /\ \A c \in Clients : \A k \in Written(txn[c]) : lock[k] = c
  /\ \A c \in Clients : pc[c] = "waiting" => lock[want[c].key] # c

\* What a transaction learnt of a key with get_for_update, or with a plain get
\* once it had the lock, stays true until it ends: the lock, not the read, is
\* what freezes the key.  And whatever it knows, its batch does what it asked.
KnownIsLocked ==
  \A c \in Clients, k \in Keys :
    /\ txn[c].frozen[k] =>
         lock[k] = c /\ txn[c].local[k] = Apply(txn[c].intent[k], value[k])
    /\ Merged(txn[c].batch[k], value[k]) = Apply(txn[c].intent[k], value[k])

\* The store's values, what each client asked for so far and what became of it.
Atomic == INSTANCE AtomicTxn WITH
  data <- value,
  intent <- [c \in Clients |-> txn[c].intent],
  outcome <- [c \in Clients |->
    CASE pc[c] = "idle" -> "idle"
      [] pc[c] \in {"running", "waiting"} -> "open"
      [] pc[c] = "done" -> IF result[c] = "ok" THEN "ok" ELSE "failed"]

\* Pessimistic transactions are atomic: the store changes by the whole effect
\* of one that returns Ok, and what it computed from values read under its
\* locks is a read-modify-write of the current ones.  There is no conflict
\* check, the locks alone do it.
AtomicSpec == Atomic!Spec

\* Every transaction ends, also when two of them wait for each other's locks:
\* the lock timeout is the only thing that resolves such a deadlock.
Returns == \A c \in Clients : pc[c] \in {"running", "waiting"} ~> pc[c] = "done"
=============================================================================

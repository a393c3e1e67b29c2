--------------------------- MODULE OptimisticTxn ---------------------------
(* Optimistic transactions: the retrying builder (tx/optimistic.rs with     *)
(* tx/policies.rs), the manual OptimisticTransactionContext                 *)
(* (tx/optimistic_context.rs) and the store they run on                     *)
(* (tx/cf_optimistic_tx_store.rs, tx/macros.rs).  Every client makes one    *)
(* call of the builder or opens one context; writes outside transactions    *)
(* go on concurrently.                                                      *)
(*                                                                          *)
(* RocksDB's OptimisticTransactionDB is external.  Its transaction is the   *)
(* record txn[c]: a write batch, and for every written key the sequence     *)
(* number the commit validates against (the snapshot's, or, without a       *)
(* snapshot, the one current at the first write).  A read goes to the batch *)
(* first and then to the LATEST committed value; it is not tracked.         *)
(*                                                                          *)
(* put writes one more than the value the client knows of (1 if it knows    *)
(* none), merge adds one, delete makes it 0.  Which column family a key     *)
(* lives in is CfOf[key].                                                   *)
EXTENDS TxnData

CONSTANTS Clients,      \* threads using the store
          Keys,         \* keys, each in one column family
          CfOf,         \* the column family of every key
          cf_names,     \* column families listed when the store was opened
          Isolations,   \* set_snapshot flags the clients use, a subset of BOOLEAN
          Policies,     \* retry policies the clients use
          MaxOps,       \* bound: operations in one attempt
          MaxSeq        \* bound: direct writes stop at this sequence number

DefaultCf == "default"

PolicySet == [kind : {"FixedRetry", "NoRetry"}, max_attempts : Nat]

ASSUME IsolationAssumption == Isolations \subseteq BOOLEAN
ASSUME PolicyAssumption == Policies \subseteq PolicySet
ASSUME BoundAssumption == MaxOps \in Nat /\ MaxSeq \in Nat

VARIABLES
  seq,        \* RocksDB's latest sequence number
  value,      \* committed value of every key
  version,    \* sequence number of the last committed write of every key
  pc,         \* per client: "idle", "running", "backoff", "done"
  via,        \* per client: "none", "builder", "context"
  policy,     \* per client: the builder's retry policy
  attempt,    \* per client: i + 1 of the builder's loop
  txn,        \* per client: the rocksdb::Transaction
  result,     \* per client: what the call returned
  conflicts   \* per client: attempts whose commit was refused as Busy

vars == <<seq, value, version, pc, via, policy, attempt, txn, result, conflicts>>

(* local, readVer, base and intent are not RocksDB's: local is the value    *)
(* the closure knows, readVer the version of its last read of the database, *)
(* base the version a key had at its first write, and intent the effect the *)
(* client asked for.                                                        *)
TxnSet == [ iso : BOOLEAN, snap : Nat, ops : Nat,
            batch : [Keys -> Entries], tracked : [Keys -> Nat],
            local : [Keys -> Nat \cup {NotRead}],
            readVer : [Keys -> Nat \cup {NotRead}],
            base : [Keys -> Nat], intent : [Keys -> Effects] ]

-----------------------------------------------------------------------------
(* The transaction object. *)

\* transaction_opt: the snapshot, if asked for, is the database as it is now.
NewTxn(iso, now) ==
  [ iso |-> iso, snap |-> IF iso THEN now ELSE 0, ops |-> 0,
    batch |-> [k \in Keys |-> NoEntry], tracked |-> [k \in Keys |-> 0],
    local |-> [k \in Keys |-> NotRead], readVer |-> [k \in Keys |-> NotRead],
    base |-> [k \in Keys |-> 0], intent |-> [k \in Keys |-> NoEffect] ]

NoTxn == NewTxn(FALSE, 0)

Written(t) == {k \in Keys : t.batch[k].op # "none"}

\* Mutant of Track: set_snapshot(false), so that the first write decides.
TrackUnsnapped(t, k) == IF k \in Written(t) THEN t.tracked[k] ELSE seq

\* Mutant of Track: every write of a key tracks it anew.
TrackAgain(t, k) == IF t.iso THEN t.snap ELSE seq

\* The sequence number a write of k is validated against; the first one stays.
Track(t, k) ==
  IF k \in Written(t) THEN t.tracked[k]
  ELSE IF t.iso THEN t.snap ELSE seq

\* A write: entry e, effect i, known value l for k.
Stage(t, k, e, i, l) ==
  [ iso |-> t.iso, snap |-> t.snap, ops |-> t.ops + 1,
    batch |-> [t.batch EXCEPT ![k] = e],
    tracked |-> [t.tracked EXCEPT ![k] = Track(t, k)],
    local |-> [t.local EXCEPT ![k] = l], readVer |-> t.readVer,
    base |-> [t.base EXCEPT ![k] = IF k \in Written(t) THEN @ ELSE version[k]],
    intent |-> [t.intent EXCEPT ![k] = i] ]

TxnPut(t, k) ==
  IF t.local[k] = NotRead
  THEN Stage(t, k, [op |-> "put", n |-> 1], [reset |-> TRUE, add |-> 1], 1)
  ELSE Stage(t, k, [op |-> "put", n |-> t.local[k] + 1],
             [t.intent[k] EXCEPT !.add = @ + 1], t.local[k] + 1)

TxnMerge(t, k) ==
  Stage(t, k, MergedEntry(t.batch[k]), [t.intent[k] EXCEPT !.add = @ + 1],
        IF t.local[k] = NotRead THEN NotRead ELSE t.local[k] + 1)

TxnDelete(t, k) ==
  Stage(t, k, [op |-> "delete", n |-> 0], [reset |-> TRUE, add |-> 0], 0)

\* A read of the keys K, all of them at the same moment.
TxnGet(t, K) ==
  [ iso |-> t.iso, snap |-> t.snap, ops |-> t.ops + 1,
    batch |-> t.batch, tracked |-> t.tracked,
    local |-> [k \in Keys |-> IF k \in K THEN Merged(t.batch[k], value[k]) ELSE t.local[k]],
    readVer |-> [k \in Keys |->
      IF k \in K /\ t.batch[k].op \in {"none", "merge"} THEN version[k] ELSE t.readVer[k]],
    base |-> t.base, intent |-> t.intent ]

\* Commit-time validation: a written key has a newer version than tracked.
Busy(t) == \E k \in Written(t) : version[k] > t.tracked[k]

-----------------------------------------------------------------------------
Init ==
  /\ seq = 0
  /\ value = [k \in Keys |-> 0]
  /\ version = [k \in Keys |-> 0]
  /\ pc = [c \in Clients |-> "idle"]
  /\ via = [c \in Clients |-> "none"]
  /\ policy = [c \in Clients |-> [kind |-> "NoRetry", max_attempts |-> 0]]
  /\ attempt = [c \in Clients |-> 0]
  /\ txn = [c \in Clients |-> NoTxn]
  /\ result = [c \in Clients |-> "none"]
  /\ conflicts = [c \in Clients |-> 0]

db == <<seq, value, version>>
call == <<pc, via, policy, attempt, result, conflicts>>

(* The builder: a call begins its first attempt. *)
Execute(c, iso, p) ==
  /\ pc[c] = "idle" /\ iso \in Isolations
  /\ pc' = [pc EXCEPT ![c] = "running"]
  /\ via' = [via EXCEPT ![c] = "builder"]
  /\ policy' = [policy EXCEPT ![c] = p]
  /\ attempt' = [attempt EXCEPT ![c] = 1]
  /\ txn' = [txn EXCEPT ![c] = NewTxn(iso, seq)]
  /\ UNCHANGED <<db, result, conflicts>>

execute_with_snapshot(c, p) == Execute(c, TRUE, p)

execute_unisolated(c, p) == Execute(c, FALSE, p)

(* A manual context. *)
OpenContext(c, with_snapshot) ==
  /\ pc[c] = "idle" /\ with_snapshot \in Isolations
  /\ pc' = [pc EXCEPT ![c] = "running"]
  /\ via' = [via EXCEPT ![c] = "context"]
  /\ attempt' = [attempt EXCEPT ![c] = 1]
  /\ txn' = [txn EXCEPT ![c] = NewTxn(with_snapshot, seq)]
  /\ UNCHANGED <<db, policy, result, conflicts>>

transaction_context(c) == OpenContext(c, TRUE)

blind_transaction_context(c) == OpenContext(c, FALSE)

(* Operations of the closure or of the context's user.  Named column        *)
(* families need a handle: one that was not opened is refused with          *)
(* UnknownCf and nothing is staged.                                         *)
get_cf_handle(cf) == cf \in cf_names

InTxn(c) == pc[c] = "running" /\ txn[c].ops < MaxOps

DefaultKey(k) == CfOf[k] = DefaultCf

set(c, k) ==
  /\ InTxn(c) /\ DefaultKey(k)
  /\ txn' = [txn EXCEPT ![c] = TxnPut(txn[c], k)]
  /\ UNCHANGED <<db, call>>

merge(c, k) ==
  /\ InTxn(c) /\ DefaultKey(k)
  /\ txn' = [txn EXCEPT ![c] = TxnMerge(txn[c], k)]
  /\ UNCHANGED <<db, call>>

delete(c, k) ==
  /\ InTxn(c) /\ DefaultKey(k)
  /\ txn' = [txn EXCEPT ![c] = TxnDelete(txn[c], k)]
  /\ UNCHANGED <<db, call>>

get(c, k) ==
  /\ InTxn(c) /\ DefaultKey(k)
  /\ txn' = [txn EXCEPT ![c] = TxnGet(txn[c], {k})]
  /\ UNCHANGED <<db, call>>

put_cf(c, k) ==
  /\ InTxn(c) /\ get_cf_handle(CfOf[k])
  /\ txn' = [txn EXCEPT ![c] = TxnPut(txn[c], k)]
  /\ UNCHANGED <<db, call>>

merge_cf(c, k) ==
  /\ InTxn(c) /\ get_cf_handle(CfOf[k])
  /\ txn' = [txn EXCEPT ![c] = TxnMerge(txn[c], k)]
  /\ UNCHANGED <<db, call>>

delete_cf(c, k) ==
  /\ InTxn(c) /\ get_cf_handle(CfOf[k])
  /\ txn' = [txn EXCEPT ![c] = TxnDelete(txn[c], k)]
  /\ UNCHANGED <<db, call>>

get_cf(c, k) ==
  /\ InTxn(c) /\ get_cf_handle(CfOf[k])
  /\ txn' = [txn EXCEPT ![c] = TxnGet(txn[c], {k})]
  /\ UNCHANGED <<db, call>>

\* An iteration reads the keys of one column family from one iterator.
iterate(c, cf) ==
  /\ InTxn(c) /\ (cf = DefaultCf \/ get_cf_handle(cf))
  /\ txn' = [txn EXCEPT ![c] = TxnGet(txn[c], {k \in Keys : CfOf[k] = cf})]
  /\ UNCHANGED <<db, call>>

-----------------------------------------------------------------------------
(* How an attempt ends.  In every case the transaction object is dropped.   *)

Return(c, r) ==
  /\ pc' = [pc EXCEPT ![c] = "done"]
  /\ result' = [result EXCEPT ![c] = r]
  /\ txn' = [txn EXCEPT ![c] = NoTxn]

\* The closure returned Err: no retry, rolled back when the txn is dropped.
ClosureErr(c) ==
  /\ pc[c] = "running" /\ via[c] = "builder"
  /\ Return(c, "closure_err")
  /\ UNCHANGED <<db, via, policy, attempt, conflicts>>

\* Mutant of CommitOk: the batch is written without a number of its own.
CommitOkUnnumbered(c) ==
  /\ pc[c] = "running" /\ ~Busy(txn[c])
  /\ value' = [k \in Keys |-> Merged(txn[c].batch[k], value[k])]
  /\ version' = [k \in Keys |-> IF k \in Written(txn[c]) THEN seq + 1 ELSE version[k]]
  /\ Return(c, "ok")
  /\ UNCHANGED <<seq, via, policy, attempt, conflicts>>

\* commit() of a valid transaction applies the whole batch at a new number.
CommitOk(c) ==
  /\ pc[c] = "running" /\ ~Busy(txn[c])
  /\ seq' = IF Written(txn[c]) = {} THEN seq ELSE seq + 1
  /\ value' = [k \in Keys |-> Merged(txn[c].batch[k], value[k])]
  /\ version' = [k \in Keys |-> IF k \in Written(txn[c]) THEN seq + 1 ELSE version[k]]
  /\ Return(c, "ok")
  /\ UNCHANGED <<via, policy, attempt, conflicts>>

\* Mutant of should_retry: one attempt too many.
should_retry_once_more(p, n) == p.kind = "FixedRetry" /\ n <= p.max_attempts

\* FixedRetry gives up at max_attempts, NoRetry at once; a commit error is
\* always StoreError::RocksDb.
should_retry(p, n) == p.kind = "FixedRetry" /\ n < p.max_attempts

\* Mutant of BuilderCommitErr: the error of the last attempt is dropped.
BuilderCommitErrDropped(c) ==
  /\ pc[c] = "running" /\ via[c] = "builder"
  /\ IF should_retry(policy[c], attempt[c])
     THEN /\ pc' = [pc EXCEPT ![c] = "backoff"]
          /\ txn' = [txn EXCEPT ![c] = NewTxn(txn[c].iso, 0)]
          /\ UNCHANGED result
     ELSE Return(c, "ok")
  /\ UNCHANGED <<db, via, policy, attempt>>

\* Err of a builder's commit: the policy sleeps, or its error is returned.
BuilderCommitErr(c) ==
  /\ pc[c] = "running" /\ via[c] = "builder"
  /\ IF should_retry(policy[c], attempt[c])
     THEN /\ pc' = [pc EXCEPT ![c] = "backoff"]
          /\ txn' = [txn EXCEPT ![c] = NewTxn(txn[c].iso, 0)]
          /\ UNCHANGED result
     ELSE Return(c, "gave_up")
  /\ UNCHANGED <<db, via, policy, attempt>>

\* Err of a context's commit is returned as it is.
ContextCommitErr(c) ==
  /\ pc[c] = "running" /\ via[c] = "context"
  /\ Return(c, "commit_err")
  /\ UNCHANGED <<db, via, policy, attempt>>

CommitErr(c) == BuilderCommitErr(c) \/ ContextCommitErr(c)

CommitBusy(c) ==
  /\ Busy(txn[c])
  /\ CommitErr(c)
  /\ conflicts' = [conflicts EXCEPT ![c] = @ + 1]

\* Any other error of commit(): TryAgain, I/O.  Nothing is applied.
CommitFault(c) ==
  /\ CommitErr(c)
  /\ UNCHANGED conflicts

\* Mutant of NextAttempt: the transaction is made once, before the loop.
NextAttemptSameTxn(c) ==
  /\ pc[c] = "backoff"
  /\ pc' = [pc EXCEPT ![c] = "running"]
  /\ attempt' = [attempt EXCEPT ![c] = @ + 1]
  /\ UNCHANGED <<db, via, policy, txn, result, conflicts>>

\* Mutant of NextAttempt: the attempts are not counted.
NextAttemptUncounted(c) ==
  /\ pc[c] = "backoff"
  /\ pc' = [pc EXCEPT ![c] = "running"]
  /\ txn' = [txn EXCEPT ![c] = NewTxn(txn[c].iso, seq)]
  /\ UNCHANGED <<db, via, policy, attempt, result, conflicts>>

\* The next round of the loop, with a new transaction.
NextAttempt(c) ==
  /\ pc[c] = "backoff"
  /\ pc' = [pc EXCEPT ![c] = "running"]
  /\ attempt' = [attempt EXCEPT ![c] = @ + 1]
  /\ txn' = [txn EXCEPT ![c] = NewTxn(txn[c].iso, seq)]
  /\ UNCHANGED <<db, via, policy, result, conflicts>>

\* rollback() of a context, or its Drop when neither was called.
rollback(c) ==
  /\ pc[c] = "running" /\ via[c] = "context"
  /\ Return(c, "rolled_back")
  /\ UNCHANGED <<db, via, policy, attempt, conflicts>>
-----------------------------------------------------------------------------
(* Writes on the store itself, outside any transaction. *)
StoreWrite(k, e) ==
  /\ DefaultKey(k) \/ get_cf_handle(CfOf[k])
  /\ seq < MaxSeq
  /\ seq' = seq + 1
  /\ value' = [value EXCEPT ![k] = Merged(e, @)]
  /\ version' = [version EXCEPT ![k] = seq + 1]
  /\ UNCHANGED <<call, txn>>

store_put(k) == StoreWrite(k, [op |-> "put", n |-> 1])

store_merge(k) == StoreWrite(k, [op |-> "merge", n |-> 1])

store_delete(k) == StoreWrite(k, [op |-> "delete", n |-> 0])

-----------------------------------------------------------------------------
Begin(c) ==
  \/ \E p \in Policies : execute_with_snapshot(c, p) \/ execute_unisolated(c, p)
  \/ transaction_context(c) \/ blind_transaction_context(c)

Operation(c) ==
  \/ \E k \in Keys : \/ set(c, k) \/ merge(c, k) \/ delete(c, k) \/ get(c, k)
                     \/ put_cf(c, k) \/ merge_cf(c, k) \/ delete_cf(c, k) \/ get_cf(c, k)
  \/ \E cf \in {CfOf[k] : k \in Keys} : iterate(c, cf)

Finish(c) ==
  \/ ClosureErr(c) \/ CommitOk(c) \/ CommitBusy(c) \/ CommitFault(c)
  \/ NextAttempt(c) \/ rollback(c)

DirectWrite == \E k \in Keys : store_put(k) \/ store_merge(k) \/ store_delete(k)

Next ==
  \/ \E c \in Clients : Begin(c) \/ Operation(c) \/ Finish(c)
  \/ DirectWrite

Spec == Init /\ [][Next]_vars

\* A closure that was called returns, a context goes out of scope, and the
\* builder's loop then runs on: nothing in it waits for another thread.
FairSpec == Spec /\ \A c \in Clients : WF_vars(Finish(c))

-----------------------------------------------------------------------------
Results == {"none", "ok", "closure_err", "gave_up", "commit_err", "rolled_back"}

\* Every variable has its type; no key has a version newer than the
\* database's latest sequence number.
TypeOK ==
  /\ seq \in Nat
  /\ value \in [Keys -> Nat]
  /\ version \in [Keys -> 0..seq]
  /\ pc \in [Clients -> {"idle", "running", "backoff", "done"}]
  /\ via \in [Clients -> {"none", "builder", "context"}]
  /\ policy \in [Clients -> PolicySet]
  /\ attempt \in [Clients -> Nat]
  /\ txn \in [Clients -> TxnSet]
  /\ result \in [Clients -> Results]
  /\ conflicts \in [Clients -> Nat]

\* The step in which c's commit is acknowledged.
Commits(c) == result[c] # "ok" /\ result'[c] = "ok"

\* A snapshot transaction that read a key from the database and then writes it
\* commits only if the version it read is still the latest: the read-modify-
\* write cycle the builder exists for loses no update (execute_with_snapshot).
NoLostUpdate ==
  [][\A c \in Clients : Commits(c) /\ txn[c].iso =>
       \A k \in Written(txn[c]) :
         txn[c].readVer[k] # NotRead => txn[c].readVer[k] = version[k]]_vars

\* With or without a snapshot, a key the transaction writes has not been
\* written by anybody else between its first write there and the commit, as
\* blind_transaction_context documents ("will still fail if another
\* transaction writes to the same keys").
WritesProtected ==
  [][\A c \in Clients : Commits(c) =>
       \A k \in Written(txn[c]) : txn[c].base[k] = version[k]]_vars

\* What a snapshot transaction knows of the key k is true of the database now:
\* the version it read, the value it holds, and what its batch entry would do.
Current(t, k) ==
  /\ t.readVer[k] # NotRead => t.readVer[k] = version[k]
  /\ t.local[k] # NotRead => t.local[k] = Apply(t.intent[k], value[k])
  /\ Merged(t.batch[k], value[k]) = Apply(t.intent[k], value[k])

\* A live snapshot transaction's view of a key is current, or the key has a
\* version newer than the snapshot, which is what the commit validates written
\* keys against.  This is why validating writes alone protects the keys that
\* are read and then written.
CurrentOrNewer ==
  \A c \in Clients : pc[c] = "running" /\ txn[c].iso =>
    /\ txn[c].snap <= seq
    /\ \A k \in Keys :
         /\ k \in Written(txn[c]) => txn[c].tracked[k] = txn[c].snap
         /\ k \notin Written(txn[c]) => txn[c].intent[k] = NoEffect
         /\ version[k] > txn[c].snap \/ Current(txn[c], k)

\* The builder's conflicts are paid for: each attempt of a snapshot
\* transaction refused as Busy had its own successful commit of somebody else,
\* so retrying cannot livelock the system as a whole.
ConflictsPaidFor ==
  Isolations = {TRUE} => \A c \in Clients : conflicts[c] <= seq

\* The attempts a policy allows: at least one.
Allowed(p) == IF p.kind = "FixedRetry" /\ p.max_attempts > 1 THEN p.max_attempts ELSE 1

\* A call that gave up made exactly the attempts its policy allows, and at
\* least one; one that succeeded or failed otherwise made no more than that.
RetryBudget ==
  \A c \in Clients : via[c] = "builder" =>
    /\ attempt[c] <= Allowed(policy[c])
    /\ result[c] = "gave_up" => attempt[c] = Allowed(policy[c])
    /\ conflicts[c] <= attempt[c]

\* The store's values, what each client asked for so far and what became of it.
Atomic == INSTANCE AtomicTxn WITH
  data <- value,
  intent <- [c \in Clients |-> txn[c].intent],
  outcome <- [c \in Clients |->
    CASE pc[c] = "idle" -> "idle"
      [] pc[c] \in {"running", "backoff"} -> "open"
      [] pc[c] = "done" -> IF result[c] = "ok" THEN "ok" ELSE "failed"]

\* Snapshot transactions (execute_with_snapshot, transaction_context) implement
\* atomic read-modify-write: whatever they read, retried or lost to a conflict,
\* the store only ever changes by the whole effect of a call that returns Ok,
\* applied to the current values.
AtomicSpec == Atomic!Spec

\* A call of the builder returns and a context ends, whatever the others do:
\* the retries are bounded.
Returns == \A c \in Clients : pc[c] = "running" ~> pc[c] = "done"

-----------------------------------------------------------------------------
(* What the documentation says and the code does not do. *)

\* cf_optimistic_tx_store.rs on transaction_context: the transaction fails to
\* commit if any key read has been modified by another committed transaction.
ReadSetValidated ==
  [][\A c \in Clients : Commits(c) /\ txn[c].iso =>
       \A k \in Keys :
         txn[c].readVer[k] # NotRead => txn[c].readVer[k] = version[k]]_vars
=============================================================================

# A verification project for rocksolid

rocksolid is a Rust library around RocksDB: stores with column families (CFs),
optimistic and pessimistic transactions, batches, iteration, merge and
compaction-filter routers, tuning profiles and a few utilities. It has no
threads of its own. Its concurrency comes from the application's threads, which
share a store, from RocksDB's compaction threads, which call back into the
routers, and from failures of RocksDB calls between two steps of a Rust
function.

This directory holds TLA+ modules of the parts that carry state, TLC
configurations that check them on small instances, and TLAPS proofs. Paths
below are relative to the crate (`src/...`). RocksDB itself, `matchit`, the
radix trie and `parking_lot` are external: modelled as the code uses them, and marked so.

## Inventory

| Component | State it keeps | Operations | What is hard | What makes it correct |
|---|---|---|---|---|
| Optimistic builder and retry policies (`tx/optimistic.rs`, `tx/policies.rs`) | attempt number, a fresh transaction per attempt | `execute_with_snapshot`, `execute_unisolated`, `should_retry` | overlapping read-modify-writes, retries, commits that fail for other reasons | no lost update; an exact number of attempts; an answer in the end; all or nothing |
| Optimistic context (`tx/optimistic_context.rs`) | a native transaction in `ManuallyDrop`, `completed` | set/merge/delete/get (default CF), `*_cf`, iterate, commit, rollback, Drop | reads are not tracked; Drop after a failed commit | as above; the native object is ended exactly once |
| Optimistic CF store (`tx/cf_optimistic_tx_store.rs`) | database, CF names | open, contexts, builder, CFOperations | writes outside transactions | contexts and direct writes conflict as promised |
| Pessimistic CF store (`tx/cf_tx_store.rs`, `tx/mod.rs`) | database, CF names; RocksDB's locks | `begin_transaction`, `execute_transaction`, `*_in_txn` | lock waits, timeouts, deadlock, plain gets without locks | locks match open transactions; what was read for update stays true |
| Pessimistic context (`tx/context.rs`) | as the optimistic one | as above | commit fails before `completed` is set | the native object is ended exactly once |
| CFOperations of the transactional stores (`tx/macros.rs`) | none | get, multiget, put, merge, delete, iterate, find | errors of one key in a multiget; an unlisted default CF | None means absent; every CF can be reached |
| BatchWriter (`batch.rs`) | a WriteBatch in `ManuallyDrop`, a flag | set, merge, delete, `delete_range`, commit, discard, Drop | abandoned batches | all or nothing; the batch is freed |
| Iteration (`iter/`) | items kept, the raw iterator | `execute`, `next`, `find_*` | writers during a scan; prefix, start, direction and comparator together; not fused; errors of the deserializer in the middle | one snapshot, in order, nothing missed |
| Merge routers (`merge.rs`, `config.rs`) | two static routers, each with a lock | `add_*route`, `build`, router functions | compaction at any time, two locks, late routes, handlers that run under a lock, handlers that must read what they or their partner wrote | compaction takes nothing from a value; nobody waits for ever |
| Compaction filter routers (`compaction_filter/`) | a static router, a static trie, each with a lock | `add_route`, `add_prefix_route`, `build`, filter functions | registrations, refreshes and the clock move during a compaction; shared by all CFs | only routed keys change; live values stay |
| Values with expiry (`types.rs`) | - | header encoding | values without or too short for a header | live values are not taken for expired |
| Migration and backup (`utils/mod.rs`) | two databases | `migrate_db`, `backup_db` | failure half-way, repetition, compactions whose filters drop or rewrite values | Ok means copied; a failed call leaves nothing foreign |
| CF store (`cf_store.rs`), default-CF stores (`store.rs`, `tx/tx_store.rs`, `tx/optimistic_tx_store.rs`) | database, CF names | open, destroy, get, multiget, writes | one database used by different stores and configurations in turn; values read in another form; operands without an operator | None means absent; one answer per key; destroy leaves nothing |
| Configuration and tuner (`config.rs`, `tx/internal.rs`, `tuner/`) | options and locked option names | conversion, `set_*`, `tune_*`, profiles | hard settings, profiles, callbacks and operators write the same options, in two copies of the code | it is known which layer has the last word on each option, and where the documentation is wrong about it; the copies agree |
| Base62 (`utils/base62.rs`) | none | encode, decode | overflow | not modelled, see below |
| DAO macros (`macros.rs`) | none | one call of a store each; the multiget macros zip and filter | results and keys are two lists | each key has its own record |
| Serialization, errors | none | - | - | modelled by what a value of another form reads as |

Interactions: contexts, the builder and the direct operations meet in RocksDB's
committed state (and, in a `TransactionDB`, in its lock table). Merge and filter
routers are process-wide and are consulted from compaction threads. `iterate`
of every store and context goes through `IterationHelper`. `migrate_db` is a
client of two CF stores and of their compaction filters. Contexts and batches
own a native object through `ManuallyDrop`. The default-CF stores are a
conversion of their configuration and a column-family store. A handler of a
router may read a store, which merges, and so comes back to a router.

The hazards this leads to are listed in `PROJECT.json`, each at its line with
the properties that would catch it.

## Modules

| Module | Models | State and actions |
|---|---|---|
| `TxnData` | values of the transaction models | values are counters; batch entries and their effect |
| `AtomicTxn` | abstract specification | clients accumulate effects; all are applied at once or none is |
| `OptimisticTxn` | builder, context, direct writes | `pc`, `attempt`, `policy`, `result` per client are the locals of the builder's loop; `txn[c]` is the RocksDB transaction; `seq`, `value`, `version` the database |
| `OptimisticTxnProofs` | theorems about `OptimisticTxn` | |
| `PessimisticTxn` | pessimistic store and context | the same, with the lock table `lock` and waiting operations `want` |
| `PessimisticTxnProofs` | theorems about `PessimisticTxn` | |
| `ContextHandles` | the three owners of native objects | `completed` is the Rust flag; `native` the life of the object; one action per finalizing method and outcome, then `Drop` |
| `ContextHandlesProofs` | theorems about `ContextHandles` | |
| `Iteration` | `iterate`, `find_*` | `raw` is what RocksDB's iterator has still to deliver, as positions in the comparator's order, and its direction, `kept` is `items_kept_count`; one action per outcome of `next` |
| `IterationProofs` | theorems about `Iteration` | |
| `MergeRouting` | merge routers | `full` and `partial` are the routers; `add_route` is two actions, as it takes two locks, and `adding` are the patterns between them; compaction combines any adjacent operands at any time, with the handlers of `examples/merge_routing.rs` |
| `CompactionFilter` | filter routers, expiry header | `router`, `trie` are the static tables; a compaction decides about a version (`Decide`) and drops it later (`Install`) |
| `CompactionFilterProofs` | theorems about `CompactionFilter` | |
| `Maintenance` | `migrate_db` | `call` is the running call with its loop position; each record, and each error, is a step; a compaction of either store may drop or rewrite a record between any two (`Filter`) |
| `Backup` | `backup_db` | `path` is what is at `backup_path`; one action per way a call ends |
| `MaintenanceProofs` | theorems about `Maintenance` | |
| `Tuning` | `Tunable`, the profiles | no variables: options as functions from names to who wrote them last, and the set of locked names; a profile is its list of calls |
| `OpenOptions` | what the six stores make of a configuration | no variables: `db_opts_tunable`, `cf_options` are `RocksDbCFStore::open` up to the call of RocksDB, `build_db_wide_options`, `txn_cf_options` are `tx/internal.rs`, `into_cf`, `into_txn` the conversions |
| `CFStore` | the six stores on one path | `session` is the open store, `disk` the database, `answer` what the last call returned; one action per operation of `CFOperations`, and `open`, `close`, `destroy` |
| `CFStoreProofs` | theorems about `CFStore`, `OpenOptions` and `Tuning` | |
| `RouterLocks` | the locks of the four routers | `holds[w]` are the read guards of a RocksDB thread, innermost last, `waits[w]` the one it asks for; `todo[b]` is what is left of a registration, `claimed[r]` the writer that has or is next to have a lock |
| `RouterProofs` | theorems about `MergeRouting` and `RouterLocks` | |

Every `MC...` module gives the constants of one of these their values for TLC.
Operators whose comment begins with "Mutant of" are faulty variants, used to
make sure that each property can fail.

How values are abstracted: in the transaction models a put writes one more
than the value the client read, a merge adds one, a delete gives zero, so a lost
or doubled update shows in the number. `intent` records what the client asked
for, and the abstract specification applies it to the value current at the
commit. `local`, `readVer`, `base`, `frozen` and `intent` are not RocksDB's; no
guard reads them, and `local`, the closure's own knowledge, decides what a put
writes. In `MergeRouting` a value is a
sequence of tokens, each what MessagePack bytes decode to: a `MergeValue` of a
string or a set, a `SimpleSet`, a string. What a handler cannot decode it treats
as its code does: the list handler takes it for text, the set handler passes
over it. Commas between strings are left out; what stands in front of an encoded
string and shows when it is not decoded is `Header`. In `Iteration` a key is a
model value with a position in the comparator's order and a set of keys that
begin with it. In
`CompactionFilter` a stored value is known by what its first eight bytes say.
In `Maintenance` a value is a model value and `Filter` says which values, or
none, a compaction filter may make of it. In `Tuning` and `OpenOptions` an option's
value is who set it last and through which method: the properties are about who
wins, not about numbers. In
`CFStore` a value is its key and its form (plain, behind an expiry header, or
too short for one), and a type may or may not make sense of bytes that are not
its encoding (`lenient`), so that every outcome of a mixed-up read is there.
A row says whether operands are pending on it and whether the merge operator
fails on them.

### What is assumed of RocksDB

- An optimistic transaction validates, at commit, every key in its write batch
  against a sequence number: the snapshot's, or that of the first write of the
  key if no snapshot was set. Reads consult the batch, then the latest committed
  value (the code never sets a snapshot in `ReadOptions`), and are not tracked.
- A `TransactionDB` locks a key at the first write or `get_for_update`, waits up
  to the lock timeout, and releases at the end. `TransactionOptions::default()`
  has no deadlock detection.
- An iterator shows the database of the moment it was made, and delivers nothing
  more after an error of its own.
- Compaction may combine any adjacent operands with the partial merge function
  and the base with the full one, at any time.
- A compaction filter's decision affects the version it was made about: it stays,
  is removed or is replaced by another value.
- A database is opened with all its column families, and the default one always;
  `create_checkpoint` makes its directory and refuses an existing one.
- An operand is refused when the column family has no merge operator; operands
  left by an earlier session without one, and operands the operator fails on,
  make reads of the key fail. Recovery may or may not meet them in the log.
- `destroy` removes the log files of the directory its options name.
- A `parking_lot::RwLock` is claimed by a waiting writer: readers that come
  after it wait, also those that hold a read guard already. It is eventually
  fair.

## Runs

Passing runs:

| Run | Instance | Shows |
|---|---|---|
| `optimistic_snapshot` | 2 clients, 2 keys in 2 CFs, 2 operations per attempt, 2 attempts, one direct write | `CurrentOrNewer`, `NoLostUpdate`, `ConflictsPaidFor`, and that snapshot transactions implement `AtomicTxn` |
| `optimistic_modes` | 2 clients, 1 key, 3 operations, both modes, all policies with 0 to 2 attempts, fairness | `WritesProtected`, `RetryBudget`, and every call returns |
| `pessimistic` | 2 clients, 2 keys in 2 CFs, 2 operations, one direct write, plain reads and reads for update, fairness | `KnownIsLocked`, `LocksMatchTransactions`, that transactions implement `AtomicTxn`, and that transactions that wait for each other end |
| `handles` | one wrapper of each kind, 2 uses | the only misuse is the one listed below (`MisuseOnlyAfterFailedCommit`); which ends of each kind destroy the native object and which leave it (`EndOfNativeObject`); `AllOrNothing` |
| `iteration` | 4 keys, bytewise and natural order, every `IterConfig`, one write, a deserializer that may refuse any item | `YieldsTheSnapshot` (with `InOrder`), `FindsAll`, `LimitIsExact` |
| `merge_routing` | a list and a set, 2 elements (symmetric), 2 operators, 3 patterns of which two clash, 3 puts and merges | `CompactionKeepsElements` (a list keeps its strings in order, a set loses no more than what a partial merge took), `RoutesPaired` |
| `compaction_filter` | a CF with the text filter and one with the binary filter, a string key and one that is none, nested prefixes, three handlers, times 0 and 1, 2 writes | `LiveValuesKept` |
| `store` | 9 sessions of the six stores with all five profiles, callbacks that touch what profiles and hard settings touch, an unlisted default CF, a moved log, both comparators; 2 CFs and an unknown name, 2 keys, multigets of 0 to 2 keys, 2 writes | `NoneMeansAbsent`, `AnswersMatchKeys` (`OneAnswerPerKey`, `PairsMatch`), `EveryCfReachable`, `LeftoverOnlyByStore`; `LayersInOrder` (`HardSettingsSettled`, `CallbackPrevails`, `OperatorsInEffect`), `PathsAgree` |
| `router_locks` | 2 RocksDB threads, 2 threads that add routes, 2 nested guards, fairness | `NoDeadlock`, and every call returns as long as no full merge handler read a store |
| `migration` | 2 source CFs and a spare one, 2 keys, 2 calls, one change in between, filters that drop one of two values or rewrite it as the other | `OkIsOverlay`, `PartialIsSafe`, `AlarmOnlyByFilter` |

Runs that find a documented statement violated by the code:

| Run | What it shows |
|---|---|
| `optimistic_read_set` | a snapshot transaction commits although a key it only read was changed (write skew); the comment of `transaction_context` says it fails |
| `handles_pessimistic` | `TransactionContext::commit` sets `completed` after the `?`: if commit fails, Drop ends the destroyed transaction again |

Further configurations. Each states one thing that a document, a comment or an
example of the repository says, and TLC finds it violated within seconds
(`tlc -config <cfg> <module>`):

| Configuration | Module | What it shows |
|---|---|---|
| `HandlesBatch.cfg` | `MCContextHandles` | `BatchFreed`: a `BatchWriter` that is dropped without `commit` or `discard` never frees its WriteBatch; the comment at `batch.rs:237` says `ManuallyDrop` does it |
| `IterationReverse.cfg` | `MCIteration` | `ReverseDescends`: a scan by prefix without a start key ascends whatever `reverse` says (`iter/helpers.rs:79`); `README.GUIDE.md:624` calls it the direction |
| `MergeSetAsserted.cfg` | `MCMergeRouting` | `SetKeepsMembers`: the partial handler of `examples/merge_routing.rs` leaves a bare `SimpleSet`, which the full handler passes over, so members that were merged are gone after a compaction; the example asserts at 182-184 that they are there |
| `MergeListAsserted.cfg` | `MCMergeRouting` | `ListReadsBack`: its list handler takes the value of an earlier merge as text, with the MessagePack header in front; the example asserts the bare strings at 157 |
| `Backup.cfg` | `Backup` | `CheckpointAccepted`: `backup_db` makes `backup_path`, and RocksDB refuses a checkpoint in a directory that exists; the comment at `utils/mod.rs:206` says it expects one. No call succeeds |
| `HardSettingsLocked.cfg` | `MCCFStore` | `HardSettingsOverrideProfiles` in the stores that lock hard settings: `parallelism` also sets the background jobs, and `RealTime` sets them again under a name that is not locked (`tuner/profiles.rs:242`); `README.GUIDE.md:436` says hard settings override profiles |
| `HardSettingsTxn.cfg` | `MCCFStore` | the same in the transactional stores, which lock nothing (`tx/internal.rs:140`), so that a profile replaces the threads too |
| `CallbackScope.cfg` | `MCCFStore` | `CallbackReachesDatabase`: the callback of a transactional store sees options of column families only (`tx/internal.rs:64`); `README.GUIDE.md:530` gives it those of the database |
| `Destroy.cfg` | `MCCFStore` | `NoLogLeft`: `destroy` hands the callback an empty map, and the callback that `RocksDbStore` wraps then does nothing, so its log directory is not destroyed; the comment at `cf_store.rs:411` promises the callback's part |

Met while modelling, and visible in the modules without a run of their own:

- `multiget` answers None for a key that RocksDB fails to read, where
  `multiget_raw` and `multiget_with_expiry` fail (`cf_store.rs:533`,
  `tx/macros.rs:86`, `tx/tx_store.rs:231`). `NoneMeansAbsent` has this exception.
  A multiget of no keys is Ok even for an unknown column family.
- `MemorySaver` and, with universal compaction, `SparseBitmap` end with
  `optimize_*_style_compaction(0)`, which writes the buffer sizes again that they
  set before (`tuner/profiles.rs:307`, `398`; see `Writes`).
- A default CF that is configured but not listed is opened with RocksDB's own
  options (`OpenCfOptions`), though a comment at `cf_store.rs:224` says that it is
  considered.
- A transactional store that is given a configuration for the other engine
  opens, and perhaps creates, the database before it returns the error.
- A full merge handler that reads a routed key of a store can wait for ever: it
  asks for the lock it holds, behind a registration that waits for it
  (`merge.rs:137`). `reentered` marks such behaviours.
- `generate_dao_remove` calls a method, and `generate_dao_put_in_txn` a function,
  that do not exist.
- A read in a snapshot transaction may return a version newer than the snapshot
  (`TxnGet` of `OptimisticTxn`), where `README.GUIDE.md` promises a
  point-in-time view. `CurrentOrNewer` says what is guaranteed instead.
- A transaction without a snapshot is still refused as Busy if a key it wrote
  was written since; the guide says conflict detection is disabled.
  `WritesProtected` is what holds.
- `get_in_txn` followed by `put_in_txn_cf`, as in the guide's example, can lose
  an update: the get takes no lock. In `PessimisticTxn` such a put counts as an
  overwrite, and only a value read under the lock (`frozen`) as the base of an
  increment.
- A `TransactionContext` that is rolled back never frees its transaction
  (`tx/context.rs:366`). `EndOfNativeObject` says for which ends of which wrapper
  this holds.
- A filter that rewrites a value between the copy and the comparison of a record
  makes a migration that lost nothing fail its validation (`utils/mod.rs:149`).
  `AlarmOnlyByFilter` says that nothing else does.
- Filter routes are shared by all CFs of the process, whichever builder added
  them; an example calls one "Catch-all for this CF".

Bounds. All of them are CONSTANTS named `Max...` or small sets. Two clients
are enough for every conflict, wait cycle and write skew, which are relations
between two transactions; a direct write is a third party. Two keys in two CFs
are enough for partial effects and for lock cycles, three operations for read,
write, write again. Two attempts let a retry conflict again. Three operands let
compaction group them both ways, and a put before or between them gives a value
below. Two calls and a change let a migration be
repeated over stale data. In `store` two writes give operands over a value, a
value over a value and two keys, and sessions before, between and after them
differ in store, operators and column families; the options of a session depend
on its configuration only, so that one session per configuration is enough. In
`router_locks` a cycle needs a thread with a guard and a registration; two of
each let registrations meet each other and a handler's read meet one
in its way. The theorems are for any number. Deadlock checking is off in all runs because each model ends
when its clients, its writes or its calls are used up; what must not get stuck is stated as liveness.

Fairness. `OptimisticTxn!FairSpec` asks that a closure or context that is
running ends, and that the builder's loop goes on: nothing in it waits for
another thread, so a running thread gets there. `PessimisticTxn!FairSpec`
asks that the lock timeout fires for a waiting operation, which RocksDB's default of one
second does, and that a transaction that is not blocked ends. No fairness is asked of the
locks being granted. `RouterLocks!LocksFairSpec` asks that a handler returns after
finitely many reads (weak fairness of `Finish`, strong of the outermost one,
since a handler may read a store in between), that a thread that asks
for a lock gets it if it is free again and again (`parking_lot` hands a lock
over to a waiter from time to time), and that a registration with the
lock goes on.

## Proofs

Every theorem is for all values of the constants that satisfy the named
assumptions of its component's module, which TLC evaluates in the runs. Every
safety property of the passing runs, invariant, action property or refinement,
is the statement of a theorem.

The library's induction theorems take an operator as a parameter, which no
installed prover instantiates. Where a proof needs induction, over the steps of a
fold or the length of a list, `SetInduction` stands for it: a set of natural
numbers that has 0 and the successor of each of its members has them all (there
is no least number outside it, `WFMin`). The folds of the models are recursive
functions for the same reason.

`OptimisticTxnProofs` (isolation flags are Booleans, policies are policies,
bounds are natural numbers):

- `TypeCorrect`: `Spec => []TypeOK`. One lemma per group of actions; `OpType` says what an
  operation makes of a transaction, and `OperationStep` that every
  operation of the context is one of those.
- `ViewsCurrentOrNewer`: `Spec => []CurrentOrNewer`. `NoLostUpdate` is not
  inductive: nothing in it says why a commit that passed validation has read the
  latest version, since reads are neither tracked nor bound to the snapshot.
  `CurrentOrNewer` says it: what a running snapshot transaction knows of a key
  is current, or the key is already newer than the snapshot, and then any
  write of it in this transaction will be refused. `OpView` shows it for the client that moves,
  `OthersView` for the others: whoever changes a key
  gives it a version above every snapshot taken so far (`DbMoves`).
- `LosesNoUpdate`: `Spec => NoLostUpdate`, from the two above.
- `ProtectsWrites`: `Spec => WritesProtected`, for both modes. `GuardInv` relates
  the sequence number a written key is validated against to the version the key
  had at the first write: a version that passes validation is that one.
- `RetriesWithinBudget`: `Spec => []RetryBudget`. `CallInv` adds where in the
  loop a call is: between attempts there is one left, and a call that is over
  says so in its result.
- `ConflictsArePaidFor`: `Spec => []ConflictsPaidFor`. `PaidInv` counts up to the
  snapshot: a running attempt has had at most as many conflicts as there were
  commits before its snapshot, and a refusal shows a commit after it.
- `SnapshotsAreAtomic`: if all transactions take a snapshot, `Spec => AtomicSpec`.
  Each step maps to a step of the abstract specification or to a stutter
  (`AbstractNext`); the commit needs `CurrentOrNewer`, as validation
  leaves only keys whose batch entries do what the client asked for.

`PessimisticTxnProofs` (bounds are natural numbers, no client is `NoOne`):

- `TypeCorrect`, `LocksBelongToOpen` (`LocksMatchTransactions`), `LockedIsFrozen`
  (`KnownIsLocked`), all from `IInv`. `KnownIsLocked` is not inductive: that
  the value of a written key does not change is due to its lock, and a key that
  is not written must have no effect yet, or the commit of somebody else would
  make a difference. `View` says both, and `ClosedIsNew` that a transaction begins empty.
- `LocksMakeAtomic`: `Spec => AtomicSpec`, with waits, timeouts, plain reads and
  direct writes, along the same argument.

`ContextHandlesProofs`: `TypeCorrect`, `DestroyedOnce`
(`MisuseOnlyAfterFailedCommit`), `DestroyedOrLeftBehind`
(`EndOfNativeObject`), `WholeOrNothing` (`AllOrNothing`). The
properties speak of a wrapper that is gone; `Life` says what the Rust flag, the
native object and the result have to do with each other before that, for each
kind of wrapper.

`MaintenanceProofs`: `TypeCorrect`, `PartialMigrationIsSafe` (`PartialIsSafe`),
`MigrationIsOverlay` (`OkIsOverlay`), `AlarmsAreTheFilters` (`AlarmOnlyByFilter`),
for filters that make any values of any values. `Rest(v)` is what may be left of `v`
after any number of compactions: what is in every set of values that has `v` and
that the filters do not lead out of; `RestFacts` has what the proofs need of it,
that it has `v`, is closed under the filters, and has the rest of each of its
members. What holds when a call returns comes from what its two loops maintain: a
record that is still in the source has arrived in the destination, or what is
left of it has, or it or its column family is still to come (`MigrateLoop`,
`ValidateLoop`, `LiveArrived`); the iterator holds what was left of records of the
source (`ItemsFromSource`), which only its filters change (`SourceOnlyFiltered`); and
the destination has nothing else but what it had (`NothingForeign`). Compactions
may run between any two steps.

`CompactionFilterProofs`: `TypeCorrect` and `KeepsLiveValues`
(`Spec => LiveValuesKept`, an action property). The decision is made in one step and
takes effect in another; `JobJustified` says that what allowed it lasts: routes
are never taken away, the clock does not go back, and a version with the same
number is the same value (`NumbersWritten`).

`IterationProofs` (an order lists every key once; a key begins with itself):
`TypeCorrect`, `YieldsItsSnapshot` (`YieldsTheSnapshot`), `MissesNothing`
(`FindsAll`), `LimitsExactly` (`LimitIsExact`). What the raw iterator has still to
deliver is of the snapshot, on the right side of its start (`InRegion`) and ahead
of what it delivered (`AheadOfItems`, from which order and uniqueness follow), and
every wanted key was yielded, as itself or as an error of the deserializer, skipped
or is still to come (`NothingLeftBehind`). Items that are refused take the same step
as items that are kept (`YieldInv`): the count and the raw iterator move on alike.
The hard step is the end at the first key without the prefix: that no wanted key is
behind it (`NoneAhead`) is where the order must keep the prefix together.

`RouterProofs`, about `MergeRouting` (a key matches patterns of its own kind only,
`None` is no pattern, token, value or list of operands, `Header` is no element; any
keys, patterns, elements and number of operands):

- `RoutesArePaired`: `Spec => []RoutesPaired`, for any number of `add_route` calls
  between their two locks. `TablesInStep`: the partial table is the full one but
  for the patterns on their way, and no two patterns of the full table exclude
  each other, so the second insertion cannot be refused.
- `CompactionKeepsAll`: `Spec => []CompactionKeepsElements`. The property compares two
  merges of whole lists of operands, and says nothing of what compaction leaves in
  between. `DataAlike` does: for a key that kept its route, what RocksDB still
  holds and what was written are alike (`Alike`). For a list that is equality of
  the strings of both, as the fold `Strings` finds them in the text: a full merge
  of the first operands splits the fold (`FoldConcat`, `ListSplit`), and a header
  is no string (`HeaderIsNoString`); what is left of operands that can be merged
  at once can be merged too (`Typed`: they are among those written). For a set
  it is two inclusions, between what is left when the operands that partial merges
  took are taken away and what was written: a partial merge moves its operands to
  `combined` and leaves one that counts for nothing (`SetCombined`). Without a route
  concatenation is associative (`DefaultMerged`, `Associated`). That a partial merge only
  happens to a key with a full route is `TablesInStep` again, also while
  `add_route` is between its two tables.
- `MergeTypeCorrect`: `Spec => []TypeOK`, from `DataTyped`: what is stored is a
  sequence of tokens that is not empty, and an operand is a `MergeValue` of its
  key's kind or the `SimpleSet` of a partial merge.

and about `RouterLocks`, for any sets of threads that do not overlap and any
bound on the guards of a thread:

- `LocksTypeCorrect`: `LocksSpec => []LocksTypeOK`.
- `DeadlockFree`: `LocksSpec => []NoDeadlock`. The inductive invariant adds two facts
  to the types: a builder has the write lock of at most the router its call is
  at (`ClaimsCurrent`: this is where `add_route` gives up one router before it
  asks for the next), and a thread that waits with a guard in its hands waits
  for the full merge router, which it does not hold unless it was re-entered
  (`LockOrder`). From these, a set of threads in which each waits for another
  would need a reader that holds a router and waits for a builder that has
  claimed the full router, and that builder would need a reader of the full router, which waits for
  nobody. The invariant is needed because `NoDeadlock` alone says nothing of
  what a thread may ask for next.

`CFStoreProofs` (sessions are sessions, `None` is none of the things it stands
beside; any column families, keys, configurations and callbacks, lists of keys
of any length):

- `TypeCorrect`: `Spec => []TypeOK`.
- `LayersAlwaysInOrder` (`LayersInOrder`) and `PathsAlwaysAgree` (`PathsAgree`). Both
  are about the options a session is opened with, which are folds of lists of
  calls. A property of the tunables that every call keeps is one of the result: that a locked option keeps its
  writer, that one a profile writes and nobody locked is the profile's (`TunedAs`), that what the callback wrote last is the callback's, that an operator is the
  configuration's. `HardSettingsWritten`, `DbCallbackKept`, `CfCallbackKept` and
  `OperatorsKept` are the layers, one by one. For `PathsAgree`, the two copies
  make similar tunables of similar ones, option by option (`Similar`); the threads
  are where they are not.
- `NoRowOutOfReach` (`EveryCfReachable`) and `LogDestroyed` (`LeftoverOnlyByStore`),
  from the type invariant: an open session has options for exactly the column
  families of the database.
- `NoneAlwaysMeansAbsent` (`NoneMeansAbsent`) and `AnswersAlwaysMatchKeys`
  (`AnswersMatchKeys`). Both compare the last answer with the database, which is
  only possible because nothing happens to the database while an answer waits
  to be looked at (`Waiting`). `Right` says what a read that succeeded has said
  of each key, by operation; for the DAO macros, that zipping and filtering
  leaves the keys with a record, in order, each with its own (`PairsArePaired`,
  an induction over the list).

Only model-checked: liveness (`Returns`, `CallsReturn`). It needs `ENABLED` and
fairness, which the prover does not handle.

## Not modelled

- Byte formats: MessagePack, bytevec and error conversion carry no state. The
  expiry header is modelled by what it reads as.
- DAO macros other than the multigets: each is one call of a store.
- Base62: a call of the `base62` crate and a padding to eleven digits. It has no
  state, 64-bit numbers are beyond TLC's integers, and a narrower width would not
  show the overflow that `decode` guards against.
- The numbers the profiles compute, `FromStr` of the configuration's enums and
  the legacy `RocksDbConfig`, which nothing uses.
- `From<Vec<u8>>` of `ValueWithExpiry`, which panics on fewer than eight bytes: a
  statement about one argument.
- Handlers that write to a store or add routes themselves.
- Handlers are application code; the ones in the models are those of the
  repository's examples (`examples/merge_routing.rs`) and tests.
- `validate_expirable_mergevalues_associativity`, which nothing in the repository calls.

## Plan

What the safety properties say is proved. Left for later, in this order:

1. Merge handlers on values with an expiry, once the repository has one that uses
   `validate_expirable_mergevalues_associativity`.
2. A bounded-width model of `From<Vec<u8>>` and of Base62, if either ever gets
   state of its own.

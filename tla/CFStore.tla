------------------------------ MODULE CFStore ------------------------------
(* The six stores at one path, used one after the other: RocksDbCFStore      *)
(* (cf_store.rs), the transactional column-family stores (cf_tx_store.rs,    *)
(* cf_optimistic_tx_store.rs, with the operations of tx/macros.rs) and the   *)
(* default-CF stores that wrap them (store.rs, tx_store.rs,                  *)
(* optimistic_tx_store.rs).  A session opens the database with one store and *)
(* configuration, reads and writes outside transactions, and closes it; the  *)
(* next may use another store, other options, or destroy the database.       *)
(*                                                                           *)
(* A value is its key and its form: the encoding of a value, the same behind *)
(* an expiry header, or raw bytes too short for a header.  A row remembers   *)
(* whether merge operands are pending on it and whether the merge operator   *)
(* fails on them.                                                            *)
EXTENDS OpenOptions, Integers

CONSTANTS Keys,        \* numbers, in bytewise order
          CfNames,     \* names a caller may pass, known to the database or not
          Sessions,
          MaxKeys,     \* bound on the keys of one multiget
          MaxWrites    \* bound on the writes to the database

ASSUME SessionsAssumption ==
  \A s \in Sessions :
    \/ s \in [kind : Wrappers, cfg : WrapperConfigs]
    \/ \E configured \in SUBSET CfNames :
         s \in [kind : (PlainKinds \cup TxnKinds) \ Wrappers, cfg : CfConfigs(configured, CfNames)]
ASSUME BoundAssumption == MaxKeys \in Nat /\ MaxWrites \in Nat

VARIABLES disk,        \* the database at the path, or None
          session,     \* the session that has it open, or None
          answer,      \* what the last call returned, until the caller takes it
          leftover,    \* the kind of store whose destroy left log files behind, or None
          writes

vars == <<disk, session, answer, leftover, writes>>

Forms == {"plain", "expiry", "short"}

Row == [form : Forms, pending : BOOLEAN, broken : BOOLEAN]

\* A column family, a database of some, and what is read of a row.
CfStates == [natural : BOOLEAN, rows : [Keys -> Row \cup {None}]]

Disks(names) == [wal : BOOLEAN, cfs : [names -> CfStates]]

Records == [key : Keys, form : Forms \cup {"garbage"}]

ASSUME NoneAssumption ==
  /\ None \notin Callbacks
  /\ None \notin Sessions
  /\ None \notin Keys
  /\ None \notin Records
  /\ \A names \in SUBSET (CfNames \cup {Default}) : None \notin Disks(names)

Ok(value) == [ok |-> TRUE, value |-> value]

Err(error) == [ok |-> FALSE, value |-> error]

\* The options of every session, computed once.
DbOf == [s \in Sessions |-> OpenDbOptions(s)]

CfsOf == [s \in Sessions |-> OpenCfOptions(s)]

Calling == session # None /\ answer = None

Return(op, cf, keys, result) ==
  answer' = [op |-> op, cf |-> cf, keys |-> keys, result |-> result]

-----------------------------------------------------------------------------
(* Opening, closing and destroying. *)

Listed(s) == Config(s).open

Natural(s, cf) == CfsOf[s][cf]["comparator"] # Unset

WalDir(s) == DbOf[s]["wal_dir"] # Unset

\* RocksDB opens all the column families of a database or none.
Refused(s) ==
  LET known == IF disk = None THEN {} ELSE DOMAIN disk.cfs
  IN  \/ session # None
      \/ ~Config(s).create /\ ~(disk # None /\ Listed(s) \subseteq known)
      \/ ~(known \subseteq DOMAIN CfsOf[s])
      \/ \E cf \in known : disk.cfs[cf].natural # Natural(s, cf)

Empty(s, cf) == [natural |-> Natural(s, cf), rows |-> [k \in Keys |-> None]]

Opened(s) ==
  [ wal |-> WalDir(s),
    cfs |-> [cf \in DOMAIN CfsOf[s] |->
              IF disk # None /\ cf \in DOMAIN disk.cfs THEN disk.cfs[cf] ELSE Empty(s, cf)] ]

\* The log may hold operands that the new session has no operator for.
Replays(s) ==
  disk # None =>
    \A cf \in DOMAIN disk.cfs, k \in Keys :
      disk.cfs[cf].rows[k] # None /\ disk.cfs[cf].rows[k].pending
        => CfsOf[s][cf]["merge_operator"] # Unset

\* An application keeps one log directory per database, and clears stale files
\* from it.
SamePlace(s) ==
  /\ disk # None => WalDir(s) = disk.wal
  /\ leftover # None => ~WalDir(s)

open(s) ==
  /\ answer = None
  /\ SamePlace(s)
  /\ \E replayed \in BOOLEAN :
       /\ ~Refused(s) /\ Replays(s) => replayed
       /\ IF Refused(s) \/ ~replayed
          THEN Return("open", None, <<>>, Err("RocksDb")) /\ UNCHANGED <<disk, session>>
          ELSE /\ disk' = Opened(s)
               /\ IF s.kind \in TxnKinds /\ Config(s).engine # Engine(s.kind)
                  THEN Return("open", None, <<>>, Err("InvalidConfiguration")) /\ UNCHANGED session
                  ELSE Return("open", None, <<>>, Ok(s.kind)) /\ session' = s
  /\ UNCHANGED <<leftover, writes>>

close ==
  /\ Calling
  /\ session' = None
  /\ UNCHANGED <<disk, answer, leftover, writes>>

destroy(s) ==
  /\ answer = None /\ disk # None
  /\ SamePlace(s)
  /\ IF session # None
     THEN Return("destroy", None, <<>>, Err("RocksDb")) /\ UNCHANGED <<disk, leftover>>
     ELSE /\ Return("destroy", None, <<>>, Ok(s.kind))
          /\ disk' = None
          /\ leftover' = IF disk.wal /\ DestroyOptions(s)["wal_dir"] = Unset THEN s.kind ELSE leftover
  /\ UNCHANGED <<session, writes>>

take ==
  /\ answer # None
  /\ answer' = None
  /\ UNCHANGED <<disk, session, leftover, writes>>

-----------------------------------------------------------------------------
(* Reading. *)

get_cf_handle(cf) ==
  IF session.kind \in PlainKinds THEN cf \in DOMAIN disk.cfs ELSE cf \in Listed(session)

\* Mutant of Addressable: the default column family needs a handle as well.
AddressableByHandle(cf) == get_cf_handle(cf)

\* The default column family is read and written without a handle.
Addressable(cf) == cf = Default \/ get_cf_handle(cf)

\* A default-CF store has no other name to pass.
Names == IF session.kind \in Wrappers THEN {Default} ELSE CfNames

HasOperator(cf) == CfsOf[session][cf]["merge_operator"] # Unset

Unreadable(cf, row) == row.broken \/ (row.pending /\ ~HasOperator(cf))

\* What RocksDB answers for one key.
Lookup(cf, key) ==
  LET row == disk.cfs[cf].rows[key]
  IN  IF row = None THEN Ok(None)
      ELSE IF Unreadable(cf, row) THEN Err("RocksDb")
      ELSE Ok([key |-> key, form |-> row.form])

\* A type may make something of bytes that are not its encoding (lenient).
Misread(v, lenient) ==
  IF lenient THEN Ok([v EXCEPT !.form = "garbage"]) ELSE Err("Deserialization")

deserialize_value(v, lenient) == IF v.form = "plain" THEN Ok(v) ELSE Misread(v, lenient)

from_slice(v, lenient) ==
  CASE v.form = "short" -> Err("Deserialization")
    [] v.form = "expiry" -> Ok(v)
    [] v.form = "plain" -> Misread(v, lenient)

\* opt.map_or(Ok(None), decode) of an answer.
map_or(r, Decode(_)) == IF r.ok /\ r.value # None THEN Decode(r.value) ELSE r

\* Results collected into one: the values, or the first error.
collect(results) ==
  IF \A i \in DOMAIN results : results[i].ok
  THEN Ok([i \in DOMAIN results |-> results[i].value])
  ELSE results[CHOOSE i \in DOMAIN results :
                 ~results[i].ok /\ \A j \in 1..(i - 1) : results[j].ok]

get_raw(cf, key) == Lookup(cf, key)

get(cf, key, lenient) ==
  map_or(Lookup(cf, key), LAMBDA v : deserialize_value(v, lenient))

get_with_expiry(cf, key, lenient) ==
  map_or(get_raw(cf, key), LAMBDA v : from_slice(v, lenient))

exists(cf, key) ==
  LET r == Lookup(cf, key) IN IF r.ok THEN Ok(r.value # None) ELSE r

\* Mutant of multiget: the results come in the order of the sorted keys.
multiget_sorted(cf, keys, lenient) ==
  LET sorted == SortSeq(keys, LAMBDA a, b : a < b)
  IN  collect([i \in DOMAIN keys |->
        LET r == Lookup(cf, sorted[i])
        IN  IF r.ok THEN map_or(r, LAMBDA v : deserialize_value(v, lenient)) ELSE Ok(None)])

\* The error of one key becomes None.
multiget(cf, keys, lenient) ==
  collect([i \in DOMAIN keys |->
    LET r == Lookup(cf, keys[i])
    IN  IF r.ok THEN map_or(r, LAMBDA v : deserialize_value(v, lenient)) ELSE Ok(None)])

\* Mutant of multiget_raw: the error of one key becomes None, as in multiget.
multiget_raw_lossy(cf, keys) ==
  collect([i \in DOMAIN keys |->
    IF Lookup(cf, keys[i]).ok THEN Lookup(cf, keys[i]) ELSE Ok(None)])

multiget_raw(cf, keys) == collect([i \in DOMAIN keys |-> Lookup(cf, keys[i])])

multiget_with_expiry(cf, keys, lenient) ==
  LET raw == multiget_raw(cf, keys)
  IN  IF ~raw.ok THEN raw
      ELSE collect([i \in DOMAIN keys |->
             map_or(Ok(raw.value[i]), LAMBDA v : from_slice(v, lenient))])

\* The DAO macros (macros.rs): keys and records zipped, and the pairs without
\* a record dropped.
Pairs(keys, r) ==
  LET upto[n \in 0..Len(keys)] ==
        IF n = 0 THEN <<>>
        ELSE IF r.value[n] = None THEN upto[n - 1]
        ELSE Append(upto[n - 1], [key |-> keys[n], value |-> r.value[n]])
  IN  upto[Len(keys)]

generate_dao_multiget(cf, keys, lenient) ==
  LET r == multiget(cf, keys, lenient) IN IF r.ok THEN Ok(Pairs(keys, r)) ELSE r

\* Mutant of generate_dao_multiget_with_expiry: the records are filtered
\* before the keys are zipped with them.
generate_dao_multiget_with_expiry_late(cf, keys, lenient) ==
  LET r == multiget_with_expiry(cf, keys, lenient)
      records == SelectSeq(r.value, LAMBDA v : v # None)
  IN  IF r.ok THEN Ok([i \in DOMAIN records |-> [key |-> keys[i], value |-> records[i]]]) ELSE r

generate_dao_multiget_with_expiry(cf, keys, lenient) ==
  LET r == multiget_with_expiry(cf, keys, lenient) IN IF r.ok THEN Ok(Pairs(keys, r)) ELSE r

Read(op, cf, keys, result) ==
  /\ Calling
  /\ cf \in Names
  /\ Return(op, cf, keys,
       IF keys = <<>> THEN Ok(<<>>)
       ELSE IF ~Addressable(cf) THEN Err("UnknownCf") ELSE result)
  /\ UNCHANGED <<disk, session, leftover, writes>>

ReadOne(cf, key) ==
  \/ Read("get_raw", cf, <<key>>, get_raw(cf, key))
  \/ Read("exists", cf, <<key>>, exists(cf, key))
  \/ \E lenient \in BOOLEAN :
       \/ Read("get", cf, <<key>>, get(cf, key, lenient))
       \/ Read("get_with_expiry", cf, <<key>>, get_with_expiry(cf, key, lenient))

ReadMany(cf, keys) ==
  \/ Read("multiget_raw", cf, keys, multiget_raw(cf, keys))
  \/ \E lenient \in BOOLEAN :
       \/ Read("multiget", cf, keys, multiget(cf, keys, lenient))
       \/ Read("multiget_with_expiry", cf, keys, multiget_with_expiry(cf, keys, lenient))
       \/ Read("dao", cf, keys, generate_dao_multiget(cf, keys, lenient))
       \/ Read("dao", cf, keys, generate_dao_multiget_with_expiry(cf, keys, lenient))

-----------------------------------------------------------------------------
(* Writing. *)

\* A write of rows of one column family, if the name is known and RocksDB
\* accepts it.
Write(op, cf, names, accepted, rows) ==
  /\ Calling /\ writes < MaxWrites
  /\ cf \in names
  /\ IF Addressable(cf) /\ accepted
     THEN /\ disk' = [disk EXCEPT !.cfs[cf].rows = rows]
          /\ writes' = writes + 1
          /\ Return(op, cf, <<>>, Ok(None))
     ELSE /\ Return(op, cf, <<>>, Err(IF Addressable(cf) THEN "RocksDb" ELSE "UnknownCf"))
          /\ UNCHANGED <<disk, writes>>
  /\ UNCHANGED <<session, leftover>>

Rows(cf) == disk.cfs[cf].rows

Put(op, cf, key, form) ==
  Write(op, cf, Names, TRUE,
        [Rows(cf) EXCEPT ![key] = [form |-> form, pending |-> FALSE, broken |-> FALSE]])

put(cf, key) == Put("put", cf, key, "plain")

put_raw(cf, key) == \E form \in Forms : Put("put_raw", cf, key, form)

put_with_expiry(cf, key) == Put("put_with_expiry", cf, key, "expiry")

delete(cf, key) == Write("delete", cf, Names, TRUE, [Rows(cf) EXCEPT ![key] = None])

\* The two comparators order the keys the opposite way.
Before(cf, a, b) == IF disk.cfs[cf].natural THEN a > b ELSE a < b

\* RocksDB refuses or ignores a range that ends before it starts.
delete_range(cf, from, to) ==
  \/ /\ Calling /\ session.kind \in TxnKinds
     /\ cf \in Names
     /\ Return("delete_range", cf, <<>>, Err("Other"))
     /\ UNCHANGED <<disk, session, leftover, writes>>
  \/ /\ Calling /\ session.kind \in PlainKinds
     /\ \E accepted \in BOOLEAN :
          /\ Addressable(cf) /\ ~Before(cf, to, from) => accepted
          /\ Write("delete_range", cf, Names, accepted,
                   [k \in Keys |-> IF ~Before(cf, k, from) /\ Before(cf, k, to) THEN None ELSE Rows(cf)[k]])

\* RocksDB takes an operand only if there is an operator, and applies it later.
Merge(op, cf, names, key, form) ==
  \E fails \in BOOLEAN :
    Write(op, cf, names, HasOperator(cf),
          [Rows(cf) EXCEPT ![key] =
             [ form |-> form, pending |-> TRUE,
               broken |-> fails \/ (@ # None /\ @.broken) ]])

merge(cf, key) == Merge("merge", cf, Names, key, "plain")

merge_raw(cf, key) == \E form \in Forms : Merge("merge_raw", cf, Names, key, form)

\* The default-CF stores, too, ask for a name here.
merge_with_expiry(cf, key) == Merge("merge_with_expiry", cf, CfNames, key, "expiry")

\* RocksDbStore::write: a batch of raw puts to the default column family.
write(form) ==
  /\ Calling /\ session.kind = "Store"
  /\ Write("write", Default, Names, TRUE,
           [k \in Keys |-> [form |-> form, pending |-> FALSE, broken |-> FALSE]])

\* RocksDB folds the operands of a row into a value.
Compact ==
  /\ Calling
  /\ \E cf \in DOMAIN disk.cfs, key \in Keys :
       /\ Rows(cf)[key] # None
       /\ Rows(cf)[key].pending /\ ~Unreadable(cf, Rows(cf)[key])
       /\ disk' = [disk EXCEPT !.cfs[cf].rows[key].pending = FALSE]
  /\ UNCHANGED <<session, answer, leftover, writes>>

-----------------------------------------------------------------------------
Init ==
  /\ disk = None /\ session = None /\ answer = None /\ leftover = None
  /\ writes = 0

KeyLists == UNION { [1..n -> Keys] : n \in 0..MaxKeys }

Next ==
  \/ \E s \in Sessions : open(s) \/ destroy(s)
  \/ close \/ take \/ Compact
  \/ \E form \in Forms : write(form)
  \/ \E cf \in CfNames :
       \/ \E keys \in KeyLists : ReadMany(cf, keys)
       \/ \E key \in Keys :
            \/ ReadOne(cf, key)
            \/ put(cf, key) \/ put_raw(cf, key) \/ put_with_expiry(cf, key)
            \/ delete(cf, key)
            \/ \E to \in Keys : delete_range(cf, key, to)
            \/ merge(cf, key) \/ merge_raw(cf, key) \/ merge_with_expiry(cf, key)

Spec == Init /\ [][Next]_vars
-----------------------------------------------------------------------------
(* Words of the properties. *)

ManyOps == {"multiget", "multiget_raw", "multiget_with_expiry"}

ReadOps == ManyOps \cup {"get", "get_raw", "get_with_expiry", "exists"}

\* A session has just been opened.
Opening == session # None /\ answer # None /\ answer.op = "open"

\* What a successful read says of its i-th key.
Found(a, i) ==
  CASE a.op \in ManyOps -> a.result.value[i]
    [] a.op = "exists" -> IF a.result.value THEN a.keys[i] ELSE None
    [] OTHER -> a.result.value

\* The keys of a list that have a record, by their place.
Stored(a) ==
  {n \in DOMAIN a.keys : Lookup(a.cf, a.keys[n]).ok /\ Lookup(a.cf, a.keys[n]).value # None}

ConfiguredOperators(cfg, cf) ==
  LET base == ConfigOf(cfg, cf)
  IN  (IF base.merge_operator THEN {"merge_operator"} ELSE {})
      \cup (IF base.comparator THEN {"comparator"} ELSE {})
      \cup (IF base.filter THEN {"compaction_filter"} ELSE {})

-----------------------------------------------------------------------------
(* Properties. *)

\* The state of the stores has its shape; only the open database has rows of
\* column families, all of them with options.
TypeOK ==
  /\ disk # None =>
       /\ Default \in DOMAIN disk.cfs /\ DOMAIN disk.cfs \subseteq CfNames \cup {Default}
       /\ disk \in Disks(DOMAIN disk.cfs)
  /\ session \in Sessions \cup {None}
  /\ session # None => disk # None /\ DOMAIN disk.cfs = DOMAIN CfsOf[session]
  /\ writes \in 0..MaxWrites

\* A successful multiget has one result per key, in the order of the keys,
\* repeated keys included: the i-th is what the single read of the i-th key
\* finds.
OneAnswerPerKey ==
  answer # None /\ answer.op \in ManyOps /\ answer.result.ok =>
    /\ DOMAIN answer.result.value = DOMAIN answer.keys
    /\ \A i \in DOMAIN answer.keys :
         LET single == Lookup(answer.cf, answer.keys[i])
             found == answer.result.value[i]
         IN  IF single.ok /\ single.value # None
             THEN found # None /\ found.key = answer.keys[i]
                  /\ found.form \in {single.value.form, "garbage"}
             ELSE found = None

\* A read that answers None, or exists that answers false, means that the key
\* is not in the database: not that its merge failed, that the session has no
\* operator for the operands an earlier one left, or that the value has
\* another form.  The exception is multiget (cf_store.rs:533, tx/macros.rs:85),
\* which says None for a key that RocksDB fails to read; multiget_raw and
\* multiget_with_expiry fail.
NoneMeansAbsent ==
  answer # None /\ answer.op \in ReadOps /\ answer.result.ok =>
    \A i \in DOMAIN answer.keys :
      LET row == disk.cfs[answer.cf].rows[answer.keys[i]]
      IN  Found(answer, i) = None =>
            row = None \/ (answer.op = "multiget" /\ Unreadable(answer.cf, row))

\* The multiget macros of a DAO return, in the order of the keys, the keys that
\* have a record, each with its own record, although what they zip and filter
\* (macros.rs:40, 102) are two lists that know nothing of each other; a key
\* that is asked for twice is there twice.
PairsMatch ==
  answer # None /\ answer.op = "dao" /\ answer.result.ok =>
    LET pairs == answer.result.value
    IN  \E at \in [DOMAIN pairs -> Stored(answer)] :
          /\ \A i, j \in DOMAIN pairs : i < j => at[i] < at[j]
          /\ \A n \in Stored(answer) : \E i \in DOMAIN pairs : at[i] = n
          /\ \A i \in DOMAIN pairs :
               pairs[i].key = answer.keys[at[i]] /\ pairs[i].value.key = pairs[i].key

\* Whoever asks for many keys gets for each of them what is stored under it:
\* the stores' multigets and the DAO macros that pair their results with keys.
AnswersMatchKeys == OneAnswerPerKey /\ PairsMatch

\* No row is out of reach: whatever earlier sessions created, an open store
\* accepts the name of every column family of the database, the default one
\* included when the configuration does not list it (the comment at
\* cf_tx_store.rs:175 worries about it).
EveryCfReachable ==
  session # None => \A cf \in DOMAIN disk.cfs : Addressable(cf)

\* Destroying a database leaves no write-ahead log behind, in whatever
\* directory the callback of the configuration put it, except when
\* RocksDbStore does it: the callback it wraps asks for the options of the
\* default column family, and destroy (cf_store.rs:432) has none.
LeftoverOnlyByStore == leftover \in {None, "Store"}

\* Who had the last word on the options of a hard setting.  A profile leaves
\* recovery mode and statistics alone.  Of the two options that parallelism
\* writes, a profile leaves the threads alone where they are locked
\* (cf_store.rs:199) and takes them over in the transactional stores
\* (tx/internal.rs:140); the background jobs it takes over there too, and,
\* if it is RealTime (profiles.rs:242), in every store.
HardSettingsSettled ==
  Opening =>
    LET cfg == Config(session)
        settled(o, layer) == DbOf[session][o].by \in {layer, "callback"}
        unlocked == cfg.profile # None /\ session.kind \in TxnKinds
        jobs == cfg.profile # None /\ cfg.profile.kind = "RealTime"
    IN  /\ "recovery_mode" \in cfg.hard => settled("wal_recovery_mode", "config")
        /\ "enable_statistics" \in cfg.hard => settled("statistics", "config")
        /\ "parallelism" \in cfg.hard =>
             /\ settled("threads", IF unlocked THEN cfg.profile.kind ELSE "config")
             /\ settled("max_background_jobs", IF unlocked \/ jobs THEN cfg.profile.kind ELSE "config")

\* What the callback sets is what RocksDB is opened with, though profiles and
\* configuration touch the same options: only a tune_ call on an option that
\* the configuration or a profile has locked, and an operator that the
\* configuration names too, is lost.  A transactional store gives the callback
\* its column families only: it sets nothing of the database.
CallbackPrevails ==
  Opening /\ Config(session).custom # None =>
    LET cfg == Config(session)
        lost(call, locked) == call.method = "tune" /\ call.key \in locked
        last(calls, locked, options, ours) ==
          \A call \in Range(calls) :
            ~lost(call, locked) =>
              \A o \in Writes(call.key) \ ours : options[o].by = "callback"
    IN  /\ session.kind \in PlainKinds =>
             last(cfg.custom.db, IF "parallelism" \in cfg.hard THEN {"increase_parallelism"} ELSE {},
                  DbOf[session], {})
        /\ session.kind \in TxnKinds =>
             \A o \in DbOptions : DbOf[session][o].by # "callback"
        /\ \A cf \in Seen(cfg.custom, cfg.open) :
             last(cfg.custom.cf,
                  IF effective_profile(cfg, cf) # None /\ "fifo" \in effective_profile(cfg, cf).flags
                  THEN {"max_open_files"} ELSE {},
                  CfsOf[session][cf], ConfiguredOperators(cfg, cf))

\* The merge operator, comparator and compaction filter the configuration
\* names for a column family that is opened are those in effect, whatever
\* profiles and callback did before (cf_store.rs:272, tx/internal.rs:75).
OperatorsInEffect ==
  Opening =>
    \A cf \in Listed(session) :
      \A o \in ConfiguredOperators(Config(session), cf) :
        CfsOf[session][cf][o].by = "config"

\* Whatever hard settings, profiles, callback and operators a session has, it
\* is known which of them RocksDB is opened with.
LayersInOrder == HardSettingsSettled /\ CallbackPrevails /\ OperatorsInEffect

\* The two copies of the code that builds options, cf_store.rs and
\* tx/internal.rs, make the same of one configuration without a callback, but
\* for the threads that only one of them locks.
PathsAgree ==
  Opening /\ Config(session).custom = None =>
    LET cfg == Config(session)
        threads == Writes("increase_parallelism")
    IN  /\ Apart(db_opts_tunable(cfg, cfg.create, cfg.open).inner, threads)
             = Apart(build_db_wide_options(cfg), threads)
        /\ \A cf \in Listed(session) : cf_options(cfg, cf) = txn_cf_options(cfg, cf)

-----------------------------------------------------------------------------
(* What the documentation says of the options. *)

\* README.GUIDE.md:436 on parallelism, recovery_mode and enable_statistics:
\* "DB-wide hard settings that override profiles".
HardSettingsOverrideProfiles ==
  Opening =>
    LET cfg == Config(session)
        kept(key) == \A o \in Writes(key) : DbOf[session][o].by \in {"config", "callback"}
    IN  /\ "recovery_mode" \in cfg.hard => kept("wal_recovery_mode")
        /\ "enable_statistics" \in cfg.hard => kept("statistics")
        /\ "parallelism" \in cfg.hard => kept("increase_parallelism")

\* README.GUIDE.md:530 on the callback of RocksDbTxnStoreConfig: "Callback for
\* DB-wide & default CF options".
CallbackReachesDatabase ==
  Opening /\ session.kind \in {"TxnStore", "OptimisticTxnStore"} /\ Config(session).custom # None =>
    \A call \in Range(Config(session).custom.db) :
      call.method # "tune" => \A o \in Writes(call.key) : DbOf[session][o].by = "callback"

\* cf_store.rs:411 on destroy: "We'll apply hard settings, db_tuning_profile,
\* and the DB part of custom_options": no log is left where the callback put it.
NoLogLeft == leftover = None
=============================================================================

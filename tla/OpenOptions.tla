---------------------------- MODULE OpenOptions ----------------------------
(* What a configuration becomes: the options RocksDB is opened and          *)
(* destroyed with.  RocksDbCFStore (cf_store.rs) and the transactional      *)
(* stores (tx/internal.rs) build them with two copies of the same code:     *)
(* hard settings, a tuning profile, the application's callback, the         *)
(* operators of the column families.  The default-CF stores convert their   *)
(* configuration first.                                                     *)
(*                                                                          *)
(* A session is a kind of store and its configuration.  That of a           *)
(* column-family store is a record of create_if_missing, the hard settings  *)
(* that are Some, db_tuning_profile, column_family_configs,                 *)
(* column_families_to_open, the callback and the engine; that of a          *)
(* default-CF store has one column-family configuration, base.  A callback  *)
(* is the calls it makes on the options of the database and on those of     *)
(* each column family it is given; "wrapped" marks one that came through a  *)
(* default-CF store.                                                        *)
EXTENDS Tuning

CONSTANTS Default,   \* the default column family
          None

\* The configurations of a column family and the callbacks there are.
Bases ==
  [ profile : Profiles \cup {None}, merge_operator : BOOLEAN, comparator : BOOLEAN, filter : BOOLEAN ]

Callbacks ==
  [db : Seq(CallsOn(DbOptions)), cf : Seq(CallsOn(CfOptions)), wrapped : BOOLEAN]

HardSettings == {"parallelism", "recovery_mode", "enable_statistics"}

\* Configurations of the default-CF stores, and of those for several column
\* families, of which some are configured and some are to be opened.
WrapperConfigs ==
  [create : BOOLEAN, hard : SUBSET HardSettings, base : Bases, custom : Callbacks \cup {None}]

CfConfigs(configured, names) ==
  [ create : BOOLEAN, hard : SUBSET HardSettings, profile : Profiles \cup {None},
    cfs : [configured -> Bases], open : SUBSET names,
    engine : {None, "Pessimistic", "Optimistic"},
    custom : {callback \in Callbacks : ~callback.wrapped} \cup {None} ]

Apart(options, kept) == [o \in DOMAIN options \ kept |-> options[o]]

\* The call made for an Option that is Some.
Given(present, key, method) == IF present THEN <<Call(method, key)>> ELSE <<>>

\* Option<TuningProfile> applied to the options of the database.
TuneDb(profile, t) == IF profile = None THEN t ELSE tune_db_opts(profile, t)

TuneCf(profile, t) == IF profile = None THEN t ELSE tune_cf_opts(profile, t)

ConfigOf(cfg, cf) ==
  IF cf \in DOMAIN cfg.cfs THEN cfg.cfs[cf]
  ELSE [profile |-> None, merge_operator |-> FALSE, comparator |-> FALSE, filter |-> FALSE]

-----------------------------------------------------------------------------
(* From<RocksDbStoreConfig> and its two transactional counterparts.         *)

into_cf(w) ==
  [ create |-> w.create, hard |-> w.hard, profile |-> None,
    cfs |-> [cf \in {Default} |-> w.base], open |-> {Default}, engine |-> None,
    custom |-> IF w.custom = None THEN None ELSE [w.custom EXCEPT !.wrapped = TRUE] ]

into_txn(w, engine) ==
  [into_cf([w EXCEPT !.base.comparator = FALSE]) EXCEPT !.engine = engine]

\* Whether the callback is called with the options of these column families,
\* and which of them it sees.
Called(custom, cfs) == custom # None /\ (custom.wrapped => Default \in cfs)

Seen(custom, cfs) == IF custom.wrapped THEN cfs \cap {Default} ELSE cfs

-----------------------------------------------------------------------------
(* RocksDbCFStore (cf_store.rs). *)

\* Mutant of hard_settings: the threads go on the raw options, unlocked.
hard_settings_unlocked(cfg) ==
  Given("parallelism" \in cfg.hard, "increase_parallelism", "inner")
  \o Given("recovery_mode" \in cfg.hard, "wal_recovery_mode", "inner")
  \o Given("enable_statistics" \in cfg.hard, "statistics", "inner")

hard_settings(cfg) ==
  Given("parallelism" \in cfg.hard, "increase_parallelism", "set")
  \o Given("recovery_mode" \in cfg.hard, "wal_recovery_mode", "inner")
  \o Given("enable_statistics" \in cfg.hard, "statistics", "inner")

\* Mutant of db_opts_tunable: the callback runs before the profile.
db_opts_tunable_early(cfg, create, cfs) ==
  LET t == ApplyAll(new(DbOptions), Given(create, "create_if_missing", "inner") \o hard_settings(cfg), "config")
  IN  TuneDb(cfg.profile,
        IF Called(cfg.custom, cfs) THEN ApplyAll(t, cfg.custom.db, "callback") ELSE t)

\* The database's options, given the column families the callback is handed.
db_opts_tunable(cfg, create, cfs) ==
  LET t == TuneDb(cfg.profile,
             ApplyAll(new(DbOptions), Given(create, "create_if_missing", "inner") \o hard_settings(cfg), "config"))
  IN  IF Called(cfg.custom, cfs) THEN ApplyAll(t, cfg.custom.db, "callback") ELSE t

effective_profile(cfg, cf) ==
  IF ConfigOf(cfg, cf).profile # None THEN ConfigOf(cfg, cf).profile ELSE cfg.profile

\* Merge operator, comparator and filter go on the raw options, last.
opts_to_modify(base, t) ==
  ApplyAll(t, Given(base.merge_operator, "merge_operator", "inner")
              \o Given(base.comparator, "comparator", "inner")
              \o Given(base.filter, "compaction_filter", "inner"), "config").inner

\* Mutant of cf_options: the callback runs after the operators are set.
cf_options_callback_last(cfg, cf) ==
  LET t == TuneCf(effective_profile(cfg, cf), new(CfOptions))
      u == [t EXCEPT !.inner = opts_to_modify(ConfigOf(cfg, cf), t)]
  IN  IF Called(cfg.custom, cfg.open) /\ cf \in Seen(cfg.custom, cfg.open)
      THEN ApplyAll(u, cfg.custom.cf, "callback").inner ELSE u.inner

cf_options(cfg, cf) ==
  LET t == TuneCf(effective_profile(cfg, cf), new(CfOptions))
  IN  opts_to_modify(ConfigOf(cfg, cf),
        IF Called(cfg.custom, cfg.open) /\ cf \in Seen(cfg.custom, cfg.open)
        THEN ApplyAll(t, cfg.custom.cf, "callback") ELSE t)

-----------------------------------------------------------------------------
(* The transactional stores (tx/internal.rs): the callback is given column  *)
(* families only.                                                           *)

build_db_wide_options(cfg) ==
  TuneDb(cfg.profile,
    ApplyAll(new(DbOptions),
      Given(cfg.create, "create_if_missing", "inner")
      \o Given("parallelism" \in cfg.hard, "increase_parallelism", "inner")
      \o Given("recovery_mode" \in cfg.hard, "wal_recovery_mode", "inner")
      \o Given("enable_statistics" \in cfg.hard, "statistics", "inner"), "config")).inner

\* Mutant of txn_cf_options: a column family without a profile of its own
\* does not fall back to the database's.
txn_cf_options_no_fallback(cfg, cf) ==
  opts_to_modify(ConfigOf(cfg, cf), TuneCf(ConfigOf(cfg, cf).profile, new(CfOptions)))

txn_cf_options(cfg, cf) ==
  LET base == ConfigOf(cfg, cf)
      t == TuneCf(IF base.profile # None THEN base.profile ELSE cfg.profile, new(CfOptions))
      u == IF cfg.custom # None /\ cf \in Seen(cfg.custom, cfg.open)
           THEN ApplyAll(t, cfg.custom.cf, "callback") ELSE t
  IN  ApplyAll(u, Given(base.merge_operator, "merge_operator", "inner")
                  \o Given(base.comparator, "comparator", "inner")
                  \o Given(base.filter, "compaction_filter", "inner"), "config").inner

-----------------------------------------------------------------------------
(* The six stores. *)

PlainKinds == {"CFStore", "Store"}

TxnKinds == {"CFTxnStore", "CFOptimisticTxnStore", "TxnStore", "OptimisticTxnStore"}

Wrappers == {"Store", "TxnStore", "OptimisticTxnStore"}

Config(s) ==
  CASE s.kind = "Store" -> into_cf(s.cfg)
    [] s.kind = "TxnStore" -> into_txn(s.cfg, "Pessimistic")
    [] s.kind = "OptimisticTxnStore" -> into_txn(s.cfg, "Optimistic")
    [] s.kind = "CFOptimisticTxnStore" -> [s.cfg EXCEPT !.engine = "Optimistic"]
    [] OTHER -> s.cfg

\* The engine a store works with; a configuration may ask for another one.
Engine(kind) ==
  CASE kind \in PlainKinds -> None
    [] kind \in {"CFTxnStore", "TxnStore"} -> "Pessimistic"
    [] OTHER -> "Optimistic"

OpenDbOptions(s) ==
  LET cfg == Config(s)
  IN  IF s.kind \in PlainKinds THEN db_opts_tunable(cfg, cfg.create, cfg.open).inner
      ELSE build_db_wide_options(cfg)

\* Mutant of OpenCfOptions: the listed column families only.
OpenCfOptionsListed(s) == [cf \in Config(s).open |-> cf_options(Config(s), cf)]

\* The default column family is always opened; one that is not listed gets
\* RocksDB's own options.
OpenCfOptions(s) ==
  LET cfg == Config(s)
  IN  [cf \in cfg.open \cup {Default} |->
        IF cf \notin cfg.open THEN new(CfOptions).inner
        ELSE IF s.kind \in PlainKinds THEN cf_options(cfg, cf) ELSE txn_cf_options(cfg, cf)]

\* Mutant of cf_destroy_options: the callback is not called.
cf_destroy_options_plain(cfg) == db_opts_tunable([cfg EXCEPT !.custom = None], FALSE, {}).inner

\* destroy of RocksDbCFStore hands its callback an empty map.
cf_destroy_options(cfg) == db_opts_tunable(cfg, FALSE, {}).inner

\* RocksDbOptimisticTxnStore::destroy converts by hand.
optimistic_destroy_config(w) ==
  [ create |-> w.create, hard |-> w.hard, profile |-> w.base.profile,
    cfs |-> <<>>, open |-> {}, engine |-> "Optimistic", custom |-> None ]

DestroyOptions(s) ==
  CASE s.kind \in PlainKinds -> cf_destroy_options(Config(s))
    [] s.kind = "OptimisticTxnStore" -> build_db_wide_options(optimistic_destroy_config(s.cfg))
    [] OTHER -> build_db_wide_options(Config(s))
=============================================================================

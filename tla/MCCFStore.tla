----------------------------- MODULE MCCFStore ------------------------------
(* CFStore for TLC: nine sessions over the six stores, five profiles, two   *)
(* column families (and a name no database knows) and two keys.             *)
EXTENDS CFStore

CONSTANTS Idx, Unknown

MCCfNames == {Default, Idx, Unknown}

Profile(kind, flags) == [kind |-> kind, flags |-> flags]

Base(profile, operators) ==
  [ profile |-> profile, merge_operator |-> "merge" \in operators,
    comparator |-> "comparator" \in operators, filter |-> "filter" \in operators ]

Callback(db, cf) == [db |-> db, cf |-> cf, wrapped |-> FALSE]

CfConfig(create, hard, profile, cfs, listed, engine, custom) ==
  [ create |-> create, hard |-> hard, profile |-> profile, cfs |-> cfs,
    open |-> listed, engine |-> engine, custom |-> custom ]

WrapperConfig(create, hard, base, custom) ==
  [create |-> create, hard |-> hard, base |-> base, custom |-> custom]

\* Two column families, tuned apart, with everything set by hand.
Catalogue ==
  CfConfig(TRUE, {"parallelism", "recovery_mode", "enable_statistics"},
    Profile("RealTime", {"cache", "wbm", "io_cap"}),
    [cf \in {Default, Idx} |->
      IF cf = Idx THEN Base(Profile("LatestValue", {"compress"}), {"merge", "filter"})
      ELSE Base(None, {})],
    {Default, Idx}, "Pessimistic", None)

\* The default column family is configured and not listed.
Unlisted ==
  CfConfig(TRUE, {"parallelism"}, Profile("MemorySaver", {"cache"}),
    [cf \in {Default, Idx} |-> Base(None, {"merge"})], {Idx}, "Optimistic", None)

\* The callback moves the log and sets what a profile or the configuration
\* sets too.
Elsewhere ==
  CfConfig(TRUE, {"parallelism"}, Profile("TimeSeries", {"fifo", "fifo_size", "compress", "io_cap"}),
    [cf \in {Default} |-> Base(None, {"merge"})], {Default}, "Pessimistic",
    Callback(<<Call("inner", "wal_dir"), Call("inner", "max_open_files"), Call("tune", "increase_parallelism")>>,
             <<Call("set", "write_buffer_size"), Call("tune", "max_open_files"), Call("inner", "merge_operator")>>))

\* The same kind of callback, for a default-CF store.
Wrapped ==
  Callback(<<Call("inner", "wal_dir"), Call("set", "increase_parallelism")>>,
           <<Call("tune", "compression_type"), Call("inner", "merge_operator")>>)

MCSessions ==
  { [kind |-> "CFStore", cfg |-> Catalogue],
    [kind |-> "CFStore", cfg |-> Elsewhere],
    [kind |-> "CFTxnStore", cfg |-> Catalogue],
    [kind |-> "CFTxnStore", cfg |-> Unlisted],
    [kind |-> "CFOptimisticTxnStore", cfg |-> [Unlisted EXCEPT !.create = FALSE]],
    [kind |-> "Store",
     cfg |-> WrapperConfig(TRUE, {"parallelism"}, Base(Profile("SparseBitmap", {"universal"}), {"merge"}), Wrapped)],
    [kind |-> "Store",
     cfg |-> WrapperConfig(TRUE, {}, Base(None, {"comparator"}), None)],
    [kind |-> "TxnStore",
     cfg |-> WrapperConfig(TRUE, {"recovery_mode"}, Base(Profile("LatestValue", {}), {"merge", "filter"}), Wrapped)],
    [kind |-> "OptimisticTxnStore",
     cfg |-> WrapperConfig(FALSE, {"enable_statistics"}, Base(Profile("SparseBitmap", {}), {}), None)] }

\* The sessions that lock their threads, and those that do not.
MCPlainSessions == {s \in MCSessions : s.kind \in PlainKinds}

MCTxnSessions == {s \in MCSessions : s.kind \in TxnKinds}
=============================================================================

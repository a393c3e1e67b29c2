------------------------------- MODULE Tuning ------------------------------
(* The tuner: Tunable (tuner/tunable.rs), RocksDB options that remember      *)
(* which of its methods have locked their option, and the profiles           *)
(* (tuner/profiles.rs), each a list of calls on a Tunable.                   *)
(*                                                                           *)
(* The value of an option is who wrote it last and through which method;     *)
(* the numbers the profiles choose are left out.  A call is a method of      *)
(* Tunable ("set", "tune") or of the raw options ("inner") and its key.      *)
EXTENDS Integers, SequencesExt

Unset == [by |-> "rocksdb", via |-> "default"]

DbOptions ==
  { "create_if_missing", "threads", "max_background_jobs", "wal_recovery_mode", "statistics",
    "max_open_files", "memtable_writes", "rate_limiter", "row_cache",
    "write_buffer_manager", "bytes_per_sync", "wal_dir" }

CfOptions ==
  { "write_buffer_size", "max_write_buffer_number", "compaction_style", "level0",
    "compression_type", "bottommost_compression_type", "block_based_table_factory",
    "compaction_options_fifo", "universal_compaction_options", "optimize_filters_for_hits",
    "max_open_files", "merge_operator", "comparator", "compaction_filter" }

\* Some methods write several options.
ManyOptions ==
  {"increase_parallelism", "optimize_level_style_compaction", "optimize_universal_style_compaction"}

Writes(key) ==
  CASE key = "increase_parallelism" -> {"threads", "max_background_jobs"}
    [] key = "optimize_level_style_compaction" ->
         {"write_buffer_size", "max_write_buffer_number", "compaction_style", "level0", "compression_type"}
    [] key = "optimize_universal_style_compaction" ->
         {"write_buffer_size", "max_write_buffer_number", "compaction_style", "universal_compaction_options"}
    [] OTHER -> {key}

-----------------------------------------------------------------------------
(* Tunable (tuner/tunable.rs). *)

new(options) == [inner |-> [o \in options |-> Unset], locked |-> {}]

inner(t, key, who) ==
  [t EXCEPT !.inner = [o \in DOMAIN @ |-> IF o \in Writes(key) THEN [by |-> who, via |-> key] ELSE @[o]]]

set_(t, key, who) == [inner(t, key, who) EXCEPT !.locked = @ \cup {key}]

is_locked(t, key) == key \in t.locked

tune_set_(t, key, who) == IF is_locked(t, key) THEN t ELSE inner(t, key, who)

Call(method, key) == [method |-> method, key |-> key]

Apply(t, call, who) ==
  CASE call.method = "set" -> set_(t, call.key, who)
    [] call.method = "tune" -> tune_set_(t, call.key, who)
    [] call.method = "inner" -> inner(t, call.key, who)

\* What a list of calls has made of the options after each of them.
Stages(t, calls, who) ==
  LET after[n \in 0..Len(calls)] ==
        IF n = 0 THEN t ELSE Apply(after[n - 1], calls[n], who)
  IN  after

ApplyAll(t, calls, who) == Stages(t, calls, who)[Len(calls)]

\* The calls there are on some options.
CallsOn(options) ==
  [ method : {"set", "tune", "inner"},
    key : options \cup {key \in ManyOptions : Writes(key) \subseteq options} ]

-----------------------------------------------------------------------------
(* TuningProfile (tuner/profiles.rs): a kind, and the choices and sizes     *)
(* that decide which calls are made, as a set of flags.                     *)

Profiles ==
  [ kind : {"LatestValue", "MemorySaver", "RealTime", "TimeSeries", "SparseBitmap"},
    flags : SUBSET {"cache", "wbm", "io_cap", "compress", "fifo", "fifo_size", "universal"} ]

Tune(keys) == [i \in DOMAIN keys |-> Call("tune", keys[i])]

When(profile, flag, keys) == IF flag \in profile.flags THEN Tune(keys) ELSE <<>>

\* A cache and a write buffer manager are made if their size is not zero.
MemoryCalls(profile) ==
  When(profile, "cache", <<"row_cache">>) \o When(profile, "wbm", <<"write_buffer_manager">>)

DbCalls(profile) ==
  Tune(<<"increase_parallelism", "max_open_files", "memtable_writes">>)
  \o When(profile, "io_cap", <<"rate_limiter">>)
  \o CASE profile.kind = "MemorySaver" ->
            MemoryCalls(profile) \o Tune(<<"max_open_files", "increase_parallelism">>)
       [] profile.kind = "RealTime" ->
            MemoryCalls(profile)
            \o Tune(<<"increase_parallelism", "max_background_jobs", "bytes_per_sync">>)
       [] OTHER -> <<>>

tune_db_opts(profile, t) == ApplyAll(t, DbCalls(profile), profile.kind)

LatestValueCalls(profile) ==
  Tune(<<"write_buffer_size", "max_write_buffer_number", "compaction_style", "level0", "compression_type">>)
  \o When(profile, "compress", <<"bottommost_compression_type">>)
  \o Tune(<<"block_based_table_factory">>)

MemorySaverCalls(profile) ==
  Tune(<<"write_buffer_size", "max_write_buffer_number", "compression_type",
         "block_based_table_factory", "optimize_level_style_compaction">>)

RealTimeCalls(profile) ==
  Tune(<<"write_buffer_size", "max_write_buffer_number", "compaction_style", "level0",
         "compression_type", "block_based_table_factory", "optimize_filters_for_hits">>)

\* The one call of a profile that locks.
TimeSeriesCalls(profile) ==
  Tune(<<"write_buffer_size", "compression_type">>)
  \o When(profile, "compress", <<"bottommost_compression_type">>)
  \o IF "fifo" \in profile.flags
     THEN Tune(<<"compaction_style">>) \o When(profile, "fifo_size", <<"compaction_options_fifo">>)
          \o <<Call("set", "max_open_files")>>
     ELSE <<>>

SparseBitmapCalls(profile) ==
  Tune(<<"write_buffer_size", "max_write_buffer_number", "compression_type", "compaction_style">>)
  \o When(profile, "universal",
          <<"universal_compaction_options", "optimize_universal_style_compaction">>)

CfCalls(profile) ==
  CASE profile.kind = "LatestValue" -> LatestValueCalls(profile)
    [] profile.kind = "MemorySaver" -> MemorySaverCalls(profile)
    [] profile.kind = "RealTime" -> RealTimeCalls(profile)
    [] profile.kind = "TimeSeries" -> TimeSeriesCalls(profile)
    [] profile.kind = "SparseBitmap" -> SparseBitmapCalls(profile)

tune_cf_opts(profile, t) == ApplyAll(t, CfCalls(profile), profile.kind)
=============================================================================

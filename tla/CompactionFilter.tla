-------------------------- MODULE CompactionFilter -------------------------
(* The compaction filter routers: a process-wide table of key patterns      *)
(* (compaction_filter/mod.rs) and a process-wide trie of binary prefixes    *)
(* (compaction_filter/binary.rs), filled through builders and consulted     *)
(* during compactions of every column family that was opened with the one   *)
(* or the other filter.  Handlers are the ones of the tests: one removes,   *)
(* one changes the value, one removes what is expired (types.rs).           *)
(*                                                                          *)
(* A compaction decides about one version of a key and drops it later;      *)
(* writes, other registrations and the clock go on in between.              *)
EXTENDS Naturals, Sequences, SequencesExt, FiniteSets

CONSTANTS Cfs,
          FilterKind,  \* FilterKind[cf]: "router", "binary" or "none"
          Keys,
          KeyBytes,    \* KeyBytes[k]: the key's bytes
          Utf8Keys,    \* the keys whose bytes are a string
          Patterns,    \* patterns of the text router, the most specific first
          Matches,     \* Matches[k]: the patterns the key matches
          PrefixRoutes,    \* byte sequences used as routes of the trie
          Handlers,    \* of "remove", "change", "expire"
          None,
          MaxTime,     \* bound of the clock
          MaxWrites    \* bound of writes

ASSUME FilterAssumption ==
  /\ FilterKind \in [Cfs -> {"router", "binary", "none"}]
  /\ Utf8Keys \subseteq Keys /\ KeyBytes \in [Keys -> Seq(Nat)] /\ PrefixRoutes \subseteq Seq(Nat)
  /\ Patterns \in Seq(ToSet(Patterns))
  /\ Matches \in [Keys -> SUBSET ToSet(Patterns)]
  /\ Handlers \subseteq {"remove", "change", "expire"} /\ None \notin {"remove", "change", "expire"}
ASSUME FilterBoundAssumption == MaxTime \in Nat /\ MaxWrites \in Nat

VARIABLES
  router,   \* COMPACTION_FILTER_ROUTER
  trie,     \* BINARY_COMPACTION_FILTER_ROUTER
  named,    \* column families whose builder has an operator name
  filter,   \* column families opened with their filter
  removing, \* routes that ever had a removing handler, with their router
  record,   \* record[cf][k]: the latest version, its value and its number
  job,      \* a version a compaction has decided about, or None
  now,      \* the clock
  writes    \* number of writes

routes == <<router, trie, removing>>
vars == <<routes, named, filter, record, job, now, writes>>

\* A stored value: shorter than a time stamp, the MessagePack form of a
\* longer value, or a ValueWithExpiry with its time stamp.
Stored == [form : {"short", "plain"}, expire : {0}] \cup [form : {"expiring"}, expire : 0..MaxTime]

ASSUME NoneAssumption == None \notin Stored

Decisions == {"Keep", "Remove", "Change"}

Init ==
  /\ router = [p \in ToSet(Patterns) |-> None]
  /\ trie = [p \in PrefixRoutes |-> None]
  /\ named = {} /\ filter = {}
  /\ removing = {}
  /\ record = [cf \in Cfs |-> [k \in Keys |-> [val |-> None, num |-> 0]]]
  /\ job = None
  /\ now = 0 /\ writes = 0

-----------------------------------------------------------------------------
(* Registration. *)

operator_name(cf) ==
  /\ FilterKind[cf] # "none" /\ cf \notin named
  /\ named' = named \cup {cf}
  /\ UNCHANGED <<routes, filter, record, job, now, writes>>

Register(kind, p, h) ==
  removing' = IF h = "remove" THEN removing \cup {<<kind, p>>} ELSE removing

\* The table refuses a pattern it has.
add_route(cf, p, h) ==
  /\ FilterKind[cf] = "router" /\ router[p] = None
  /\ router' = [router EXCEPT ![p] = h]
  /\ Register("router", p, h)
  /\ UNCHANGED <<trie, named, filter, record, job, now, writes>>

\* The trie replaces the handler of a prefix it has.
add_prefix_route(cf, p, h) ==
  /\ FilterKind[cf] = "binary"
  /\ trie' = [trie EXCEPT ![p] = h]
  /\ Register("binary", p, h)
  /\ UNCHANGED <<router, named, filter, record, job, now, writes>>

\* Mutant of build: the missing name is not an error.
build_unnamed(cf) ==
  /\ FilterKind[cf] # "none" /\ cf \notin filter
  /\ filter' = filter \cup {cf}
  /\ UNCHANGED <<routes, named, record, job, now, writes>>

\* build() needs a name and no route; open then installs the filter.
build(cf) ==
  /\ cf \in named /\ cf \notin filter
  /\ filter' = filter \cup {cf}
  /\ UNCHANGED <<routes, named, record, job, now, writes>>

-----------------------------------------------------------------------------
(* Decisions. *)

\* The first eight bytes as a number.  MessagePack starts every encoding of
\* more than one byte with a byte above 127, so they exceed any clock.
expire_time_from_slice(v) ==
  CASE v.form = "short" -> 0
    [] v.form = "plain" -> MaxTime + 1
    [] v.form = "expiring" -> v.expire

\* Mutant of from_slice: the length is not looked at.
from_slice_unchecked(v) == expire_time_from_slice(v)

\* None is the error for a value without a time stamp.
from_slice(v) == IF v.form = "short" THEN None ELSE expire_time_from_slice(v)

\* The handlers of the tests.
Handle(h, v) ==
  CASE h = "remove" -> "Remove"
    [] h = "change" -> "Change"
    [] h = "expire" -> IF from_slice(v) # None /\ from_slice(v) <= now THEN "Remove" ELSE "Keep"

\* Mutant of router_compaction_filter_fn: any bytes are made a string.
router_compaction_filter_fn_lossy(k, v) ==
  LET hits == {i \in DOMAIN Patterns : router[Patterns[i]] # None /\ Patterns[i] \in Matches[k]}
  IN  IF hits # {} THEN Handle(router[Patterns[Min(hits)]], v) ELSE "Keep"

\* The most specific registered pattern that matches, for keys that are strings.
router_compaction_filter_fn(k, v) ==
  LET hits == {i \in DOMAIN Patterns : router[Patterns[i]] # None /\ Patterns[i] \in Matches[k]}
  IN  IF k \in Utf8Keys /\ hits # {} THEN Handle(router[Patterns[Min(hits)]], v) ELSE "Keep"

\* The longest registered prefix of the key.
binary_router_fn(k, v) ==
  LET hits == {p \in PrefixRoutes : trie[p] # None /\ IsPrefix(p, KeyBytes[k])}
  IN  IF hits = {} THEN "Keep"
      ELSE Handle(trie[CHOOSE p \in hits : \A q \in hits : Len(q) <= Len(p)], v)

\* What open installed.
filter_fn_ptr(cf, k, v) ==
  IF cf \notin filter THEN "Keep"
  ELSE IF FilterKind[cf] = "router" THEN router_compaction_filter_fn(k, v)
  ELSE binary_router_fn(k, v)

\* A compaction meets a version ...
Decide(cf, k) ==
  /\ job = None /\ record[cf][k].val # None
  /\ job' = [cf |-> cf, key |-> k, num |-> record[cf][k].num,
             decision |-> filter_fn_ptr(cf, k, record[cf][k].val)]
  /\ UNCHANGED <<routes, named, filter, record, now, writes>>

\* ... and its output replaces that version; a later one is not affected.
Install ==
  /\ job # None
  /\ record' =
       IF job.decision = "Keep" \/ record[job.cf][job.key].num # job.num THEN record
       ELSE [record EXCEPT ![job.cf][job.key].val =
               IF job.decision = "Remove" THEN None ELSE [form |-> "plain", expire |-> 0]]
  /\ job' = None
  /\ UNCHANGED <<routes, named, filter, now, writes>>

-----------------------------------------------------------------------------
\* put, put_raw or put_with_expiry.
put(cf, k, v) ==
  /\ writes < MaxWrites /\ writes' = writes + 1
  /\ record' = [record EXCEPT ![cf][k] = [val |-> v, num |-> writes']]
  /\ UNCHANGED <<routes, named, filter, job, now>>

Tick ==
  /\ now < MaxTime /\ now' = now + 1
  /\ UNCHANGED <<routes, named, filter, record, job, writes>>

Next ==
  \/ \E cf \in Cfs :
       \/ operator_name(cf) \/ build(cf)
       \/ \E p \in ToSet(Patterns), h \in Handlers : add_route(cf, p, h)
       \/ \E p \in PrefixRoutes, h \in Handlers : add_prefix_route(cf, p, h)
       \/ \E k \in Keys : Decide(cf, k) \/ \E v \in Stored : put(cf, k, v)
  \/ Install \/ Tick

Spec == Init /\ [][Next]_vars

-----------------------------------------------------------------------------
\* Every variable has its type, and a filter is installed under a name only.
TypeOK ==
  /\ router \in [ToSet(Patterns) -> Handlers \cup {None}]
  /\ trie \in [PrefixRoutes -> Handlers \cup {None}]
  /\ removing \subseteq {"router", "binary"} \X (ToSet(Patterns) \cup PrefixRoutes)
  /\ filter \subseteq named /\ named \subseteq Cfs
  /\ record \in [Cfs -> [Keys -> [val : Stored \cup {None}, num : 0..MaxWrites]]]
  /\ job = None \/ job \in [cf : Cfs, key : Keys, num : 0..MaxWrites, decision : Decisions]
  /\ now \in 0..MaxTime /\ writes \in 0..MaxWrites

\* The routes that the key is exposed to in the column family; none is ever
\* taken away.
Exposed(cf, k) ==
  IF cf \notin filter THEN {}
  ELSE IF FilterKind[cf] = "router"
  THEN {<<"router", p>> : p \in {q \in Matches[k] : k \in Utf8Keys /\ router[q] # None}}
  ELSE {<<"binary", p>> : p \in {q \in PrefixRoutes : trie[q] # None /\ IsPrefix(q, KeyBytes[k])}}

\* The step is a compaction's, not a writer's.
Compacted(cf, k) ==
  record'[cf][k].num = record[cf][k].num /\ record'[cf][k].val # record[cf][k].val

\* A compaction changes a record only in a column family with a filter, by a
\* route of that filter's own router that matches the key; keys that are not
\* UTF-8 are out of the text router's reach, whatever patterns it has.  It
\* loses one only by a route to a removing handler, or if the record itself
\* was expired: a value refreshed while the compaction was at work, a value
\* without a time stamp and a value too short for one stay.
LiveValuesKept ==
  [][\A cf \in Cfs, k \in Keys :
       Compacted(cf, k) =>
         /\ Exposed(cf, k) # {}
         /\ record'[cf][k].val = None =>
              \/ Exposed(cf, k) \cap removing # {}
              \/ record[cf][k].val.form = "expiring" /\ record[cf][k].val.expire <= now]_vars
=============================================================================

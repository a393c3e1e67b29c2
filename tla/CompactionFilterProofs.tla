----------------------- MODULE CompactionFilterProofs ----------------------
(* Proofs about CompactionFilter, for all column families, keys, patterns,  *)
(* prefixes and handlers, and any number of writes.                         *)
EXTENDS CompactionFilter, WellFoundedInduction, TLAPS

(* A compaction decides in one step and installs its output in a later one. *)
(* In between, routes are added, filters are installed, records rewritten   *)
(* and the clock goes on.  What justified the decision lasts: routes are    *)
(* never taken away, a route that ever had a removing handler is known, the *)
(* clock does not go back, and a record with the same number is the same.   *)

\* Every removing handler in either table is recorded as such.
RemovingKnown ==
  /\ \A p \in ToSet(Patterns) : router[p] = "remove" => <<"router", p>> \in removing
  /\ \A p \in PrefixRoutes : trie[p] = "remove" => <<"binary", p>> \in removing

\* Numbers of versions come from the counter of writes.
NumbersWritten == \A cf \in Cfs, k \in Keys : record[cf][k].num <= writes

Outdated(v) == v \in Stored /\ v.form = "expiring" /\ v.expire <= now

\* What allows a decision about a version, in a state in which it is made or
\* in any later one.
Justified(cf, k, num, decision) ==
  /\ decision # "Keep" => Exposed(cf, k) # {}
  /\ decision = "Remove" => \/ Exposed(cf, k) \cap removing # {}
                            \/ record[cf][k].num = num => Outdated(record[cf][k].val)

JobJustified ==
  job # None => job.num <= writes /\ Justified(job.cf, job.key, job.num, job.decision)

IInv == TypeOK /\ RemovingKnown /\ NumbersWritten /\ JobJustified

JobSet == [cf : Cfs, key : Keys, num : 0..MaxWrites, decision : Decisions]

-----------------------------------------------------------------------------
\* The least of some natural numbers is one of them.
LEMMA LeastOfNat ==
  ASSUME NEW S \in SUBSET Nat, S # {}
  PROVE  \E x \in S : \A y \in S : x <= y
<1>1. \E x \in S : \A y \in S : ~(<<y, x>> \in OpToRel(<, Nat))
  BY NatLessThanWellFounded, WFMin
<1>2. ASSUME NEW x \in Nat, NEW y \in Nat, y < x PROVE <<y, x>> \in OpToRel(<, Nat)
  <2>1. <<y, x>> \in Nat \X Nat /\ <<y, x>>[1] < <<y, x>>[2]
    BY <1>2
  <2>2. QED
    BY <2>1, Zenon DEF OpToRel
<1>3. \A x, y \in Nat : ~(y < x) => x <= y
  OBVIOUS
<1>4. QED
  BY <1>1, <1>2, <1>3

\* A handler's answer: only the removing handler, and the one for expired
\* values on such a value, remove.
LEMMA HandleFacts ==
  ASSUME NEW h \in Handlers, NEW v \in Stored, now \in 0..MaxTime
  PROVE  /\ Handle(h, v) \in Decisions
         /\ Handle(h, v) = "Remove" => h = "remove" \/ Outdated(v)
<1>1. h \in {"remove", "change", "expire"}
  BY FilterAssumption
<1>2. CASE h = "remove"
  BY <1>2 DEF Handle, Decisions
<1>3. CASE h = "change"
  BY <1>3 DEF Handle, Decisions
<1>4. CASE h = "expire"
  <2>1. Handle(h, v) = IF from_slice(v) # None /\ from_slice(v) <= now THEN "Remove" ELSE "Keep"
    BY <1>4 DEF Handle
  <2>2. CASE v.form = "short"
    BY <1>4, <2>1, <2>2 DEF from_slice, Decisions
  <2>3. CASE v.form = "plain"
    <3>1. from_slice(v) = MaxTime + 1
      BY <2>3 DEF from_slice, expire_time_from_slice
    <3>2. ~(from_slice(v) <= now)
      BY <3>1, FilterBoundAssumption
    <3>3. QED
      BY <1>4, <2>1, <3>2 DEF Decisions
  <2>4. CASE v.form = "expiring"
    <3>1. from_slice(v) = v.expire
      BY <2>4 DEF from_slice, expire_time_from_slice
    <3>2. QED
      BY <1>4, <2>1, <2>4, <3>1 DEF Decisions, Outdated
  <2>5. QED
    BY <2>2, <2>3, <2>4 DEF Stored
<1>5. QED
  BY <1>1, <1>2, <1>3, <1>4

\* What a filter answers about a version is justified when it answers.
FilterOk(cf, k, v) ==
  /\ filter_fn_ptr(cf, k, v) \in Decisions
  /\ filter_fn_ptr(cf, k, v) # "Keep" => Exposed(cf, k) # {}
  /\ filter_fn_ptr(cf, k, v) = "Remove" => Exposed(cf, k) \cap removing # {} \/ Outdated(v)

\* The text router's answer.
LEMMA RouterFacts ==
  ASSUME TypeOK, RemovingKnown, NEW cf \in filter, FilterKind[cf] = "router",
         NEW k \in Keys, NEW v \in Stored
  PROVE  FilterOk(cf, k, v)
<1> DEFINE hits == {i \in DOMAIN Patterns : router[Patterns[i]] # None /\ Patterns[i] \in Matches[k]}
           p == Patterns[Min(hits)]
<1>1. /\ filter_fn_ptr(cf, k, v) = IF k \in Utf8Keys /\ hits # {} THEN Handle(router[p], v) ELSE "Keep"
      /\ Exposed(cf, k) = {<<"router", q>> : q \in {q \in Matches[k] : k \in Utf8Keys /\ router[q] # None}}
  BY DEF filter_fn_ptr, router_compaction_filter_fn, Exposed
<1>2. CASE ~(k \in Utf8Keys /\ hits # {})
  BY <1>1, <1>2 DEF FilterOk, Decisions
<1>3. CASE k \in Utf8Keys /\ hits # {}
  <2>1. hits \in SUBSET Nat
    BY FilterAssumption
  <2>2. Min(hits) \in hits
    <3> HIDE DEF hits
    <3>1. \E x \in hits : \A y \in hits : x <= y
      BY <1>3, <2>1, LeastOfNat
    <3>2. QED
      BY <3>1 DEF Min
  <2>3. p \in ToSet(Patterns) /\ p \in Matches[k] /\ router[p] # None
    BY <2>2 DEF ToSet
  <2> HIDE DEF p, hits
  <2>4. router[p] \in Handlers /\ now \in 0..MaxTime
    BY <2>3 DEF TypeOK
  <2>5. <<"router", p>> \in Exposed(cf, k)
    BY <1>1, <1>3, <2>3
  <2>6. router[p] = "remove" => <<"router", p>> \in removing
    BY <2>3 DEF RemovingKnown
  <2>7. filter_fn_ptr(cf, k, v) = Handle(router[p], v)
    BY <1>1, <1>3
  <2>8. QED
    BY <2>4, <2>5, <2>6, <2>7, HandleFacts DEF FilterOk
<1>4. QED
  BY <1>2, <1>3

\* The trie's answer: there is a longest prefix among those that match.
LEMMA BinaryFacts ==
  ASSUME TypeOK, RemovingKnown, NEW cf \in filter, FilterKind[cf] # "router",
         NEW k \in Keys, NEW v \in Stored
  PROVE  FilterOk(cf, k, v)
<1> DEFINE hits == {p \in PrefixRoutes : trie[p] # None /\ IsPrefix(p, KeyBytes[k])}
           p == CHOOSE p \in hits : \A q \in hits : Len(q) <= Len(p)
<1>1. /\ filter_fn_ptr(cf, k, v) = IF hits = {} THEN "Keep" ELSE Handle(trie[p], v)
      /\ Exposed(cf, k) = {<<"binary", q>> : q \in hits}
  BY DEF filter_fn_ptr, binary_router_fn, Exposed
<1>2. CASE hits = {}
  BY <1>1, <1>2 DEF FilterOk, Decisions
<1>3. CASE hits # {}
  <2> DEFINE n == Len(KeyBytes[k])
             gaps == {n - Len(q) : q \in hits}
  <2>1. n \in Nat /\ \A q \in hits : Len(q) \in Nat /\ Len(q) <= n
    <3>1. KeyBytes[k] \in Seq(Nat) /\ \A q \in hits : q \in Seq(Nat) /\ IsPrefix(q, KeyBytes[k])
      BY FilterAssumption
    <3> HIDE DEF hits
    <3>2. QED
      BY <3>1 DEF IsPrefix
  <2>2. p \in hits
    <3> HIDE DEF hits, n
    <3>1. gaps \in SUBSET Nat /\ gaps # {}
      BY <1>3, <2>1
    <3>2. PICK x \in gaps : \A y \in gaps : x <= y
      <4> HIDE DEF gaps
      <4>1. QED
        BY <3>1, LeastOfNat
    <3>3. PICK q \in hits : x = n - Len(q)
      BY <3>2
    <3>4. \A r \in hits : n - Len(q) <= n - Len(r)
      BY <3>2, <3>3
    <3>5. \A r \in hits : Len(r) <= Len(q)
      BY <2>1, <3>4
    <3>6. QED
      BY <3>5
  <2>3. p \in PrefixRoutes /\ trie[p] # None
    BY <2>2
  <2>4. <<"binary", p>> \in Exposed(cf, k)
    BY <1>1, <2>2
  <2>5. filter_fn_ptr(cf, k, v) = Handle(trie[p], v)
    BY <1>1, <1>3
  <2> HIDE DEF p, hits
  <2>6. trie[p] \in Handlers /\ now \in 0..MaxTime
    BY <2>3 DEF TypeOK
  <2>7. trie[p] = "remove" => <<"binary", p>> \in removing
    BY <2>3 DEF RemovingKnown
  <2>8. QED
    BY <2>4, <2>5, <2>6, <2>7, HandleFacts DEF FilterOk
<1>4. QED
  BY <1>2, <1>3

LEMMA FilterFacts ==
  ASSUME TypeOK, RemovingKnown, NEW cf \in Cfs, NEW k \in Keys, NEW v \in Stored
  PROVE  FilterOk(cf, k, v)
<1>1. CASE cf \notin filter
  BY <1>1 DEF FilterOk, filter_fn_ptr, Decisions
<1>2. CASE cf \in filter
  BY <1>2, RouterFacts, BinaryFacts
<1>3. QED
  BY <1>1, <1>2

-----------------------------------------------------------------------------
(* The steps. *)

\* A step that takes no route and no filter away, does not turn the clock
\* back and writes no version under an old number keeps a decision justified.
Grows ==
  /\ filter \subseteq filter' /\ removing \subseteq removing'
  /\ \A p \in ToSet(Patterns) : router[p] # None => router'[p] # None
  /\ \A p \in PrefixRoutes : trie[p] # None => trie'[p] # None
  /\ now <= now' /\ writes <= writes'
  /\ \A cf \in Cfs, k \in Keys : record'[cf][k] = record[cf][k] \/ record'[cf][k].num > writes

LEMMA ExposedGrows ==
  ASSUME Grows, NEW cf \in Cfs, NEW k \in Keys
  PROVE  Exposed(cf, k) \subseteq Exposed(cf, k)'
<1>1. Matches[k] \subseteq ToSet(Patterns)
  BY FilterAssumption
<1>2. CASE cf \notin filter
  BY <1>2 DEF Exposed
<1>3. CASE cf \in filter /\ FilterKind[cf] = "router"
  <2>1. /\ Exposed(cf, k) = {<<"router", p>> : p \in {q \in Matches[k] : k \in Utf8Keys /\ router[q] # None}}
        /\ Exposed(cf, k)' = {<<"router", p>> : p \in {q \in Matches[k] : k \in Utf8Keys /\ router'[q] # None}}
    BY <1>3 DEF Exposed, Grows
  <2>2. {q \in Matches[k] : k \in Utf8Keys /\ router[q] # None}
          \subseteq {q \in Matches[k] : k \in Utf8Keys /\ router'[q] # None}
    BY <1>1 DEF Grows
  <2>3. QED
    BY <2>1, <2>2
<1>4. CASE cf \in filter /\ FilterKind[cf] # "router"
  <2>1. /\ Exposed(cf, k) = {<<"binary", p>> : p \in {q \in PrefixRoutes : trie[q] # None /\ IsPrefix(q, KeyBytes[k])}}
        /\ Exposed(cf, k)' = {<<"binary", p>> : p \in {q \in PrefixRoutes : trie'[q] # None /\ IsPrefix(q, KeyBytes[k])}}
    BY <1>4 DEF Exposed, Grows
  <2>2. {q \in PrefixRoutes : trie[q] # None /\ IsPrefix(q, KeyBytes[k])}
          \subseteq {q \in PrefixRoutes : trie'[q] # None /\ IsPrefix(q, KeyBytes[k])}
    BY DEF Grows
  <2>3. QED
    BY <2>1, <2>2
<1>5. QED
  BY <1>2, <1>3, <1>4

LEMMA JobLasts ==
  ASSUME IInv, TypeOK', Grows, UNCHANGED job
  PROVE  JobJustified'
<1> SUFFICES ASSUME job # None
             PROVE  job.num <= writes' /\ Justified(job.cf, job.key, job.num, job.decision)'
  BY DEF JobJustified
<1> DEFINE cf == job.cf
           k == job.key
           r == record[cf][k]
<1>1. /\ job \in JobSet /\ cf \in Cfs /\ k \in Keys /\ job.num \in Nat
      /\ job.num <= writes /\ Justified(cf, k, job.num, job.decision)
  BY DEF IInv, TypeOK, JobSet, JobJustified
<1>2. writes \in Nat /\ writes' \in Nat /\ now \in Nat /\ now' \in Nat /\ writes <= writes' /\ now <= now'
  BY DEF IInv, TypeOK, Grows
<1>3. job.num <= writes'
  BY <1>1, <1>2
<1>4. Exposed(cf, k) \subseteq Exposed(cf, k)' /\ removing \subseteq removing'
  BY <1>1, ExposedGrows DEF Grows
<1>5. record'[cf][k].num = job.num => record'[cf][k] = r
  BY <1>1, <1>2 DEF Grows
<1>6. \A v : Outdated(v) => v \in Stored /\ v.form = "expiring" /\ v.expire <= now'
  <2>1. \A v \in Stored : v.form = "expiring" => v.expire \in Nat
    BY FilterBoundAssumption DEF Stored
  <2>2. QED
    BY <1>2, <2>1 DEF Outdated
<1>7. \/ Exposed(cf, k) \cap removing # {}
      \/ r.num = job.num => Outdated(r.val)
      \/ job.decision # "Remove"
  BY <1>1 DEF Justified
<1>8. \/ Exposed(cf, k)' \cap removing' # {}
      \/ record'[cf][k].num = job.num => Outdated(record[cf][k].val)'
      \/ job.decision # "Remove"
  BY <1>4, <1>5, <1>6, <1>7 DEF Outdated
<1>9. QED
  BY <1>1, <1>3, <1>4, <1>8 DEF Justified

\* A name for a builder, a filter installed, the clock: the tables and the
\* records stay.
LEMMA OtherInv ==
  ASSUME IInv, UNCHANGED <<routes, record, job, writes>>,
         filter \subseteq filter', filter' \subseteq named', named' \subseteq Cfs,
         now' \in 0..MaxTime, now <= now'
  PROVE  IInv'
<1>1. TypeOK'
  BY DEF IInv, TypeOK, routes
<1>2. RemovingKnown' /\ NumbersWritten'
  BY DEF IInv, RemovingKnown, NumbersWritten, routes
<1>3. Grows
  <2>1. writes <= writes'
    BY DEF IInv, TypeOK
  <2>2. QED
    BY <2>1 DEF Grows, routes
<1>4. QED
  BY <1>1, <1>2, <1>3, JobLasts DEF IInv

\* Registration of a pattern: the table refuses a pattern it has.
LEMMA AddRouteInv ==
  ASSUME IInv, NEW cf \in Cfs, NEW p \in ToSet(Patterns), NEW h \in Handlers, add_route(cf, p, h)
  PROVE  IInv'
<1>0. TypeOK /\ UNCHANGED <<trie, named, filter, record, job, now, writes>>
      /\ router' = [router EXCEPT ![p] = h] /\ router[p] = None /\ Register("router", p, h)
  BY DEF IInv, add_route
<1>1. removing \subseteq removing' /\ removing' \subseteq removing \cup {<<"router", p>>}
      /\ (h = "remove" => <<"router", p>> \in removing')
  BY <1>0 DEF Register
<1>2. TypeOK'
  <2>1. removing' \subseteq {"router", "binary"} \X (ToSet(Patterns) \cup PrefixRoutes)
    BY <1>0, <1>1 DEF TypeOK
  <2>2. router' \in [ToSet(Patterns) -> Handlers \cup {None}]
    BY <1>0 DEF TypeOK
  <2>3. QED
    BY <1>0, <2>1, <2>2 DEF TypeOK
<1>3. RemovingKnown'
  BY <1>0, <1>1 DEF IInv, TypeOK, RemovingKnown
<1>4. NumbersWritten'
  BY <1>0 DEF IInv, NumbersWritten
<1>5. Grows
  <2>1. writes <= writes' /\ now <= now'
    BY <1>0 DEF TypeOK
  <2>2. \A q \in ToSet(Patterns) : router[q] # None => router'[q] # None
    BY <1>0, FilterAssumption DEF TypeOK
  <2>3. QED
    BY <1>0, <1>1, <2>1, <2>2 DEF Grows
<1>6. QED
  BY <1>0, <1>2, <1>3, <1>4, <1>5, JobLasts DEF IInv

\* Registration of a prefix, perhaps in place of another handler.
LEMMA AddPrefixRouteInv ==
  ASSUME IInv, NEW cf \in Cfs, NEW p \in PrefixRoutes, NEW h \in Handlers, add_prefix_route(cf, p, h)
  PROVE  IInv'
<1>0. TypeOK /\ UNCHANGED <<router, named, filter, record, job, now, writes>>
      /\ trie' = [trie EXCEPT ![p] = h] /\ Register("binary", p, h)
  BY DEF IInv, add_prefix_route
<1>1. removing \subseteq removing' /\ removing' \subseteq removing \cup {<<"binary", p>>}
      /\ (h = "remove" => <<"binary", p>> \in removing')
  BY <1>0 DEF Register
<1>2. TypeOK'
  <2>1. removing' \subseteq {"router", "binary"} \X (ToSet(Patterns) \cup PrefixRoutes)
    BY <1>0, <1>1 DEF TypeOK
  <2>2. trie' \in [PrefixRoutes -> Handlers \cup {None}]
    BY <1>0 DEF TypeOK
  <2>3. QED
    BY <1>0, <2>1, <2>2 DEF TypeOK
<1>3. RemovingKnown'
  BY <1>0, <1>1 DEF IInv, TypeOK, RemovingKnown
<1>4. NumbersWritten'
  BY <1>0 DEF IInv, NumbersWritten
<1>5. Grows
  <2>1. writes <= writes' /\ now <= now'
    BY <1>0 DEF TypeOK
  <2>2. \A q \in PrefixRoutes : trie[q] # None => trie'[q] # None
    BY <1>0, FilterAssumption DEF TypeOK
  <2>3. QED
    BY <1>0, <1>1, <2>1, <2>2 DEF Grows
<1>6. QED
  BY <1>0, <1>2, <1>3, <1>4, <1>5, JobLasts DEF IInv

\* A write: its number is new.
LEMMA PutFacts ==
  ASSUME IInv, NEW cf \in Cfs, NEW k \in Keys, NEW v \in Stored, put(cf, k, v)
  PROVE  /\ IInv'
         /\ \A d \in Cfs, i \in Keys : record'[d][i] = record[d][i]
                                       \/ record'[d][i].num > record[d][i].num
<1>0. TypeOK /\ UNCHANGED <<routes, named, filter, job, now>>
      /\ record' = [record EXCEPT ![cf][k] = [val |-> v, num |-> writes']]
      /\ writes' = writes + 1 /\ writes \in Nat /\ writes' \in 0..MaxWrites
  BY FilterBoundAssumption DEF IInv, TypeOK, put
<1>1. /\ record' \in [Cfs -> [Keys -> [val : Stored \cup {None}, num : 0..MaxWrites]]]
      /\ \A d \in Cfs, i \in Keys : record'[d][i] = record[d][i] \/ record'[d][i].num = writes'
  <2>1. [val |-> v, num |-> writes'] \in [val : Stored \cup {None}, num : 0..MaxWrites]
    BY <1>0
  <2>2. QED
    BY <1>0, <2>1 DEF TypeOK
<1>2. TypeOK'
  BY <1>0, <1>1 DEF TypeOK, routes
<1>3. RemovingKnown'
  BY <1>0 DEF IInv, RemovingKnown, routes
<1>4. \A d \in Cfs, i \in Keys : record[d][i].num \in Nat /\ record[d][i].num <= writes
  BY <1>0 DEF IInv, TypeOK, NumbersWritten
<1>5. NumbersWritten'
  BY <1>0, <1>1, <1>4 DEF NumbersWritten
<1>6. Grows
  <2>1. writes <= writes' /\ now <= now'
    BY <1>0 DEF TypeOK
  <2>2. \A d \in Cfs, i \in Keys : record'[d][i] = record[d][i] \/ record'[d][i].num > writes
    BY <1>0, <1>1
  <2>3. QED
    BY <1>0, <2>1, <2>2 DEF Grows, routes
<1>7. QED
  BY <1>0, <1>1, <1>2, <1>3, <1>4, <1>5, <1>6, JobLasts DEF IInv

\* A compaction decides about the version that is there.
LEMMA DecideInv ==
  ASSUME IInv, NEW cf \in Cfs, NEW k \in Keys, Decide(cf, k)
  PROVE  IInv'
<1> DEFINE r == record[cf][k]
           d == filter_fn_ptr(cf, k, r.val)
<1>0. TypeOK /\ UNCHANGED <<routes, named, filter, record, now, writes>>
      /\ job' = [cf |-> cf, key |-> k, num |-> r.num, decision |-> d]
  BY DEF IInv, Decide
<1>1. r.val \in Stored /\ r.num \in 0..MaxWrites /\ r.num <= writes
  BY DEF IInv, TypeOK, NumbersWritten, Decide
<1>2. FilterOk(cf, k, r.val)
  <2> HIDE DEF r
  <2>1. QED
    BY <1>1, FilterFacts DEF IInv
<1>3. d \in Decisions /\ Justified(cf, k, r.num, d)
  BY <1>2 DEF FilterOk, Justified
<1> HIDE DEF d
<1>4. job' \in JobSet /\ job'.cf = cf /\ job'.key = k /\ job'.num = r.num /\ job'.decision = d
  BY <1>0, <1>1, <1>3 DEF JobSet
<1>5. TypeOK'
  BY <1>0, <1>4 DEF TypeOK, JobSet, routes
<1>6. RemovingKnown' /\ NumbersWritten'
  BY <1>0 DEF IInv, RemovingKnown, NumbersWritten, routes
<1>7. JobJustified'
  BY <1>0, <1>1, <1>3, <1>4 DEF JobJustified, Justified, Exposed, Outdated, routes
<1>8. QED
  BY <1>5, <1>6, <1>7 DEF IInv

\* What the output of a compaction does to a record, it was allowed to do.
LEMMA InstallFacts ==
  ASSUME IInv, Install
  PROVE  /\ IInv'
         /\ \A cf \in Cfs, k \in Keys :
              record'[cf][k].val # record[cf][k].val =>
                /\ Exposed(cf, k) # {}
                /\ record'[cf][k].val = None =>
                     Exposed(cf, k) \cap removing # {} \/ Outdated(record[cf][k].val)
<1> DEFINE r == record[job.cf][job.key]
           new == IF job.decision = "Remove" THEN None ELSE [form |-> "plain", expire |-> 0]
           acts == ~(job.decision = "Keep" \/ r.num # job.num)
<1>0. /\ TypeOK /\ job # None /\ job' = None /\ UNCHANGED <<routes, named, filter, now, writes>>
      /\ record' = IF acts THEN [record EXCEPT ![job.cf][job.key].val = new] ELSE record
  BY DEF IInv, Install
<1>1. job.cf \in Cfs /\ job.key \in Keys /\ job.decision \in Decisions
  BY <1>0 DEF TypeOK
<1>2. new \in Stored \cup {None} /\ (new = None => job.decision = "Remove")
  BY NoneAssumption DEF Stored
<1> HIDE DEF new
<1>3. /\ record' \in [Cfs -> [Keys -> [val : Stored \cup {None}, num : 0..MaxWrites]]]
      /\ \A cf \in Cfs, k \in Keys : record'[cf][k].num = record[cf][k].num
      /\ \A cf \in Cfs, k \in Keys :
           record'[cf][k].val # record[cf][k].val =>
             cf = job.cf /\ k = job.key /\ acts /\ record'[cf][k].val = new
  <2>1. CASE ~acts
    BY <1>0, <2>1 DEF TypeOK
  <2>2. CASE acts
    <3>1. record' = [record EXCEPT ![job.cf][job.key].val = new]
      BY <1>0, <2>2
    <3>2. record \in [Cfs -> [Keys -> [val : Stored \cup {None}, num : 0..MaxWrites]]]
      BY <1>0 DEF TypeOK
    <3>3. QED
      BY <1>1, <1>2, <2>2, <3>1, <3>2
  <2>3. QED
    BY <2>1, <2>2
<1>4. IInv'
  <2>1. TypeOK'
    BY <1>0, <1>3 DEF TypeOK, routes
  <2>2. RemovingKnown'
    BY <1>0 DEF IInv, RemovingKnown, routes
  <2>3. NumbersWritten'
    BY <1>0, <1>3 DEF IInv, NumbersWritten
  <2>4. JobJustified'
    BY <1>0 DEF JobJustified
  <2>5. QED
    BY <2>1, <2>2, <2>3, <2>4 DEF IInv
<1>5. Justified(job.cf, job.key, job.num, job.decision)
  BY <1>0 DEF IInv, JobJustified
<1>6. ASSUME NEW cf \in Cfs, NEW k \in Keys, record'[cf][k].val # record[cf][k].val
      PROVE  /\ Exposed(cf, k) # {}
             /\ record'[cf][k].val = None =>
                  Exposed(cf, k) \cap removing # {} \/ Outdated(record[cf][k].val)
  <2>1. cf = job.cf /\ k = job.key /\ acts /\ record'[cf][k].val = new
    BY <1>3, <1>6
  <2>2. QED
    BY <1>2, <1>5, <2>1 DEF Justified
<1>7. QED
  BY <1>4, <1>6

-----------------------------------------------------------------------------
LEMMA StepInv == IInv /\ [Next]_vars => IInv'
<1> SUFFICES ASSUME IInv, [Next]_vars PROVE IInv'
  OBVIOUS
<1>0. filter \subseteq named /\ named \subseteq Cfs /\ now \in 0..MaxTime /\ now <= now
  BY DEF IInv, TypeOK
<1>1. ASSUME NEW cf \in Cfs, operator_name(cf) PROVE IInv'
  BY <1>0, <1>1, OtherInv DEF operator_name
<1>2. ASSUME NEW cf \in Cfs, build(cf) PROVE IInv'
  BY <1>0, <1>2, OtherInv DEF build
<1>3. CASE Tick
  <2>1. now' \in 0..MaxTime /\ now <= now'
    BY <1>0, <1>3, FilterBoundAssumption DEF Tick
  <2>2. QED
    BY <1>0, <1>3, <2>1, OtherInv DEF Tick
<1>4. CASE UNCHANGED vars
  BY <1>0, <1>4, OtherInv DEF vars
<1>5. CASE Install
  BY <1>5, InstallFacts
<1>6. QED
  BY <1>1, <1>2, <1>3, <1>4, <1>5, AddRouteInv, AddPrefixRouteInv, DecideInv, PutFacts DEF Next

LEMMA InitInv == Init => IInv
<1> SUFFICES ASSUME Init PROVE IInv
  OBVIOUS
<1>1. router = [p \in ToSet(Patterns) |-> None] /\ trie = [p \in PrefixRoutes |-> None]
  BY DEF Init
<1>2. TypeOK
  <2>1. record \in [Cfs -> [Keys -> [val : Stored \cup {None}, num : 0..MaxWrites]]]
    BY FilterBoundAssumption DEF Init
  <2>2. now \in 0..MaxTime /\ writes \in 0..MaxWrites
    BY FilterBoundAssumption DEF Init
  <2>3. QED
    BY <1>1, <2>1, <2>2 DEF Init, TypeOK
<1>3. RemovingKnown
  <2>1. None # "remove"
    BY FilterAssumption
  <2>2. QED
    BY <1>1, <2>1 DEF RemovingKnown
<1>4. NumbersWritten /\ JobJustified
  BY DEF Init, NumbersWritten, JobJustified
<1>5. QED
  BY <1>2, <1>3, <1>4 DEF IInv

LEMMA Invariant == Spec => []IInv
BY InitInv, StepInv, PTL DEF Spec

-----------------------------------------------------------------------------
\* Every variable has its type; a filter is installed only under a name.
THEOREM TypeCorrect == Spec => []TypeOK
<1>1. IInv => TypeOK
  BY DEF IInv
<1>2. QED
  BY <1>1, Invariant, PTL

\* What a single step may do to a record without writing it.
StepKeepsLive ==
  \A cf \in Cfs, k \in Keys :
    Compacted(cf, k) =>
      /\ Exposed(cf, k) # {}
      /\ record'[cf][k].val = None =>
           \/ Exposed(cf, k) \cap removing # {}
           \/ record[cf][k].val.form = "expiring" /\ record[cf][k].val.expire <= now

LEMMA StepLive == IInv /\ [Next]_vars => StepKeepsLive
<1> SUFFICES ASSUME IInv, [Next]_vars, NEW cf \in Cfs, NEW k \in Keys, Compacted(cf, k)
             PROVE  /\ Exposed(cf, k) # {}
                    /\ record'[cf][k].val = None =>
                         \/ Exposed(cf, k) \cap removing # {}
                         \/ record[cf][k].val.form = "expiring" /\ record[cf][k].val.expire <= now
  BY DEF StepKeepsLive
<1>1. record' # record
  BY DEF Compacted
<1>2. CASE Install
  BY <1>2, InstallFacts DEF Compacted, Outdated
<1>3. ASSUME NEW d \in Cfs, NEW i \in Keys, NEW v \in Stored, put(d, i, v) PROVE FALSE
  <2>1. record'[cf][k] = record[cf][k] \/ record'[cf][k].num > record[cf][k].num
    BY <1>3, PutFacts
  <2>2. record[cf][k].num \in Nat
    BY DEF IInv, TypeOK
  <2>3. QED
    BY <2>1, <2>2 DEF Compacted
<1>4. Install \/ \E d \in Cfs, i \in Keys, v \in Stored : put(d, i, v)
  BY <1>1 DEF Next, vars, routes, operator_name, build, add_route, add_prefix_route, Decide, Tick
<1>5. QED
  BY <1>2, <1>3, <1>4

\* A compaction, however long it takes between its decision and its output,
\* changes a record only by a route that matches it, and loses it only by a
\* removing route or because it had expired.
THEOREM KeepsLiveValues == Spec => LiveValuesKept
<1>1. IInv /\ [Next]_vars => [StepKeepsLive]_vars
  BY StepLive
<1>2. QED
  BY <1>1, Invariant, PTL DEF Spec, LiveValuesKept, StepKeepsLive
=============================================================================

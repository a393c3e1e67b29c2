-------------------------- MODULE IterationProofs --------------------------
(* Proofs about Iteration, for all keys, comparators and relations between  *)
(* keys and prefixes, every configuration, and any writes while the         *)
(* iterator is in use.                                                      *)
EXTENDS Iteration, WellFoundedInduction, TLAPS

(* What an iteration yields is a matter of every state between its start    *)
(* and its end: what the raw iterator has still to deliver is of the        *)
(* snapshot, on the right side of where it started and ahead of everything  *)
(* it has delivered, and nothing that is wanted has been left behind.  An   *)
(* error of the deserializer is one of the items.                           *)

\* Where the raw iterator of a configuration goes.
Region(c, i) ==
  /\ c.start # None => IF c.reverse THEN i <= Pos(c.start) ELSE i >= Pos(c.start)
  /\ c.start = None /\ c.prefix # None => i >= Pos(c.prefix)

\* The condition of FindsAll.
Regular(c) ==
  c.prefix # None => /\ Contiguous(c.prefix)
                     /\ c.start # None => c.start \in StartsWith[c.prefix]

ItemKeys == {items[i].key : i \in DOMAIN items}

\* Before the first call nothing has happened; then there is a configuration,
\* which the raw iterator follows.
Configured ==
  /\ pc = "idle" => config = None /\ items = <<>> /\ raw.todo = {} /\ skipped = {} /\ stopped = FALSE
  /\ pc # "idle" => config \in Configs /\ raw.back = Backward(config)

AheadOfItems ==
  \A i \in DOMAIN items, t \in raw.todo :
    IF raw.back THEN t < Pos(items[i].key) ELSE t > Pos(items[i].key)

InRegion == \A t \in raw.todo : snap[order[t]] # 0 /\ Region(config, t)

OnlyWanted == \A k \in ItemKeys \cup skipped : k \in Wanted(config)

NothingLeftBehind ==
  pc \in {"open", "ended"} /\ stopped = FALSE /\ Regular(config) =>
    /\ \A k \in Wanted(config) : k \in ItemKeys \cup skipped \/ Pos(k) \in raw.todo
    /\ pc = "ended" => \A t \in raw.todo : ~Matches(config, order[t])

Limited ==
  pc # "idle" /\ config.control = "limit" =>
    Len(items) <= Limit /\ (stopped => Len(items) = Limit)

IInv ==
  /\ TypeOK /\ Configured /\ AheadOfItems /\ InRegion /\ OnlyWanted /\ NothingLeftBehind
  /\ Limited /\ YieldsTheSnapshot

ItemSet == [key : Keys, val : 0..(MaxWrites + 1)]

-----------------------------------------------------------------------------
(* Positions. *)

\* The least of some natural numbers is one of them.
LEMMA LeastOfNat ==
  ASSUME NEW S \in SUBSET Nat, S # {}
  PROVE  \E x \in S : \A y \in S : x <= y
<1>1. \E x \in S : \A y \in S : ~(<<y, x>> \in OpToRel(<, Nat))
  BY NatLessThanWellFounded, WFMin
<1>2. ASSUME NEW x \in Nat, NEW y \in Nat, y < x PROVE <<y, x>> \in OpToRel(<, Nat)
  <2>1. <<y, x>> \in Nat \X Nat /\ <<y, x>>[1] < <<y, x>>[2]
    BY <1>2
  <2>2. QED
    BY <2>1, Zenon DEF OpToRel
<1>3. \A x, y \in Nat : ~(y < x) => x <= y
  OBVIOUS
<1>4. QED
  BY <1>1, <1>2, <1>3

\* So is the greatest of some numbers below a bound.
LEMMA GreatestOfNat ==
  ASSUME NEW n \in Nat, NEW S \in SUBSET (1..n), S # {}
  PROVE  \E x \in S : \A y \in S : y <= x
<1> DEFINE gaps == {n - y : y \in S}
<1>1. gaps \in SUBSET Nat /\ gaps # {}
  <2>1. \A y \in S : n - y \in Nat
    OBVIOUS
  <2>2. QED
    BY <2>1
<1>2. PICK g \in gaps : \A h \in gaps : g <= h
  <2> HIDE DEF gaps
  <2>1. QED
    BY <1>1, LeastOfNat
<1>3. PICK x \in S : g = n - x
  BY <1>2
<1>4. \A y \in S : n - x <= n - y
  BY <1>2, <1>3
<1>5. \A y \in S : y <= x
  BY <1>4
<1>6. QED
  BY <1>5

\* A comparator's order is one of all keys, each with one place.
LEMMA PosFacts ==
  ASSUME order \in Orders
  PROVE  /\ Len(order) \in Nat /\ DOMAIN order = 1..Len(order)
         /\ \A k \in Keys : Pos(k) \in DOMAIN order /\ order[Pos(k)] = k
         /\ \A i \in DOMAIN order : order[i] \in Keys /\ Pos(order[i]) = i
<1>1. /\ order \in Seq(Keys) /\ \A k \in Keys : \E i \in DOMAIN order : order[i] = k
      /\ \A i, j \in DOMAIN order : order[i] = order[j] => i = j
  BY OrderAssumption
<1>2. \A k \in Keys : Pos(k) \in DOMAIN order /\ order[Pos(k)] = k
  BY <1>1 DEF Pos
<1>3. \A i \in DOMAIN order : order[i] \in Keys
  BY <1>1
<1>4. QED
  BY <1>1, <1>2, <1>3

\* The raw iterator delivers the next position of its direction.
LEMMA CurrentFacts ==
  ASSUME order \in Orders, raw \in [todo : SUBSET DOMAIN order, back : BOOLEAN], raw.todo # {}
  PROVE  /\ Current \in raw.todo /\ Current \in DOMAIN order
         /\ \A t \in raw.todo : IF raw.back THEN t <= Current ELSE t >= Current
<1>1. raw.todo \in SUBSET (1..Len(order)) /\ Len(order) \in Nat /\ DOMAIN order = 1..Len(order)
  BY PosFacts
<1>2. CASE raw.back
  <2>1. \E x \in raw.todo : \A y \in raw.todo : y <= x
    BY <1>1, GreatestOfNat
  <2>2. Current = CHOOSE x \in raw.todo : \A y \in raw.todo : x >= y
    BY <1>2 DEF Current, Max
  <2>3. \E x \in raw.todo : \A y \in raw.todo : x >= y
    BY <1>1, <2>1
  <2>4. QED
    BY <1>1, <1>2, <2>2, <2>3
<1>3. CASE ~raw.back
  <2>1. raw.todo \in SUBSET Nat
    BY <1>1
  <2>2. \E x \in raw.todo : \A y \in raw.todo : x <= y
    BY <2>1, LeastOfNat
  <2>3. Current = CHOOSE x \in raw.todo : \A y \in raw.todo : x <= y
    BY <1>3 DEF Current, Min
  <2>4. QED
    BY <1>1, <1>3, <2>2, <2>3
<1>4. QED
  BY <1>2, <1>3

\* Where each of the four ways to make a raw iterator puts it.
LEMMA BaseFacts ==
  ASSUME order \in Orders, NEW c \in Configs
  PROVE  /\ base_rocksdb_iter(c).todo = {i \in Live : Region(c, i)}
         /\ base_rocksdb_iter(c).back = Backward(c)
         /\ base_rocksdb_iter(c) \in [todo : SUBSET DOMAIN order, back : BOOLEAN]
<1>1. Live \subseteq DOMAIN order /\ c.reverse \in BOOLEAN
  BY DEF Live, Configs
<1>2. CASE c.start # None
  BY <1>1, <1>2 DEF base_rocksdb_iter, use_optimized_prefix_iterator, general_factory, IteratorFrom,
                    Region, Backward
<1>3. CASE c.start = None /\ c.prefix # None
  BY <1>1, <1>3 DEF base_rocksdb_iter, use_optimized_prefix_iterator, prefix_factory, IteratorFrom,
                    Region, Backward
<1>4. CASE c.start = None /\ c.prefix = None
  BY <1>1, <1>4 DEF base_rocksdb_iter, use_optimized_prefix_iterator, general_factory, IteratorStart,
                    IteratorEnd, Region, Backward
<1>5. QED
  BY <1>2, <1>3, <1>4

\* With keys of a prefix together, a raw iterator that has met a key without
\* the prefix has none of them ahead.
LEMMA NoneAhead ==
  ASSUME IInv, pc = "open", raw.todo # {}, Regular(config), ~Matches(config, order[Current])
  PROVE  \A t \in raw.todo : ~Matches(config, order[t])
<1> DEFINE p == config.prefix
           s == config.start
<1>1. /\ order \in Orders /\ raw \in [todo : SUBSET DOMAIN order, back : BOOLEAN]
      /\ config \in Configs /\ raw.back = Backward(config)
  BY DEF IInv, TypeOK, Configured
<1>2. /\ Current \in raw.todo /\ Current \in DOMAIN order
      /\ \A t \in raw.todo : IF raw.back THEN t <= Current ELSE t >= Current
  BY <1>1, CurrentFacts
<1>3. p # None /\ order[Current] \notin StartsWith[p] /\ Contiguous(p) /\ p \in Keys /\ s \in Keys \cup {None}
      /\ (s # None => s \in StartsWith[p])
  BY <1>1 DEF Matches, Regular, Configs
<1>4. Region(config, Current)
  BY <1>2 DEF IInv, InRegion
<1>5. SUFFICES ASSUME NEW t \in raw.todo, order[t] \in StartsWith[p] PROVE FALSE
  BY <1>3 DEF Matches
<1>6. /\ Pos(order[t]) = t /\ t \in Nat /\ Current \in Nat /\ Pos(p) \in Nat
      /\ (s # None => Pos(s) \in Nat)
  BY <1>1, <1>2, <1>3, PosFacts
<1>7. /\ Pos(p) <= t /\ \A j \in Pos(p)..t : order[j] \in StartsWith[p]
      /\ s # None => Pos(p) <= Pos(s) /\ \A j \in Pos(p)..Pos(s) : order[j] \in StartsWith[p]
  BY <1>3, <1>5, <1>6 DEF Contiguous
<1>8. CASE ~raw.back
  <2>1. Current >= Pos(p)
    <3>1. CASE s = None
      BY <1>3, <1>4, <3>1 DEF Region
    <3>2. CASE s # None
      <4>1. ~config.reverse
        BY <1>1, <1>8, <3>2 DEF Backward, use_optimized_prefix_iterator
      <4>2. Current >= Pos(s)
        BY <1>4, <3>2, <4>1 DEF Region
      <4>3. QED
        BY <1>6, <1>7, <3>2, <4>2
    <3>3. QED
      BY <3>1, <3>2
  <2>2. Current <= t
    BY <1>2, <1>6, <1>8
  <2>3. Current \in Pos(p)..t
    BY <1>6, <2>1, <2>2
  <2>4. QED
    BY <1>3, <1>7, <2>3
<1>9. CASE raw.back
  <2>1. s # None /\ config.reverse
    BY <1>1, <1>3, <1>9 DEF Backward, use_optimized_prefix_iterator
  <2>2. Current <= Pos(s) /\ t <= Current
    BY <1>2, <1>4, <1>9, <2>1 DEF Region
  <2>3. Current \in Pos(p)..Pos(s)
    BY <1>6, <1>7, <2>1, <2>2
  <2>4. QED
    BY <1>3, <1>7, <2>1, <2>3
<1>10. QED
  BY <1>1, <1>8, <1>9

-----------------------------------------------------------------------------
(* The steps. *)

\* What depends on the snapshot and the configuration only.
LEMMA SameConfig ==
  ASSUME UNCHANGED <<order, config, snap>>
  PROVE  /\ Regular(config)' = Regular(config) /\ Wanted(config)' = Wanted(config)
         /\ Backward(config)' = Backward(config)
         /\ \A k : Pos(k)' = Pos(k) /\ Matches(config, k)' = Matches(config, k)
         /\ \A t : Region(config, t)' = Region(config, t)
BY DEF Regular, Contiguous, Wanted, Matches, Pos, Region, Backward, use_optimized_prefix_iterator

\* A write changes nothing that the iterator sees.
LEMMA WriteInv ==
  ASSUME IInv, NEW k \in Keys, NEW v \in 0..(MaxWrites + 1), Write(k, v)
  PROVE  IInv'
<1>1. /\ UNCHANGED <<order, config, finding, snap, raw, kept, items, skipped, stopped, pc>>
      /\ db' \in [Keys -> 0..(MaxWrites + 1)] /\ writes' \in 0..MaxWrites
  BY BoundAssumption DEF IInv, TypeOK, Write
<1>2. TypeOK'
  BY <1>1 DEF IInv, TypeOK
<1>3. Configured' /\ AheadOfItems' /\ InRegion'
  BY <1>1, SameConfig DEF IInv, Configured, AheadOfItems, InRegion
<1>4. OnlyWanted' /\ NothingLeftBehind'
  BY <1>1, SameConfig DEF IInv, OnlyWanted, NothingLeftBehind, ItemKeys
<1>5. Limited' /\ YieldsTheSnapshot'
  BY <1>1, SameConfig DEF IInv, Limited, YieldsTheSnapshot, InOrder
<1>6. QED
  BY <1>2, <1>3, <1>4, <1>5 DEF IInv

\* The start: the raw iterator is where everything wanted is before it.
LEMMA OpenInv ==
  ASSUME IInv, NEW c \in Configs, Open(c), finding' \in BOOLEAN
  PROVE  IInv'
<1>1. /\ pc' = "open" /\ config' = c /\ snap' = db /\ raw' = base_rocksdb_iter(c)
      /\ UNCHANGED <<order, db, writes, kept, items, skipped, stopped>>
      /\ items = <<>> /\ skipped = {} /\ stopped = FALSE
      /\ order \in Orders /\ pc = "idle"
  BY DEF IInv, TypeOK, Configured, Open
<1>2. /\ raw'.todo = {i \in Live : Region(c, i)} /\ raw'.back = Backward(c)
      /\ raw' \in [todo : SUBSET DOMAIN order, back : BOOLEAN]
  BY <1>1, BaseFacts
<1>3. TypeOK'
  BY <1>1, <1>2 DEF IInv, TypeOK
<1>4. Configured' /\ AheadOfItems' /\ OnlyWanted' /\ Limited'
  BY <1>1, <1>2, BoundAssumption
     DEF Configured, Backward, use_optimized_prefix_iterator, AheadOfItems, OnlyWanted, ItemKeys, Limited
<1>5. InRegion'
  BY <1>1, <1>2 DEF InRegion, Region, Live, Pos
<1>6. NothingLeftBehind'
  <2>1. ASSUME Regular(c), NEW k \in Keys, db[k] # 0, Matches(c, k),
               c.start # None => IF c.reverse THEN Pos(k) <= Pos(c.start) ELSE Pos(k) >= Pos(c.start)
        PROVE  Pos(k) \in raw'.todo
    <3>1. Pos(k) \in DOMAIN order /\ order[Pos(k)] = k
      BY <1>1, PosFacts
    <3>2. Pos(k) \in Live
      BY <2>1, <3>1 DEF Live
    <3>3. c.start = None /\ c.prefix # None => Pos(k) >= Pos(c.prefix)
      <4>1. c.prefix # None => c.prefix \in Keys
        BY DEF Configs
      <4>2. c.prefix # None => Pos(c.prefix) <= Pos(k) /\ Pos(c.prefix) \in Nat /\ Pos(k) \in Nat
        BY <1>1, <2>1, <4>1, PosFacts DEF Regular, Contiguous, Matches
      <4>3. QED
        BY <4>2
    <3>4. QED
      BY <1>2, <2>1, <3>2, <3>3 DEF Region
  <2>2. Regular(c)' = Regular(c) /\ (\A k : Matches(c, k)' = Matches(c, k)) /\ \A k : Pos(k)' = Pos(k)
    BY <1>1 DEF Regular, Contiguous, Matches, Pos
  <2>3. \A k \in Wanted(c)' : k \in Keys /\ db[k] # 0 /\ Matches(c, k)
          /\ (c.start # None => IF c.reverse THEN Pos(k) <= Pos(c.start) ELSE Pos(k) >= Pos(c.start))
    BY <1>1 DEF Wanted, Matches, Pos
  <2>4. Regular(c) => \A k \in Wanted(c)' : Pos(k) \in raw'.todo
    BY <2>1, <2>3
  <2>5. pc' # "ended" /\ Wanted(config)' = Wanted(c)' /\ Regular(config)' = Regular(c)'
    BY <1>1 DEF Wanted, Regular, Matches, Pos, Contiguous
  <2>6. QED
    BY <2>2, <2>4, <2>5 DEF NothingLeftBehind
<1>7. YieldsTheSnapshot'
  BY <1>1 DEF YieldsTheSnapshot, InOrder
<1>8. QED
  BY <1>3, <1>4, <1>5, <1>6, <1>7 DEF IInv

\* A key is delivered: it is of the snapshot and ahead of the others, and a
\* decision other than Stop means that it has the prefix.
LEMMA AdvanceFacts ==
  ASSUME IInv, NEW decision, Advance(decision)
  PROVE  /\ pc = "open" /\ config \in Configs /\ raw.todo # {} /\ order \in Orders
         /\ Current \in raw.todo /\ order[Current] \in Keys /\ Pos(order[Current]) = Current
         /\ Current \in Nat /\ kept = Len(items) /\ items \in Seq(ItemSet)
         /\ snap[order[Current]] \in 1..(MaxWrites + 1)
         /\ raw' \in [todo : SUBSET DOMAIN order, back : BOOLEAN]
         /\ raw'.back = raw.back /\ raw'.todo = raw.todo \ {Current}
         /\ \A t \in raw'.todo : IF raw.back THEN t < Current ELSE t > Current
         /\ Matches(config, order[Current]) =>
              order[Current] \in Wanted(config) /\ user_control(config, kept, decision)
         /\ decision # "Stop" => Matches(config, order[Current])
<1>1. /\ pc = "open" /\ raw.todo # {} /\ order \in Orders /\ config \in Configs
      /\ raw \in [todo : SUBSET DOMAIN order, back : BOOLEAN]
      /\ raw' = [raw EXCEPT !.todo = @ \ {Current}]
      /\ kept = Len(items) /\ items \in Seq(ItemSet)
      /\ snap \in [Keys -> 0..(MaxWrites + 1)]
  BY DEF IInv, TypeOK, Configured, Advance, ItemSet
<1>2. /\ Current \in raw.todo /\ Current \in DOMAIN order
      /\ \A t \in raw.todo : IF raw.back THEN t <= Current ELSE t >= Current
  BY <1>1, CurrentFacts
<1>3. order[Current] \in Keys /\ Pos(order[Current]) = Current /\ Current \in Nat /\ raw.todo \subseteq Nat
  BY <1>1, <1>2, PosFacts
<1>4. /\ raw' \in [todo : SUBSET DOMAIN order, back : BOOLEAN]
      /\ raw'.back = raw.back /\ raw'.todo = raw.todo \ {Current}
  BY <1>1
<1>5. snap[order[Current]] # 0 /\ Region(config, Current)
  BY <1>2 DEF IInv, InRegion
<1>6. snap[order[Current]] \in 1..(MaxWrites + 1)
  BY <1>1, <1>3, <1>5, BoundAssumption
<1>7. \A t \in raw'.todo : IF raw.back THEN t < Current ELSE t > Current
  BY <1>2, <1>3, <1>4
<1>8. Matches(config, order[Current]) => order[Current] \in Wanted(config)
  BY <1>3, <1>5 DEF Wanted, Region
<1>9. effective_control(config, order[Current], kept, decision)
  BY DEF Advance
<1>10. /\ Matches(config, order[Current]) => user_control(config, kept, decision)
       /\ decision # "Stop" => Matches(config, order[Current])
  BY <1>9 DEF effective_control, Matches
<1>11. QED
  BY <1>1, <1>2, <1>3, <1>4, <1>6, <1>7, <1>8, <1>10

\* What the advance of the raw iterator leaves true by itself.
LEMMA AdvanceKeeps ==
  ASSUME IInv, NEW decision, Advance(decision), UNCHANGED <<order, config, snap>>
  PROVE  /\ InRegion'
         /\ Regular(config)' = Regular(config) /\ Wanted(config)' = Wanted(config)
         /\ \A k : Pos(k)' = Pos(k) /\ Matches(config, k)' = Matches(config, k)
<1>1. raw'.todo = raw.todo \ {Current}
  BY AdvanceFacts
<1>2. InRegion'
  BY <1>1 DEF IInv, InRegion, Region, Pos
<1>3. QED
  BY <1>2, SameConfig

\* Stop of the user's function, or the end of the prefix.
LEMMA StopInv ==
  ASSUME IInv, Stop
  PROVE  IInv'
<1>0. /\ Advance("Stop") /\ stopped' = (stopped \/ Matches(config, order[Current])) /\ pc' = "ended"
      /\ UNCHANGED <<order, db, writes, config, finding, snap, kept, items, skipped>>
  BY DEF Stop
<1>1. /\ pc = "open" /\ config \in Configs /\ raw.todo # {} /\ kept = Len(items) /\ items \in Seq(ItemSet)
      /\ raw' \in [todo : SUBSET DOMAIN order, back : BOOLEAN]
      /\ raw'.back = raw.back /\ raw'.todo = raw.todo \ {Current} /\ Pos(order[Current]) = Current
      /\ (Matches(config, order[Current]) => user_control(config, kept, "Stop"))
  BY <1>0, AdvanceFacts
<1>2. /\ InRegion' /\ Regular(config)' = Regular(config) /\ Wanted(config)' = Wanted(config)
      /\ \A k : Pos(k)' = Pos(k) /\ Matches(config, k)' = Matches(config, k)
  BY <1>0, AdvanceKeeps
<1>3. TypeOK'
  BY <1>0, <1>1 DEF IInv, TypeOK, Matches
<1>4. Configured' /\ AheadOfItems' /\ OnlyWanted'
  BY <1>0, <1>1, <1>2 DEF IInv, Configured, Backward, use_optimized_prefix_iterator, AheadOfItems,
                          OnlyWanted, ItemKeys
<1>5. NothingLeftBehind'
  <2>1. CASE Matches(config, order[Current])
    BY <1>0, <2>1 DEF NothingLeftBehind
  <2>2. CASE ~Matches(config, order[Current])
    <3>1. SUFFICES ASSUME stopped = FALSE, Regular(config)
                   PROVE  /\ \A k \in Wanted(config) : k \in ItemKeys \cup skipped \/ Pos(k) \in raw'.todo
                          /\ \A t \in raw'.todo : ~Matches(config, order[t])
      BY <1>0, <1>2, <2>2 DEF IInv, TypeOK, NothingLeftBehind, ItemKeys
    <3>2. \A t \in raw.todo : ~Matches(config, order[t])
      BY <1>1, <2>2, <3>1, NoneAhead
    <3>3. \A k \in Wanted(config) : k \in ItemKeys \cup skipped \/ Pos(k) \in raw.todo
      BY <1>1, <3>1 DEF IInv, NothingLeftBehind
    <3>4. \A k \in Wanted(config) : Matches(config, k) /\ k \in Keys
      BY DEF Wanted
    <3>5. \A k \in Keys : Pos(k) = Current => k = order[Current]
      BY PosFacts DEF IInv, TypeOK
    <3>6. QED
      BY <1>1, <2>2, <3>2, <3>3, <3>4, <3>5
  <2>3. QED
    BY <2>1, <2>2
<1>6. Limited'
  <2>1. SUFFICES ASSUME config.control = "limit" PROVE Len(items) <= Limit /\ (stopped' => Len(items) = Limit)
    BY <1>0 DEF Limited
  <2>2. Len(items) <= Limit /\ (stopped => Len(items) = Limit) /\ Len(items) \in Nat
    BY <1>1, <2>1 DEF IInv, Limited
  <2>3. Matches(config, order[Current]) => ~(Len(items) < Limit)
    BY <1>1, <2>1 DEF user_control
  <2>4. Matches(config, order[Current]) => Len(items) = Limit
    BY <2>2, <2>3, BoundAssumption
  <2>5. QED
    BY <1>0, <2>2, <2>4
<1>7. YieldsTheSnapshot'
  BY <1>0, <1>2 DEF IInv, YieldsTheSnapshot, InOrder, Backward, use_optimized_prefix_iterator
<1>8. QED
  BY <1>2, <1>3, <1>4, <1>5, <1>6, <1>7 DEF IInv

\* A key the control function skips.
LEMMA SkipInv ==
  ASSUME IInv, Skip
  PROVE  IInv'
<1>0. /\ Advance("Skip") /\ skipped' = skipped \cup {order[Current]}
      /\ UNCHANGED <<order, db, writes, config, finding, snap, kept, items, stopped, pc>>
  BY DEF Skip
<1>1. /\ pc = "open" /\ config \in Configs /\ order[Current] \in Wanted(config) /\ order[Current] \in Keys
      /\ raw' \in [todo : SUBSET DOMAIN order, back : BOOLEAN]
      /\ raw'.back = raw.back /\ raw'.todo = raw.todo \ {Current}
  BY <1>0, AdvanceFacts
<1>2. /\ InRegion' /\ Regular(config)' = Regular(config) /\ Wanted(config)' = Wanted(config)
      /\ \A k : Pos(k)' = Pos(k) /\ Matches(config, k)' = Matches(config, k)
  BY <1>0, AdvanceKeeps
<1>3. TypeOK'
  BY <1>0, <1>1 DEF IInv, TypeOK
<1>4. Configured' /\ AheadOfItems' /\ Limited'
  BY <1>0, <1>1, <1>2 DEF IInv, Configured, Backward, use_optimized_prefix_iterator, AheadOfItems, Limited
<1>5. ItemKeys' = ItemKeys
  BY <1>0 DEF ItemKeys
<1>6. OnlyWanted'
  BY <1>0, <1>1, <1>2, <1>5 DEF IInv, OnlyWanted
<1>7. NothingLeftBehind'
  <2>1. \A k \in Keys : Pos(k) = Current => k = order[Current]
    BY PosFacts DEF IInv, TypeOK
  <2>2. \A k \in Wanted(config) : k \in Keys
    BY DEF Wanted
  <2>3. QED
    BY <1>0, <1>1, <1>2, <1>5, <2>1, <2>2 DEF IInv, NothingLeftBehind
<1>8. YieldsTheSnapshot'
  BY <1>0, <1>2 DEF IInv, YieldsTheSnapshot, InOrder, Backward, use_optimized_prefix_iterator
<1>9. QED
  BY <1>2, <1>3, <1>4, <1>6, <1>7, <1>8 DEF IInv

\* A key that is kept: it is counted and yielded after all the others, with
\* its value or with the error of the deserializer.
LEMMA YieldInv ==
  ASSUME IInv, NEW val, Yield(val), kept' = kept + 1, pc' \in {pc, "failed"},
         val = snap[order[Current]] \/ (val = Refused /\ config.mode = "Deserialize")
  PROVE  IInv'
<1> DEFINE x == [key |-> order[Current], val |-> val]
           n == Len(items)
<1>0. /\ Advance("Keep") /\ kept' = kept + 1 /\ items' = Append(items, x)
      /\ UNCHANGED <<order, db, writes, config, finding, snap, skipped, stopped>>
      /\ pc' \in {pc, "failed"}
  BY DEF Yield
<1>1. /\ pc = "open" /\ config \in Configs /\ order[Current] \in Keys /\ Pos(order[Current]) = Current
      /\ Current \in Nat /\ kept = n /\ items \in Seq(ItemSet)
      /\ snap[order[Current]] \in 1..(MaxWrites + 1)
      /\ raw' \in [todo : SUBSET DOMAIN order, back : BOOLEAN]
      /\ raw'.back = raw.back /\ raw'.todo = raw.todo \ {Current}
      /\ (\A t \in raw'.todo : IF raw.back THEN t < Current ELSE t > Current)
      /\ order[Current] \in Wanted(config) /\ user_control(config, kept, "Keep")
      /\ Matches(config, order[Current]) /\ Current \in raw.todo
  BY <1>0, AdvanceFacts
<1>2. /\ InRegion' /\ Regular(config)' = Regular(config) /\ Wanted(config)' = Wanted(config)
      /\ \A k : Pos(k)' = Pos(k) /\ Matches(config, k)' = Matches(config, k)
  BY <1>0, AdvanceKeeps
<1>3. x \in ItemSet /\ x.key = order[Current] /\ x.val = val
  BY <1>1, BoundAssumption DEF ItemSet, Refused
<1> HIDE DEF x
<1>4. /\ items' \in Seq(ItemSet) /\ n \in Nat /\ Len(items') = n + 1 /\ DOMAIN items = 1..n
      /\ DOMAIN items' = 1..(n + 1) /\ items'[n + 1] = x
      /\ \A i \in 1..n : items'[i] = items[i] /\ items[i] \in ItemSet
  BY <1>0, <1>1, <1>3
<1> HIDE DEF n
<1>5. \A i \in DOMAIN items' : (i \in DOMAIN items /\ items'[i] = items[i]) \/ (i = n + 1 /\ items'[i] = x)
  BY <1>4
<1>6. TypeOK'
  <2>1. kept' = Len(items')
    BY <1>0, <1>1, <1>4
  <2>2. QED
    BY <1>0, <1>1, <1>4, <2>1 DEF IInv, TypeOK, ItemSet
<1>7. Configured'
  BY <1>0, <1>1 DEF IInv, Configured, Backward, use_optimized_prefix_iterator
<1>8. AheadOfItems'
  <2>1. ASSUME NEW i \in DOMAIN items', NEW t \in raw'.todo
        PROVE  IF raw.back THEN t < Pos(items'[i].key) ELSE t > Pos(items'[i].key)
    <3>1. CASE i \in DOMAIN items /\ items'[i] = items[i]
      BY <1>1, <3>1 DEF IInv, AheadOfItems
    <3>2. CASE i = n + 1 /\ items'[i] = x
      BY <1>1, <1>3, <3>2
    <3>3. QED
      BY <1>5, <3>1, <3>2
  <2>2. QED
    BY <1>1, <1>2, <2>1 DEF AheadOfItems
<1>9. ItemKeys' = ItemKeys \cup {order[Current]}
  <2>1. \A k : k \in ItemKeys' <=> \E i \in 1..(n + 1) : k = items'[i].key
    BY <1>4 DEF ItemKeys
  <2>2. \A k : k \in ItemKeys <=> \E i \in 1..n : k = items[i].key
    BY <1>4 DEF ItemKeys
  <2>3. \A i : i \in 1..(n + 1) <=> i \in 1..n \/ i = n + 1
    BY <1>4
  <2>4. \A k : k \in ItemKeys' <=> k \in ItemKeys \/ k = order[Current]
    BY <1>3, <1>4, <2>1, <2>2, <2>3
  <2>5. QED
    BY <2>4
<1>10. OnlyWanted'
  BY <1>0, <1>1, <1>2, <1>9 DEF IInv, OnlyWanted
<1>11. NothingLeftBehind'
  <2>1. \A k \in Keys : Pos(k) = Current => k = order[Current]
    BY PosFacts DEF IInv, TypeOK
  <2>2. \A k \in Wanted(config) : k \in Keys
    BY DEF Wanted
  <2>3. QED
    BY <1>0, <1>1, <1>2, <1>9, <2>1, <2>2 DEF IInv, NothingLeftBehind
<1>12. Limited'
  <2>1. SUFFICES ASSUME config.control = "limit"
                 PROVE  Len(items') <= Limit /\ (stopped => Len(items') = Limit)
    BY <1>0 DEF Limited
  <2>2. n < Limit
    BY <1>1, <2>1 DEF user_control
  <2>3. stopped => n = Limit
    BY <1>1, <2>1 DEF IInv, Limited, n
  <2>4. QED
    BY <1>4, <2>2, <2>3, BoundAssumption
<1>13. YieldsTheSnapshot'
  <2>1. \A i \in DOMAIN items' :
          /\ Matches(config, items'[i].key) /\ snap[items'[i].key] # 0
          /\ items'[i].val = snap[items'[i].key]
             \/ (items'[i].val = Refused /\ config.mode = "Deserialize")
    BY <1>1, <1>3, <1>5 DEF IInv, YieldsTheSnapshot
  <2>2. ASSUME NEW i \in DOMAIN items', NEW j \in DOMAIN items', i < j
        PROVE  IF Backward(config) THEN Pos(items'[i].key) > Pos(items'[j].key)
                                   ELSE Pos(items'[i].key) < Pos(items'[j].key)
    <3>0. i \in DOMAIN items /\ items'[i] = items[i]
      BY <1>4, <2>2
    <3>1. CASE j \in DOMAIN items /\ items'[j] = items[j]
      BY <2>2, <3>0, <3>1 DEF IInv, YieldsTheSnapshot, InOrder
    <3>2. CASE j = n + 1 /\ items'[j] = x
      <4>1. IF raw.back THEN Current < Pos(items[i].key) ELSE Current > Pos(items[i].key)
        BY <1>1, <3>0 DEF IInv, AheadOfItems
      <4>2. raw.back = Backward(config)
        BY <1>1 DEF IInv, Configured
      <4>3. items[i].key \in Keys
        BY <1>4, <3>0 DEF ItemSet
      <4>4. Pos(items[i].key) \in Nat
        <5>1. order \in Orders
          BY DEF IInv, TypeOK
        <5>2. QED
          BY <4>3, <5>1, PosFacts
      <4>5. QED
        BY <1>1, <1>3, <3>0, <3>2, <4>1, <4>2, <4>4
    <3>3. QED
      BY <1>5, <3>1, <3>2
  <2>3. Backward(config)' = Backward(config)
    BY <1>0, SameConfig
  <2>4. InOrder'
    BY <1>2, <2>2, <2>3 DEF InOrder
  <2>5. QED
    BY <1>0, <1>2, <2>1, <2>4 DEF YieldsTheSnapshot
<1>14. QED
  BY <1>2, <1>6, <1>7, <1>8, <1>10, <1>11, <1>12, <1>13 DEF IInv

LEMMA KeepInv ==
  ASSUME IInv, Keep
  PROVE  IInv'
<1>1. Yield(snap[order[Current]]) /\ kept' = kept + 1 /\ pc' = pc
  BY DEF Keep
<1>2. QED
  BY <1>1, YieldInv

LEMMA DeserializeErrInv ==
  ASSUME IInv, DeserializeErr
  PROVE  IInv'
<1>1. Yield(Refused) /\ config.mode = "Deserialize" /\ kept' = kept + 1 /\ pc' \in {pc, "failed"}
  BY DEF DeserializeErr, Refuse
<1>2. QED
  BY <1>1, YieldInv

\* An iteration whose raw iterator fails leaves what it has yielded.
LEMMA RawErrInv ==
  ASSUME IInv, RawErr
  PROVE  IInv'
<1>1. /\ pc = "open" /\ pc' = "failed" /\ raw' = [raw EXCEPT !.todo = {}]
      /\ UNCHANGED <<order, db, writes, config, finding, snap, kept, items, skipped, stopped>>
  BY DEF RawErr
<1>2. /\ raw' \in [todo : SUBSET DOMAIN order, back : BOOLEAN]
      /\ raw'.back = raw.back /\ raw'.todo = {}
  BY <1>1 DEF IInv, TypeOK
<1>3. TypeOK'
  BY <1>1, <1>2 DEF IInv, TypeOK
<1>4. Configured' /\ AheadOfItems' /\ InRegion'
  BY <1>1, <1>2, SameConfig DEF IInv, Configured, AheadOfItems, InRegion
<1>5. OnlyWanted' /\ NothingLeftBehind' /\ Limited'
  BY <1>1, SameConfig DEF IInv, OnlyWanted, NothingLeftBehind, ItemKeys, Limited
<1>6. YieldsTheSnapshot'
  BY <1>1, SameConfig DEF IInv, YieldsTheSnapshot, InOrder
<1>7. QED
  BY <1>3, <1>4, <1>5, <1>6 DEF IInv

\* The end of the raw iterator, and a call after the end.
LEMMA TurnInv ==
  ASSUME IInv, Exhausted \/ CallAgain
  PROVE  IInv'
<1>1. /\ UNCHANGED <<order, db, writes, config, finding, snap, raw, kept, items, skipped, stopped>>
      /\ pc \in {"open", "ended"} /\ pc' \in {"open", "ended"} /\ (pc' = "ended" => raw.todo = {})
  BY DEF Exhausted, CallAgain
<1>2. TypeOK'
  BY <1>1 DEF IInv, TypeOK
<1>3. Configured' /\ AheadOfItems' /\ InRegion'
  BY <1>1, SameConfig DEF IInv, Configured, AheadOfItems, InRegion
<1>4. OnlyWanted' /\ NothingLeftBehind' /\ Limited'
  BY <1>1, SameConfig DEF IInv, OnlyWanted, NothingLeftBehind, ItemKeys, Limited
<1>5. YieldsTheSnapshot'
  BY <1>1, SameConfig DEF IInv, YieldsTheSnapshot, InOrder
<1>6. QED
  BY <1>2, <1>3, <1>4, <1>5 DEF IInv

\* The ways to start: iterate() with any configuration, or a find_* method.
LEMMA StartInv ==
  ASSUME IInv, Start
  PROVE  IInv'
<1>1. \E c \in Configs : Open(c) /\ finding' \in BOOLEAN
  <2>1. ASSUME NEW p \in Keys \cup {None}, NEW s \in Keys \cup {None}, NEW r \in BOOLEAN,
               NEW f \in Controls, Find(p, s, r, f)
        PROVE  \E c \in Configs : Open(c) /\ finding' \in BOOLEAN
    <3>1. [prefix |-> p, start |-> s, reverse |-> r, control |-> f, mode |-> "Deserialize"] \in Configs
      BY DEF Configs, Modes
    <3>2. QED
      BY <2>1, <3>1 DEF Find
  <2>2. "none" \in Controls
    BY DEF Controls
  <2>3. CASE \E c \in Configs : execute(c)
    BY <2>3 DEF execute
  <2>4. CASE \E k \in Keys, reverse \in BOOLEAN : find_by_prefix(k, reverse)
    BY <2>1, <2>2, <2>4 DEF find_by_prefix
  <2>5. CASE \E k \in Keys, reverse \in BOOLEAN, control \in Controls : find_from(k, reverse, control)
    BY <2>1, <2>5 DEF find_from
  <2>6. CASE \E k \in Keys, reverse \in BOOLEAN, control \in Controls :
               find_by_prefix_with_expire_val(k, reverse, control)
    BY <2>1, <2>6 DEF find_by_prefix_with_expire_val
  <2>7. QED
    BY <2>3, <2>4, <2>5, <2>6 DEF Start
<1>2. QED
  BY <1>1, OpenInv

LEMMA StepInv == IInv /\ [Next]_vars => IInv'
<1> SUFFICES ASSUME IInv, [Next]_vars PROVE IInv'
  OBVIOUS
<1>1. ASSUME NEW k \in Keys, put(k) PROVE IInv'
  <2>1. writes + 2 \in 0..(MaxWrites + 1)
    BY <1>1, BoundAssumption DEF IInv, TypeOK, put, Write
  <2>2. QED
    BY <1>1, <2>1, WriteInv DEF put
<1>2. ASSUME NEW k \in Keys, delete(k) PROVE IInv'
  <2>1. 0 \in 0..(MaxWrites + 1)
    BY BoundAssumption
  <2>2. QED
    BY <1>2, <2>1, WriteInv DEF delete
<1>3. CASE Start
  BY <1>3, StartInv
<1>4. CASE Step
  BY <1>4, StopInv, SkipInv, KeepInv, DeserializeErrInv, RawErrInv, TurnInv DEF Step
<1>5. CASE UNCHANGED vars
  <2>1. TypeOK'
    BY <1>5 DEF vars, IInv, TypeOK
  <2>2. Configured' /\ AheadOfItems' /\ InRegion'
    BY <1>5, SameConfig DEF vars, IInv, Configured, AheadOfItems, InRegion
  <2>3. OnlyWanted' /\ NothingLeftBehind' /\ Limited'
    BY <1>5, SameConfig DEF vars, IInv, OnlyWanted, NothingLeftBehind, ItemKeys, Limited
  <2>4. YieldsTheSnapshot'
    BY <1>5, SameConfig DEF vars, IInv, YieldsTheSnapshot, InOrder
  <2>5. QED
    BY <2>1, <2>2, <2>3, <2>4 DEF IInv
<1>6. QED
  BY <1>1, <1>2, <1>3, <1>4, <1>5 DEF Next

LEMMA InitInv == Init => IInv
<1> SUFFICES ASSUME Init PROVE IInv
  OBVIOUS
<1>1. /\ items = <<>> /\ skipped = {} /\ stopped = FALSE /\ pc = "idle" /\ config = None /\ kept = 0 /\ finding = FALSE
      /\ raw \in [todo : SUBSET DOMAIN order, back : BOOLEAN] /\ raw.todo = {}
  BY DEF Init, Unpositioned
<1>2. db \in [Keys -> 0..(MaxWrites + 1)] /\ writes \in 0..MaxWrites
  BY BoundAssumption DEF Init
<1>3. TypeOK
  <2>1. Len(items) = 0 /\ items \in Seq([key : Keys, val : 0..(MaxWrites + 1)])
    BY <1>1
  <2>2. QED
    BY <1>1, <1>2, <2>1 DEF Init, TypeOK
<1>4. Configured /\ AheadOfItems /\ InRegion /\ OnlyWanted /\ NothingLeftBehind /\ Limited
  BY <1>1 DEF Configured, AheadOfItems, InRegion, OnlyWanted, ItemKeys, NothingLeftBehind, Limited
<1>5. YieldsTheSnapshot
  BY <1>1 DEF YieldsTheSnapshot, InOrder
<1>6. QED
  BY <1>3, <1>4, <1>5 DEF IInv

LEMMA Invariant == Spec => []IInv
BY InitInv, StepInv, PTL DEF Spec

-----------------------------------------------------------------------------
\* Every variable has its type; items_kept_count is the number of items
\* yielded, errors of the deserializer included.
THEOREM TypeCorrect == Spec => []TypeOK
<1>1. IInv => TypeOK
  BY DEF IInv
<1>2. QED
  BY <1>1, Invariant, PTL

\* Whatever is written meanwhile, and however often next() is called after the
\* end, an iterator yields records of its snapshot with its prefix, in order,
\* an error in the place of those the deserializer refuses.
THEOREM YieldsItsSnapshot == Spec => []YieldsTheSnapshot
<1>1. IInv => YieldsTheSnapshot
  BY DEF IInv
<1>2. QED
  BY <1>1, Invariant, PTL

\* An iteration that ended of itself has met every key it should find, also
\* those after an error of the deserializer, if the comparator keeps the keys
\* of the prefix together.
THEOREM MissesNothing == Spec => []FindsAll
<1>1. IInv => FindsAll
  <2> SUFFICES ASSUME IInv, pc = "ended", ~stopped, Regular(config)
               PROVE  ItemKeys \cup skipped = Wanted(config)
    BY DEF FindsAll, Regular, ItemKeys
  <2>1. \A k \in ItemKeys \cup skipped : k \in Wanted(config)
    BY DEF IInv, OnlyWanted
  <2>2. stopped = FALSE
    BY DEF IInv, TypeOK
  <2>3. /\ \A k \in Wanted(config) : k \in ItemKeys \cup skipped \/ Pos(k) \in raw.todo
        /\ \A t \in raw.todo : ~Matches(config, order[t])
    BY <2>2 DEF IInv, NothingLeftBehind
  <2>4. \A k \in Wanted(config) : order[Pos(k)] = k /\ Matches(config, k)
    BY PosFacts DEF IInv, TypeOK, Wanted
  <2>5. QED
    BY <2>1, <2>3, <2>4
<1>2. QED
  BY <1>1, Invariant, PTL

\* A control function that counts gets exactly as many items as it allows, the
\* refused ones among them, also when others were skipped before.
THEOREM LimitsExactly == Spec => []LimitIsExact
<1>1. IInv => LimitIsExact
  BY DEF IInv, Configured, Limited, LimitIsExact
<1>2. QED
  BY <1>1, Invariant, PTL
=============================================================================

---------------------------- MODULE RouterProofs ---------------------------
(* Proofs about the routers: the two tables of MergeRouting, for all        *)
(* patterns, keys and conflicts between patterns and any number of calls of *)
(* add_route at the same time; what compaction keeps of lists, sets and     *)
(* unrouted keys, for any number of operands; and the locks of RouterLocks, *)
(* for any number of threads.                                               *)
EXTENDS MergeRouting, RouterLocks, SequenceTheorems, WellFoundedInduction, TLAPS

(* The partial table never refuses what the full one took: while no handler *)
(* of a pair is added alone, it has the pairs of the full table but for     *)
(* those that are on their way.  Those agree with each other, because the   *)
(* full table took them all.                                                *)

\* No two patterns of the full table exclude each other.
Compatible ==
  \A p, q \in full : p # q => <<p, q>> \notin Conflicts /\ <<q, p>> \notin Conflicts

Pairs == {p \in PatternSet : Paired(p)}

TablesInStep ==
  split = FALSE => Compatible /\ partial = (full \cap Pairs) \ adding /\ adding \subseteq full

IInv ==
  /\ full \subseteq PatternSet /\ partial \subseteq Pairs /\ adding \subseteq Pairs
  /\ split \in BOOLEAN /\ TablesInStep

-----------------------------------------------------------------------------
\* The least of some natural numbers is one of them.
LEMMA MinOfNat ==
  ASSUME NEW S \in SUBSET Nat, S # {}
  PROVE  Min(S) \in S
<1>1. \E x \in S : \A y \in S : ~(<<y, x>> \in OpToRel(<, Nat))
  BY NatLessThanWellFounded, WFMin
<1>2. ASSUME NEW x \in Nat, NEW y \in Nat, y < x PROVE <<y, x>> \in OpToRel(<, Nat)
  <2>1. <<y, x>> \in Nat \X Nat /\ <<y, x>>[1] < <<y, x>>[2]
    BY <1>2
  <2>2. QED
    BY <2>1, Zenon DEF OpToRel
<1>3. \A x, y \in Nat : ~(y < x) => x <= y
  OBVIOUS
<1>4. \E x \in S : \A y \in S : x <= y
  BY <1>1, <1>2, <1>3
<1>5. QED
  BY <1>4 DEF Min


\* A key has a route in a table if and only if it is a string and the table
\* has a pattern that it matches; the route is such a pattern, with the
\* handlers of the key's kind.
LEMMA RouteFacts ==
  ASSUME NEW router, NEW k \in Keys
  PROVE  /\ Route(router, k) # None <=>
              k \in Utf8Keys /\ \E i \in DOMAIN Patterns : Patterns[i] \in router \cap Matches[k]
         /\ Route(router, k) # None =>
              Route(router, k) \in router /\ HandlerOf[Route(router, k)] = Holds[k]
<1> DEFINE hits == {i \in DOMAIN Patterns : Patterns[i] \in router /\ Patterns[i] \in Matches[k]}
<1>1. Route(router, k) = IF k \in Utf8Keys /\ hits # {} THEN Patterns[Min(hits)] ELSE None
  BY DEF Route
<1>2. hits # {} => /\ Patterns[Min(hits)] # None /\ Patterns[Min(hits)] \in router
                   /\ Patterns[Min(hits)] \in Matches[k]
  <2>1. hits \in SUBSET Nat
    BY PatternAssumption
  <2>2. hits # {} => Min(hits) \in hits
    <3> HIDE DEF hits
    <3>1. QED
      BY <2>1, MinOfNat
  <2>3. \A i \in hits : Patterns[i] \in ToSet(Patterns)
    BY DEF ToSet
  <2>4. QED
    BY <2>2, <2>3, PatternAssumption
<1>3. hits # {} <=> \E i \in DOMAIN Patterns : Patterns[i] \in router \cap Matches[k]
  OBVIOUS
<1>4. hits # {} => HandlerOf[Patterns[Min(hits)]] = Holds[k]
  BY <1>2, HandlerAssumption
<1> HIDE DEF hits
<1>5. QED
  BY <1>1, <1>2, <1>3, <1>4

-----------------------------------------------------------------------------
\* The steps that leave the tables alone.
LEMMA StoreInv ==
  ASSUME IInv, UNCHANGED <<full, partial, adding, split>>
  PROVE  IInv'
BY DEF IInv, TablesInStep, Compatible

\* A full handler alone: of a list, it keeps the tables in step; of a set, it
\* ends what is said about both.
LEMMA FullAloneInv ==
  ASSUME IInv, NEW p \in PatternSet, add_full_merge_route(p)
  PROVE  IInv'
<1>1. /\ Accepts(full, p) /\ full' = full \cup {p} /\ partial' = partial /\ adding' = adding
      /\ split' = (split \/ Paired(p))
  BY DEF add_full_merge_route
<1>2. CASE split \/ Paired(p)
  BY <1>1, <1>2 DEF IInv, TablesInStep
<1>3. CASE split = FALSE /\ ~Paired(p)
  <2>1. Compatible /\ partial = (full \cap Pairs) \ adding /\ adding \subseteq full
    BY <1>3 DEF IInv, TablesInStep
  <2>2. p \notin Pairs
    BY <1>3 DEF Pairs
  <2>3. partial' = (full' \cap Pairs) \ adding' /\ adding' \subseteq full'
    BY <1>1, <2>1, <2>2
  <2>4. Compatible'
    BY <1>1, <2>1 DEF Accepts, Compatible
  <2>5. QED
    BY <1>1, <2>3, <2>4 DEF IInv, TablesInStep
<1>4. QED
  BY <1>2, <1>3 DEF IInv

\* A partial handler alone ends it.
LEMMA PartialAloneInv ==
  ASSUME IInv, NEW p \in PatternSet, add_partial_merge_route(p)
  PROVE  IInv'
<1>1. /\ full' = full /\ partial' = partial \cup {p} /\ adding' = adding /\ split' = TRUE
      /\ Paired(p)
  BY DEF add_partial_merge_route
<1>2. QED
  BY <1>1 DEF IInv, TablesInStep, Pairs

\* The first half of add_route.
LEMMA AddFullInv ==
  ASSUME IInv, NEW p \in PatternSet, add_route_full(p)
  PROVE  IInv'
<1>1. /\ Accepts(full, p) /\ full' = full \cup {p} /\ adding' = adding \cup {p}
      /\ partial' = partial /\ split' = split /\ p \in Pairs
  BY DEF add_route_full, Pairs
<1>2. CASE split
  BY <1>1, <1>2 DEF IInv, TablesInStep
<1>3. CASE split = FALSE
  <2>1. Compatible /\ partial = (full \cap Pairs) \ adding /\ adding \subseteq full
    BY <1>3 DEF IInv, TablesInStep
  <2>2. p \notin full
    BY <1>1 DEF Accepts
  <2>3. partial' = (full' \cap Pairs) \ adding' /\ adding' \subseteq full'
    BY <1>1, <2>1, <2>2
  <2>4. Compatible'
    BY <1>1, <2>1 DEF Accepts, Compatible
  <2>5. QED
    BY <1>1, <2>3, <2>4 DEF IInv, TablesInStep
<1>4. QED
  BY <1>2, <1>3 DEF IInv

\* The second half of add_route, whatever other calls did since the first.
LEMMA AddPartialInv ==
  ASSUME IInv, NEW p \in PatternSet, add_route_partial(p)
  PROVE  IInv'
<1>1. /\ p \in adding /\ adding' = adding \ {p} /\ full' = full /\ split' = split
      /\ partial' = IF Accepts(partial, p) THEN partial \cup {p} ELSE partial
  BY DEF add_route_partial
<1>2. partial' \subseteq Pairs /\ adding' \subseteq Pairs
  BY <1>1 DEF IInv
<1>3. CASE split
  BY <1>1, <1>2, <1>3 DEF IInv, TablesInStep
<1>4. CASE split = FALSE
  <2>1. Compatible /\ partial = (full \cap Pairs) \ adding /\ adding \subseteq full
    BY <1>4 DEF IInv, TablesInStep
  <2>2. Accepts(partial, p) /\ p \in Pairs
    BY <1>1, <2>1 DEF Accepts, Compatible, IInv
  <2>3. partial' = (full' \cap Pairs) \ adding' /\ adding' \subseteq full'
    BY <1>1, <2>1, <2>2
  <2>4. Compatible'
    BY <1>1, <2>1 DEF Compatible
  <2>5. QED
    BY <1>1, <1>2, <2>3, <2>4 DEF IInv, TablesInStep
<1>5. QED
  BY <1>3, <1>4 DEF IInv

LEMMA StepInv == IInv /\ [Next]_vars => IInv'
<1> SUFFICES ASSUME IInv, [Next]_vars PROVE IInv'
  OBVIOUS
<1>1. CASE operator_name \/ build
  BY <1>1, StoreInv DEF operator_name, build, routers
<1>2. CASE Store
  BY <1>2, StoreInv DEF Store, put, merge, CompactPartial, CompactFull, routers
<1>3. CASE UNCHANGED vars
  BY <1>3, StoreInv DEF vars, routers
<1>4. ASSUME NEW p \in PatternSet,
             \/ add_full_merge_route(p) \/ add_partial_merge_route(p)
             \/ add_route_full(p) \/ add_route_partial(p)
      PROVE  IInv'
  BY <1>4, FullAloneInv, PartialAloneInv, AddFullInv, AddPartialInv
<1>5. QED
  BY <1>1, <1>2, <1>3, <1>4 DEF Next, Register

LEMMA Invariant == Spec => []IInv
<1>1. Init => IInv
  BY DEF Init, IInv, TablesInStep, Compatible
<1>2. QED
  BY <1>1, StepInv, PTL DEF Spec

-----------------------------------------------------------------------------
\* With pairs added by add_route alone, however many threads call it at once,
\* a key with a partial route always has a full route, and a set has the same
\* in both tables when all calls are done.
THEOREM RoutesArePaired == Spec => []RoutesPaired
<1>1. IInv => RoutesPaired
  <2> SUFFICES ASSUME IInv, ~split, NEW k \in Keys
               PROVE  /\ Route(partial, k) # None => Route(full, k) # None
                      /\ adding = {} /\ Holds[k] = "set" => Route(partial, k) = Route(full, k)
    BY DEF RoutesPaired
  <2>1. partial = (full \cap Pairs) \ adding /\ full \subseteq PatternSet
    BY DEF IInv, TablesInStep
  <2>2. Route(partial, k) # None => Route(full, k) # None
    BY <2>1, RouteFacts
  <2>3. ASSUME adding = {}, Holds[k] = "set" PROVE Route(partial, k) = Route(full, k)
    <3>1. \A p \in Matches[k] : p \in PatternSet /\ Paired(p)
      BY <2>3, PatternAssumption, HandlerAssumption DEF Paired, PatternSet
    <3>2. partial \cap Matches[k] = full \cap Matches[k]
      BY <2>1, <2>3, <3>1 DEF Pairs
    <3>3. {i \in DOMAIN Patterns : Patterns[i] \in partial /\ Patterns[i] \in Matches[k]}
            = {i \in DOMAIN Patterns : Patterns[i] \in full /\ Patterns[i] \in Matches[k]}
      BY <3>2
    <3>4. QED
      BY <3>3 DEF Route
  <2>4. QED
    BY <2>2, <2>3
<1>2. QED
  BY <1>1, Invariant, PTL

-----------------------------------------------------------------------------
(* Folds whose step is a function. *)

\* Induction over the natural numbers, for a set.
LEMMA SetInduction ==
  ASSUME NEW T, 0 \in T, \A n \in Nat : n \in T => n + 1 \in T
  PROVE  Nat \subseteq T
<1> SUFFICES ASSUME ~(Nat \subseteq T) PROVE FALSE
  OBVIOUS
<1> DEFINE bad == Nat \ T
<1>1. bad \in SUBSET Nat /\ bad # {}
  OBVIOUS
<1>2. PICK n \in bad : \A m \in bad : n <= m
  <2> HIDE DEF bad
  <2>1. PICK n \in bad : \A m \in bad : ~(<<m, n>> \in OpToRel(<, Nat))
    BY <1>1, NatLessThanWellFounded, WFMin
  <2>2. ASSUME NEW x \in Nat, NEW y \in Nat, y < x PROVE <<y, x>> \in OpToRel(<, Nat)
    <3>1. <<y, x>> \in Nat \X Nat /\ <<y, x>>[1] < <<y, x>>[2]
      BY <2>2
    <3>2. QED
      BY <3>1, Zenon DEF OpToRel
  <2>3. \A x, y \in Nat : ~(y < x) => x <= y
    OBVIOUS
  <2>4. QED
    BY <1>1, <2>1, <2>2, <2>3
<1>3. n # 0 /\ n - 1 \in Nat /\ n - 1 \notin bad
  BY <1>2
<1>4. QED
  BY <1>3, <1>2

\* The values a fold goes through.
Runs(step, start, seq, f) ==
  f = [n \in 0..Len(seq) |-> IF n = 0 THEN start ELSE step[<<f[n - 1], seq[n]>>]]

LEMMA RunExists ==
  ASSUME NEW step, NEW start, NEW seq, Len(seq) \in Nat
  PROVE  \E f : Runs(step, start, seq, f)
<1> DEFINE good == {n \in Nat : \E g : g = [i \in 0..n |-> IF i = 0 THEN start ELSE step[<<g[i - 1], seq[i]>>]]}
<1>1. 0 \in good
  <2> DEFINE g == [i \in 0..0 |-> start]
  <2>1. g = [i \in 0..0 |-> IF i = 0 THEN start ELSE step[<<g[i - 1], seq[i]>>]]
    OBVIOUS
  <2>2. QED
    BY <2>1
<1>2. ASSUME NEW n \in Nat, n \in good PROVE n + 1 \in good
  <2>1. PICK g : g = [i \in 0..n |-> IF i = 0 THEN start ELSE step[<<g[i - 1], seq[i]>>]]
    BY <1>2
  <2> DEFINE h == [i \in 0..(n + 1) |-> IF i = n + 1 THEN step[<<g[n], seq[i]>>] ELSE g[i]]
  <2>2. ASSUME NEW i \in 0..(n + 1)
        PROVE h[i] = IF i = 0 THEN start ELSE step[<<h[i - 1], seq[i]>>]
    <3>1. CASE i = n + 1
      <4>1. h[i] = step[<<g[n], seq[i]>>] /\ h[i - 1] = g[n]
        BY <3>1
      <4> HIDE DEF h
      <4>2. QED
        BY <4>1, <3>1
    <3>2. CASE i = 0
      <4>1. h[0] = g[0] /\ g[0] = start
        BY <2>1
      <4>2. QED
        BY <4>1, <3>2
    <3>3. CASE i # n + 1 /\ i # 0
      <4>1. h[i] = g[i] /\ h[i - 1] = g[i - 1] /\ i \in 0..n
        BY <3>3
      <4>2. QED
        BY <4>1, <2>1, <3>3
    <3>4. QED
      BY <3>1, <3>2, <3>3
  <2>3. h = [i \in 0..(n + 1) |-> IF i = 0 THEN start ELSE step[<<h[i - 1], seq[i]>>]]
    <3>1. h = [i \in 0..(n + 1) |-> h[i]]
      OBVIOUS
    <3> HIDE DEF h
    <3>2. QED
      BY <2>2, <3>1
  <2> HIDE DEF h
  <2>4. QED
    BY <2>3
<1>3. Nat \subseteq good
  <2> HIDE DEF good
  <2>1. QED BY <1>1, <1>2, SetInduction
<1>4. QED
  BY <1>3 DEF Runs

LEMMA FoldedRuns ==
  ASSUME NEW step, NEW start, NEW seq, Len(seq) \in Nat
  PROVE  \E f : Runs(step, start, seq, f) /\ Folded(step, start, seq) = f[Len(seq)]
<1> DEFINE f == CHOOSE f : Runs(step, start, seq, f)
<1>1. Runs(step, start, seq, f)
  BY RunExists
<1>2. Folded(step, start, seq) = f[Len(seq)]
  BY Zenon DEF Folded, Runs
<1> HIDE DEF f
<1>3. QED
  BY <1>1, <1>2

Steps(step, start, seq, f) ==
  f[0] = start /\ \A n \in 1..Len(seq) : f[n] = step[<<f[n - 1], seq[n]>>]

LEMMA RunSteps ==
  ASSUME NEW step, NEW start, NEW seq, Len(seq) \in Nat, NEW f, Runs(step, start, seq, f)
  PROVE  Steps(step, start, seq, f)
<1>1. \A n \in 0..Len(seq) : f[n] = IF n = 0 THEN start ELSE step[<<f[n - 1], seq[n]>>]
  BY Zenon DEF Runs
<1>2. 0 \in 0..Len(seq) /\ \A n \in 1..Len(seq) : n \in 0..Len(seq) /\ n # 0
  OBVIOUS
<1>3. QED
  BY <1>1, <1>2, Zenon DEF Steps

LEMMA RunTyped ==
  ASSUME NEW A, NEW B, NEW step, \A a \in A, b \in B : step[<<a, b>>] \in A,
         NEW start \in A, NEW seq \in Seq(B), NEW f, Runs(step, start, seq, f)
  PROVE  \A n \in 0..Len(seq) : f[n] \in A
<1>1. f[0] = start /\ \A n \in 1..Len(seq) : f[n] = step[<<f[n - 1], seq[n]>>]
  <2>1. Len(seq) \in Nat
    OBVIOUS
  <2>2. Steps(step, start, seq, f)
    BY <2>1, RunSteps
  <2>3. QED
    BY <2>2 DEF Steps
<1> DEFINE good == {n \in Nat : n <= Len(seq) => f[n] \in A}
<1>2. 0 \in good
  BY <1>1
<1>3. ASSUME NEW n \in Nat, n \in good PROVE n + 1 \in good
  <2> SUFFICES ASSUME n + 1 <= Len(seq) PROVE f[n + 1] \in A
    OBVIOUS
  <2>1. n + 1 \in 1..Len(seq) /\ (n + 1) - 1 = n
    OBVIOUS
  <2>2. f[n + 1] = step[<<f[n], seq[n + 1]>>] /\ f[n] \in A /\ seq[n + 1] \in B
    BY <1>1, <1>3, <2>1
  <2>3. QED
    BY <2>2
<1>4. Nat \subseteq good
  <2> HIDE DEF good
  <2>1. QED BY <1>2, <1>3, SetInduction
<1>5. QED
  BY <1>4

LEMMA FoldTyped ==
  ASSUME NEW A, NEW B, NEW step, \A a \in A, b \in B : step[<<a, b>>] \in A,
         NEW start \in A, NEW seq \in Seq(B)
  PROVE  Folded(step, start, seq) \in A
<1>1. PICK f : Runs(step, start, seq, f) /\ Folded(step, start, seq) = f[Len(seq)]
  BY FoldedRuns
<1>2. \A n \in 0..Len(seq) : f[n] \in A
  BY <1>1, RunTyped
<1>3. QED
  BY <1>1, <1>2

LEMMA FoldOne ==
  ASSUME NEW step, NEW start, NEW x
  PROVE  Folded(step, start, <<x>>) = step[<<start, x>>]
<1>1. PICK f : Runs(step, start, <<x>>, f) /\ Folded(step, start, <<x>>) = f[Len(<<x>>)]
  BY FoldedRuns
<1>2. f = [n \in 0..1 |-> IF n = 0 THEN start ELSE step[<<f[n - 1], <<x>>[n]>>]]
  BY <1>1 DEF Runs
<1>3. f[0] = start /\ f[1] = step[<<f[0], x>>]
  BY <1>2
<1>4. QED
  BY <1>1, <1>3

\* One list after the other.
LEMMA FoldConcat ==
  ASSUME NEW A, NEW B, NEW step, \A a \in A, b \in B : step[<<a, b>>] \in A,
         NEW start \in A, NEW s \in Seq(B), NEW t \in Seq(B)
  PROVE  Folded(step, Folded(step, start, s), t) = Folded(step, start, s \o t)
<1> DEFINE mid == Folded(step, start, s)
<1>1. PICK f : Runs(step, start, s, f) /\ mid = f[Len(s)]
  BY FoldedRuns
<1>2. mid \in A
  BY FoldTyped
<1> HIDE DEF mid
<1>3. PICK g : Runs(step, mid, t, g) /\ Folded(step, mid, t) = g[Len(t)]
  BY FoldedRuns
<1>4. s \o t \in Seq(B) /\ Len(s \o t) = Len(s) + Len(t) /\ Len(s) \in Nat /\ Len(t) \in Nat
      /\ (\A n \in 1..Len(s) : (s \o t)[n] = s[n])
      /\ (\A n \in 1..Len(t) : (s \o t)[Len(s) + n] = t[n])
  OBVIOUS
<1> DEFINE st == s \o t
<1> HIDE DEF st
<1>5. PICK h : Runs(step, start, st, h) /\ Folded(step, start, st) = h[Len(st)]
  <2>1. Len(st) \in Nat
    BY <1>4 DEF st
  <2>2. QED
    BY <2>1, FoldedRuns
<1>6. Steps(step, start, s, f) /\ Steps(step, mid, t, g) /\ Steps(step, start, st, h)
  <2>1. Len(st) \in Nat
    BY <1>4 DEF st
  <2>2. QED
    BY <1>1, <1>3, <1>4, <1>5, <2>1, RunSteps
<1> DEFINE good == {n \in Nat : n <= Len(s) => h[n] = f[n]}
           fine == {n \in Nat : n <= Len(t) => h[Len(s) + n] = g[n]}
<1>7. 0 \in good
  BY <1>6 DEF Steps
<1>8. ASSUME NEW n \in Nat, n \in good PROVE n + 1 \in good
  <2> SUFFICES ASSUME n + 1 <= Len(s) PROVE h[n + 1] = f[n + 1]
    OBVIOUS
  <2>1. n + 1 \in 1..Len(s) /\ n + 1 \in 1..Len(st) /\ (n + 1) - 1 = n /\ n <= Len(s)
    BY <1>4 DEF st
  <2>2. st[n + 1] = s[n + 1]
    BY <1>4, <2>1 DEF st
  <2>3. f[n + 1] = step[<<f[n], s[n + 1]>>] /\ h[n + 1] = step[<<h[n], st[n + 1]>>]
    BY <1>6, <2>1 DEF Steps
  <2>4. h[n] = f[n]
    BY <1>8, <2>1
  <2>5. QED
    BY <2>2, <2>3, <2>4
<1>9. Nat \subseteq good
  <2> HIDE DEF good
  <2>1. QED BY <1>7, <1>8, SetInduction
<1>10. 0 \in fine
  BY <1>1, <1>4, <1>6, <1>9 DEF Steps
<1>11. ASSUME NEW n \in Nat, n \in fine PROVE n + 1 \in fine
  <2> SUFFICES ASSUME n + 1 <= Len(t) PROVE h[Len(s) + (n + 1)] = g[n + 1]
    OBVIOUS
  <2> DEFINE m == Len(s) + (n + 1)
  <2>1. n + 1 \in 1..Len(t) /\ m \in 1..Len(st) /\ (n + 1) - 1 = n /\ n <= Len(t) /\ m - 1 = Len(s) + n
    BY <1>4 DEF st
  <2>2. st[m] = t[n + 1]
    BY <1>4, <2>1 DEF st
  <2> HIDE DEF m
  <2>3. h[m] = step[<<h[m - 1], st[m]>>] /\ h[m - 1] = g[n] /\ g[n + 1] = step[<<g[n], t[n + 1]>>]
    BY <1>6, <1>11, <2>1 DEF Steps
  <2>4. h[m] = g[n + 1]
    BY <2>2, <2>3
  <2>5. QED
    BY <2>4 DEF m
<1>12. Nat \subseteq fine
  <2> HIDE DEF fine
  <2>1. QED BY <1>10, <1>11, SetInduction
<1>13. h[Len(st)] = g[Len(t)]
  BY <1>4, <1>12 DEF st
<1>14. QED
  BY <1>3, <1>5, <1>13 DEF mid, st

-----------------------------------------------------------------------------
(* The data: what the operands and the values of a key are. *)

\* What an application merges into a key, and what RocksDB may hold of it as
\* an operand.
Merges(k) == IF Holds[k] = "list" THEN MergeTexts ELSE MergeSets

Operands(k) == IF Holds[k] = "list" THEN MergeTexts ELSE MergeSets \cup Sets

StoredValues == {None} \cup {v \in Seq(Tokens) : v # <<>>}

\* Everything in a text.
Letters == Elements \cup {Header}

LEMMA TokenFacts ==
  /\ Texts \subseteq Tokens /\ Sets \subseteq Tokens
  /\ MergeTexts \subseteq Tokens /\ MergeSets \subseteq Tokens
  /\ \A t \in Texts : t.of = "String" /\ t.items \in Seq(Letters)
  /\ \A t \in Sets : t.of = "SimpleSet" /\ t \notin MergeSets
  /\ \A t \in MergeTexts : t.of = "MergeValue<String>" /\ t.str \in Elements
  /\ \A t \in MergeSets : t.of = "MergeValue<SimpleSet>" /\ t.set \subseteq Elements
BY DEF Tokens, Texts, Sets, MergeTexts, MergeSets, Letters

LEMMA OperandFacts ==
  ASSUME NEW k \in Keys
  PROVE  /\ Merges(k) \subseteq Operands(k) /\ Operands(k) \subseteq Tokens
         /\ Holds[k] = "list" \/ Holds[k] = "set"
BY TokenFacts, HandlerAssumption DEF Merges, Operands

LEMMA ContentsTyped ==
  ASSUME NEW value \in StoredValues
  PROVE  Contents(value) \in Seq(Tokens) /\ (value # None => Contents(value) = value /\ value # <<>>)
BY DEF Contents, StoredValues

\* A value of one token is stored, and is its own contents.
LEMMA OneToken ==
  ASSUME NEW t \in Tokens
  PROVE  <<t>> \in StoredValues /\ <<t>> # None
<1>1. <<t>> \in Seq(Tokens) /\ <<t>> # <<>>
  OBVIOUS
<1>2. QED
  BY <1>1, NoneAssumption DEF StoredValues

-----------------------------------------------------------------------------
(* Texts and the strings in them. *)

LEMMA TokenTextTyped ==
  ASSUME NEW t \in Tokens
  PROVE  /\ TokenText(t) \in Seq(Letters)
         /\ t \in Texts => TokenText(t) = << Header >> \o t.items
<1>1. << Header >> \in Seq(Letters) /\ << Header >> \o <<>> \in Seq(Letters)
  BY DEF Letters
<1>2. CASE t \in Texts
  <2>1. t.of = "String" /\ t.items \in Seq(Letters)
    BY <1>2, TokenFacts
  <2>2. TokenText(t) = << Header >> \o t.items
    BY <2>1 DEF TokenText
  <2>3. QED
    BY <1>1, <2>1, <2>2, ConcatProperties
<1>3. CASE t \in MergeTexts
  <2>1. t.of = "MergeValue<String>" /\ t.str \in Elements /\ t.of # "String"
    BY <1>3, TokenFacts
  <2>2. TokenText(t) = << Header >> \o << t.str >>
    BY <2>1 DEF TokenText
  <2>3. << t.str >> \in Seq(Letters)
    BY <2>1 DEF Letters
  <2>4. t \notin Texts
    BY <2>1, TokenFacts
  <2>5. QED
    BY <1>1, <2>2, <2>3, <2>4, ConcatProperties
<1>4. CASE t \in Sets \cup MergeSets
  <2>1. t.of # "String" /\ t.of # "MergeValue<String>"
    BY <1>4, TokenFacts
  <2>2. TokenText(t) = << Header >> \o <<>>
    BY <2>1 DEF TokenText
  <2>3. t \notin Texts
    BY <2>1, TokenFacts
  <2>4. QED
    BY <1>1, <2>2, <2>3
<1>5. QED
  BY <1>2, <1>3, <1>4 DEF Tokens

LEMMA AddTextTyped == \A a \in Seq(Letters), t \in Tokens : AddText[<<a, t>>] \in Seq(Letters)
<1> SUFFICES ASSUME NEW a \in Seq(Letters), NEW t \in Tokens PROVE AddText[<<a, t>>] \in Seq(Letters)
  OBVIOUS
<1>1. <<a, t>> \in Seq(Letters) \X Tokens
  OBVIOUS
<1>2. AddText[<<a, t>>] = a \o TokenText(t)
  BY <1>1 DEF AddText, Letters
<1>3. QED
  BY <1>2, TokenTextTyped, ConcatProperties

LEMMA TextTyped ==
  ASSUME NEW value \in StoredValues
  PROVE  Text(value) \in Seq(Letters)
<1>1. CASE value = None
  BY <1>1 DEF Text
<1>2. CASE value # None
  <2>1. value \in Seq(Tokens)
    BY <1>2 DEF StoredValues
  <2>2. <<>> \in Seq(Letters)
    OBVIOUS
  <2>3. Folded(AddText, <<>>, value) \in Seq(Letters)
    BY <2>1, <2>2, AddTextTyped, FoldTyped
  <2>4. QED
    BY <1>2, <2>3 DEF Text
<1>3. QED
  BY <1>1, <1>2

LEMMA KeepStrTyped ==
  /\ \A a \in Seq(Elements), e \in Letters : KeepStr[<<a, e>>] \in Seq(Elements)
  /\ \A a \in Seq(Elements) : KeepStr[<<a, Header>>] = a
<1> SUFFICES ASSUME NEW a \in Seq(Elements), NEW e \in Letters
             PROVE  /\ KeepStr[<<a, e>>] \in Seq(Elements)
                    /\ e = Header => KeepStr[<<a, e>>] = a
  BY DEF Letters
<1>1. <<a, e>> \in Seq(Elements) \X Letters
  OBVIOUS
<1>2. KeepStr[<<a, e>>] = IF e = Header THEN a ELSE Append(a, e)
  BY <1>1 DEF KeepStr, Letters
<1>3. e # Header => Append(a, e) \in Seq(Elements)
  BY DEF Letters
<1>4. QED
  BY <1>2, <1>3

\* The strings of a text are those of its first part, then those of the rest.
LEMMA StringsSplit ==
  ASSUME NEW s \in Seq(Letters), NEW t \in Seq(Letters)
  PROVE  Strings(s \o t) = Folded(KeepStr, Strings(s), t)
<1>1. \A a \in Seq(Elements), e \in Letters : KeepStr[<<a, e>>] \in Seq(Elements)
  BY KeepStrTyped
<1> DEFINE none == <<>>
<1>2. none \in Seq(Elements)
  OBVIOUS
<1> HIDE DEF none
<1>3. Folded(KeepStr, Folded(KeepStr, none, s), t) = Folded(KeepStr, none, s \o t)
  BY <1>1, <1>2, FoldConcat
<1>4. QED
  BY <1>3 DEF Strings, none

\* What is in front of a string is none.
LEMMA HeaderIsNoString ==
  ASSUME NEW t \in Seq(Letters)
  PROVE  Strings(<< Header >> \o t) = Strings(t)
<1> DEFINE front == << Header >>
<1>1. front \in Seq(Letters)
  BY DEF Letters
<1>2. Strings(front) = <<>>
  <2>1. <<>> \in Seq(Elements)
    OBVIOUS
  <2>2. KeepStr[<<<<>>, Header>>] = <<>>
    BY <2>1, KeepStrTyped
  <2>3. Folded(KeepStr, <<>>, << Header >>) = KeepStr[<<<<>>, Header>>]
    BY FoldOne
  <2>4. QED
    BY <2>2, <2>3 DEF Strings
<1> HIDE DEF front
<1>3. Strings(front \o t) = Folded(KeepStr, <<>>, t)
  BY <1>1, <1>2, StringsSplit
<1>4. QED
  BY <1>3 DEF Strings, front

LEMMA StrsTyped ==
  ASSUME NEW ops \in Seq(MergeTexts)
  PROVE  /\ Strs(ops) \in Seq(Letters) /\ Len(Strs(ops)) = Len(ops)
         /\ \A i \in 1..Len(ops) : Strs(ops)[i] = ops[i].str
<1>1. \A i \in 1..Len(ops) : ops[i].str \in Letters
  BY TokenFacts DEF Letters
<1>2. DOMAIN ops = 1..Len(ops) /\ Len(ops) \in Nat
  OBVIOUS
<1>3. QED
  BY <1>1, <1>2 DEF Strs

LEMMA StrsConcat ==
  ASSUME NEW s \in Seq(MergeTexts), NEW t \in Seq(MergeTexts)
  PROVE  Strs(s \o t) = Strs(s) \o Strs(t)
<1> DEFINE st == s \o t
           a == Strs(s)
           b == Strs(t)
<1>1. /\ st \in Seq(MergeTexts) /\ Len(st) = Len(s) + Len(t) /\ Len(s) \in Nat /\ Len(t) \in Nat
      /\ \A i \in 1..Len(s) : st[i] = s[i]
      /\ \A i \in 1..Len(t) : st[Len(s) + i] = t[i]
  OBVIOUS
<1>2. /\ a \in Seq(Letters) /\ Len(a) = Len(s) /\ b \in Seq(Letters) /\ Len(b) = Len(t)
      /\ \A i \in 1..Len(s) : a[i] = s[i].str
      /\ \A i \in 1..Len(t) : b[i] = t[i].str
  BY StrsTyped
<1> HIDE DEF st, a, b
<1>3. Strs(st) \in Seq(Letters) /\ Len(Strs(st)) = Len(st) /\ \A i \in 1..Len(st) : Strs(st)[i] = st[i].str
  BY <1>1, StrsTyped
<1>4. a \o b \in Seq(Letters) /\ Len(a \o b) = Len(st)
  BY <1>1, <1>2, ConcatProperties
<1>5. ASSUME NEW i \in 1..Len(st) PROVE Strs(st)[i] = (a \o b)[i]
  <2>1. CASE i <= Len(s)
    BY <1>1, <1>2, <1>3, <2>1
  <2>2. CASE i > Len(s)
    <3> DEFINE m == i - Len(s)
    <3>1. m \in 1..Len(t) /\ i = Len(s) + m
      BY <1>1, <2>2
    <3> HIDE DEF m
    <3>2. st[i] = t[m] /\ (a \o b)[i] = b[m]
      BY <1>1, <1>2, <3>1
    <3>3. QED
      BY <1>2, <1>3, <3>1, <3>2
  <2>3. i <= Len(s) \/ i > Len(s)
    BY <1>1
  <2>4. QED
    BY <2>1, <2>2, <2>3
<1>6. Strs(st) = a \o b
  BY <1>3, <1>4, <1>5, SeqEqual
<1>7. QED
  BY <1>6 DEF st, a, b

\* The strings a list has, some of them not merged yet.
ListOf(value, ops) == Strings(Text(value) \o Strs(ops))

\* Appending operands appends their strings.
LEMMA ListSplit ==
  ASSUME NEW value \in StoredValues, NEW s \in Seq(MergeTexts), NEW t \in Seq(MergeTexts)
  PROVE  ListOf(value, s \o t) = Folded(KeepStr, ListOf(value, s), Strs(t))
<1> DEFINE v == Text(value)
           a == Strs(s)
           b == Strs(t)
<1>1. v \in Seq(Letters) /\ a \in Seq(Letters) /\ b \in Seq(Letters)
  BY TextTyped, StrsTyped
<1>2. Strs(s \o t) = a \o b
  BY StrsConcat
<1> HIDE DEF v, a, b
<1>3. v \o a \in Seq(Letters)
  BY <1>1, ConcatProperties
<1>4. v \o (a \o b) = (v \o a) \o b
  BY <1>1
<1>5. Strings((v \o a) \o b) = Folded(KeepStr, Strings(v \o a), b)
  BY <1>1, <1>3, StringsSplit
<1>6. QED
  BY <1>2, <1>5, <1>4 DEF ListOf, v, a, b

LEMMA ListUnmerged ==
  ASSUME NEW value \in StoredValues
  PROVE  ListOf(value, <<>>) = Strings(Text(value))
<1>1. Strs(<<>>) = <<>>
  BY DEF Strs
<1>2. Text(value) \o <<>> = Text(value)
  BY TextTyped
<1>3. QED
  BY <1>1, <1>2 DEF ListOf

\* The handler of lists fails on operands of different operators, and else
\* leaves a string that has the strings of the list.
LEMMA ListMerged ==
  ASSUME NEW value \in StoredValues, NEW ops \in Seq(MergeTexts)
  PROVE  LET merged == string_append_handler(value, ops)
         IN  /\ merged # None <=> \A a, b \in ToSet(ops) : a.op = b.op
             /\ merged # None => /\ merged \in StoredValues
                                 /\ Strings(Text(merged)) = ListOf(value, ops)
<1> DEFINE items == Text(value) \o Strs(ops)
           made == [of |-> "String", items |-> items]
<1>1. items \in Seq(Letters)
  BY TextTyped, StrsTyped, ConcatProperties
<1> HIDE DEF items
<1>2. made \in Texts /\ made.items = items
  BY <1>1 DEF Texts, Letters
<1> HIDE DEF made
<1>3. <<made>> \in StoredValues /\ <<made>> # None
  BY <1>2, OneToken, TokenFacts
<1>4. ToSet(ops) \subseteq MergeTexts /\ ops # None
  BY NoneAssumption DEF ToSet
<1>5. string_append_handler(value, ops) = IF \A a, b \in ToSet(ops) : a.op = b.op THEN <<made>> ELSE None
  BY <1>4 DEF string_append_handler, validate_mergevalues_associativity, made, items
<1>6. Text(<<made>>) = << Header >> \o items
  <2>1. Text(<<made>>) = AddText[<<<<>>, made>>]
    BY <1>3, FoldOne DEF Text
  <2>2. <<>> \in Seq(Letters) /\ made \in Tokens
    BY <1>2, TokenFacts
  <2>3. AddText[<<<<>>, made>>] = <<>> \o TokenText(made)
    <3> DEFINE none == <<>>
    <3>1. <<none, made>> \in Seq(Letters) \X Tokens
      BY <2>2
    <3> HIDE DEF none
    <3>2. AddText[<<none, made>>] = none \o TokenText(made)
      BY <3>1 DEF AddText, Letters
    <3>3. QED
      BY <3>2 DEF none
  <2>4. TokenText(made) = << Header >> \o items /\ TokenText(made) \in Seq(Letters)
    BY <1>2, TokenTextTyped, TokenFacts
  <2>5. <<>> \o TokenText(made) = TokenText(made)
    BY <2>4
  <2>6. QED
    BY <2>1, <2>3, <2>4, <2>5
<1>7. Strings(Text(<<made>>)) = ListOf(value, ops)
  BY <1>1, <1>6, HeaderIsNoString DEF ListOf, items
<1>8. QED
  BY <1>3, <1>5, <1>7

-----------------------------------------------------------------------------
(* Sets and their members. *)

\* The members of a set, some of them not merged yet.
SetOf(value, ops) == Members(value) \cup Unions(ops)

\* What the operands that partial merges took may have added.
Taken(combs) == UNION {t.set : t \in combs}

\* The tokens of two sequences, one after the other.
LEMMA PartsTokens ==
  ASSUME NEW S, NEW s \in Seq(S), NEW t \in Seq(S)
  PROVE  ToSet(s \o t) = ToSet(s) \cup ToSet(t)
<1>1. /\ DOMAIN s = 1..Len(s) /\ DOMAIN t = 1..Len(t) /\ DOMAIN (s \o t) = 1..(Len(s) + Len(t))
      /\ Len(s) \in Nat /\ Len(t) \in Nat
      /\ \A i \in 1..Len(s) : (s \o t)[i] = s[i]
      /\ \A i \in 1..Len(t) : (s \o t)[Len(s) + i] = t[i]
  OBVIOUS
<1>2. ASSUME NEW i \in DOMAIN (s \o t) PROVE (s \o t)[i] \in ToSet(s) \cup ToSet(t)
  <2>1. CASE i <= Len(s)
    BY <1>1, <2>1 DEF ToSet
  <2>2. CASE i > Len(s)
    <3> DEFINE m == i - Len(s)
    <3>1. m \in 1..Len(t) /\ i = Len(s) + m
      BY <1>1, <2>2
    <3> HIDE DEF m
    <3>2. (s \o t)[i] = t[m]
      BY <1>1, <3>1
    <3>3. QED
      BY <1>1, <3>1, <3>2 DEF ToSet
  <2>3. i <= Len(s) \/ i > Len(s)
    BY <1>1
  <2>4. QED
    BY <2>1, <2>2, <2>3
<1>3. \A i \in DOMAIN s : i \in DOMAIN (s \o t)
  BY <1>1
<1>4. \A i \in DOMAIN t : Len(s) + i \in DOMAIN (s \o t)
  BY <1>1
<1>5. QED
  BY <1>1, <1>2, <1>3, <1>4 DEF ToSet

LEMMA UnionsConcat ==
  ASSUME NEW s \in Seq(Tokens), NEW t \in Seq(Tokens)
  PROVE  Unions(s \o t) = Unions(s) \cup Unions(t)
BY PartsTokens DEF Unions

LEMMA SetSplit ==
  ASSUME NEW value, NEW s \in Seq(Tokens), NEW t \in Seq(Tokens)
  PROVE  SetOf(value, s \o t) = SetOf(value, s) \cup Unions(t)
BY UnionsConcat DEF SetOf

LEMMA SetUnmerged ==
  ASSUME NEW value
  PROVE  SetOf(value, <<>>) = Members(value)
<1>1. ToSet(<<>>) = {}
  BY DEF ToSet
<1>2. QED
  BY <1>1 DEF SetOf, Unions

\* The full handler of sets leaves a SimpleSet of all of them.
LEMMA SetMerged ==
  ASSUME NEW value \in StoredValues, NEW ops \in Seq(Tokens)
  PROVE  LET merged == set_union_full_handler(value, ops)
         IN  merged \in StoredValues /\ merged # None /\ Members(merged) = SetOf(value, ops)
<1> DEFINE made == [of |-> "SimpleSet", set |-> SetOf(value, ops)]
<1>1. Unions(ops) \subseteq Elements
  BY TokenFacts DEF Unions
<1>2. Members(value) \subseteq Elements
  BY DEF Members, Sets
<1>3. made \in Sets /\ made.set = SetOf(value, ops)
  BY <1>1, <1>2 DEF SetOf, Sets
<1>4. set_union_full_handler(value, ops) = <<made>>
  BY DEF set_union_full_handler, SetOf
<1> HIDE DEF made
<1>5. <<made>> \in StoredValues /\ <<made>> # None
  BY <1>3, OneToken, TokenFacts
<1>6. Members(<<made>>) = made.set
  BY <1>3, <1>5 DEF Members
<1>7. QED
  BY <1>3, <1>4, <1>5, <1>6

\* The partial handler takes operands alone, and what it leaves is none: the
\* full handler will pass over it.
LEMMA SetCombined ==
  ASSUME NEW ops \in Seq(MergeSets \cup Sets), NEW one, one = set_union_partial_handler(ops), one # None
  PROVE  /\ one \in Sets /\ Unions(<<one>>) = {}
         /\ ToSet(ops) \subseteq MergeSets /\ Unions(ops) \subseteq Taken(ToSet(ops))
<1>1. /\ ToSet(ops) \subseteq MergeSets
      /\ one = [of |-> "SimpleSet", set |-> UNION {t.set : t \in ToSet(ops)}]
  BY DEF set_union_partial_handler, validate_mergevalues_associativity
<1>2. one \in Sets
  BY <1>1, TokenFacts DEF Sets
<1>3. ToSet(<<one>>) = {one} /\ one \notin MergeSets
  BY <1>2, TokenFacts DEF ToSet
<1>4. Unions(<<one>>) = {}
  BY <1>3 DEF Unions
<1>5. QED
  BY <1>1, <1>2, <1>4 DEF Unions, Taken

-----------------------------------------------------------------------------
(* What a key holds, and what was written to it: merging one is merging the *)
(* other, whichever handler its route gives it.                             *)

Merged(k, route, value, ops) ==
  IF route = None THEN default_full_merge(value, ops)
  ELSE IF Holds[k] = "list" THEN string_append_handler(value, ops)
  ELSE set_union_full_handler(value, ops)

\* combs are the operands that partial merges took.
Alike(k, route, value, ops, base, all, combs) ==
  /\ all # <<>> => ops # <<>> \/ value # None
  /\ route = None /\ combs = {} => Contents(value) \o ops = Contents(base) \o all
  /\ route # None /\ Holds[k] = "list" => ListOf(value, ops) = ListOf(base, all)
  /\ route # None /\ Holds[k] = "set" =>
       /\ SetOf(value, ops) \subseteq SetOf(base, all)
       /\ SetOf(base, all) \ Taken(combs) \subseteq SetOf(value, ops)

LEMMA RouterIs ==
  ASSUME NEW k \in Keys, NEW value, NEW ops
  PROVE  router_full_merge_fn(k, value, ops) = Merged(k, Route(full, k), value, ops)
<1>1. Route(full, k) # None => HandlerOf[Route(full, k)] = Holds[k]
  BY RouteFacts
<1>2. Holds[k] = "list" \/ Holds[k] = "set"
  BY OperandFacts
<1>3. CASE Route(full, k) = None
  BY <1>3 DEF router_full_merge_fn, Merged
<1>4. CASE Route(full, k) # None /\ Holds[k] = "list"
  BY <1>1, <1>4 DEF router_full_merge_fn, Merged
<1>5. CASE Route(full, k) # None /\ Holds[k] = "set"
  BY <1>1, <1>5 DEF router_full_merge_fn, Merged
<1>6. QED
  BY <1>2, <1>3, <1>4, <1>5

\* Without a route the contents are one after the other.
LEMMA DefaultMerged ==
  ASSUME NEW value \in StoredValues, NEW ops \in Seq(Tokens), ops # <<>>
  PROVE  LET merged == default_full_merge(value, ops)
         IN  /\ merged = Contents(value) \o ops /\ Contents(merged) = merged
             /\ merged \in StoredValues /\ merged # None
<1> DEFINE made == Contents(value) \o ops
<1>1. default_full_merge(value, ops) = made
  BY DEF default_full_merge
<1>2. made \in Seq(Tokens) /\ made # <<>>
  BY ContentsTyped, ConcatProperties, ConcatEqualIffEmpty
<1> HIDE DEF made
<1>3. made \in StoredValues /\ made # None /\ Contents(made) = made
  BY <1>2, NoneAssumption DEF StoredValues, Contents
<1>4. QED
  BY <1>1, <1>3 DEF made

\* A sequence of operands is one of tokens, and of the kind of its key.
LEMMA OperandsTyped ==
  ASSUME NEW k \in Keys, NEW ops \in Seq(Operands(k))
  PROVE  /\ ops \in Seq(Tokens)
         /\ Holds[k] = "list" => ops \in Seq(MergeTexts)
         /\ Holds[k] = "set" => ops \in Seq(MergeSets \cup Sets)
<1>1. Operands(k) \subseteq Tokens
  BY OperandFacts
<1>2. ops \in Seq(Tokens)
  BY <1>1
<1>3. QED
  BY <1>2 DEF Operands

\* What a merge leaves is a value again.
LEMMA MergedTyped ==
  ASSUME NEW k \in Keys, NEW route, NEW value \in StoredValues, NEW ops \in Seq(Operands(k)), ops # <<>>
  PROVE  Merged(k, route, value, ops) \in StoredValues
<1>1. /\ ops \in Seq(Tokens) /\ (Holds[k] = "list" => ops \in Seq(MergeTexts))
      /\ Holds[k] = "list" \/ Holds[k] = "set"
  BY OperandsTyped, OperandFacts
<1>2. CASE route = None
  BY <1>1, <1>2, DefaultMerged DEF Merged
<1>3. CASE route # None /\ Holds[k] = "list"
  <2>1. string_append_handler(value, ops) \in StoredValues
    <3>1. CASE string_append_handler(value, ops) = None
      BY <3>1 DEF StoredValues
    <3>2. CASE string_append_handler(value, ops) # None
      BY <1>1, <1>3, <3>2, ListMerged
    <3>3. QED
      BY <3>1, <3>2
  <2>2. QED
    BY <1>3, <2>1 DEF Merged
<1>4. CASE route # None /\ Holds[k] = "set"
  <2>1. Merged(k, route, value, ops) = set_union_full_handler(value, ops)
    BY <1>4 DEF Merged
  <2>2. QED
    BY <1>1, <2>1, SetMerged
<1>5. QED
  BY <1>1, <1>2, <1>3, <1>4

LEMMA AlikeAtFirst ==
  ASSUME NEW k, NEW route, NEW value
  PROVE  Alike(k, route, value, <<>>, value, <<>>, {})
BY DEF Alike

LEMMA Associated ==
  ASSUME NEW s \in Seq(Tokens), NEW t \in Seq(Tokens), NEW u \in Seq(Tokens)
  PROVE  s \o (t \o u) = (s \o t) \o u
OBVIOUS

\* One more operand is one more operand on either side.
LEMMA AlikeAppended ==
  ASSUME NEW k \in Keys, NEW route, NEW value \in StoredValues, NEW ops \in Seq(Operands(k)),
         NEW base \in StoredValues, NEW all \in Seq(Operands(k)), NEW x \in Operands(k), NEW combs,
         Alike(k, route, value, ops, base, all, combs)
  PROVE  Alike(k, route, value, Append(ops, x), base, Append(all, x), combs)
<1> DEFINE more == <<x>>
<1>1. Append(ops, x) = ops \o more /\ Append(all, x) = all \o more /\ more \in Seq(Operands(k))
  BY AppendIsConcat
<1>2. Append(ops, x) # <<>>
  OBVIOUS
<1> HIDE DEF more
<1>3. /\ ops \in Seq(Tokens) /\ all \in Seq(Tokens) /\ more \in Seq(Tokens)
      /\ Holds[k] = "list" => /\ ops \in Seq(MergeTexts) /\ all \in Seq(MergeTexts)
                              /\ more \in Seq(MergeTexts)
  BY <1>1, OperandsTyped
<1>4. route = None /\ combs = {} => Contents(value) \o (ops \o more) = Contents(base) \o (all \o more)
  <2> DEFINE v == Contents(value)
             b == Contents(base)
  <2>1. v \in Seq(Tokens) /\ b \in Seq(Tokens)
    BY ContentsTyped
  <2>2. route = None /\ combs = {} => v \o ops = b \o all
    BY DEF Alike
  <2> HIDE DEF v, b
  <2>3. ops \in Seq(Tokens) /\ all \in Seq(Tokens) /\ more \in Seq(Tokens)
    BY <1>3
  <2>4. v \o (ops \o more) = (v \o ops) \o more
    BY <2>1, <2>3, Associated
  <2>5. b \o (all \o more) = (b \o all) \o more
    BY <2>1, <2>3, Associated
  <2>6. QED
    BY <2>2, <2>4, <2>5 DEF v, b
<1>5. route # None /\ Holds[k] = "list" => ListOf(value, ops \o more) = ListOf(base, all \o more)
  <2> SUFFICES ASSUME route # None, Holds[k] = "list"
               PROVE  ListOf(value, ops \o more) = ListOf(base, all \o more)
    OBVIOUS
  <2>1. ListOf(value, ops) = ListOf(base, all)
    BY DEF Alike
  <2>2. /\ ListOf(value, ops \o more) = Folded(KeepStr, ListOf(value, ops), Strs(more))
        /\ ListOf(base, all \o more) = Folded(KeepStr, ListOf(base, all), Strs(more))
    BY <1>3, ListSplit
  <2>3. QED
    BY <2>1, <2>2
<1>6. route # None /\ Holds[k] = "set" =>
        /\ SetOf(value, ops \o more) \subseteq SetOf(base, all \o more)
        /\ SetOf(base, all \o more) \ Taken(combs) \subseteq SetOf(value, ops \o more)
  <2>1. /\ SetOf(value, ops \o more) = SetOf(value, ops) \cup Unions(more)
        /\ SetOf(base, all \o more) = SetOf(base, all) \cup Unions(more)
    BY <1>3, SetSplit
  <2>2. QED
    BY <2>1 DEF Alike
<1>7. QED
  BY <1>1, <1>2, <1>4, <1>5, <1>6 DEF Alike

\* What compaction does to a list of operands when it combines some of them:
\* the ones before, those, and the ones behind.
Before(ops, i) == SubSeq(ops, 1, i - 1)

Between(ops, i, j) == SubSeq(ops, i, j)

Behind(ops, j) == SubSeq(ops, j + 1, Len(ops))

LEMMA SplitOps ==
  ASSUME NEW k \in Keys, NEW ops \in Seq(Operands(k)), NEW i \in Nat \ {0}, NEW j \in Nat, i < j, j <= Len(ops)
  PROVE  /\ Before(ops, i) \in Seq(Operands(k)) /\ Between(ops, i, j) \in Seq(Operands(k))
         /\ Behind(ops, j) \in Seq(Operands(k)) /\ Between(ops, i, j) # <<>>
         /\ ops = (Before(ops, i) \o Between(ops, i, j)) \o Behind(ops, j)
         /\ Len(Before(ops, i)) = i - 1 /\ Len(Behind(ops, j)) = Len(ops) - j
<1> DEFINE pre == SubSeq(ops, 1, i - 1)
           mid == SubSeq(ops, i, j)
           post == SubSeq(ops, j + 1, Len(ops))
<1>1. /\ pre \in Seq(Operands(k)) /\ mid \in Seq(Operands(k)) /\ post \in Seq(Operands(k))
      /\ Len(pre) = i - 1 /\ Len(mid) = j - i + 1 /\ Len(post) = Len(ops) - j
  OBVIOUS
<1>2. pre \o mid = SubSeq(ops, 1, j)
  <2>1. 1 \in 1..Len(ops) + 1 /\ i - 1 \in (1 - 1)..Len(ops) /\ j \in (i - 1)..Len(ops) /\ (i - 1) + 1 = i
    OBVIOUS
  <2>2. SubSeq(ops, 1, i - 1) \o SubSeq(ops, (i - 1) + 1, j) = SubSeq(ops, 1, j)
    BY <2>1, ConcatAdjacentSubSeq
  <2>3. QED
    BY <2>1, <2>2
<1>3. SubSeq(ops, 1, j) \o post = ops
  <2>1. 1 \in 1..Len(ops) + 1 /\ j \in (1 - 1)..Len(ops) /\ Len(ops) \in j..Len(ops)
    OBVIOUS
  <2>2. SubSeq(ops, 1, j) \o SubSeq(ops, j + 1, Len(ops)) = SubSeq(ops, 1, Len(ops))
    BY <2>1, ConcatAdjacentSubSeq
  <2>3. QED
    BY <2>2, SubSeqFull
<1> HIDE DEF pre, mid, post
<1>4. mid # <<>>
  <2>1. Len(mid) # 0
    BY <1>1
  <2>2. QED
    BY <2>1
<1>5. QED
  BY <1>1, <1>2, <1>3, <1>4 DEF pre, mid, post, Before, Between, Behind

LEMMA Rejoined ==
  ASSUME NEW k \in Keys, NEW pre \in Seq(Operands(k)), NEW one \in Operands(k), NEW post \in Seq(Operands(k))
  PROVE  /\ Append(pre, one) \o post = (pre \o <<one>>) \o post
         /\ Append(pre, one) \o post \in Seq(Operands(k)) /\ Append(pre, one) \o post # <<>>
         /\ Len(Append(pre, one) \o post) = Len(pre) + 1 + Len(post)
<1> DEFINE front == Append(pre, one)
<1>1. front \in Seq(Operands(k)) /\ Len(front) = Len(pre) + 1 /\ front = pre \o <<one>>
  BY AppendProperties, AppendIsConcat
<1> HIDE DEF front
<1>2. front \o post \in Seq(Operands(k)) /\ Len(front \o post) = Len(front) + Len(post)
  BY <1>1, ConcatProperties
<1>3. front \o post # <<>>
  BY <1>1, <1>2
<1>4. front \o post = (pre \o <<one>>) \o post
  BY <1>1
<1>5. QED
  BY <1>1, <1>2, <1>3, <1>4 DEF front

\* Combining operands of a set takes away no more than they might have added.
LEMMA AlikeCombined ==
  ASSUME NEW k \in Keys, Holds[k] = "set", NEW route,
         NEW value \in StoredValues, NEW ops \in Seq(Operands(k)),
         NEW base, NEW all, NEW combs, Alike(k, route, value, ops, base, all, combs),
         NEW i \in Nat \ {0}, NEW j \in Nat, i < j, j <= Len(ops),
         NEW one, one = set_union_partial_handler(Between(ops, i, j)), one # None
  PROVE  Alike(k, route, value, Append(Before(ops, i), one) \o Behind(ops, j), base, all,
               combs \cup ToSet(Between(ops, i, j)))
<1> DEFINE pre == Before(ops, i)
           mid == Between(ops, i, j)
           post == Behind(ops, j)
           new == Append(pre, one) \o post
<1>1. /\ pre \in Seq(Operands(k)) /\ mid \in Seq(Operands(k)) /\ post \in Seq(Operands(k)) /\ mid # <<>>
      /\ ops = (pre \o mid) \o post
  BY SplitOps
<1>2. one \in Sets /\ Unions(<<one>>) = {} /\ Unions(mid) \subseteq Taken(ToSet(mid))
  <2>1. mid \in Seq(MergeSets \cup Sets)
    BY <1>1, OperandsTyped
  <2>2. QED
    BY <2>1, SetCombined
<1>3. one \in Operands(k) /\ <<one>> \in Seq(Operands(k))
  BY <1>2 DEF Operands
<1>4. new = (pre \o <<one>>) \o post /\ new # <<>>
  <2> HIDE DEF pre, post
  <2>1. QED
    BY <1>1, <1>3, Rejoined
<1> DEFINE single == <<one>>
<1> HIDE DEF pre, mid, post, new, single
<1>5. /\ pre \in Seq(Tokens) /\ mid \in Seq(Tokens) /\ post \in Seq(Tokens) /\ single \in Seq(Tokens)
      /\ pre \o single \in Seq(Tokens) /\ pre \o mid \in Seq(Tokens)
  <2>1. pre \in Seq(Tokens) /\ mid \in Seq(Tokens) /\ post \in Seq(Tokens) /\ single \in Seq(Tokens)
    BY <1>1, <1>3, OperandsTyped DEF single
  <2>2. QED
    BY <2>1, ConcatProperties
<1>6. SetOf(value, new) = SetOf(value, pre) \cup Unions(post)
  <2>1. SetOf(value, pre \o single) = SetOf(value, pre) \cup Unions(single)
    BY <1>5, SetSplit
  <2> DEFINE front == pre \o single
  <2>2. SetOf(value, front \o post) = SetOf(value, front) \cup Unions(post)
    <3>1. front \in Seq(Tokens)
      BY <1>5
    <3> HIDE DEF front
    <3>2. QED
      BY <1>5, <3>1, SetSplit
  <2>3. QED
    BY <1>2, <1>4, <2>1, <2>2 DEF single
<1>7. SetOf(value, ops) = (SetOf(value, pre) \cup Unions(mid)) \cup Unions(post)
  <2>1. SetOf(value, pre \o mid) = SetOf(value, pre) \cup Unions(mid)
    BY <1>5, SetSplit
  <2> DEFINE front == pre \o mid
  <2>2. SetOf(value, front \o post) = SetOf(value, front) \cup Unions(post)
    <3>1. front \in Seq(Tokens)
      BY <1>5
    <3> HIDE DEF front
    <3>2. QED
      BY <1>5, <3>1, SetSplit
  <2>3. QED
    BY <1>1, <2>1, <2>2
<1>8. Taken(combs \cup ToSet(mid)) = Taken(combs) \cup Taken(ToSet(mid))
  BY DEF Taken
<1>9. ToSet(mid) # {}
  <2>1. 1 \in DOMAIN mid
    BY <1>1
  <2>2. QED
    BY <2>1 DEF ToSet
<1>10. route # None => /\ SetOf(value, new) \subseteq SetOf(base, all)
                       /\ SetOf(base, all) \ Taken(combs \cup ToSet(mid)) \subseteq SetOf(value, new)
  <2>1. route # None => /\ SetOf(value, ops) \subseteq SetOf(base, all)
                        /\ SetOf(base, all) \ Taken(combs) \subseteq SetOf(value, ops)
    BY DEF Alike
  <2>2. QED
    BY <1>2, <1>6, <1>7, <1>8, <2>1
<1>11. QED
  BY <1>4, <1>9, <1>10 DEF Alike, new, pre, mid, post

\* Applying the first operands to the value takes away nothing.
LEMMA AlikeMerged ==
  ASSUME NEW k \in Keys, NEW route, NEW value \in StoredValues, NEW ops \in Seq(Operands(k)),
         NEW base, NEW all, NEW combs, Alike(k, route, value, ops, base, all, combs),
         NEW i \in 1..Len(ops), Merged(k, route, value, SubSeq(ops, 1, i)) # None
  PROVE  Alike(k, route, Merged(k, route, value, SubSeq(ops, 1, i)), SubSeq(ops, i + 1, Len(ops)),
               base, all, combs)
<1> DEFINE pre == SubSeq(ops, 1, i)
           post == SubSeq(ops, i + 1, Len(ops))
           merged == Merged(k, route, value, pre)
<1>1. pre \in Seq(Operands(k)) /\ post \in Seq(Operands(k)) /\ pre # <<>> /\ ops = pre \o post
  <2>1. pre \in Seq(Operands(k)) /\ post \in Seq(Operands(k)) /\ Len(pre) = i
    OBVIOUS
  <2>2. 1 \in 1..Len(ops) + 1 /\ i \in (1 - 1)..Len(ops) /\ Len(ops) \in i..Len(ops)
    OBVIOUS
  <2>3. pre \o post = SubSeq(ops, 1, Len(ops))
    BY <2>2, ConcatAdjacentSubSeq
  <2>4. SubSeq(ops, 1, Len(ops)) = ops
    BY SubSeqFull
  <2> HIDE DEF pre, post
  <2>5. pre # <<>>
    BY <2>1
  <2>6. QED
    BY <2>1, <2>3, <2>4, <2>5
<1>2. merged # None
  OBVIOUS
<1> HIDE DEF pre, post
<1>3. /\ pre \in Seq(Tokens) /\ post \in Seq(Tokens)
      /\ Holds[k] = "list" => pre \in Seq(MergeTexts) /\ post \in Seq(MergeTexts)
      /\ Holds[k] = "list" \/ Holds[k] = "set"
  BY <1>1, OperandsTyped, OperandFacts
<1>4. merged \in StoredValues
  BY <1>1, MergedTyped
<1>5. CASE route = None
  <2>1. merged = Contents(value) \o pre /\ Contents(merged) = merged
    BY <1>1, <1>3, <1>5, DefaultMerged DEF Merged
  <2>2. Contents(merged) \o post = Contents(value) \o ops
    <3> DEFINE v == Contents(value)
    <3>1. v \in Seq(Tokens)
      BY ContentsTyped
    <3> HIDE DEF v, merged
    <3>2. (v \o pre) \o post = v \o (pre \o post)
      BY <1>3, <3>1
    <3>3. QED
      BY <1>1, <2>1, <3>2 DEF v
  <2> HIDE DEF merged
  <2>3. Alike(k, route, merged, post, base, all, combs)
    BY <1>2, <1>5, <2>2 DEF Alike
  <2>4. QED
    BY <2>3 DEF merged, pre, post
<1>6. CASE route # None /\ Holds[k] = "list"
  <2>1. merged = string_append_handler(value, pre)
    BY <1>6 DEF Merged
  <2>2. Strings(Text(merged)) = ListOf(value, pre)
    BY <1>2, <1>3, <1>6, <2>1, ListMerged
  <2> HIDE DEF merged
  <2>3. ListOf(merged, post) = ListOf(value, ops)
    <3>1. ListOf(value, pre \o post) = Folded(KeepStr, ListOf(value, pre), Strs(post))
      BY <1>3, <1>6, ListSplit
    <3>2. ListOf(merged, post) = Folded(KeepStr, Strings(Text(merged)), Strs(post))
      <4>1. Text(merged) \in Seq(Letters) /\ Strs(post) \in Seq(Letters)
        BY <1>3, <1>4, <1>6, TextTyped, StrsTyped
      <4>2. QED
        BY <4>1, StringsSplit DEF ListOf
    <3>3. QED
      BY <1>1, <2>2, <3>1, <3>2
  <2>4. Alike(k, route, merged, post, base, all, combs)
    BY <1>2, <1>6, <2>3 DEF Alike
  <2>5. QED
    BY <2>4 DEF merged, pre, post
<1>7. CASE route # None /\ Holds[k] = "set"
  <2>1. merged = set_union_full_handler(value, pre)
    BY <1>7 DEF Merged
  <2>2. Members(merged) = SetOf(value, pre)
    BY <1>3, <2>1, SetMerged
  <2> HIDE DEF merged
  <2>3. SetOf(merged, post) = SetOf(value, ops)
    <3>1. SetOf(value, pre \o post) = SetOf(value, pre) \cup Unions(post)
      BY <1>3, SetSplit
    <3>2. QED
      BY <1>1, <2>2, <3>1 DEF SetOf
  <2>4. Alike(k, route, merged, post, base, all, combs)
    BY <1>2, <1>7, <2>3 DEF Alike
  <2>5. QED
    BY <2>4 DEF merged, pre, post
<1>8. QED
  BY <1>3, <1>5, <1>6, <1>7

\* What a get finds: for a key without a route, of a list, of a set.
LEMMA AlikeRead ==
  ASSUME NEW k \in Keys, NEW route, NEW value \in StoredValues, NEW ops \in Seq(Operands(k)),
         NEW base \in StoredValues, NEW all \in Seq(Operands(k)), all # <<>>, NEW combs,
         Holds[k] = "list" => ToSet(ops) \subseteq ToSet(all),
         Alike(k, route, value, ops, base, all, combs)
  PROVE  LET get == IF ops = <<>> THEN value ELSE Merged(k, route, value, ops)
             ref == Merged(k, route, base, all)
         IN  /\ route = None /\ combs = {} => get = ref
             /\ route # None /\ Holds[k] = "list" /\ ref # None =>
                  get # None /\ Strings(Text(get)) = Strings(Text(ref))
             /\ route # None /\ Holds[k] = "set" =>
                  /\ Members(ref) \ Taken(combs) \subseteq Members(get)
                  /\ Members(get) \subseteq Members(ref)
<1> DEFINE get == IF ops = <<>> THEN value ELSE Merged(k, route, value, ops)
           ref == Merged(k, route, base, all)
<1>1. /\ ops \in Seq(Tokens) /\ all \in Seq(Tokens)
      /\ Holds[k] = "list" => ops \in Seq(MergeTexts) /\ all \in Seq(MergeTexts)
  BY OperandsTyped
<1>2. ops = <<>> => value # None
  BY DEF Alike
<1>3. ASSUME route = None, combs = {} PROVE get = ref
  <2>1. Contents(value) \o ops = Contents(base) \o all
    BY <1>3 DEF Alike
  <2>2. ref = Contents(base) \o all
    BY <1>1, <1>3, DefaultMerged DEF Merged
  <2>3. CASE ops = <<>>
    <3>1. value = Contents(value) /\ Contents(value) \in Seq(Tokens)
      BY <1>2, <2>3, ContentsTyped
    <3>2. value \o <<>> = value
      BY <3>1
    <3>3. QED
      BY <2>1, <2>2, <2>3, <3>1, <3>2
  <2>4. CASE ops # <<>>
    BY <1>1, <1>3, <2>1, <2>2, <2>4, DefaultMerged DEF Merged
  <2>5. QED
    BY <2>3, <2>4
<1>4. ASSUME route # None, Holds[k] = "list", ref # None
      PROVE  get # None /\ Strings(Text(get)) = Strings(Text(ref))
  <2>1. ref = string_append_handler(base, all)
    BY <1>4 DEF Merged
  <2>2. (\A a, b \in ToSet(all) : a.op = b.op) /\ Strings(Text(ref)) = ListOf(base, all)
    BY <1>1, <1>4, <2>1, ListMerged
  <2>3. ListOf(value, ops) = ListOf(base, all)
    BY <1>4 DEF Alike
  <2>4. CASE ops = <<>>
    BY <1>2, <2>2, <2>3, <2>4, ListUnmerged
  <2>5. CASE ops # <<>>
    <3>1. get = string_append_handler(value, ops)
      BY <1>4, <2>5 DEF Merged
    <3>2. \A a, b \in ToSet(ops) : a.op = b.op
      BY <1>4, <2>2
    <3>3. QED
      BY <1>1, <1>4, <2>2, <2>3, <3>1, <3>2, ListMerged
  <2>6. QED
    BY <2>4, <2>5
<1>5. ASSUME route # None, Holds[k] = "set"
      PROVE  /\ Members(ref) \ Taken(combs) \subseteq Members(get)
             /\ Members(get) \subseteq Members(ref)
  <2>1. Members(ref) = SetOf(base, all)
    <3>1. ref = set_union_full_handler(base, all)
      BY <1>5 DEF Merged
    <3>2. QED
      BY <1>1, <3>1, SetMerged
  <2>2. Members(get) = SetOf(value, ops)
    <3>1. CASE ops = <<>>
      BY <3>1, SetUnmerged
    <3>2. CASE ops # <<>>
      <4>1. get = set_union_full_handler(value, ops)
        BY <1>5, <3>2 DEF Merged
      <4>2. QED
        BY <1>1, <4>1, SetMerged
    <3>3. QED
      BY <3>1, <3>2
  <2>3. QED
    BY <1>5, <2>1, <2>2 DEF Alike
<1>6. QED
  BY <1>3, <1>4, <1>5

-----------------------------------------------------------------------------
(* Keys and their operands, through every step. *)

\* What a key has: a value, operands of its kind, those that were merged, and
\* those of them that partial merges took.
Typed(k, s, o, b, w, c) ==
  /\ s \in StoredValues /\ b \in StoredValues
  /\ o \in Seq(Operands(k)) /\ w \in Seq(Operands(k))
  /\ ToSet(o) \cap Merges(k) \subseteq ToSet(w) /\ c \subseteq ToSet(w)
  /\ Len(o) <= Len(w)
  /\ w = <<>> => s = b

DataTyped ==
  /\ stored \in [Keys -> StoredValues]
  /\ operands \in [Keys -> Seq(Tokens)]
  /\ written \in [Keys -> [base : StoredValues, ops : Seq(Tokens)]]
  /\ combined \in [Keys -> SUBSET Tokens]
  /\ rerouted \in [Keys -> BOOLEAN]
  /\ \A k \in Keys : Typed(k, stored[k], operands[k], written[k].base, written[k].ops, combined[k])

\* What RocksDB holds of a key is as good as what was written, as long as the
\* key kept its route.
KeyAlike(k) ==
  Alike(k, Route(full, k), stored[k], operands[k], written[k].base, written[k].ops, combined[k])

DataAlike == \A k \in Keys : rerouted[k] = FALSE => KeyAlike(k)

DataInv ==
  /\ IInv /\ DataTyped /\ DataAlike
  /\ name \in BOOLEAN /\ opened \in BOOLEAN /\ writes \in 0..MaxWrites

LEMMA KeyTyped ==
  ASSUME DataTyped, NEW k \in Keys
  PROVE  /\ Typed(k, stored[k], operands[k], written[k].base, written[k].ops, combined[k])
         /\ written[k] = [base |-> written[k].base, ops |-> written[k].ops]
         /\ rerouted[k] \in BOOLEAN /\ combined[k] \in SUBSET Tokens
         /\ Len(operands[k]) \in Nat /\ Len(written[k].ops) \in Nat
         /\ written[k].ops = <<>> =>
              operands[k] = <<>> /\ stored[k] = written[k].base /\ combined[k] = {}
<1>1. Typed(k, stored[k], operands[k], written[k].base, written[k].ops, combined[k])
  BY DEF DataTyped
<1>2. /\ written[k] \in [base : StoredValues, ops : Seq(Tokens)] /\ rerouted[k] \in BOOLEAN
      /\ combined[k] \in SUBSET Tokens /\ operands[k] \in Seq(Tokens)
  BY DEF DataTyped
<1>3. /\ written[k] = [base |-> written[k].base, ops |-> written[k].ops]
      /\ written[k].ops \in Seq(Tokens)
  BY <1>2
<1>4. Len(operands[k]) \in Nat /\ Len(written[k].ops) \in Nat
  BY <1>2, <1>3
<1>5. ASSUME written[k].ops = <<>>
      PROVE  operands[k] = <<>> /\ stored[k] = written[k].base /\ combined[k] = {}
  <2>1. Len(written[k].ops) = 0 /\ ToSet(<<>>) = {}
    BY <1>5 DEF ToSet
  <2>2. Len(operands[k]) = 0
    BY <1>1, <1>4, <2>1 DEF Typed
  <2>3. operands[k] = <<>>
    BY <1>2, <2>2
  <2>4. QED
    BY <1>1, <1>5, <2>1, <2>3 DEF Typed
<1>6. QED
  BY <1>1, <1>2, <1>3, <1>4, <1>5

\* Nothing was merged into a key yet: it has any route's value.
LEMMA AlikeUnmerged ==
  ASSUME DataTyped, NEW k \in Keys, written[k].ops = <<>>, NEW route
  PROVE  Alike(k, route, stored[k], operands[k], written[k].base, written[k].ops, combined[k])
BY KeyTyped, AlikeAtFirst

\* Routes come in: the keys they change the route of are marked, if they have
\* operands.
LEMMA RegisterKeys ==
  ASSUME DataTyped, DataAlike, UNCHANGED data,
         (full' = full /\ rerouted' = rerouted) \/ Reroute(full')
  PROVE  DataTyped' /\ DataAlike'
<1>1. /\ stored' = stored /\ operands' = operands /\ written' = written /\ combined' = combined
  BY DEF data
<1>2. rerouted' \in [Keys -> BOOLEAN]
  BY DEF DataTyped, Reroute
<1>3. DataTyped'
  BY <1>1, <1>2 DEF DataTyped
<1>4. ASSUME NEW k \in Keys, rerouted'[k] = FALSE
      PROVE  KeyAlike(k)'
  <2>1. /\ rerouted[k] = FALSE
        /\ written[k].ops = <<>> \/ Route(full', k) = Route(full, k)
    <3>1. CASE full' = full /\ rerouted' = rerouted
      BY <3>1, <1>4
    <3>2. CASE Reroute(full')
      <4>1. rerouted'[k] = (rerouted[k] \/ (written[k].ops # <<>> /\ Route(full', k) # Route(full, k)))
        BY <3>2 DEF Reroute
      <4>2. QED
        BY <1>4, <4>1, KeyTyped
    <3>3. QED
      BY <3>1, <3>2
  <2>2. Alike(k, Route(full', k), stored[k], operands[k], written[k].base, written[k].ops, combined[k])
    <3>1. CASE written[k].ops = <<>>
      BY <3>1, AlikeUnmerged
    <3>2. CASE Route(full', k) = Route(full, k)
      <4>1. KeyAlike(k)
        BY <1>4, <2>1 DEF DataAlike
      <4>2. QED
        BY <3>2, <4>1 DEF KeyAlike
    <3>3. QED
      BY <2>1, <3>1, <3>2
  <2>3. QED
    BY <1>1, <2>2 DEF KeyAlike, Route
<1>5. QED
  BY <1>3, <1>4 DEF DataAlike

\* A write or a compaction changes one key and no route.
LEMMA OneKey ==
  ASSUME DataTyped, DataAlike, NEW k \in Keys,
         NEW s, NEW o, NEW b, NEW w, NEW c, NEW r \in BOOLEAN,
         Typed(k, s, o, b, w, c),
         stored' = [stored EXCEPT ![k] = s],
         operands' = [operands EXCEPT ![k] = o],
         written' = [written EXCEPT ![k] = [base |-> b, ops |-> w]],
         combined' = [combined EXCEPT ![k] = c],
         rerouted' = [rerouted EXCEPT ![k] = r],
         UNCHANGED full,
         r = FALSE => Alike(k, Route(full, k), s, o, b, w, c)
  PROVE  DataTyped' /\ DataAlike'
<1>1. /\ stored'[k] = s /\ operands'[k] = o /\ written'[k] = [base |-> b, ops |-> w]
      /\ combined'[k] = c /\ rerouted'[k] = r
      /\ \A x \in Keys \ {k} : /\ stored'[x] = stored[x] /\ operands'[x] = operands[x]
                               /\ written'[x] = written[x] /\ combined'[x] = combined[x]
                               /\ rerouted'[x] = rerouted[x]
  BY DEF DataTyped
<1>2. /\ s \in StoredValues /\ b \in StoredValues /\ o \in Seq(Tokens) /\ w \in Seq(Tokens)
      /\ c \in SUBSET Tokens
  <2>1. s \in StoredValues /\ b \in StoredValues /\ o \in Seq(Operands(k)) /\ w \in Seq(Operands(k))
        /\ c \subseteq ToSet(w)
    BY DEF Typed
  <2>2. o \in Seq(Tokens) /\ w \in Seq(Tokens)
    BY <2>1, OperandsTyped
  <2>3. ToSet(w) \subseteq Tokens
    BY <2>2 DEF ToSet
  <2>4. QED
    BY <2>1, <2>2, <2>3
<1>3. /\ stored' \in [Keys -> StoredValues] /\ operands' \in [Keys -> Seq(Tokens)]
      /\ combined' \in [Keys -> SUBSET Tokens] /\ rerouted' \in [Keys -> BOOLEAN]
  BY <1>2 DEF DataTyped
<1>4. written' \in [Keys -> [base : StoredValues, ops : Seq(Tokens)]]
  BY <1>2 DEF DataTyped
<1>5. DataTyped'
  <2>1. ASSUME NEW x \in Keys
        PROVE  Typed(x, stored'[x], operands'[x], written'[x].base, written'[x].ops, combined'[x])
    <3>1. CASE x = k
      <4>1. written'[k].ops = w /\ written'[k].base = b
        BY <1>1
      <4>2. QED
        BY <1>1, <3>1, <4>1
    <3>2. CASE x # k
      <4>1. /\ stored'[x] = stored[x] /\ operands'[x] = operands[x] /\ written'[x] = written[x]
            /\ combined'[x] = combined[x]
        BY <1>1, <3>2
      <4>2. QED
        BY <4>1, KeyTyped
    <3>3. QED
      BY <3>1, <3>2
  <2>2. \A x \in Keys : Typed(x, stored[x], operands[x], written[x].base, written[x].ops, combined[x])'
    BY <2>1 DEF Typed, StoredValues, Operands, Merges
  <2>3. QED
    BY <1>3, <1>4, <2>2 DEF DataTyped
<1>6. ASSUME NEW x \in Keys, rerouted'[x] = FALSE
      PROVE  KeyAlike(x)'
  <2>1. Route(full, x)' = Route(full, x)
    BY DEF Route
  <2>2. CASE x = k
    <3>1. r = FALSE
      BY <1>1, <1>6, <2>2
    <3>2. Alike(k, Route(full, k), s, o, b, w, c)
      BY <3>1
    <3>3. stored'[x] = s /\ operands'[x] = o /\ written'[x].base = b /\ written'[x].ops = w
          /\ combined'[x] = c
      BY <1>1, <2>2
    <3>4. QED
      BY <2>1, <2>2, <3>2, <3>3 DEF KeyAlike
  <2>3. CASE x # k
    <3>1. KeyAlike(x)
      BY <1>1, <1>6, <2>3 DEF DataAlike
    <3>2. /\ stored'[x] = stored[x] /\ operands'[x] = operands[x] /\ written'[x] = written[x]
          /\ combined'[x] = combined[x]
      BY <1>1, <2>3
    <3>3. QED
      BY <2>1, <3>1, <3>2 DEF KeyAlike
  <2>4. QED
    BY <2>2, <2>3
<1>7. QED
  BY <1>5, <1>6 DEF DataAlike

LEMMA PutKeys ==
  ASSUME DataTyped, DataAlike, NEW k \in Keys, NEW token \in PutChoices(k), put(k, token)
  PROVE  DataTyped' /\ DataAlike'
<1> DEFINE v == <<token>>
<1>1. token \in Tokens
  <2>1. CASE Holds[k] = "list"
    <3>1. PICK e \in Elements : token = [of |-> "String", items |-> <<e>>]
      BY <2>1 DEF PutChoices
    <3>2. <<e>> \in Seq(Elements \cup {Header})
      OBVIOUS
    <3>3. token \in Texts
      BY <3>1, <3>2 DEF Texts
    <3>4. QED
      BY <3>3, TokenFacts
  <2>2. CASE Holds[k] # "list"
    BY <2>2, TokenFacts DEF PutChoices
  <2>3. QED
    BY <2>1, <2>2
<1>2. v \in StoredValues
  BY <1>1, OneToken
<1>3. /\ stored' = [stored EXCEPT ![k] = v]
      /\ operands' = [operands EXCEPT ![k] = <<>>]
      /\ written' = [written EXCEPT ![k] = [base |-> v, ops |-> <<>>]]
      /\ combined' = [combined EXCEPT ![k] = {}]
      /\ rerouted' = [rerouted EXCEPT ![k] = FALSE]
      /\ UNCHANGED full
  BY DEF put, routers
<1> HIDE DEF v
<1>4. Alike(k, Route(full, k), v, <<>>, v, <<>>, {})
  BY AlikeAtFirst
<1>5. Typed(k, v, <<>>, v, <<>>, {})
  <2>1. <<>> \in Seq(Operands(k)) /\ ToSet(<<>>) = {} /\ Len(<<>>) <= Len(<<>>)
    BY DEF ToSet
  <2>2. QED
    BY <1>2, <2>1 DEF Typed
<1>6. QED
  BY <1>3, <1>4, <1>5, OneKey

LEMMA MergeKeys ==
  ASSUME DataTyped, DataAlike, NEW k \in Keys, NEW x \in MergeChoices(k), merge(k, x)
  PROVE  DataTyped' /\ DataAlike'
<1> DEFINE o == Append(operands[k], x)
           w == Append(written[k].ops, x)
           b == written[k].base
           s == stored[k]
           c == combined[k]
<1>1. x \in Merges(k) /\ x \in Operands(k)
  BY OperandFacts DEF MergeChoices, Merges
<1>2. /\ operands' = [operands EXCEPT ![k] = o]
      /\ written' = [written EXCEPT ![k].ops = w]
      /\ UNCHANGED <<full, stored, combined, rerouted>>
  BY DEF merge, routers
<1>3. Typed(k, s, operands[k], b, written[k].ops, c)
  BY KeyTyped
<1>4. operands[k] \in Seq(Operands(k)) /\ written[k].ops \in Seq(Operands(k))
      /\ s \in StoredValues /\ b \in StoredValues
  BY <1>3 DEF Typed
<1>5. /\ o \in Seq(Operands(k)) /\ w \in Seq(Operands(k)) /\ w # <<>>
      /\ Len(o) = Len(operands[k]) + 1 /\ Len(w) = Len(written[k].ops) + 1
      /\ ToSet(o) = ToSet(operands[k]) \cup {x} /\ ToSet(w) = ToSet(written[k].ops) \cup {x}
  <2>1. /\ o \in Seq(Operands(k)) /\ Len(o) = Len(operands[k]) + 1
        /\ o = operands[k] \o <<x>>
    BY <1>1, <1>4, AppendProperties, AppendIsConcat
  <2>2. /\ w \in Seq(Operands(k)) /\ Len(w) = Len(written[k].ops) + 1 /\ w # <<>>
        /\ w = written[k].ops \o <<x>>
    BY <1>1, <1>4, AppendProperties, AppendIsConcat
  <2>3. <<x>> \in Seq(Operands(k)) /\ ToSet(<<x>>) = {x}
    BY <1>1 DEF ToSet
  <2> DEFINE more == <<x>>
  <2> HIDE DEF more
  <2>4. /\ operands[k] \in Seq(Operands(k)) /\ written[k].ops \in Seq(Operands(k))
        /\ more \in Seq(Operands(k))
    BY <1>4, <2>3 DEF more
  <2>5. ToSet(operands[k] \o more) = ToSet(operands[k]) \cup ToSet(more)
    BY <2>4, PartsTokens
  <2>6. ToSet(written[k].ops \o more) = ToSet(written[k].ops) \cup ToSet(more)
    BY <2>4, PartsTokens
  <2>7. QED
    BY <2>1, <2>2, <2>3, <2>5, <2>6 DEF more
<1>6. rerouted[k] = FALSE => Alike(k, Route(full, k), s, o, b, w, c)
  <2>1. rerouted[k] = FALSE =>
          Alike(k, Route(full, k), s, operands[k], b, written[k].ops, c)
    BY DEF DataAlike, KeyAlike
  <2>2. QED
    BY <1>1, <1>4, <2>1, AlikeAppended
<1> HIDE DEF o, w
<1>7. Typed(k, s, o, b, w, c)
  <2>1. Len(o) <= Len(w)
    BY <1>3, <1>5, KeyTyped DEF Typed
  <2>2. QED
    BY <1>3, <1>4, <1>5, <2>1 DEF Typed
<1>8. /\ written' = [written EXCEPT ![k] = [base |-> b, ops |-> w]]
      /\ stored' = [stored EXCEPT ![k] = s]
      /\ combined' = [combined EXCEPT ![k] = c]
      /\ rerouted' = [rerouted EXCEPT ![k] = rerouted[k]]
  <2>1. [written[k] EXCEPT !.ops = w] = [base |-> b, ops |-> w]
    <3>1. written[k] \in [base : StoredValues, ops : Seq(Tokens)]
      BY DEF DataTyped
    <3>2. QED
      BY <3>1
  <2>2. [written EXCEPT ![k].ops = w] = [written EXCEPT ![k] = [written[k] EXCEPT !.ops = w]]
    BY DEF DataTyped
  <2>3. /\ stored = [stored EXCEPT ![k] = s] /\ rerouted = [rerouted EXCEPT ![k] = rerouted[k]]
        /\ combined = [combined EXCEPT ![k] = c]
    BY DEF DataTyped
  <2>4. QED
    BY <1>2, <2>1, <2>2, <2>3
<1>9. rerouted[k] \in BOOLEAN
  BY KeyTyped
<1> DEFINE r == rerouted[k]
<1>10. /\ r \in BOOLEAN /\ rerouted' = [rerouted EXCEPT ![k] = r]
       /\ r = FALSE => Alike(k, Route(full, k), s, o, b, w, c)
  BY <1>6, <1>8, <1>9
<1>11. full' = full /\ operands' = [operands EXCEPT ![k] = o]
  BY <1>2
<1> HIDE DEF b, s, c, r
<1>12. QED
  BY <1>7, <1>8, <1>10, <1>11, OneKey

\* Compaction leaves what was written as it is.
LEMMA Compacted ==
  ASSUME DataTyped, DataAlike, NEW k \in Keys, NEW s, NEW o, NEW c,
         Typed(k, s, o, written[k].base, written[k].ops, c),
         stored' = [stored EXCEPT ![k] = s],
         operands' = [operands EXCEPT ![k] = o],
         combined' = [combined EXCEPT ![k] = c],
         UNCHANGED <<full, written, rerouted>>,
         rerouted[k] = FALSE =>
           Alike(k, Route(full, k), s, o, written[k].base, written[k].ops, c)
  PROVE  DataTyped' /\ DataAlike'
<1> DEFINE b == written[k].base
           w == written[k].ops
<1>1. /\ written' = [written EXCEPT ![k] = [base |-> b, ops |-> w]]
      /\ rerouted' = [rerouted EXCEPT ![k] = rerouted[k]]
      /\ rerouted[k] \in BOOLEAN
  BY KeyTyped DEF DataTyped
<1>2. Typed(k, s, o, b, w, c) /\ (rerouted[k] = FALSE => Alike(k, Route(full, k), s, o, b, w, c))
  OBVIOUS
<1> HIDE DEF b, w
<1>3. QED
  BY <1>1, <1>2, OneKey

\* What the operands of a set are when some were combined: those before, what
\* the partial handler left, and those behind.
LEMMA CombinedTyped ==
  ASSUME NEW k \in Keys, Holds[k] = "set", NEW ops \in Seq(Operands(k)),
         NEW i \in Nat \ {0}, NEW j \in Nat, i < j, j <= Len(ops),
         NEW one, one = set_union_partial_handler(Between(ops, i, j)), one # None
  PROVE  LET new == Append(Before(ops, i), one) \o Behind(ops, j)
         IN  /\ new \in Seq(Operands(k)) /\ Len(new) <= Len(ops)
             /\ ToSet(new) \cap Merges(k) \subseteq ToSet(ops)
             /\ ToSet(Between(ops, i, j)) \subseteq ToSet(ops) \cap Merges(k)
<1> DEFINE pre == Before(ops, i)
           mid == Between(ops, i, j)
           post == Behind(ops, j)
           new == Append(pre, one) \o post
<1>1. /\ pre \in Seq(Operands(k)) /\ mid \in Seq(Operands(k)) /\ post \in Seq(Operands(k))
      /\ ops = (pre \o mid) \o post
      /\ Len(pre) = i - 1 /\ Len(post) = Len(ops) - j
  <2>1. /\ pre \in Seq(Operands(k)) /\ mid \in Seq(Operands(k)) /\ post \in Seq(Operands(k))
        /\ ops = (pre \o mid) \o post
    BY SplitOps
  <2>2. Len(Before(ops, i)) = i - 1 /\ Len(Behind(ops, j)) = Len(ops) - j
    <3> HIDE DEF pre, mid, post, new
    <3>1. QED
      BY SplitOps
  <2>3. QED
    BY <2>1, <2>2
<1>2. one \in Sets /\ ToSet(mid) \subseteq MergeSets
  <2>1. mid \in Seq(MergeSets \cup Sets)
    BY <1>1, OperandsTyped
  <2>2. QED
    BY <2>1, SetCombined
<1>3. one \in Operands(k) /\ one \notin Merges(k) /\ Merges(k) = MergeSets
  BY <1>2, TokenFacts DEF Operands, Merges
<1> DEFINE single == <<one>>
<1>4. new = (pre \o single) \o post /\ new \in Seq(Operands(k)) /\ Len(new) = Len(pre) + 1 + Len(post)
  <2> HIDE DEF pre, post
  <2>1. QED
    BY <1>1, <1>3, Rejoined
<1>5. single \in Seq(Operands(k)) /\ ToSet(single) = {one}
  BY <1>3 DEF ToSet
<1> HIDE DEF pre, mid, post, new, single
<1>6. Len(new) <= Len(ops)
  <2>1. Len(ops) \in Nat
    OBVIOUS
  <2>2. QED
    BY <1>1, <1>4, <2>1
<1> DEFINE front == pre \o single
           first == pre \o mid
<1>7. front \in Seq(Operands(k)) /\ first \in Seq(Operands(k))
  BY <1>1, <1>5, ConcatProperties
<1>8. ToSet(front) = ToSet(pre) \cup ToSet(single) /\ ToSet(first) = ToSet(pre) \cup ToSet(mid)
  <2>1. pre \in Seq(Operands(k)) /\ single \in Seq(Operands(k))
    BY <1>1, <1>5
  <2>2. ToSet(pre \o single) = ToSet(pre) \cup ToSet(single)
    BY <2>1, PartsTokens
  <2>3. ToSet(pre \o mid) = ToSet(pre) \cup ToSet(mid)
    BY <1>1, PartsTokens
  <2>4. QED
    BY <2>2, <2>3
<1> HIDE DEF front, first
<1>9. ToSet(front \o post) = ToSet(front) \cup ToSet(post) /\ ToSet(first \o post) = ToSet(first) \cup ToSet(post)
  BY <1>1, <1>7, PartsTokens
<1>10. ToSet(new) = (ToSet(pre) \cup {one}) \cup ToSet(post)
  BY <1>4, <1>5, <1>8, <1>9 DEF front
<1>11. ToSet(ops) = (ToSet(pre) \cup ToSet(mid)) \cup ToSet(post)
  BY <1>1, <1>8, <1>9 DEF first
<1>12. ToSet(new) \cap Merges(k) \subseteq ToSet(ops) /\ ToSet(mid) \subseteq ToSet(ops) \cap Merges(k)
  BY <1>2, <1>3, <1>10, <1>11
<1>13. QED
  BY <1>4, <1>6, <1>12 DEF new, pre, mid, post

LEMMA PartialKeys ==
  ASSUME IInv, DataTyped, DataAlike, NEW k \in Keys,
         NEW i \in Nat \ {0}, NEW j \in Nat, j <= Len(operands[k]), CompactPartial(k, i, j)
  PROVE  DataTyped' /\ DataAlike'
<1> DEFINE ops == operands[k]
           mid == Between(ops, i, j)
           one == set_union_partial_handler(mid)
           new == Append(Before(ops, i), one) \o Behind(ops, j)
           c == combined[k] \cup ToSet(mid)
           b == written[k].base
           w == written[k].ops
<1>1. Typed(k, stored[k], ops, b, w, combined[k]) /\ Len(ops) \in Nat /\ Len(w) \in Nat
  BY KeyTyped
<1>2. ops \in Seq(Operands(k)) /\ stored[k] \in StoredValues
  BY <1>1 DEF Typed
<1>3. i < j /\ UNCHANGED <<full, stored, written, rerouted>>
  BY DEF CompactPartial, routers
<1>4. Route(partial, k) # None /\ one # None
  BY DEF CompactPartial, router_partial_merge_fn, default_partial_merge, Between
<1>5. operands' = [operands EXCEPT ![k] = new] /\ combined' = [combined EXCEPT ![k] = c]
  BY <1>4 DEF CompactPartial, router_partial_merge_fn, Before, Between, Behind
<1>6. Holds[k] = "set"
  <2>1. Route(partial, k) \in partial /\ HandlerOf[Route(partial, k)] = Holds[k]
    BY <1>4, RouteFacts
  <2>2. QED
    BY <2>1 DEF IInv, Pairs, Paired
<1> DEFINE o == one
<1>7. o = set_union_partial_handler(Between(ops, i, j)) /\ o # None
  BY <1>4
<1> HIDE DEF o
<1>8. /\ new \in Seq(Operands(k)) /\ Len(new) <= Len(ops)
      /\ ToSet(new) \cap Merges(k) \subseteq ToSet(ops) /\ ToSet(mid) \subseteq ToSet(ops) \cap Merges(k)
  <2>1. /\ Append(Before(ops, i), o) \o Behind(ops, j) \in Seq(Operands(k))
        /\ Len(Append(Before(ops, i), o) \o Behind(ops, j)) <= Len(ops)
        /\ ToSet(Append(Before(ops, i), o) \o Behind(ops, j)) \cap Merges(k) \subseteq ToSet(ops)
        /\ ToSet(Between(ops, i, j)) \subseteq ToSet(ops) \cap Merges(k)
    BY <1>2, <1>3, <1>6, <1>7, CombinedTyped
  <2>2. QED
    BY <2>1 DEF o
<1>9. rerouted[k] = FALSE => Alike(k, Route(full, k), stored[k], new, b, w, c)
  <2>1. rerouted[k] = FALSE => Alike(k, Route(full, k), stored[k], ops, b, w, combined[k])
    BY DEF DataAlike, KeyAlike
  <2>2. rerouted[k] = FALSE =>
          Alike(k, Route(full, k), stored[k], Append(Before(ops, i), o) \o Behind(ops, j), b, w,
                combined[k] \cup ToSet(Between(ops, i, j)))
    BY <1>2, <1>3, <1>6, <1>7, <2>1, AlikeCombined
  <2>3. QED
    BY <2>2 DEF o
<1> HIDE DEF new, mid
<1>10. Typed(k, stored[k], new, b, w, c)
  <2>1. c \subseteq ToSet(w) /\ ToSet(new) \cap Merges(k) \subseteq ToSet(w)
    BY <1>1, <1>8 DEF Typed
  <2>2. Len(new) <= Len(w)
    <3>1. Len(new) \in Nat
      BY <1>8
    <3>2. QED
      BY <1>1, <1>8, <3>1 DEF Typed
  <2>3. w # <<>>
    <3>1. Len(ops) <= Len(w) /\ Len(ops) # 0
      BY <1>1, <1>3 DEF Typed
    <3>2. QED
      BY <1>1, <3>1
  <2>4. QED
    BY <1>1, <1>8, <2>1, <2>2, <2>3 DEF Typed
<1>11. stored' = [stored EXCEPT ![k] = stored[k]]
  BY <1>3 DEF DataTyped
<1> HIDE DEF c
<1>12. QED
  BY <1>3, <1>5, <1>9, <1>10, <1>11, Compacted

LEMMA FullKeys ==
  ASSUME DataTyped, DataAlike, NEW k \in Keys, NEW i \in DOMAIN operands[k], CompactFull(k, i)
  PROVE  DataTyped' /\ DataAlike'
<1> DEFINE ops == operands[k]
           pre == SubSeq(ops, 1, i)
           post == SubSeq(ops, i + 1, Len(ops))
           merged == Merged(k, Route(full, k), stored[k], pre)
           b == written[k].base
           w == written[k].ops
<1>1. Typed(k, stored[k], ops, b, w, combined[k])
  BY KeyTyped
<1>2. /\ ops \in Seq(Operands(k)) /\ Len(ops) \in Nat /\ stored[k] \in StoredValues
      /\ i \in 1..Len(ops)
  BY <1>1, KeyTyped DEF Typed
<1>3. /\ merged # None
      /\ stored' = [stored EXCEPT ![k] = merged] /\ operands' = [operands EXCEPT ![k] = post]
      /\ UNCHANGED <<full, written, combined, rerouted>>
  BY RouterIs DEF CompactFull, routers
<1>4. /\ pre \in Seq(Operands(k)) /\ Len(pre) = i
      /\ post \in Seq(Operands(k)) /\ Len(post) = Len(ops) - i
      /\ \A m \in 1..Len(post) : post[m] = ops[i + m] /\ i + m \in 1..Len(ops)
  <2> DEFINE all == ops
  <2>1. all \in Seq(Operands(k)) /\ i \in 1..Len(all)
    BY <1>2
  <2> HIDE DEF all
  <2>2. /\ SubSeq(all, 1, i) \in Seq(Operands(k)) /\ Len(SubSeq(all, 1, i)) = i
        /\ SubSeq(all, i + 1, Len(all)) \in Seq(Operands(k))
        /\ Len(SubSeq(all, i + 1, Len(all))) = Len(all) - i
        /\ \A m \in 1..(Len(all) - i) :
             SubSeq(all, i + 1, Len(all))[m] = all[i + m] /\ i + m \in 1..Len(all)
    BY <2>1
  <2>3. QED
    BY <2>2 DEF all
<1>5. pre # <<>>
  <2> HIDE DEF pre
  <2>1. QED
    BY <1>2, <1>4
<1>6. ToSet(post) \subseteq ToSet(ops)
  <2>1. DOMAIN post = 1..Len(post) /\ DOMAIN ops = 1..Len(ops)
    BY <1>2, <1>4
  <2> HIDE DEF post
  <2>2. QED
    BY <1>4, <2>1 DEF ToSet
<1>7. merged \in StoredValues
  <2> HIDE DEF pre
  <2>1. QED
    BY <1>2, <1>4, <1>5, MergedTyped
<1>8. rerouted[k] = FALSE => Alike(k, Route(full, k), merged, post, b, w, combined[k])
  <2>1. rerouted[k] = FALSE => Alike(k, Route(full, k), stored[k], ops, b, w, combined[k])
    BY DEF DataAlike, KeyAlike
  <2>2. QED
    BY <1>2, <1>3, <2>1, AlikeMerged
<1> HIDE DEF pre, post, merged
<1>9. Typed(k, merged, post, b, w, combined[k])
  <2>1. Len(post) <= Len(w) /\ w # <<>>
    <3>1. Len(ops) <= Len(w) /\ Len(w) \in Nat
      BY <1>1, KeyTyped DEF Typed
    <3>2. Len(w) # 0
      BY <1>2, <3>1
    <3>3. QED
      BY <1>2, <1>4, <3>1, <3>2
  <2>2. QED
    BY <1>1, <1>4, <1>6, <1>7, <2>1 DEF Typed
<1>10. combined' = [combined EXCEPT ![k] = combined[k]]
  BY <1>3 DEF DataTyped
<1>11. QED
  BY <1>3, <1>8, <1>9, <1>10, Compacted

LEMMA StepData == DataInv /\ [Next]_vars => DataInv'
<1> SUFFICES ASSUME DataInv, [Next]_vars PROVE DataInv'
  OBVIOUS
<1> USE DEF DataInv
<1>1. IInv'
  BY StepInv
<1>2. name' \in BOOLEAN /\ opened' \in BOOLEAN /\ writes' \in 0..MaxWrites
  <2>1. CASE Register
    BY <2>1 DEF Register, operator_name, build, add_full_merge_route, add_partial_merge_route,
               add_route_full, add_route_partial, routers, data
  <2>2. CASE Store
    BY <2>2, BoundAssumption DEF Store, put, merge, CompactPartial, CompactFull, routers
  <2>3. CASE UNCHANGED vars
    BY <2>3 DEF vars, routers, data
  <2>4. QED
    BY <2>1, <2>2, <2>3 DEF Next
<1>3. CASE UNCHANGED vars
  <2>1. DataTyped' /\ DataAlike'
    BY <1>3, RegisterKeys DEF vars, routers
  <2>2. QED
    BY <1>1, <1>2, <2>1
<1>4. CASE Register
  <2>1. UNCHANGED data /\ ((full' = full /\ rerouted' = rerouted) \/ Reroute(full'))
    BY <1>4 DEF Register, operator_name, build, add_full_merge_route, add_partial_merge_route,
               add_route_full, add_route_partial, routers
  <2>2. DataTyped' /\ DataAlike'
    BY <2>1, RegisterKeys
  <2>3. QED
    BY <1>1, <1>2, <2>2
<1>5. CASE Store
  <2>1. PICK k \in Keys :
          \/ \E token \in PutChoices(k) : put(k, token)
          \/ \E operand \in MergeChoices(k) : merge(k, operand)
          \/ \E i, j \in DOMAIN operands[k] : CompactPartial(k, i, j)
          \/ \E i \in DOMAIN operands[k] : CompactFull(k, i)
    BY <1>5 DEF Store
  <2>2. DOMAIN operands[k] = 1..Len(operands[k]) /\ Len(operands[k]) \in Nat
    BY KeyTyped DEF DataTyped
  <2>3. ASSUME NEW i \in DOMAIN operands[k], NEW j \in DOMAIN operands[k], CompactPartial(k, i, j)
        PROVE  DataTyped' /\ DataAlike'
    <3>1. i \in Nat \ {0} /\ j \in Nat /\ j <= Len(operands[k])
      BY <2>2
    <3>2. QED
      BY <2>3, <3>1, PartialKeys
  <2>4. DataTyped' /\ DataAlike'
    BY <2>1, <2>3, PutKeys, MergeKeys, FullKeys
  <2>5. QED
    BY <1>1, <1>2, <2>4
<1>6. QED
  BY <1>3, <1>4, <1>5 DEF Next

LEMMA InitData == Init => DataInv
<1> SUFFICES ASSUME Init PROVE DataInv
  OBVIOUS
<1>1. IInv
  BY DEF Init, IInv, TablesInStep, Compatible
<1>2. None \in StoredValues /\ <<>> \in Seq(Tokens) /\ Len(<<>>) <= Len(<<>>) /\ ToSet(<<>>) = {}
      /\ \A k \in Keys : <<>> \in Seq(Operands(k))
  BY DEF StoredValues, ToSet
<1>3. DataTyped
  <2>1. \A k \in Keys : Typed(k, None, <<>>, None, <<>>, {})
    BY <1>2 DEF Typed
  <2>2. \A k \in Keys : /\ stored[k] = None /\ operands[k] = <<>> /\ combined[k] = {}
                        /\ written[k].base = None /\ written[k].ops = <<>>
    BY DEF Init
  <2>3. /\ stored \in [Keys -> StoredValues] /\ operands \in [Keys -> Seq(Tokens)]
        /\ combined \in [Keys -> SUBSET Tokens] /\ rerouted \in [Keys -> BOOLEAN]
    BY <1>2 DEF Init
  <2>4. written \in [Keys -> [base : StoredValues, ops : Seq(Tokens)]]
    BY <1>2 DEF Init
  <2>5. QED
    BY <2>1, <2>2, <2>3, <2>4 DEF DataTyped
<1>4. ASSUME NEW k \in Keys PROVE KeyAlike(k)
  <2>1. written[k].ops = <<>>
    BY DEF Init
  <2>2. QED
    BY <1>3, <2>1, AlikeUnmerged DEF KeyAlike
<1>5. name \in BOOLEAN /\ opened \in BOOLEAN /\ writes \in 0..MaxWrites
  <2>1. writes = 0
    BY DEF Init
  <2>2. name \in BOOLEAN /\ opened \in BOOLEAN
    BY DEF Init
  <2>3. QED
    BY <2>1, <2>2, BoundAssumption
<1>6. QED
  BY <1>1, <1>3, <1>4, <1>5 DEF DataInv, DataAlike

LEMMA DataInvariant == Spec => []DataInv
BY InitData, StepData, PTL DEF Spec

\* Every variable has its type: what compaction makes of operands are tokens,
\* and there are never more of them than were written.
THEOREM MergeTypeCorrect == Spec => []TypeOK
<1>1. DataInv => TypeOK
  <2> SUFFICES ASSUME DataInv PROVE TypeOK
    OBVIOUS
  <2>1. ASSUME NEW v \in StoredValues PROVE IsValue(v)
    <3>1. CASE v = None
      BY <3>1 DEF IsValue
    <3>2. CASE v # None
      <4>1. v \in Seq(Tokens) /\ v # <<>>
        BY <3>2 DEF StoredValues
      <4>2. ToSet(v) \subseteq Tokens
        BY <4>1 DEF ToSet
      <4>3. QED
        BY <4>1, <4>2 DEF IsValue
    <3>3. QED
      BY <3>1, <3>2
  <2>2. ASSUME NEW k \in Keys
        PROVE  /\ IsValue(stored[k]) /\ IsValue(written[k].base)
               /\ ToSet(operands[k]) \subseteq Tokens
               /\ Len(operands[k]) <= Len(written[k].ops)
               /\ combined[k] \subseteq ToSet(written[k].ops)
               /\ rerouted[k] \in BOOLEAN
    <3>1. DataTyped
      BY DEF DataInv
    <3>2. operands[k] \in Seq(Tokens)
      BY <3>1 DEF DataTyped
    <3>3. ToSet(operands[k]) \subseteq Tokens
      BY <3>2 DEF ToSet
    <3>4. Typed(k, stored[k], operands[k], written[k].base, written[k].ops, combined[k])
          /\ rerouted[k] \in BOOLEAN
      BY <3>1, KeyTyped
    <3>5. QED
      BY <2>1, <3>3, <3>4 DEF Typed
  <2>3. partial \subseteq PatternSet /\ adding \subseteq PatternSet
    BY DEF DataInv, IInv, Pairs
  <2>4. QED
    BY <2>2, <2>3 DEF TypeOK, DataInv, IInv
<1>2. QED
  BY <1>1, DataInvariant, PTL

\* Whenever and in whatever order compaction combines the operands of a key,
\* in any thread and while routes are added, a get finds what it would find
\* without: the strings of a list, the members of a set but for what a partial
\* merge took, the contents of a key without a route.  A key whose route
\* changed under its operands is left out.
THEOREM CompactionKeepsAll == Spec => []CompactionKeepsElements
<1>1. DataInv => CompactionKeepsElements
  <2> DEFINE Kept(k) ==
        /\ Route(full, k) = None /\ combined[k] = {} => Get(k) = Reference(k)
        /\ Route(full, k) # None /\ Holds[k] = "list" /\ Reference(k) # None =>
             Get(k) # None /\ Strings(Text(Get(k))) = Strings(Text(Reference(k)))
        /\ Route(full, k) # None /\ Holds[k] = "set" =>
             /\ Members(Reference(k)) \ Taken(combined[k]) \subseteq Members(Get(k))
             /\ Members(Get(k)) \subseteq Members(Reference(k))
  <2> SUFFICES ASSUME DataInv, NEW k \in Keys, ~rerouted[k]
               PROVE  Kept(k)
    BY DEF CompactionKeepsElements, Spoiled, Taken
  <2>1. DataTyped /\ KeyAlike(k)
    BY KeyTyped DEF DataInv, DataAlike
  <2>2. Typed(k, stored[k], operands[k], written[k].base, written[k].ops, combined[k])
    BY <2>1, KeyTyped
  <2>3. CASE written[k].ops = <<>>
    <3>1. Get(k) = Reference(k)
      BY <2>1, <2>3, KeyTyped DEF Get, Reference
    <3>2. QED
      BY <3>1
  <2>4. CASE written[k].ops # <<>>
    <3> DEFINE s == stored[k]
               o == operands[k]
               b == written[k].base
               w == written[k].ops
               c == combined[k]
               route == Route(full, k)
               get == IF o = <<>> THEN s ELSE Merged(k, route, s, o)
               ref == Merged(k, route, b, w)
    <3>1. Get(k) = get
      BY RouterIs DEF Get
    <3>2. Reference(k) = ref
      BY <2>4, RouterIs DEF Reference
    <3>3. s \in StoredValues /\ b \in StoredValues /\ o \in Seq(Operands(k)) /\ w \in Seq(Operands(k))
      BY <2>2 DEF Typed
    <3>4. Holds[k] = "list" => ToSet(o) \subseteq ToSet(w)
      <4> SUFFICES ASSUME Holds[k] = "list" PROVE ToSet(o) \subseteq ToSet(w)
        OBVIOUS
      <4>1. o \in Seq(MergeTexts)
        BY <3>3, OperandsTyped
      <4>2. ToSet(o) \subseteq MergeTexts
        BY <4>1 DEF ToSet
      <4>3. QED
        BY <2>2, <4>2 DEF Typed, Merges
    <3>5. Alike(k, route, s, o, b, w, c) /\ w # <<>>
      BY <2>1, <2>4 DEF KeyAlike
    <3> HIDE DEF s, o, b, w, c, route
    <3>6. /\ route = None /\ c = {} => get = ref
          /\ route # None /\ Holds[k] = "list" /\ ref # None =>
               get # None /\ Strings(Text(get)) = Strings(Text(ref))
          /\ route # None /\ Holds[k] = "set" =>
               /\ Members(ref) \ Taken(c) \subseteq Members(get)
               /\ Members(get) \subseteq Members(ref)
      BY <3>3, <3>4, <3>5, AlikeRead
    <3> HIDE DEF get, ref
    <3>7. QED
      BY <3>1, <3>2, <3>6 DEF c, route
  <2>5. QED
    BY <2>3, <2>4
<1>2. QED
  BY <1>1, DataInvariant, PTL

-----------------------------------------------------------------------------
(* The locks: their types, and that threads wait for each other only after  *)
(* a full merge handler read a store.                                       *)

\* A thread that waits with guards in its hands waits for the full merge
\* router, and has no guard of that router unless a handler re-entered it.
LockOrder ==
  \A w \in Workers :
    waits[w] # Free /\ holds[w] # <<>> =>
      waits[w] = "full" /\ ("full" \in Held(w) => reentered)

\* A builder has the write lock of at most the router its call is at.
ClaimsCurrent ==
  \A r \in Routers :
    claimed[r] # Free => todo[claimed[r]] # <<>> /\ Head(todo[claimed[r]]) = r

LocksTyped == LocksTypeOK /\ ClaimsCurrent

LocksInv == LocksTyped /\ LockOrder

\* The calls of the builders: what is left of each is a call again.
LEMMA CallsShape ==
  /\ \A call \in Calls : call # <<>> /\ Head(call) \in Routers /\ call \in Seq(Routers)
  /\ \A call \in Calls : Tail(call) \in Calls \cup {<<>>}
<1>1. \A call \in Calls : call # <<>> /\ Head(call) \in Routers /\ call \in Seq(Routers)
  <2>1. \A r \in Routers : <<r>> # <<>> /\ Head(<<r>>) = r /\ <<r>> \in Seq(Routers)
    OBVIOUS
  <2>2. \A r, s \in Routers : <<r, s>> # <<>> /\ Head(<<r, s>>) = r /\ <<r, s>> \in Seq(Routers)
    OBVIOUS
  <2>3. \A call \in Calls : (\E r \in Routers : call = <<r>>) \/ (\E r, s \in Routers : call = <<r, s>>)
    BY DEF Calls, Routers
  <2>4. QED
    BY <2>1, <2>2, <2>3
<1>2. Tail(<<"full", "partial">>) = <<"partial">>
  OBVIOUS
<1>3. \A r \in Routers : Tail(<<r>>) = <<>>
  OBVIOUS
<1>4. \A call \in Calls : Tail(call) \in Calls \cup {<<>>}
  BY <1>2, <1>3 DEF Calls, Routers
<1>5. QED
  BY <1>1, <1>4

\* Initially nobody holds or waits for anything.
LEMMA InitLocks == LocksInit => LocksInv
<1>1. SUFFICES ASSUME LocksInit PROVE LocksInv
  OBVIOUS
<1>2. LocksTyped
  <2>1. <<>> \in Seq(Routers) /\ <<>> \in Calls \cup {<<>>}
    OBVIOUS
  <2>2. \A r \in Routers : claimed[r] = Free
    BY <1>1 DEF LocksInit
  <2>3. QED
    BY <1>1, <2>1, <2>2 DEF LocksInit, LocksTyped, LocksTypeOK, ClaimsCurrent
<1>3. LockOrder
  BY <1>1 DEF LocksInit, LockOrder
<1>4. QED
  BY <1>2, <1>3 DEF LocksInv

\* A builder that asks for the write lock of a free router.
LEMMA ClaimTypes ==
  ASSUME LocksTyped, NEW b \in Builders, write(b)
  PROVE  LocksTyped'
<1>1. todo[b] \in Calls /\ Head(todo[b]) \in Routers
  BY CallsShape DEF LocksTyped, LocksTypeOK, ClaimsCurrent, write
<1>2. claimed' \in [Routers -> Builders \cup {Free}]
  BY <1>1 DEF LocksTyped, LocksTypeOK, ClaimsCurrent, write
<1>3. \A r \in Routers : claimed'[r] # Free => todo'[claimed'[r]] # <<>> /\ Head(todo'[claimed'[r]]) = r
  BY <1>1 DEF LocksTyped, LocksTypeOK, ClaimsCurrent, write
<1>4. QED
  BY <1>2, <1>3 DEF LocksTyped, LocksTypeOK, ClaimsCurrent, write

\* A builder that has inserted a route, or been refused one, gives up the lock.
LEMMA ReleaseTypes ==
  ASSUME LocksTyped, NEW b \in Builders, Granted(b),
         NEW rest \in Calls \cup {<<>>},
         claimed' = [claimed EXCEPT ![Head(todo[b])] = Free],
         todo' = [todo EXCEPT ![b] = rest],
         UNCHANGED <<holds, waits, reentered>>
  PROVE  LocksTyped'
<1>1. todo[b] \in Calls /\ Head(todo[b]) \in Routers
  BY CallsShape DEF LocksTyped, LocksTypeOK, ClaimsCurrent, Granted
<1>2. claimed' \in [Routers -> Builders \cup {Free}] /\ todo' \in [Builders -> Calls \cup {<<>>}]
  BY <1>1 DEF LocksTyped, LocksTypeOK, ClaimsCurrent
<1>3. ASSUME NEW r \in Routers, claimed'[r] # Free
      PROVE  todo'[claimed'[r]] # <<>> /\ Head(todo'[claimed'[r]]) = r
  <2>1. r # Head(todo[b]) /\ claimed'[r] = claimed[r] /\ claimed[r] \in Builders
    BY <1>1, <1>3 DEF LocksTyped, LocksTypeOK, ClaimsCurrent
  <2>2. todo[claimed[r]] # <<>> /\ Head(todo[claimed[r]]) = r
    BY <1>3, <2>1 DEF LocksTyped, LocksTypeOK, ClaimsCurrent
  <2>3. claimed[r] # b
    BY <2>1, <2>2
  <2>4. todo'[claimed[r]] = todo[claimed[r]]
    BY <2>1, <2>3 DEF LocksTyped, LocksTypeOK, ClaimsCurrent
  <2>5. QED
    BY <2>1, <2>2, <2>4
<1>4. QED
  BY <1>2, <1>3 DEF LocksTyped, LocksTypeOK, ClaimsCurrent

\* Every step preserves the types and the order of the locks.
LEMMA StepLocks == LocksInv /\ [LocksNext]_lockVars => LocksInv'
<1>1. SUFFICES ASSUME LocksInv, [LocksNext]_lockVars PROVE LocksInv'
  OBVIOUS
<1> USE <1>1 DEF LocksInv
<1>2. CASE UNCHANGED lockVars
  BY <1>2 DEF lockVars, LocksTyped, LocksTypeOK, ClaimsCurrent, LockOrder, Held
<1>3. ASSUME NEW w \in Workers, NEW r \in Routers, Call(w, r)
      PROVE  LocksInv'
  <2>1. LocksTyped'
    BY <1>3 DEF Call, LocksTyped, LocksTypeOK, ClaimsCurrent
  <2>2. LockOrder'
    BY <1>3 DEF Call, LocksTyped, LocksTypeOK, ClaimsCurrent, LockOrder, Held
  <2>3. QED
    BY <2>1, <2>2
<1>4. ASSUME NEW w \in Workers, read(w)
      PROVE  LocksInv'
  <2>1. waits[w] \in Routers /\ holds[w] \in Seq(Routers)
    BY <1>4 DEF read, LocksTyped, LocksTypeOK, ClaimsCurrent
  <2>2. Append(holds[w], waits[w]) \in Seq(Routers)
    BY <2>1
  <2>3. LocksTyped'
    BY <1>4, <2>2 DEF read, LocksTyped, LocksTypeOK, ClaimsCurrent
  <2>4. LockOrder'
    BY <1>4 DEF read, LocksTyped, LocksTypeOK, ClaimsCurrent, LockOrder, Held
  <2>5. QED
    BY <2>3, <2>4
<1>5. ASSUME NEW w \in Workers, Nested(w)
      PROVE  LocksInv'
  <2>1. LocksTyped'
    BY <1>5 DEF Nested, LocksTyped, LocksTypeOK, ClaimsCurrent, Routers
  <2>2. \A v \in Workers : Held(v)' = Held(v)
    BY <1>5 DEF Nested, Held
  <2>3. reentered => reentered'
    BY <1>5 DEF Nested
  <2>4. "full" \in Held(w) => reentered'
    BY <1>5 DEF Nested
  <2>5. LockOrder'
    BY <1>5, <2>2, <2>3, <2>4 DEF Nested, LocksTyped, LocksTypeOK, ClaimsCurrent, LockOrder
  <2>6. QED
    BY <2>1, <2>5
<1>6. ASSUME NEW w \in Workers, Finish(w)
      PROVE  LocksInv'
  <2>1. holds[w] \in Seq(Routers) /\ Len(holds[w]) \in Nat \ {0}
    BY <1>6 DEF Finish, LocksTyped, LocksTypeOK, ClaimsCurrent
  <2>2. SubSeq(holds[w], 1, Len(holds[w]) - 1) \in Seq(Routers)
    BY <2>1
  <2>3. LocksTyped'
    BY <1>6, <2>2 DEF Finish, LocksTyped, LocksTypeOK, ClaimsCurrent
  <2>4. \A v \in Workers : v # w => holds'[v] = holds[v] /\ Held(v)' = Held(v)
    BY <1>6 DEF Finish, LocksTyped, LocksTypeOK, ClaimsCurrent, Held
  <2>5. LockOrder'
    BY <1>6, <2>4 DEF Finish, LockOrder
  <2>6. QED
    BY <2>3, <2>5
<1>7. ASSUME NEW b \in Builders, add_route(b)
      PROVE  LocksInv'
  <2>1. LocksTyped'
    BY <1>7 DEF add_route, LocksTyped, LocksTypeOK, ClaimsCurrent
  <2>2. LockOrder'
    BY <1>7 DEF add_route, LockOrder, Held
  <2>3. QED
    BY <2>1, <2>2
<1>8. ASSUME NEW b \in Builders, write(b)
      PROVE  LocksInv'
  <2>1. LocksTyped'
    BY <1>8, ClaimTypes
  <2>2. LockOrder'
    BY <1>8 DEF write, LockOrder, Held
  <2>3. QED
    BY <2>1, <2>2
<1>9. ASSUME NEW b \in Builders, Insert(b)
      PROVE  LocksInv'
  <2>1. PICK rest \in {Tail(todo[b]), <<>>} :
          /\ Granted(b)
          /\ claimed' = [claimed EXCEPT ![Head(todo[b])] = Free]
          /\ todo' = [todo EXCEPT ![b] = rest]
          /\ UNCHANGED <<holds, waits, reentered>>
    BY <1>9 DEF Insert, insert, insert_err
  <2>2. rest \in Calls \cup {<<>>}
    BY <2>1, CallsShape DEF Granted, LocksTyped, LocksTypeOK, ClaimsCurrent
  <2>3. LocksTyped'
    BY <2>1, <2>2, ReleaseTypes
  <2>4. LockOrder'
    BY <2>1 DEF LockOrder, Held
  <2>5. QED
    BY <2>3, <2>4
<1>10. QED
  BY <1>2, <1>3, <1>4, <1>5, <1>6, <1>7, <1>8, <1>9 DEF LocksNext

\* The types of the lock state hold for any number of threads.
THEOREM LocksTypeCorrect == LocksSpec => []LocksTypeOK
<1>1. LocksInit => LocksInv
  BY InitLocks
<1>2. LocksInv /\ [LocksNext]_lockVars => LocksInv'
  BY StepLocks
<1>3. LocksInv => LocksTypeOK
  BY DEF LocksInv, LocksTyped
<1>4. QED
  BY <1>1, <1>2, <1>3, PTL DEF LocksSpec

\* What the builder at the head of a claimed router waits for.
LEMMA ClaimantBlocked ==
  ASSUME LocksInv, NEW r \in Routers, claimed[r] # Free, NEW u, Blocks(claimed[r], u)
  PROVE  u \in Readers(r)
<1>1. claimed[r] \in Builders /\ todo[claimed[r]] # <<>> /\ Head(todo[claimed[r]]) = r
  BY DEF LocksInv, LocksTyped, LocksTypeOK, ClaimsCurrent
<1>2. QED
  BY <1>1, ThreadsAssumption DEF Blocks

\* The order of the locks leaves no room for a cycle: a thread that waits for
\* a router waits for its claimant, who waits for a reader, who waits for the
\* full merge router and so for a reader of it, who waits for nobody.
LEMMA NoCycle == LocksInv => NoDeadlock
<1>1. SUFFICES ASSUME LocksInv, ~reentered,
                      NEW D \in SUBSET (Workers \cup Builders), D # {},
                      \A t \in D : \E u \in D : Blocks(t, u)
               PROVE  FALSE
  BY DEF NoDeadlock
<1>2. ASSUME NEW w \in D, w \in Workers
      PROVE  waits[w] \in Routers /\ claimed[waits[w]] \in D
  BY <1>1, <1>2, ThreadsAssumption DEF Blocks, LocksInv, LocksTyped, LocksTypeOK
<1>3. ASSUME NEW r \in Routers, claimed[r] \in D
      PROVE  \E w \in D : w \in Workers /\ r \in Held(w)
  <2>1. claimed[r] # Free
    BY <1>3, ThreadsAssumption
  <2>2. PICK u \in D : Blocks(claimed[r], u)
    BY <1>1, <1>3
  <2>3. u \in Readers(r)
    BY <1>1, <2>1, <2>2, ClaimantBlocked
  <2>4. QED
    BY <2>3 DEF Readers
<1>4. ASSUME NEW w \in D, w \in Workers, NEW r \in Held(w)
      PROVE  waits[w] = "full" /\ "full" \notin Held(w)
  <2>1. waits[w] # Free
    BY <1>2, <1>4, ThreadsAssumption
  <2>2. holds[w] # <<>>
    BY <1>4 DEF Held
  <2>3. QED
    BY <1>1, <1>4, <2>1, <2>2 DEF LocksInv, LockOrder
<1>5. \A r \in Routers : claimed[r] \notin D
  <2>1. SUFFICES ASSUME NEW r \in Routers, claimed[r] \in D PROVE FALSE
    OBVIOUS
  <2>2. PICK w \in D : w \in Workers /\ r \in Held(w)
    BY <1>3, <2>1
  <2>3. waits[w] = "full" /\ claimed["full"] \in D
    BY <1>2, <1>4, <2>2
  <2>4. PICK v \in D : v \in Workers /\ "full" \in Held(v)
    BY <1>3, <2>3 DEF Routers
  <2>5. QED
    BY <1>4, <2>4
<1>6. PICK t \in D : t \in Workers \cup Builders
  BY <1>1
<1>7. CASE t \in Workers
  BY <1>2, <1>5, <1>6, <1>7
<1>8. CASE t \in Builders
  <2>1. PICK u \in D : Blocks(t, u)
    BY <1>1, <1>6
  <2>2. todo[t] # <<>> /\ Head(todo[t]) \in Routers
    BY <1>1, <1>8, <2>1, CallsShape, ThreadsAssumption DEF Blocks, LocksInv, LocksTyped, LocksTypeOK
  <2>3. t = claimed[Head(todo[t])] \/ u = claimed[Head(todo[t])]
    BY <1>8, <2>1, ThreadsAssumption DEF Blocks
  <2>4. QED
    BY <1>5, <1>6, <2>1, <2>2, <2>3
<1>9. QED
  BY <1>6, <1>7, <1>8

\* Threads wait for each other only after a full merge handler read a store,
\* whatever their number and whenever routes are added: the rule a handler has
\* to obey is the only one there is.
THEOREM DeadlockFree == LocksSpec => []NoDeadlock
<1>1. LocksInit => LocksInv
  BY InitLocks
<1>2. LocksInv /\ [LocksNext]_lockVars => LocksInv'
  BY StepLocks
<1>3. LocksInv => NoDeadlock
  BY NoCycle
<1>4. QED
  BY <1>1, <1>2, <1>3, PTL DEF LocksSpec
=============================================================================

--------------------------- MODULE CFStoreProofs ---------------------------
(* Theorems about the stores and the options they are opened with, for any  *)
(* set of sessions.                                                         *)
(*                                                                          *)
(* First what a list of calls makes of a Tunable, by induction over the     *)
(* list: a set of tunables that every call maps into itself holds the       *)
(* result.  Then the layers of OpenOptions, the types of CFStore, and the   *)
(* answers of its reads.                                                    *)
EXTENDS CFStore, SequenceTheorems, WellFoundedInduction, TLAPS

\* Induction over the natural numbers, for a set.
LEMMA SetInduction ==
  ASSUME NEW T, 0 \in T, \A n \in Nat : n \in T => n + 1 \in T
  PROVE  Nat \subseteq T
<1> SUFFICES ASSUME ~(Nat \subseteq T) PROVE FALSE
  OBVIOUS
<1> DEFINE bad == Nat \ T
<1>1. bad \in SUBSET Nat /\ bad # {}
  OBVIOUS
<1>2. PICK n \in bad : \A m \in bad : n <= m
  <2> HIDE DEF bad
  <2>1. \E x \in bad : \A y \in bad : ~(<<y, x>> \in OpToRel(<, Nat))
    BY <1>1, NatLessThanWellFounded, WFMin
  <2>2. ASSUME NEW x \in Nat, NEW y \in Nat, y < x PROVE <<y, x>> \in OpToRel(<, Nat)
    <3>1. <<y, x>> \in Nat \X Nat /\ <<y, x>>[1] < <<y, x>>[2]
      BY <2>2
    <3>2. QED
      BY <3>1, Zenon DEF OpToRel
  <2>3. \A x, y \in Nat : ~(y < x) => x <= y
    OBVIOUS
  <2>4. QED
    BY <1>1, <2>1, <2>2, <2>3
<1>3. n # 0 /\ n - 1 \in Nat /\ n - 1 \notin bad
  BY <1>2
<1>4. QED
  BY <1>3, <1>2

\* The function that Stages defines exists, and is what its definition says.
LEMMA StagesExist ==
  ASSUME NEW calls, Len(calls) \in Nat, NEW t, NEW who
  PROVE  \E g : g = [i \in 0..Len(calls) |-> IF i = 0 THEN t ELSE Apply(g[i - 1], calls[i], who)]
<1> DEFINE good == {n \in Nat : \E g : g = [i \in 0..n |-> IF i = 0 THEN t ELSE Apply(g[i - 1], calls[i], who)]}
<1>1. 0 \in good
  <2> DEFINE g == [i \in 0..0 |-> t]
  <2>1. g = [i \in 0..0 |-> IF i = 0 THEN t ELSE Apply(g[i - 1], calls[i], who)]
    OBVIOUS
  <2>2. QED
    BY <2>1
<1>2. ASSUME NEW n \in Nat, n \in good PROVE n + 1 \in good
  <2>1. PICK g : g = [i \in 0..n |-> IF i = 0 THEN t ELSE Apply(g[i - 1], calls[i], who)]
    BY <1>2
  <2> DEFINE h == [i \in 0..(n + 1) |-> IF i = n + 1 THEN Apply(g[n], calls[i], who) ELSE g[i]]
  <2>2. ASSUME NEW i \in 0..(n + 1)
        PROVE h[i] = IF i = 0 THEN t ELSE Apply(h[i - 1], calls[i], who)
    <3>1. CASE i = n + 1
      <4>1. h[i] = Apply(g[n], calls[i], who) /\ h[i - 1] = g[n]
        BY <3>1
      <4>2. QED
        BY <4>1, <3>1
    <3>2. CASE i = 0
      BY <3>2, <2>1
    <3>3. CASE i # n + 1 /\ i # 0
      <4>1. h[i] = g[i] /\ h[i - 1] = g[i - 1] /\ i \in 0..n
        BY <3>3
      <4>2. QED
        BY <4>1, <2>1, <3>3
    <3>4. QED
      BY <3>1, <3>2, <3>3
  <2>3. h = [i \in 0..(n + 1) |-> IF i = 0 THEN t ELSE Apply(h[i - 1], calls[i], who)]
    <3>1. h = [i \in 0..(n + 1) |-> h[i]]
      OBVIOUS
    <3> HIDE DEF h
    <3>2. QED
      BY <2>2, <3>1
  <2> HIDE DEF h
  <2>4. QED
    BY <2>3
<1>3. Nat \subseteq good
  <2> HIDE DEF good
  <2>1. QED BY <1>1, <1>2, SetInduction
<1>4. QED
  BY <1>3

LEMMA StagesDef ==
  ASSUME NEW calls, Len(calls) \in Nat, NEW t, NEW who
  PROVE  Stages(t, calls, who) = [i \in 0..Len(calls) |->
           IF i = 0 THEN t ELSE Apply(Stages(t, calls, who)[i - 1], calls[i], who)]
<1>1. PICK g : g = [i \in 0..Len(calls) |-> IF i = 0 THEN t ELSE Apply(g[i - 1], calls[i], who)]
  BY StagesExist
<1>2. QED
  BY <1>1, Zenon DEF Stages

-----------------------------------------------------------------------------
(* Tunables and the calls on them. *)

Writers ==
  { "rocksdb", "config", "callback",
    "LatestValue", "MemorySaver", "RealTime", "TimeSeries", "SparseBitmap" }

MethodKeys == DbOptions \cup CfOptions \cup ManyOptions

Setting == [by : Writers, via : MethodKeys \cup {"default"}]

Tunables(D) == [inner : [D -> Setting], locked : SUBSET MethodKeys]

Calls == [method : {"set", "tune", "inner"}, key : MethodKeys]

Lost(call, locked) == call.method = "tune" /\ call.key \in locked

\* What a call leaves in an option.
Left(t, call, who, o) ==
  IF o \in Writes(call.key) /\ ~Lost(call, t.locked)
  THEN [by |-> who, via |-> call.key] ELSE t.inner[o]

\* A call writes its options, unless it is lost; "set" locks its key.
LEMMA ApplyFacts ==
  ASSUME NEW D, NEW t \in Tunables(D), NEW call \in Calls, NEW who \in Writers
  PROVE  /\ Apply(t, call, who) \in Tunables(D)
         /\ Apply(t, call, who).locked
              = IF call.method = "set" THEN t.locked \cup {call.key} ELSE t.locked
         /\ \A o \in D : Apply(t, call, who).inner[o] = Left(t, call, who, o)
<1> DEFINE W == Writes(call.key)
           f == [o \in D |-> IF o \in W THEN [by |-> who, via |-> call.key] ELSE t.inner[o]]
<1> HIDE DEF W
<1>1. t = [inner |-> t.inner, locked |-> t.locked] /\ t.inner \in [D -> Setting] /\ t.locked \subseteq MethodKeys
  BY DEF Tunables
<1>2. call.key \in MethodKeys /\ call.method \in {"set", "tune", "inner"}
  BY DEF Calls
<1>3. f \in [D -> Setting]
  BY <1>1, <1>2 DEF Setting
<1>4. inner(t, call.key, who) = [inner |-> f, locked |-> t.locked]
  BY <1>1 DEF inner, W
<1>5. set_(t, call.key, who) = [inner |-> f, locked |-> t.locked \cup {call.key}]
  <2> DEFINE r == inner(t, call.key, who)
             L == t.locked
  <2>1. r = [inner |-> f, locked |-> L]
    BY <1>4
  <2>2. set_(t, call.key, who) = [r EXCEPT !.locked = @ \cup {call.key}]
    BY DEF set_
  <2> HIDE DEF f, r, L
  <2>3. [r EXCEPT !.locked = @ \cup {call.key}] = [inner |-> f, locked |-> L \cup {call.key}]
    BY <2>1
  <2>4. QED
    BY <2>2, <2>3 DEF L
<1>6. tune_set_(t, call.key, who)
        = IF call.key \in t.locked THEN t ELSE [inner |-> f, locked |-> t.locked]
  BY <1>4 DEF tune_set_, is_locked
<1>7. CASE call.method = "set"
  <2>1. Apply(t, call, who) = [inner |-> f, locked |-> t.locked \cup {call.key}]
    BY <1>5, <1>7 DEF Apply
  <2>2. QED
    BY <2>1, <1>1, <1>2, <1>3, <1>7 DEF Tunables, Lost, Left, W
<1>8. CASE call.method = "tune"
  <2>1. Apply(t, call, who) = IF call.key \in t.locked THEN t ELSE [inner |-> f, locked |-> t.locked]
    BY <1>6, <1>8 DEF Apply
  <2>2. QED
    BY <2>1, <1>1, <1>2, <1>3, <1>8 DEF Tunables, Lost, Left, W
<1>9. CASE call.method = "inner"
  <2>1. Apply(t, call, who) = [inner |-> f, locked |-> t.locked]
    BY <1>4, <1>9 DEF Apply
  <2>2. QED
    BY <2>1, <1>1, <1>2, <1>3, <1>9 DEF Tunables, Lost, Left, W
<1>10. QED
  BY <1>2, <1>7, <1>8, <1>9

LEMMA ApplyTyped ==
  ASSUME NEW D, NEW t \in Tunables(D), NEW call \in Calls, NEW who \in Writers
  PROVE  Apply(t, call, who) \in Tunables(D)
BY ApplyFacts

LEMMA ApplyLocks ==
  ASSUME NEW D, NEW t \in Tunables(D), NEW call \in Calls, NEW who \in Writers
  PROVE  Apply(t, call, who).locked
           = IF call.method = "set" THEN t.locked \cup {call.key} ELSE t.locked
BY ApplyFacts

LEMMA ApplyWrites ==
  ASSUME NEW D, NEW t \in Tunables(D), NEW call \in Calls, NEW who \in Writers, NEW o \in D
  PROVE  Apply(t, call, who).inner[o] = Left(t, call, who, o)
BY ApplyFacts

LEMMA StagesFacts ==
  ASSUME NEW t, NEW calls \in Seq(Calls), NEW who
  PROVE  /\ Stages(t, calls, who)[0] = t
         /\ \A n \in 1..Len(calls) :
              Stages(t, calls, who)[n] = Apply(Stages(t, calls, who)[n - 1], calls[n], who)
         /\ ApplyAll(t, calls, who) = Stages(t, calls, who)[Len(calls)]
<1> DEFINE after == Stages(t, calls, who)
<1>1. after = [i \in 0..Len(calls) |-> IF i = 0 THEN t ELSE Apply(after[i - 1], calls[i], who)]
  <2>1. Len(calls) \in Nat
    OBVIOUS
  <2>2. QED
    BY <2>1, StagesDef
<1> HIDE DEF after
<1>2. after[0] = t
  BY <1>1
<1>3. ASSUME NEW n \in 1..Len(calls)
      PROVE  after[n] = Apply(after[n - 1], calls[n], who)
  <2>1. n \in 0..Len(calls) /\ n # 0
    OBVIOUS
  <2>2. QED
    BY <2>1, <1>1
<1>4. QED
  BY <1>2, <1>3 DEF after, ApplyAll

LEMMA StagesStep ==
  ASSUME NEW t, NEW calls \in Seq(Calls), NEW who, NEW n \in 1..Len(calls)
  PROVE  Stages(t, calls, who)[n] = Apply(Stages(t, calls, who)[n - 1], calls[n], who)
BY StagesFacts

LEMMA StagesEnds ==
  ASSUME NEW t, NEW calls \in Seq(Calls), NEW who
  PROVE  /\ Stages(t, calls, who)[0] = t
         /\ ApplyAll(t, calls, who) = Stages(t, calls, who)[Len(calls)]
BY StagesFacts

\* A set that every call maps into itself is not left.
LEMMA StagesStay ==
  ASSUME NEW t, NEW S, NEW calls \in Seq(Calls), NEW who, NEW from \in 0..Len(calls),
         Stages(t, calls, who)[from] \in S,
         \A u \in S : \A i \in DOMAIN calls : Apply(u, calls[i], who) \in S
  PROVE  \A n \in from..Len(calls) : Stages(t, calls, who)[n] \in S
<1> DEFINE after == Stages(t, calls, who)
           good == {n \in Nat : from + n <= Len(calls) => after[from + n] \in S}
<1>1. Len(calls) \in Nat /\ DOMAIN calls = 1..Len(calls)
  OBVIOUS
<1>2. \A n \in 1..Len(calls) : after[n] = Apply(after[n - 1], calls[n], who)
  BY <1>1, StagesFacts
<1> HIDE DEF after
<1>3. 0 \in good
  BY DEF after
<1>4. ASSUME NEW n \in Nat, n \in good PROVE n + 1 \in good
  <2> SUFFICES ASSUME from + (n + 1) <= Len(calls) PROVE after[from + (n + 1)] \in S
    OBVIOUS
  <2>1. after[from + n] \in S
    BY <1>4, <1>1
  <2>2. from + (n + 1) \in 1..Len(calls) /\ (from + (n + 1)) - 1 = from + n
    BY <1>1
  <2>3. QED
    BY <2>1, <2>2, <1>1, <1>2
<1>5. Nat \subseteq good
  <2> HIDE DEF good
  <2>1. QED BY <1>3, <1>4, SetInduction
<1>6. ASSUME NEW n \in from..Len(calls) PROVE after[n] \in S
  <2>1. n - from \in Nat /\ from + (n - from) = n /\ n <= Len(calls)
    BY <1>1
  <2>2. n - from \in good
    BY <2>1, <1>5
  <2>3. QED
    BY <2>1, <2>2
<1>7. QED
  BY <1>6 DEF after

LEMMA ApplyAllStays ==
  ASSUME NEW t, NEW S, NEW calls \in Seq(Calls), NEW who, t \in S,
         \A u \in S : \A i \in DOMAIN calls : Apply(u, calls[i], who) \in S
  PROVE  ApplyAll(t, calls, who) \in S
<1>1. Len(calls) \in Nat /\ 0 \in 0..Len(calls) /\ Len(calls) \in 0..Len(calls)
  OBVIOUS
<1>2. Stages(t, calls, who)[0] = t /\ ApplyAll(t, calls, who) = Stages(t, calls, who)[Len(calls)]
  BY StagesFacts
<1>3. \A n \in 0..Len(calls) : Stages(t, calls, who)[n] \in S
  BY <1>1, <1>2, StagesStay
<1>4. QED
  BY <1>1, <1>2, <1>3

LEMMA ApplyAllTyped ==
  ASSUME NEW D, NEW t \in Tunables(D), NEW calls \in Seq(Calls), NEW who \in Writers
  PROVE  /\ ApplyAll(t, calls, who) \in Tunables(D)
         /\ \A n \in 0..Len(calls) : Stages(t, calls, who)[n] \in Tunables(D)
<1>1. \A u \in Tunables(D) : \A i \in DOMAIN calls : Apply(u, calls[i], who) \in Tunables(D)
  <2>1. \A i \in DOMAIN calls : calls[i] \in Calls
    OBVIOUS
  <2>2. QED
    BY <2>1, ApplyTyped, ApplyLocks, ApplyWrites
<1>2. Len(calls) \in Nat /\ 0 \in 0..Len(calls)
  OBVIOUS
<1>3. Stages(t, calls, who)[0] = t
  BY StagesFacts
<1>4. \A n \in 0..Len(calls) : Stages(t, calls, who)[n] \in Tunables(D)
  BY <1>1, <1>2, <1>3, StagesStay
<1>5. QED
  BY <1>1, <1>4, ApplyAllStays

\* What some calls with other keys have not written stays as it was.
LEMMA Untouched ==
  ASSUME NEW D, NEW t \in Tunables(D), NEW calls \in Seq(Calls), NEW who \in Writers,
         NEW o \in D, \A i \in DOMAIN calls : o \notin Writes(calls[i].key)
  PROVE  ApplyAll(t, calls, who).inner[o] = t.inner[o]
<1> DEFINE S == {u \in Tunables(D) : u.inner[o] = t.inner[o]}
<1>1. ASSUME NEW u \in S, NEW i \in DOMAIN calls PROVE Apply(u, calls[i], who) \in S
  <2> DEFINE v == Apply(u, calls[i], who)
  <2>1. calls[i] \in Calls /\ u \in Tunables(D)
    OBVIOUS
  <2>2. /\ v \in Tunables(D)
        /\ v.inner[o] = Left(u, calls[i], who, o)
    BY <2>1, ApplyTyped, ApplyLocks, ApplyWrites
  <2> HIDE DEF v
  <2>3. v \in S
    BY <2>2 DEF Left
  <2>4. QED
    BY <2>3 DEF v
<1>2. t \in S
  OBVIOUS
<1> HIDE DEF S
<1>3. ApplyAll(t, calls, who) \in S
  BY <1>1, <1>2, ApplyAllStays
<1>4. QED
  BY <1>3 DEF S

\* Who last wrote an option is who it was, or who makes these calls.
LEMMA WrittenBy ==
  ASSUME NEW D, NEW t \in Tunables(D), NEW calls \in Seq(Calls), NEW who \in Writers,
         NEW o \in D
  PROVE  ApplyAll(t, calls, who).inner[o].by \in {who, t.inner[o].by}
<1> DEFINE S == {u \in Tunables(D) : u.inner[o].by \in {who, t.inner[o].by}}
<1>1. ASSUME NEW u \in S, NEW i \in DOMAIN calls PROVE Apply(u, calls[i], who) \in S
  <2> DEFINE v == Apply(u, calls[i], who)
  <2>1. calls[i] \in Calls /\ u \in Tunables(D)
    OBVIOUS
  <2>2. /\ v \in Tunables(D)
        /\ v.inner[o] = Left(u, calls[i], who, o)
    BY <2>1, ApplyTyped, ApplyLocks, ApplyWrites
  <2> HIDE DEF v
  <2>3. v \in S
    BY <2>2 DEF Left
  <2>4. QED
    BY <2>3 DEF v
<1>2. t \in S
  OBVIOUS
<1> HIDE DEF S
<1>3. ApplyAll(t, calls, who) \in S
  BY <1>1, <1>2, ApplyAllStays
<1>4. QED
  BY <1>3 DEF S

\* An option that only one method writes stays as it was once that is locked,
\* if all the calls are of tune_ methods.
LEMMA Protected ==
  ASSUME NEW D, NEW t \in Tunables(D), NEW calls \in Seq(Calls), NEW who \in Writers,
         NEW o \in D, NEW key \in t.locked,
         \A i \in DOMAIN calls :
           calls[i].method = "tune" /\ (o \in Writes(calls[i].key) => calls[i].key = key)
  PROVE  ApplyAll(t, calls, who).inner[o] = t.inner[o]
<1> DEFINE S == {u \in Tunables(D) : key \in u.locked /\ u.inner[o] = t.inner[o]}
<1>1. ASSUME NEW u \in S, NEW i \in DOMAIN calls PROVE Apply(u, calls[i], who) \in S
  <2> DEFINE v == Apply(u, calls[i], who)
  <2>1. calls[i] \in Calls /\ u \in Tunables(D)
    OBVIOUS
  <2>2. /\ v \in Tunables(D)
        /\ v.inner[o] = Left(u, calls[i], who, o)
        /\ v.locked = IF calls[i].method = "set" THEN u.locked \cup {calls[i].key} ELSE u.locked
    BY <2>1, ApplyTyped, ApplyLocks, ApplyWrites
  <2> HIDE DEF v
  <2>3. v \in S
    BY <2>2 DEF Left, Lost
  <2>4. QED
    BY <2>3 DEF v
<1>2. t \in S
  OBVIOUS
<1> HIDE DEF S
<1>3. ApplyAll(t, calls, who) \in S
  BY <1>1, <1>2, ApplyAllStays
<1>4. QED
  BY <1>3 DEF S

\* Only set_ methods lock.
LEMMA LockedAtMost ==
  ASSUME NEW D, NEW t \in Tunables(D), NEW calls \in Seq(Calls), NEW who \in Writers,
         NEW keys, t.locked \subseteq keys,
         \A i \in DOMAIN calls : calls[i].method = "set" => calls[i].key \in keys
  PROVE  ApplyAll(t, calls, who).locked \subseteq keys
<1> DEFINE S == {u \in Tunables(D) : u.locked \subseteq keys}
<1>1. ASSUME NEW u \in S, NEW i \in DOMAIN calls PROVE Apply(u, calls[i], who) \in S
  <2> DEFINE v == Apply(u, calls[i], who)
  <2>1. calls[i] \in Calls /\ u \in Tunables(D)
    OBVIOUS
  <2>2. /\ v \in Tunables(D)
        /\ v.locked = IF calls[i].method = "set" THEN u.locked \cup {calls[i].key} ELSE u.locked
    BY <2>1, ApplyTyped, ApplyLocks, ApplyWrites
  <2> HIDE DEF v
  <2>3. v \in S
    BY <2>2
  <2>4. QED
    BY <2>3 DEF v
<1>2. t \in S
  OBVIOUS
<1> HIDE DEF S
<1>3. ApplyAll(t, calls, who) \in S
  BY <1>1, <1>2, ApplyAllStays
<1>4. QED
  BY <1>3 DEF S

\* Whoever makes the calls has the last word on all the options they write,
\* but for a tune_ call on a key that was locked before.
LEMMA Prevails ==
  ASSUME NEW D, NEW t \in Tunables(D), NEW calls \in Seq(Calls), NEW who \in Writers,
         NEW at \in DOMAIN calls, ~Lost(calls[at], t.locked),
         NEW o \in D, o \in Writes(calls[at].key)
  PROVE  ApplyAll(t, calls, who).inner[o].by = who
<1> DEFINE key == calls[at].key
           S == {u \in Tunables(D) : u.inner[o].by = who}
           B == {u \in Tunables(D) : key \in u.locked => key \in t.locked \/ u.inner[o].by = who}
<1> HIDE DEF key
<1>1. ASSUME NEW u \in S, NEW i \in DOMAIN calls PROVE Apply(u, calls[i], who) \in S
  <2> DEFINE v == Apply(u, calls[i], who)
  <2>1. calls[i] \in Calls /\ u \in Tunables(D)
    OBVIOUS
  <2>2. /\ v \in Tunables(D)
        /\ v.inner[o] = Left(u, calls[i], who, o)
    BY <2>1, ApplyTyped, ApplyLocks, ApplyWrites
  <2> HIDE DEF v
  <2>3. v \in S
    BY <2>2 DEF Left
  <2>4. QED
    BY <2>3 DEF v
<1>2. ASSUME NEW u \in B, NEW i \in DOMAIN calls PROVE Apply(u, calls[i], who) \in B
  <2> DEFINE v == Apply(u, calls[i], who)
  <2>1. calls[i] \in Calls /\ u \in Tunables(D) /\ o \in Writes(key)
    BY DEF key
  <2>2. /\ v \in Tunables(D)
        /\ v.inner[o] = Left(u, calls[i], who, o)
        /\ v.locked = IF calls[i].method = "set" THEN u.locked \cup {calls[i].key} ELSE u.locked
    BY <2>1, ApplyTyped, ApplyLocks, ApplyWrites
  <2> HIDE DEF v
  <2>3. v \in B
    BY <2>1, <2>2 DEF Left, Lost
  <2>4. QED
    BY <2>3 DEF v
<1>3. /\ at \in 1..Len(calls) /\ at \in 0..Len(calls) /\ at - 1 \in 0..Len(calls)
      /\ Len(calls) \in at..Len(calls) /\ calls[at] \in Calls /\ 0 \in 0..Len(calls)
  OBVIOUS
<1>4. Stages(t, calls, who)[at] = Apply(Stages(t, calls, who)[at - 1], calls[at], who)
      /\ ApplyAll(t, calls, who) = Stages(t, calls, who)[Len(calls)]
      /\ Stages(t, calls, who)[0] = t
  BY <1>3, StagesFacts
<1>5. t \in B
  OBVIOUS
<1>6. Stages(t, calls, who)[at - 1] \in B
  <2> HIDE DEF B
  <2>1. \A n \in 0..Len(calls) : Stages(t, calls, who)[n] \in B
    BY <1>2, <1>3, <1>4, <1>5, StagesStay
  <2>2. QED
    BY <2>1, <1>3
<1>7. Stages(t, calls, who)[at] \in S
  <2> DEFINE before == Stages(t, calls, who)[at - 1]
  <2> HIDE DEF before
  <2>1. before \in Tunables(D) /\ (key \in before.locked => key \in t.locked \/ before.inner[o].by = who)
    BY <1>6 DEF before
  <2>2. /\ Apply(before, calls[at], who) \in Tunables(D)
        /\ Apply(before, calls[at], who).inner[o] = Left(before, calls[at], who, o)
    BY <2>1, <1>3, ApplyTyped, ApplyLocks, ApplyWrites
  <2>3. Apply(before, calls[at], who).inner[o].by = who
    BY <2>1, <2>2 DEF Left, Lost, key
  <2>4. QED
    BY <2>2, <2>3, <1>4 DEF before
<1> HIDE DEF S
<1>8. \A n \in at..Len(calls) : Stages(t, calls, who)[n] \in S
  BY <1>1, <1>3, <1>7, StagesStay
<1>9. ApplyAll(t, calls, who) \in S
  BY <1>3, <1>4, <1>8
<1>10. QED
  BY <1>9 DEF S

\* Calls made on two tunables that differ in one method's key and options
\* only: they differ in nothing else afterwards.
Similar(D, key, t, u) ==
  /\ \A o \in D \ Writes(key) : t.inner[o] = u.inner[o]
  /\ t.locked \ {key} = u.locked \ {key}

LEMMA SimilarStep ==
  ASSUME NEW D, NEW t \in Tunables(D), NEW u \in Tunables(D), NEW key, Similar(D, key, t, u),
         NEW call \in Calls, NEW other \in Calls, NEW who \in Writers,
         call = other \/ (call.key = key /\ other.key = key)
  PROVE  Similar(D, key, Apply(t, call, who), Apply(u, other, who))
<1> DEFINE t1 == Apply(t, call, who)
           u1 == Apply(u, other, who)
<1>1. t1.locked = IF call.method = "set" THEN t.locked \cup {call.key} ELSE t.locked
  BY ApplyLocks
<1>2. u1.locked = IF other.method = "set" THEN u.locked \cup {other.key} ELSE u.locked
  BY ApplyLocks
<1>3. \A o \in D : t1.inner[o] = Left(t, call, who, o)
  BY ApplyWrites
<1>4. \A o \in D : u1.inner[o] = Left(u, other, who, o)
  BY ApplyWrites
<1> HIDE DEF t1, u1
<1>5. t1.locked \ {key} = u1.locked \ {key}
  BY <1>1, <1>2 DEF Similar
<1>6. ASSUME NEW o \in D \ Writes(key) PROVE t1.inner[o] = u1.inner[o]
  <2>1. t.inner[o] = u.inner[o] /\ t.locked \ {key} = u.locked \ {key}
    BY DEF Similar
  <2>2. t1.inner[o] = Left(t, call, who, o) /\ u1.inner[o] = Left(u, other, who, o)
    BY <1>3, <1>4
  <2>3. CASE call.key = key
    BY <2>1, <2>2, <2>3 DEF Left
  <2>4. CASE call.key # key
    <3>1. call = other /\ (call.key \in t.locked <=> other.key \in u.locked)
      BY <2>1, <2>4
    <3>2. Lost(call, t.locked) <=> Lost(other, u.locked)
      BY <3>1 DEF Lost
    <3>3. QED
      BY <2>1, <2>2, <3>1, <3>2 DEF Left
  <2>5. QED
    BY <2>3, <2>4
<1>7. QED
  BY <1>5, <1>6 DEF Similar, t1, u1

LEMMA Alike ==
  ASSUME NEW D, NEW t \in Tunables(D), NEW u \in Tunables(D), NEW key, Similar(D, key, t, u),
         NEW calls \in Seq(Calls), NEW who \in Writers
  PROVE  Similar(D, key, ApplyAll(t, calls, who), ApplyAll(u, calls, who))
<1> DEFINE f == Stages(t, calls, who)
           g == Stages(u, calls, who)
           good == {n \in Nat : n <= Len(calls) => Similar(D, key, f[n], g[n])}
<1>1. /\ f[0] = t /\ ApplyAll(t, calls, who) = f[Len(calls)]
      /\ \A n \in 1..Len(calls) : f[n] = Apply(f[n - 1], calls[n], who)
  <2>1. f[0] = t /\ ApplyAll(t, calls, who) = f[Len(calls)]
    BY StagesEnds
  <2>2. \A n \in 1..Len(calls) : f[n] = Apply(f[n - 1], calls[n], who)
    BY StagesStep
  <2>3. QED
    BY <2>1, <2>2
<1>2. /\ g[0] = u /\ ApplyAll(u, calls, who) = g[Len(calls)]
      /\ \A n \in 1..Len(calls) : g[n] = Apply(g[n - 1], calls[n], who)
  <2>1. g[0] = u /\ ApplyAll(u, calls, who) = g[Len(calls)]
    BY StagesEnds
  <2>2. \A n \in 1..Len(calls) : g[n] = Apply(g[n - 1], calls[n], who)
    BY StagesStep
  <2>3. QED
    BY <2>1, <2>2
<1>3. \A n \in 0..Len(calls) : f[n] \in Tunables(D)
  BY ApplyAllTyped
<1>4. \A n \in 0..Len(calls) : g[n] \in Tunables(D)
  BY ApplyAllTyped
<1> HIDE DEF f, g
<1>5. 0 \in good
  BY <1>1, <1>2
<1>6. ASSUME NEW n \in Nat, n \in good PROVE n + 1 \in good
  <2> SUFFICES ASSUME n + 1 <= Len(calls) PROVE Similar(D, key, f[n + 1], g[n + 1])
    OBVIOUS
  <2>1. /\ n \in 0..Len(calls) /\ n + 1 \in 1..Len(calls) /\ (n + 1) - 1 = n
        /\ calls[n + 1] \in Calls
    OBVIOUS
  <2>2. f[n + 1] = Apply(f[n], calls[n + 1], who) /\ g[n + 1] = Apply(g[n], calls[n + 1], who)
    BY <2>1, <1>1, <1>2
  <2>3. Similar(D, key, f[n], g[n]) /\ f[n] \in Tunables(D) /\ g[n] \in Tunables(D)
    BY <2>1, <1>3, <1>4, <1>6
  <2>4. Similar(D, key, Apply(f[n], calls[n + 1], who), Apply(g[n], calls[n + 1], who))
    BY <2>1, <2>3, SimilarStep
  <2>5. QED
    BY <2>2, <2>4
<1>7. Len(calls) \in good
  <2> HIDE DEF good
  <2>1. Nat \subseteq good
    BY <1>5, <1>6, SetInduction
  <2>2. QED
    BY <2>1
<1>8. QED
  BY <1>1, <1>2, <1>7

\* One list after the other.
LEMMA ApplyConcat ==
  ASSUME NEW t, NEW a \in Seq(Calls), NEW b \in Seq(Calls), NEW who
  PROVE  ApplyAll(t, a \o b, who) = ApplyAll(ApplyAll(t, a, who), b, who)
<1> DEFINE ab == a \o b
           m == ApplyAll(t, a, who)
           f == Stages(t, ab, who)
           g == Stages(t, a, who)
           h == Stages(m, b, who)
           first == {n \in Nat : n <= Len(a) => f[n] = g[n]}
           second == {n \in Nat : n <= Len(b) => f[Len(a) + n] = h[n]}
<1>1. /\ ab \in Seq(Calls) /\ Len(a) \in Nat /\ Len(b) \in Nat /\ Len(ab) = Len(a) + Len(b)
      /\ \A n \in 1..Len(a) : ab[n] = a[n]
      /\ \A n \in 1..Len(b) : ab[Len(a) + n] = b[n]
  OBVIOUS
<1> HIDE DEF ab
<1>2. /\ f[0] = t /\ ApplyAll(t, ab, who) = f[Len(ab)]
      /\ \A n \in 1..Len(ab) : f[n] = Apply(f[n - 1], ab[n], who)
  <2>1. f[0] = t /\ ApplyAll(t, ab, who) = f[Len(ab)]
    <3>1. ab \in Seq(Calls)
      BY <1>1
    <3>2. QED
      BY <3>1, StagesEnds
  <2>2. \A n \in 1..Len(ab) : f[n] = Apply(f[n - 1], ab[n], who)
    <3>1. ab \in Seq(Calls)
      BY <1>1
    <3>2. QED
      BY <3>1, StagesStep
  <2>3. QED
    BY <2>1, <2>2
<1>3. /\ g[0] = t /\ m = g[Len(a)]
      /\ \A n \in 1..Len(a) : g[n] = Apply(g[n - 1], a[n], who)
  <2>1. g[0] = t /\ m = g[Len(a)]
    BY StagesEnds
  <2>2. \A n \in 1..Len(a) : g[n] = Apply(g[n - 1], a[n], who)
    BY StagesStep
  <2>3. QED
    BY <2>1, <2>2
<1>4. /\ h[0] = m /\ ApplyAll(m, b, who) = h[Len(b)]
      /\ \A n \in 1..Len(b) : h[n] = Apply(h[n - 1], b[n], who)
  <2>1. h[0] = m /\ ApplyAll(m, b, who) = h[Len(b)]
    BY StagesEnds
  <2>2. \A n \in 1..Len(b) : h[n] = Apply(h[n - 1], b[n], who)
    BY StagesStep
  <2>3. QED
    BY <2>1, <2>2
<1> HIDE DEF f, g, h
<1>5. f[Len(a)] = g[Len(a)]
  <2>1. 0 \in first
    BY <1>2, <1>3
  <2>2. ASSUME NEW n \in Nat, n \in first PROVE n + 1 \in first
    <3> SUFFICES ASSUME n + 1 <= Len(a) PROVE f[n + 1] = g[n + 1]
      OBVIOUS
    <3>1. n + 1 \in 1..Len(a) /\ n + 1 \in 1..Len(ab) /\ (n + 1) - 1 = n /\ f[n] = g[n]
      BY <1>1, <2>2
    <3>2. f[n + 1] = Apply(f[n], ab[n + 1], who) /\ g[n + 1] = Apply(g[n], a[n + 1], who)
      BY <3>1, <1>2, <1>3
    <3>3. QED
      BY <3>1, <3>2, <1>1
  <2> HIDE DEF first
  <2>3. Len(a) \in first
    BY <1>1, <2>1, <2>2, SetInduction
  <2>4. QED
    BY <2>3, <1>1 DEF first
<1>6. f[Len(a) + Len(b)] = h[Len(b)]
  <2>1. 0 \in second
    BY <1>1, <1>3, <1>4, <1>5
  <2>2. ASSUME NEW n \in Nat, n \in second PROVE n + 1 \in second
    <3> SUFFICES ASSUME n + 1 <= Len(b) PROVE f[Len(a) + (n + 1)] = h[n + 1]
      OBVIOUS
    <3>1. /\ n + 1 \in 1..Len(b) /\ Len(a) + (n + 1) \in 1..Len(ab)
          /\ (Len(a) + (n + 1)) - 1 = Len(a) + n /\ (n + 1) - 1 = n /\ f[Len(a) + n] = h[n]
      BY <1>1, <2>2
    <3>2. /\ f[Len(a) + (n + 1)] = Apply(f[Len(a) + n], ab[Len(a) + (n + 1)], who)
          /\ h[n + 1] = Apply(h[n], b[n + 1], who)
      BY <3>1, <1>2, <1>4
    <3>3. QED
      BY <3>1, <3>2, <1>1
  <2> HIDE DEF second
  <2>3. Len(b) \in second
    BY <1>1, <2>1, <2>2, SetInduction
  <2>4. QED
    BY <2>3, <1>1 DEF second
<1>7. QED
  BY <1>1, <1>2, <1>4, <1>6 DEF ab

LEMMA ApplyOne ==
  ASSUME NEW t, NEW call \in Calls, NEW who
  PROVE  <<call>> \in Seq(Calls) /\ ApplyAll(t, <<call>>, who) = Apply(t, call, who)
<1> DEFINE calls == <<call>>
<1>1. calls \in Seq(Calls) /\ Len(calls) = 1 /\ calls[1] = call /\ 1 \in 1..Len(calls) /\ 1 - 1 = 0
  <2>1. call \in Calls => <<call>> \in Seq(Calls)
    <3> DEFINE C == Calls
    <3> HIDE DEF C
    <3>1. call \in C => <<call>> \in Seq(C)
      OBVIOUS
    <3>2. QED
      BY <3>1 DEF C
  <2>2. QED
    BY <2>1
<1> HIDE DEF calls
<1>2. /\ Stages(t, calls, who)[0] = t /\ ApplyAll(t, calls, who) = Stages(t, calls, who)[Len(calls)]
  <2>1. calls \in Seq(Calls)
    BY <1>1
  <2>2. QED
    BY <2>1, StagesEnds
<1>3. Stages(t, calls, who)[1] = Apply(Stages(t, calls, who)[1 - 1], calls[1], who)
  BY <1>1, StagesStep
<1>4. calls \in Seq(Calls) /\ ApplyAll(t, calls, who) = Apply(t, call, who)
  BY <1>1, <1>2, <1>3
<1>5. QED
  BY <1>4 DEF calls

LEMMA ApplyNone ==
  ASSUME NEW t, NEW who
  PROVE  <<>> \in Seq(Calls) /\ ApplyAll(t, <<>>, who) = t
<1> DEFINE calls == <<>>
<1>1. calls \in Seq(Calls) /\ Len(calls) = 0
  OBVIOUS
<1> HIDE DEF calls
<1>2. Stages(t, calls, who)[0] = t /\ ApplyAll(t, calls, who) = Stages(t, calls, who)[Len(calls)]
  <2>1. calls \in Seq(Calls)
    BY <1>1
  <2>2. QED
    BY <2>1, StagesEnds
<1>3. calls \in Seq(Calls) /\ ApplyAll(t, calls, who) = t
  BY <1>1, <1>2
<1>4. QED
  BY <1>3 DEF calls

-----------------------------------------------------------------------------
(* The calls of the profiles. *)

TuneCalls(keys) == [method : {"tune"}, key : keys]

LEMMA TuneTyped ==
  ASSUME NEW K, NEW keys \in Seq(K)
  PROVE  Tune(keys) \in Seq(TuneCalls(K))
<1>1. DOMAIN keys = 1..Len(keys) /\ Len(keys) \in Nat /\ \A i \in 1..Len(keys) : keys[i] \in K
  OBVIOUS
<1>2. Tune(keys) = [i \in 1..Len(keys) |-> [method |-> "tune", key |-> keys[i]]]
  BY <1>1 DEF Tune, Call
<1>3. \A i \in 1..Len(keys) : [method |-> "tune", key |-> keys[i]] \in TuneCalls(K)
  BY <1>1 DEF TuneCalls
<1>4. QED
  BY <1>1, <1>2, <1>3, SeqDef

LEMMA WhenTyped ==
  ASSUME NEW K, NEW keys \in Seq(K), NEW profile, NEW flag
  PROVE  When(profile, flag, keys) \in Seq(TuneCalls(K))
<1>1. Tune(keys) \in Seq(TuneCalls(K))
  BY TuneTyped
<1>2. <<>> \in Seq(TuneCalls(K))
  OBVIOUS
<1>3. QED
  BY <1>1, <1>2 DEF When

\* The profiles tune the database, and never what the configuration alone or
\* the callback alone decides.
DbKeys ==
  { "increase_parallelism", "max_open_files", "memtable_writes", "rate_limiter", "row_cache",
    "write_buffer_manager", "max_background_jobs", "bytes_per_sync" }

\* Only one of them writes max_background_jobs by its own name.
DbKeysOf(profile) == IF profile.kind = "RealTime" THEN DbKeys ELSE DbKeys \ {"max_background_jobs"}

Has(calls, call) == \E i \in DOMAIN calls : calls[i] = call

LEMMA DbCallsFacts ==
  ASSUME NEW profile
  PROVE  /\ DbCalls(profile) \in Seq(TuneCalls(DbKeysOf(profile)))
         /\ Has(DbCalls(profile), Call("tune", "increase_parallelism"))
         /\ profile.kind = "RealTime" => Has(DbCalls(profile), Call("tune", "max_background_jobs"))
<1> DEFINE K == DbKeysOf(profile)
           T == Seq(TuneCalls(K))
           memory == MemoryCalls(profile)
           saver == Tune(<<"max_open_files", "increase_parallelism">>)
           real == Tune(<<"increase_parallelism", "max_background_jobs", "bytes_per_sync">>)
           common == Tune(<<"increase_parallelism", "max_open_files", "memtable_writes">>)
           capped == When(profile, "io_cap", <<"rate_limiter">>)
<1>0. /\ DbKeys \ {"max_background_jobs"} \subseteq K
      /\ profile.kind = "RealTime" => DbKeys \subseteq K
  BY DEF DbKeysOf
<1>1. \A a, b \in T : /\ a \o b \in T
                      /\ \A call : Has(a, call) \/ Has(b, call) => Has(a \o b, call)
  <2> DEFINE C == TuneCalls(K)
  <2> HIDE DEF C
  <2>1. ASSUME NEW a \in Seq(C), NEW b \in Seq(C)
        PROVE  /\ a \o b \in Seq(C)
               /\ \A call : Has(a, call) \/ Has(b, call) => Has(a \o b, call)
    <3>1. /\ a \o b \in Seq(C)
          /\ \A i \in DOMAIN a : i \in DOMAIN (a \o b) /\ (a \o b)[i] = a[i]
          /\ \A i \in DOMAIN b : Len(a) + i \in DOMAIN (a \o b) /\ (a \o b)[Len(a) + i] = b[i]
      OBVIOUS
    <3> DEFINE ab == a \o b
    <3> HIDE DEF ab
    <3>2. \A call : Has(a, call) \/ Has(b, call) => Has(ab, call)
      BY <3>1 DEF Has, ab
    <3>3. QED
      BY <3>1, <3>2 DEF ab
  <2>2. QED
    BY <2>1 DEF C
<1> HIDE DEF K
<1>2. common \in T /\ saver \in T /\ (profile.kind = "RealTime" => real \in T)
  <2>1. /\ <<"increase_parallelism", "max_open_files", "memtable_writes">> \in Seq(K)
        /\ <<"max_open_files", "increase_parallelism">> \in Seq(K)
        /\ profile.kind = "RealTime" =>
             <<"increase_parallelism", "max_background_jobs", "bytes_per_sync">> \in Seq(K)
    BY <1>0 DEF DbKeys
  <2>2. QED
    BY <2>1, TuneTyped
<1>3. capped \in T
  <2>1. <<"rate_limiter">> \in Seq(K)
    BY <1>0 DEF DbKeys
  <2>2. QED
    BY <2>1, WhenTyped
<1>4. memory \in T
  <2> DEFINE a == When(profile, "cache", <<"row_cache">>)
             b == When(profile, "wbm", <<"write_buffer_manager">>)
  <2>1. <<"row_cache">> \in Seq(K) /\ <<"write_buffer_manager">> \in Seq(K)
    BY <1>0 DEF DbKeys
  <2>2. a \in T /\ b \in T
    BY <2>1, WhenTyped
  <2>3. memory = a \o b
    BY DEF MemoryCalls
  <2> HIDE DEF T, a, b, memory
  <2>4. QED
    BY <2>2, <2>3, <1>1
<1>5. <<>> \in T
  OBVIOUS
<1> DEFINE rest == CASE profile.kind = "MemorySaver" -> memory \o saver
                     [] profile.kind = "RealTime" -> memory \o real
                     [] OTHER -> <<>>
<1>6. DbCalls(profile) = (common \o capped) \o rest
  BY DEF DbCalls
<1>7. Has(common, Call("tune", "increase_parallelism")) /\ Has(real, Call("tune", "max_background_jobs"))
  <2>1. 1 \in DOMAIN common /\ common[1] = Call("tune", "increase_parallelism")
    BY DEF Tune
  <2>2. 2 \in DOMAIN real /\ real[2] = Call("tune", "max_background_jobs")
    BY DEF Tune
  <2> HIDE DEF common, real
  <2>3. QED
    BY <2>1, <2>2 DEF Has
<1> HIDE DEF T, common, capped, memory, saver, real
<1>8. rest \in T /\ (profile.kind = "RealTime" => Has(rest, Call("tune", "max_background_jobs")))
  <2>1. CASE profile.kind = "MemorySaver"
    BY <2>1, <1>1, <1>2, <1>4
  <2>2. CASE profile.kind = "RealTime"
    BY <2>2, <1>1, <1>2, <1>4, <1>7
  <2>3. CASE profile.kind # "MemorySaver" /\ profile.kind # "RealTime"
    BY <2>3, <1>5
  <2>4. QED
    BY <2>1, <2>2, <2>3
<1> HIDE DEF rest
<1>9. common \o capped \in T /\ Has(common \o capped, Call("tune", "increase_parallelism"))
  BY <1>1, <1>2, <1>3, <1>7
<1> DEFINE calls == (common \o capped) \o rest
<1>10. /\ calls \in T /\ Has(calls, Call("tune", "increase_parallelism"))
       /\ profile.kind = "RealTime" => Has(calls, Call("tune", "max_background_jobs"))
  BY <1>1, <1>8, <1>9
<1>11. QED
  BY <1>6, <1>10 DEF T, K

\* They tune a column family, and lock nothing but max_open_files, for FIFO
\* compaction.
CfLines(profile) ==
  {call \in Calls : call.method = "set" => call.key = "max_open_files" /\ "fifo" \in profile.flags}

LEMMA TuneLines ==
  ASSUME NEW profile, NEW keys \in Seq(MethodKeys)
  PROVE  /\ Tune(keys) \in Seq(CfLines(profile))
         /\ \A flag : When(profile, flag, keys) \in Seq(CfLines(profile))
<1>1. DOMAIN keys = 1..Len(keys) /\ Len(keys) \in Nat /\ \A i \in 1..Len(keys) : keys[i] \in MethodKeys
  OBVIOUS
<1>2. Tune(keys) = [i \in 1..Len(keys) |-> [method |-> "tune", key |-> keys[i]]]
  BY <1>1 DEF Tune, Call
<1>3. \A i \in 1..Len(keys) : [method |-> "tune", key |-> keys[i]] \in CfLines(profile)
  BY <1>1 DEF CfLines, Calls
<1>4. Tune(keys) \in Seq(CfLines(profile))
  BY <1>1, <1>2, <1>3, SeqDef
<1>5. <<>> \in Seq(CfLines(profile))
  OBVIOUS
<1>6. QED
  BY <1>4, <1>5 DEF When

LEMMA CfCallsTyped ==
  ASSUME NEW profile \in Profiles
  PROVE  CfCalls(profile) \in Seq(CfLines(profile))
<1> DEFINE T == Seq(CfLines(profile))
<1>1. \A a, b \in T : a \o b \in T
  <2> DEFINE C == CfLines(profile)
  <2> HIDE DEF C
  <2>1. \A a, b \in Seq(C) : a \o b \in Seq(C)
    OBVIOUS
  <2>2. QED
    BY <2>1 DEF C
<1>2. <<>> \in T
  OBVIOUS
<1>3. \A keys \in Seq(MethodKeys) : Tune(keys) \in T /\ \A flag : When(profile, flag, keys) \in T
  BY TuneLines
<1>4. "fifo" \in profile.flags => <<Call("set", "max_open_files")>> \in T
  <2>1. "fifo" \in profile.flags => Call("set", "max_open_files") \in CfLines(profile)
    BY DEF Call, CfLines, Calls, MethodKeys, CfOptions
  <2>2. QED
    BY <2>1
<1> HIDE DEF T
<1>5. LatestValueCalls(profile) \in T
  <2>1. /\ <<"write_buffer_size", "max_write_buffer_number", "compaction_style", "level0",
              "compression_type">> \in Seq(MethodKeys)
        /\ <<"bottommost_compression_type">> \in Seq(MethodKeys)
        /\ <<"block_based_table_factory">> \in Seq(MethodKeys)
    BY DEF MethodKeys, DbOptions, CfOptions, ManyOptions
  <2>2. QED
    BY <2>1, <1>1, <1>3 DEF LatestValueCalls
<1>6. MemorySaverCalls(profile) \in T
  <2>1. <<"write_buffer_size", "max_write_buffer_number", "compression_type",
          "block_based_table_factory", "optimize_level_style_compaction">> \in Seq(MethodKeys)
    BY DEF MethodKeys, DbOptions, CfOptions, ManyOptions
  <2>2. QED
    BY <2>1, <1>3 DEF MemorySaverCalls
<1>7. RealTimeCalls(profile) \in T
  <2>1. <<"write_buffer_size", "max_write_buffer_number", "compaction_style", "level0",
          "compression_type", "block_based_table_factory", "optimize_filters_for_hits">> \in Seq(MethodKeys)
    BY DEF MethodKeys, DbOptions, CfOptions, ManyOptions
  <2>2. QED
    BY <2>1, <1>3 DEF RealTimeCalls
<1>8. TimeSeriesCalls(profile) \in T
  <2> DEFINE a == Tune(<<"write_buffer_size", "compression_type">>)
             b == When(profile, "compress", <<"bottommost_compression_type">>)
             c == Tune(<<"compaction_style">>)
             d == When(profile, "fifo_size", <<"compaction_options_fifo">>)
             e == <<Call("set", "max_open_files")>>
  <2>1. /\ <<"write_buffer_size", "compression_type">> \in Seq(MethodKeys)
        /\ <<"bottommost_compression_type">> \in Seq(MethodKeys)
        /\ <<"compaction_style">> \in Seq(MethodKeys)
        /\ <<"compaction_options_fifo">> \in Seq(MethodKeys)
    BY DEF MethodKeys, DbOptions, CfOptions, ManyOptions
  <2>2. a \in T /\ b \in T /\ c \in T /\ d \in T
    BY <2>1, <1>3
  <2>3. TimeSeriesCalls(profile) = (a \o b) \o (IF "fifo" \in profile.flags THEN (c \o d) \o e ELSE <<>>)
    BY DEF TimeSeriesCalls
  <2> HIDE DEF a, b, c, d, e
  <2>4. "fifo" \in profile.flags => (c \o d) \o e \in T
    BY <2>2, <1>1, <1>4 DEF e
  <2>5. QED
    BY <2>2, <2>3, <2>4, <1>1, <1>2
<1>9. SparseBitmapCalls(profile) \in T
  <2>1. /\ <<"write_buffer_size", "max_write_buffer_number", "compression_type", "compaction_style">> \in Seq(MethodKeys)
        /\ <<"universal_compaction_options", "optimize_universal_style_compaction">> \in Seq(MethodKeys)
    BY DEF MethodKeys, DbOptions, CfOptions, ManyOptions
  <2>2. QED
    BY <2>1, <1>1, <1>3 DEF SparseBitmapCalls
<1>10. CfCalls(profile) \in T
  <2>1. profile.kind \in {"LatestValue", "MemorySaver", "RealTime", "TimeSeries", "SparseBitmap"}
    BY DEF Profiles
  <2>2. QED
    BY <2>1, <1>5, <1>6, <1>7, <1>8, <1>9 DEF CfCalls
<1>11. QED
  BY <1>10 DEF T

-----------------------------------------------------------------------------
(* The layers: hard settings, profile, callback, operators. *)

LEMMA NewTyped ==
  ASSUME NEW D PROVE new(D) \in Tunables(D) /\ new(D).locked = {}
BY DEF new, Tunables, Setting, Unset, Writers

LEMMA TuneDbFacts ==
  ASSUME NEW t \in Tunables(DbOptions), NEW profile \in Profiles \cup {None}
  PROVE  /\ TuneDb(profile, t) \in Tunables(DbOptions)
         /\ TuneDb(profile, t).locked \subseteq t.locked
         /\ \A o \in {"wal_recovery_mode", "statistics", "wal_dir"} :
              TuneDb(profile, t).inner[o] = t.inner[o]
         /\ \A o \in DbOptions :
              t.inner[o].by # "callback" => TuneDb(profile, t).inner[o].by # "callback"
         /\ profile = None => TuneDb(profile, t) = t
         /\ profile # None /\ "increase_parallelism" \in t.locked =>
              /\ TuneDb(profile, t).inner["threads"] = t.inner["threads"]
              /\ profile.kind # "RealTime" =>
                   TuneDb(profile, t).inner["max_background_jobs"] = t.inner["max_background_jobs"]
         /\ profile # None /\ "increase_parallelism" \notin t.locked =>
              /\ TuneDb(profile, t).inner["threads"].by = profile.kind
              /\ TuneDb(profile, t).inner["max_background_jobs"].by = profile.kind
         /\ profile # None /\ profile.kind = "RealTime" /\ "max_background_jobs" \notin t.locked =>
              TuneDb(profile, t).inner["max_background_jobs"].by = profile.kind
<1>1. CASE profile = None
  BY <1>1 DEF TuneDb
<1>2. CASE profile # None
  <2> DEFINE calls == DbCalls(profile)
             u == ApplyAll(t, calls, profile.kind)
  <2>1. profile.kind \in Writers /\ profile.kind # "callback"
    BY <1>2 DEF Profiles, Writers
  <2>2. /\ calls \in Seq(TuneCalls(DbKeysOf(profile)))
        /\ Has(calls, Call("tune", "increase_parallelism"))
        /\ profile.kind = "RealTime" => Has(calls, Call("tune", "max_background_jobs"))
    BY DbCallsFacts
  <2>3. \A i \in DOMAIN calls :
          /\ calls[i].method = "tune" /\ calls[i].key \in DbKeys /\ calls[i] \in Calls
          /\ profile.kind # "RealTime" => calls[i].key # "max_background_jobs"
    <3> HIDE DEF calls
    <3> DEFINE C == TuneCalls(DbKeysOf(profile))
    <3>1. \A c \in C :
            /\ c.method = "tune" /\ c.key \in DbKeys /\ c \in Calls
            /\ profile.kind # "RealTime" => c.key # "max_background_jobs"
      BY DEF TuneCalls, DbKeysOf, DbKeys, Calls, MethodKeys, DbOptions, ManyOptions
    <3>2. \A i \in DOMAIN calls : calls[i] \in C
      <4> HIDE DEF C
      <4>1. calls \in Seq(C)
        BY <2>2 DEF C
      <4>2. QED
        BY <4>1
    <3>3. QED
      BY <3>1, <3>2
  <2>4. calls \in Seq(Calls)
    <3> DEFINE C == TuneCalls(DbKeysOf(profile))
    <3> HIDE DEF C, calls
    <3>1. calls \in Seq(C)
      BY <2>2 DEF C
    <3>2. QED
      BY <3>1, <2>3
  <2>5. TuneDb(profile, t) = u
    BY <1>2 DEF TuneDb, tune_db_opts
  <2>6. \A key \in DbKeys : \A o \in {"wal_recovery_mode", "statistics", "wal_dir"} : o \notin Writes(key)
    BY DEF DbKeys, Writes
  <2>7. /\ \A key \in DbKeys :
             /\ "threads" \in Writes(key) => key = "increase_parallelism"
             /\ "max_background_jobs" \in Writes(key) => key \in {"increase_parallelism", "max_background_jobs"}
        /\ Writes("increase_parallelism") = {"threads", "max_background_jobs"}
        /\ Writes("max_background_jobs") = {"max_background_jobs"}
        /\ {"threads", "max_background_jobs"} \subseteq DbOptions
    BY DEF DbKeys, Writes, DbOptions
  <2> HIDE DEF calls
  <2>8. u \in Tunables(DbOptions)
    BY <2>1, <2>4, ApplyAllTyped
  <2>9. u.locked \subseteq t.locked
    BY <2>1, <2>3, <2>4, LockedAtMost
  <2>10. ASSUME NEW o \in {"wal_recovery_mode", "statistics", "wal_dir"} PROVE u.inner[o] = t.inner[o]
    <3>1. o \in DbOptions
      BY DEF DbOptions
    <3>2. \A i \in DOMAIN calls : o \notin Writes(calls[i].key)
      BY <2>3, <2>6
    <3>3. QED
      BY <3>1, <3>2, <2>1, <2>4, Untouched
  <2>11. ASSUME NEW o \in DbOptions, t.inner[o].by # "callback" PROVE u.inner[o].by # "callback"
    BY <2>1, <2>4, <2>11, WrittenBy
  <2>12. ASSUME "increase_parallelism" \in t.locked, NEW o \in {"threads", "max_background_jobs"},
                o = "threads" \/ profile.kind # "RealTime"
         PROVE  u.inner[o] = t.inner[o]
    <3>1. \A i \in DOMAIN calls :
            calls[i].method = "tune" /\ (o \in Writes(calls[i].key) => calls[i].key = "increase_parallelism")
      BY <2>3, <2>7, <2>12
    <3>2. QED
      BY <3>1, <2>1, <2>4, <2>7, <2>12, Protected
  <2>13. ASSUME NEW key \in {"increase_parallelism", "max_background_jobs"}, key \notin t.locked,
                Has(calls, Call("tune", key)), NEW o \in Writes(key)
         PROVE  u.inner[o].by = profile.kind
    <3>1. PICK i \in DOMAIN calls : calls[i] = Call("tune", key)
      BY <2>13 DEF Has
    <3>2. ~Lost(calls[i], t.locked) /\ o \in Writes(calls[i].key) /\ o \in DbOptions
      BY <3>1, <2>7, <2>13 DEF Lost, Call
    <3>3. QED
      BY <3>2, <2>1, <2>4, Prevails
  <2> HIDE DEF u
  <2>14. /\ "increase_parallelism" \in t.locked =>
              /\ u.inner["threads"] = t.inner["threads"]
              /\ profile.kind # "RealTime" => u.inner["max_background_jobs"] = t.inner["max_background_jobs"]
         /\ "increase_parallelism" \notin t.locked =>
              u.inner["threads"].by = profile.kind /\ u.inner["max_background_jobs"].by = profile.kind
         /\ profile.kind = "RealTime" /\ "max_background_jobs" \notin t.locked =>
              u.inner["max_background_jobs"].by = profile.kind
    BY <2>2, <2>7, <2>12, <2>13
  <2>15. QED
    BY <1>2, <2>5, <2>8, <2>9, <2>10, <2>11, <2>14
<1>3. QED
  BY <1>1, <1>2

\* The settings of the configuration, one call after the other.
Step(t, present, key, method) == IF present THEN Apply(t, Call(method, key), "config") ELSE t

Settled(create, hard, method) ==
  Step(Step(Step(Step(new(DbOptions),
    create, "create_if_missing", "inner"),
    "parallelism" \in hard, "increase_parallelism", method),
    "recovery_mode" \in hard, "wal_recovery_mode", "inner"),
    "enable_statistics" \in hard, "statistics", "inner")

LEMMA GivenStep ==
  ASSUME NEW t, NEW present \in BOOLEAN, NEW key \in MethodKeys, NEW method \in {"set", "inner"}
  PROVE  /\ Given(present, key, method) \in Seq(Calls)
         /\ ApplyAll(t, Given(present, key, method), "config") = Step(t, present, key, method)
<1>1. Call(method, key) \in Calls
  BY DEF Call, Calls
<1>2. CASE present = TRUE
  <2>1. Given(present, key, method) = <<Call(method, key)>>
        /\ Step(t, present, key, method) = Apply(t, Call(method, key), "config")
    BY <1>2 DEF Given, Step
  <2>2. QED
    BY <1>1, <2>1, ApplyOne
<1>3. CASE present = FALSE
  <2>1. Given(present, key, method) = <<>> /\ Step(t, present, key, method) = t
    BY <1>3 DEF Given, Step
  <2>2. QED
    BY <2>1, ApplyNone
<1>4. QED
  BY <1>2, <1>3

LEMMA FourGiven ==
  ASSUME NEW t, NEW method \in {"set", "inner"},
         NEW p1 \in BOOLEAN, NEW p2 \in BOOLEAN, NEW p3 \in BOOLEAN, NEW p4 \in BOOLEAN,
         NEW u, u = Step(Step(Step(Step(t, p1, "create_if_missing", "inner"),
                      p2, "increase_parallelism", method), p3, "wal_recovery_mode", "inner"),
                      p4, "statistics", "inner")
  PROVE  /\ ApplyAll(t, ((Given(p1, "create_if_missing", "inner")
                          \o Given(p2, "increase_parallelism", method))
                         \o Given(p3, "wal_recovery_mode", "inner"))
                        \o Given(p4, "statistics", "inner"), "config") = u
         /\ ApplyAll(t, Given(p1, "create_if_missing", "inner")
                        \o ((Given(p2, "increase_parallelism", method)
                             \o Given(p3, "wal_recovery_mode", "inner"))
                            \o Given(p4, "statistics", "inner")), "config") = u
<1> DEFINE a == Given(p1, "create_if_missing", "inner")
           b == Given(p2, "increase_parallelism", method)
           c == Given(p3, "wal_recovery_mode", "inner")
           d == Given(p4, "statistics", "inner")
           t1 == Step(t, p1, "create_if_missing", "inner")
           t2 == Step(t1, p2, "increase_parallelism", method)
           t3 == Step(t2, p3, "wal_recovery_mode", "inner")
           t4 == Step(t3, p4, "statistics", "inner")
<1>1. /\ "create_if_missing" \in MethodKeys /\ "increase_parallelism" \in MethodKeys
      /\ "wal_recovery_mode" \in MethodKeys /\ "statistics" \in MethodKeys
  BY DEF MethodKeys, DbOptions, ManyOptions
<1>2. a \in Seq(Calls) /\ ApplyAll(t, a, "config") = t1
  BY <1>1, GivenStep
<1>3. b \in Seq(Calls) /\ ApplyAll(t1, b, "config") = t2
  BY <1>1, GivenStep
<1>4. c \in Seq(Calls) /\ ApplyAll(t2, c, "config") = t3
  BY <1>1, GivenStep
<1>5. d \in Seq(Calls) /\ ApplyAll(t3, d, "config") = t4
  BY <1>1, GivenStep
<1> HIDE DEF a, b, c, d, t1, t2, t3, t4
<1>6. ApplyAll(t, ((a \o b) \o c) \o d, "config") = t4
  <2> DEFINE ab == a \o b
             abc == ab \o c
  <2>1. ab \in Seq(Calls) /\ ApplyAll(t, ab, "config") = t2
    BY <1>2, <1>3, ApplyConcat
  <2> HIDE DEF ab
  <2>2. abc \in Seq(Calls) /\ ApplyAll(t, abc, "config") = t3
    BY <2>1, <1>4, ApplyConcat
  <2> HIDE DEF abc
  <2>3. ApplyAll(t, abc \o d, "config") = t4
    BY <2>2, <1>5, ApplyConcat
  <2>4. QED
    BY <2>3 DEF ab, abc
<1>7. ApplyAll(t, a \o ((b \o c) \o d), "config") = t4
  <2> DEFINE bc == b \o c
             bcd == bc \o d
  <2>1. bc \in Seq(Calls) /\ ApplyAll(t1, bc, "config") = t3
    BY <1>3, <1>4, ApplyConcat
  <2> HIDE DEF bc
  <2>2. bcd \in Seq(Calls) /\ ApplyAll(t1, bcd, "config") = t4
    BY <2>1, <1>5, ApplyConcat
  <2> HIDE DEF bcd
  <2>3. ApplyAll(t, a \o bcd, "config") = t4
    BY <2>2, <1>2, ApplyConcat
  <2>4. QED
    BY <2>3 DEF bc, bcd
<1>8. QED
  BY <1>6, <1>7 DEF a, b, c, d, t1, t2, t3, t4

LEMMA FourGivenRight ==
  ASSUME NEW t, NEW method \in {"set", "inner"},
         NEW p1 \in BOOLEAN, NEW p2 \in BOOLEAN, NEW p3 \in BOOLEAN, NEW p4 \in BOOLEAN
  PROVE  ApplyAll(t, Given(p1, "create_if_missing", "inner")
                     \o ((Given(p2, "increase_parallelism", method)
                          \o Given(p3, "wal_recovery_mode", "inner"))
                         \o Given(p4, "statistics", "inner")), "config")
           = Step(Step(Step(Step(t, p1, "create_if_missing", "inner"),
               p2, "increase_parallelism", method), p3, "wal_recovery_mode", "inner"),
               p4, "statistics", "inner")
BY FourGiven

\* What a setting changes.
Sets(D, t, u, key, method) ==
  /\ u \in Tunables(D)
  /\ u.locked = IF method = "set" THEN t.locked \cup {key} ELSE t.locked
  /\ \A o \in D \ Writes(key) : u.inner[o] = t.inner[o]
  /\ \A o \in D \cap Writes(key) : u.inner[o].by = "config"

LEMMA StepTaken ==
  ASSUME NEW D, NEW t \in Tunables(D), NEW key \in MethodKeys, NEW method \in {"set", "inner"}
  PROVE  Sets(D, t, Apply(t, Call(method, key), "config"), key, method)
<1> DEFINE call == Call(method, key)
           v == Apply(t, call, "config")
<1>1. call \in Calls /\ call.method = method /\ call.key = key /\ "config" \in Writers
  BY DEF Call, Calls, Writers
<1> HIDE DEF call
<1>2. v \in Tunables(D)
  BY <1>1, ApplyTyped
<1>3. v.locked = IF call.method = "set" THEN t.locked \cup {call.key} ELSE t.locked
  BY <1>1, ApplyLocks
<1>4. \A o \in D : v.inner[o] = Left(t, call, "config", o)
  BY <1>1, ApplyWrites
<1> HIDE DEF v
<1>5. \A o \in D : v.inner[o] = IF o \in Writes(key) THEN [by |-> "config", via |-> key] ELSE t.inner[o]
  BY <1>1, <1>4 DEF Left, Lost
<1>6. Sets(D, t, v, key, method)
  BY <1>1, <1>2, <1>3, <1>5 DEF Sets
<1>7. QED
  BY <1>6 DEF v, call

SettledAs(t, hard, method) ==
  /\ t \in Tunables(DbOptions)
  /\ t.locked = IF "parallelism" \in hard /\ method = "set" THEN {"increase_parallelism"} ELSE {}
  /\ t.inner["wal_dir"] = Unset
  /\ "recovery_mode" \in hard => t.inner["wal_recovery_mode"].by = "config"
  /\ "enable_statistics" \in hard => t.inner["statistics"].by = "config"
  /\ "parallelism" \in hard =>
       t.inner["threads"].by = "config" /\ t.inner["max_background_jobs"].by = "config"
  /\ \A o \in DbOptions : t.inner[o].by # "callback"

LEMMA SettledFacts ==
  ASSUME NEW create \in BOOLEAN, NEW hard \in SUBSET HardSettings, NEW method \in {"set", "inner"}
  PROVE  SettledAs(Settled(create, hard, method), hard, method)
<1> DEFINE t0 == new(DbOptions)
           t1 == Step(t0, create, "create_if_missing", "inner")
           t2 == Step(t1, "parallelism" \in hard, "increase_parallelism", method)
           t3 == Step(t2, "recovery_mode" \in hard, "wal_recovery_mode", "inner")
           t4 == Step(t3, "enable_statistics" \in hard, "statistics", "inner")
           T == Tunables(DbOptions)
<1>1. /\ "create_if_missing" \in MethodKeys /\ "increase_parallelism" \in MethodKeys
      /\ "wal_recovery_mode" \in MethodKeys /\ "statistics" \in MethodKeys
  BY DEF MethodKeys, DbOptions, ManyOptions
<1>2. /\ t0 \in T /\ t0.locked = {} /\ t0.inner["wal_dir"] = Unset
      /\ \A o \in DbOptions : t0.inner[o].by # "callback"
  <2>1. t0 \in T /\ t0.locked = {} /\ t0.inner = [o \in DbOptions |-> Unset]
    BY NewTyped DEF new
  <2>2. "wal_dir" \in DbOptions /\ Unset.by # "callback"
    BY DEF DbOptions, Unset
  <2>3. QED
    BY <2>1, <2>2
<1>3. /\ t1 \in T
      /\ IF create THEN Sets(DbOptions, t0, t1, "create_if_missing", "inner") ELSE t1 = t0
  <2>1. CASE create
    <3>1. t1 = Apply(t0, Call("inner", "create_if_missing"), "config")
      BY <2>1 DEF Step
    <3> HIDE DEF t0, t1
    <3>2. Sets(DbOptions, t0, t1, "create_if_missing", "inner")
      BY <3>1, <1>1, <1>2, StepTaken
    <3>3. QED
      BY <2>1, <3>2 DEF Sets
  <2>2. CASE ~(create)
    <3>1. t1 = t0
      BY <2>2 DEF Step
    <3> HIDE DEF t0, t1
    <3>2. QED
      BY <2>2, <3>1, <1>2
  <2>3. QED
    BY <2>1, <2>2
<1>4. /\ t2 \in T
      /\ IF "parallelism" \in hard THEN Sets(DbOptions, t1, t2, "increase_parallelism", method) ELSE t2 = t1
  <2>1. CASE "parallelism" \in hard
    <3>1. t2 = Apply(t1, Call(method, "increase_parallelism"), "config")
      BY <2>1 DEF Step
    <3> HIDE DEF t1, t2
    <3>2. Sets(DbOptions, t1, t2, "increase_parallelism", method)
      BY <3>1, <1>1, <1>3, StepTaken
    <3>3. QED
      BY <2>1, <3>2 DEF Sets
  <2>2. CASE ~("parallelism" \in hard)
    <3>1. t2 = t1
      BY <2>2 DEF Step
    <3> HIDE DEF t1, t2
    <3>2. QED
      BY <2>2, <3>1, <1>3
  <2>3. QED
    BY <2>1, <2>2
<1>5. /\ t3 \in T
      /\ IF "recovery_mode" \in hard THEN Sets(DbOptions, t2, t3, "wal_recovery_mode", "inner") ELSE t3 = t2
  <2>1. CASE "recovery_mode" \in hard
    <3>1. t3 = Apply(t2, Call("inner", "wal_recovery_mode"), "config")
      BY <2>1 DEF Step
    <3> HIDE DEF t2, t3
    <3>2. Sets(DbOptions, t2, t3, "wal_recovery_mode", "inner")
      BY <3>1, <1>1, <1>4, StepTaken
    <3>3. QED
      BY <2>1, <3>2 DEF Sets
  <2>2. CASE ~("recovery_mode" \in hard)
    <3>1. t3 = t2
      BY <2>2 DEF Step
    <3> HIDE DEF t2, t3
    <3>2. QED
      BY <2>2, <3>1, <1>4
  <2>3. QED
    BY <2>1, <2>2
<1>6. /\ t4 \in T
      /\ IF "enable_statistics" \in hard THEN Sets(DbOptions, t3, t4, "statistics", "inner") ELSE t4 = t3
  <2>1. CASE "enable_statistics" \in hard
    <3>1. t4 = Apply(t3, Call("inner", "statistics"), "config")
      BY <2>1 DEF Step
    <3> HIDE DEF t3, t4
    <3>2. Sets(DbOptions, t3, t4, "statistics", "inner")
      BY <3>1, <1>1, <1>5, StepTaken
    <3>3. QED
      BY <2>1, <3>2 DEF Sets
  <2>2. CASE ~("enable_statistics" \in hard)
    <3>1. t4 = t3
      BY <2>2 DEF Step
    <3> HIDE DEF t3, t4
    <3>2. QED
      BY <2>2, <3>1, <1>5
  <2>3. QED
    BY <2>1, <2>2
<1>7. Settled(create, hard, method) = t4
  BY DEF Settled
<1> HIDE DEF t0, t1, t2, t3, t4, T
<1>8. /\ Writes("create_if_missing") = {"create_if_missing"}
      /\ Writes("increase_parallelism") = {"threads", "max_background_jobs"}
      /\ Writes("wal_recovery_mode") = {"wal_recovery_mode"}
      /\ Writes("statistics") = {"statistics"}
  BY DEF Writes
<1>9. {"wal_dir", "wal_recovery_mode", "statistics", "threads", "max_background_jobs"} \subseteq DbOptions
  BY DEF DbOptions
<1>10. t4.inner["wal_dir"] = Unset
  BY <1>2, <1>3, <1>4, <1>5, <1>6, <1>8, <1>9 DEF Sets
<1>11. /\ "recovery_mode" \in hard => t4.inner["wal_recovery_mode"].by = "config"
       /\ "enable_statistics" \in hard => t4.inner["statistics"].by = "config"
       /\ "parallelism" \in hard =>
            t4.inner["threads"].by = "config" /\ t4.inner["max_background_jobs"].by = "config"
  BY <1>4, <1>5, <1>6, <1>8, <1>9 DEF Sets
<1>12. t4 \in T /\ t4.locked = IF "parallelism" \in hard /\ method = "set" THEN {"increase_parallelism"} ELSE {}
  BY <1>2, <1>3, <1>4, <1>5, <1>6 DEF Sets
<1>13. \A o \in DbOptions : t4.inner[o].by # "callback"
  <2>1. \A o \in DbOptions : t1.inner[o].by # "callback"
    BY <1>2, <1>3 DEF Sets
  <2>2. \A o \in DbOptions : t2.inner[o].by # "callback"
    BY <1>4, <2>1 DEF Sets
  <2>3. \A o \in DbOptions : t3.inner[o].by # "callback"
    BY <1>5, <2>2 DEF Sets
  <2>4. QED
    BY <1>6, <2>3 DEF Sets
<1>14. QED
  BY <1>7, <1>10, <1>11, <1>12, <1>13 DEF T, SettledAs

LEMMA Truth ==
  ASSUME NEW a, NEW S PROVE \E p \in BOOLEAN : p = (a \in S)
<1>1. CASE a \in S
  <2>1. TRUE = (a \in S)
    BY <1>1
  <2>2. QED
    BY <2>1
<1>2. CASE a \notin S
  <2>1. FALSE = (a \in S)
    BY <1>2
  <2>2. QED
    BY <2>1
<1>3. QED
  BY <1>1, <1>2

LEMMA PlainSettled ==
  ASSUME NEW cfg, NEW create \in BOOLEAN
  PROVE  ApplyAll(new(DbOptions), Given(create, "create_if_missing", "inner") \o hard_settings(cfg), "config")
           = Settled(create, cfg.hard, "set")
<1>1. PICK p2 \in BOOLEAN, p3 \in BOOLEAN, p4 \in BOOLEAN :
        /\ p2 = ("parallelism" \in cfg.hard)
        /\ p3 = ("recovery_mode" \in cfg.hard)
        /\ p4 = ("enable_statistics" \in cfg.hard)
  BY Truth
<1> DEFINE u == Step(Step(Step(Step(new(DbOptions), create, "create_if_missing", "inner"),
             p2, "increase_parallelism", "set"), p3, "wal_recovery_mode", "inner"),
             p4, "statistics", "inner")
           calls == Given(create, "create_if_missing", "inner")
             \o ((Given(p2, "increase_parallelism", "set") \o Given(p3, "wal_recovery_mode", "inner"))
                 \o Given(p4, "statistics", "inner"))
<1>2. ApplyAll(new(DbOptions), calls, "config") = u
  <2>1. "set" \in {"set", "inner"}
    OBVIOUS
  <2>2. QED
    BY <2>1, FourGivenRight
<1>3. Settled(create, cfg.hard, "set") = u
  BY <1>1, Zenon DEF Settled
<1>4. QED
  BY <1>1, <1>2, <1>3, Zenon DEF hard_settings

LEMMA TxnSettled ==
  ASSUME NEW cfg, cfg.create \in BOOLEAN
  PROVE  ApplyAll(new(DbOptions),
           Given(cfg.create, "create_if_missing", "inner")
           \o Given("parallelism" \in cfg.hard, "increase_parallelism", "inner")
           \o Given("recovery_mode" \in cfg.hard, "wal_recovery_mode", "inner")
           \o Given("enable_statistics" \in cfg.hard, "statistics", "inner"), "config")
           = Settled(cfg.create, cfg.hard, "inner")
<1>1. PICK p2 \in BOOLEAN, p3 \in BOOLEAN, p4 \in BOOLEAN :
        /\ p2 = ("parallelism" \in cfg.hard)
        /\ p3 = ("recovery_mode" \in cfg.hard)
        /\ p4 = ("enable_statistics" \in cfg.hard)
  BY Truth
<1> DEFINE u == Step(Step(Step(Step(new(DbOptions), cfg.create, "create_if_missing", "inner"),
             p2, "increase_parallelism", "inner"), p3, "wal_recovery_mode", "inner"),
             p4, "statistics", "inner")
           calls == ((Given(cfg.create, "create_if_missing", "inner")
               \o Given(p2, "increase_parallelism", "inner"))
              \o Given(p3, "wal_recovery_mode", "inner"))
             \o Given(p4, "statistics", "inner")
<1>2. ApplyAll(new(DbOptions), calls, "config") = u
  BY FourGiven
<1>3. Settled(cfg.create, cfg.hard, "inner") = u
  BY <1>1, Zenon DEF Settled
<1>4. QED
  BY <1>1, <1>2, <1>3, Zenon

LEMMA StepSimilar ==
  ASSUME NEW D, NEW t \in Tunables(D), NEW u \in Tunables(D), NEW key, Similar(D, key, t, u),
         NEW present \in BOOLEAN, NEW k \in MethodKeys, NEW method \in {"set", "inner"}
  PROVE  Similar(D, key, Step(t, present, k, method), Step(u, present, k, method))
<1>1. Call(method, k) \in Calls /\ "config" \in Writers
  BY DEF Call, Calls, Writers
<1>2. CASE present = TRUE
  BY <1>1, <1>2, SimilarStep DEF Step
<1>3. CASE present = FALSE
  BY <1>3 DEF Step
<1>4. QED
  BY <1>2, <1>3

LEMMA StepTyped ==
  ASSUME NEW D, NEW t \in Tunables(D), NEW present \in BOOLEAN, NEW k \in MethodKeys,
         NEW method \in {"set", "inner"}
  PROVE  Step(t, present, k, method) \in Tunables(D)
<1>1. CASE present = TRUE
  BY <1>1, StepTaken DEF Step, Sets
<1>2. CASE present = FALSE
  BY <1>2 DEF Step
<1>3. QED
  BY <1>1, <1>2

\* The two copies of the code settle the same, but for the threads; whether
\* the database is to be created matters to nothing else.

LEMMA StepItself ==
  ASSUME NEW D, NEW t \in Tunables(D), NEW key \in MethodKeys,
         NEW a \in BOOLEAN, NEW b \in BOOLEAN, NEW m \in {"set", "inner"}, NEW n \in {"set", "inner"}
  PROVE  Similar(D, key, Step(t, a, key, m), Step(t, b, key, n))
<1>1. ASSUME NEW p \in BOOLEAN, NEW method \in {"set", "inner"}
      PROVE  Similar(D, key, t, Step(t, p, key, method))
  <2>1. CASE p = TRUE
    <3> DEFINE v == Apply(t, Call(method, key), "config")
    <3>1. Sets(D, t, v, key, method)
      BY StepTaken
    <3>2. Step(t, p, key, method) = v
      BY <2>1 DEF Step
    <3> HIDE DEF v
    <3>3. Similar(D, key, t, v)
      BY <3>1 DEF Sets, Similar
    <3>4. QED
      BY <3>2, <3>3
  <2>2. CASE p = FALSE
    BY <2>2 DEF Step, Similar
  <2>3. QED
    BY <2>1, <2>2
<1> DEFINE u == Step(t, a, key, m)
           v == Step(t, b, key, n)
<1>2. Similar(D, key, t, u) /\ Similar(D, key, t, v)
  BY <1>1
<1> HIDE DEF u, v
<1>3. Similar(D, key, u, v)
  BY <1>2 DEF Similar
<1>4. QED
  BY <1>3 DEF u, v

\* The two copies of the code settle the same, but for the threads; and
\* whether the database is to be created matters to nothing else.
LEMMA SettledSimilar ==
  ASSUME NEW hard, NEW c \in BOOLEAN, NEW d \in BOOLEAN
  PROVE  /\ Similar(DbOptions, "increase_parallelism", Settled(c, hard, "set"), Settled(c, hard, "inner"))
         /\ Similar(DbOptions, "create_if_missing", Settled(c, hard, "set"), Settled(d, hard, "set"))
<1>1. PICK p2 \in BOOLEAN, p3 \in BOOLEAN, p4 \in BOOLEAN :
        /\ p2 = ("parallelism" \in hard)
        /\ p3 = ("recovery_mode" \in hard)
        /\ p4 = ("enable_statistics" \in hard)
  BY Truth
<1> DEFINE one(a) == Step(new(DbOptions), a, "create_if_missing", "inner")
           two(a, m) == Step(one(a), p2, "increase_parallelism", m)
           three(a, m) == Step(two(a, m), p3, "wal_recovery_mode", "inner")
           all(a, m) == Step(three(a, m), p4, "statistics", "inner")
           T == Tunables(DbOptions)
<1>2. \A a, m : Settled(a, hard, m) = all(a, m)
  BY <1>1, Zenon DEF Settled
<1>3. /\ "create_if_missing" \in MethodKeys /\ "increase_parallelism" \in MethodKeys
      /\ "wal_recovery_mode" \in MethodKeys /\ "statistics" \in MethodKeys
      /\ "set" \in {"set", "inner"} /\ "inner" \in {"set", "inner"}
  BY DEF MethodKeys, DbOptions, ManyOptions
<1>4. new(DbOptions) \in T
  BY NewTyped
<1>5. one(c) \in T /\ one(d) \in T
  BY <1>3, <1>4, StepTyped
<1>6. Similar(DbOptions, "create_if_missing", one(c), one(d))
  BY <1>3, <1>4, StepItself
<1> HIDE DEF one, T
<1>7. two(c, "set") \in T /\ two(c, "inner") \in T /\ two(d, "set") \in T
  BY <1>3, <1>5, StepTyped DEF T
<1>8. /\ Similar(DbOptions, "increase_parallelism", two(c, "set"), two(c, "inner"))
      /\ Similar(DbOptions, "create_if_missing", two(c, "set"), two(d, "set"))
  BY <1>3, <1>5, <1>6, StepItself, StepSimilar DEF T
<1> HIDE DEF two
<1>9. three(c, "set") \in T /\ three(c, "inner") \in T /\ three(d, "set") \in T
  BY <1>3, <1>7, StepTyped DEF T
<1>10. /\ Similar(DbOptions, "increase_parallelism", three(c, "set"), three(c, "inner"))
       /\ Similar(DbOptions, "create_if_missing", three(c, "set"), three(d, "set"))
  BY <1>3, <1>7, <1>8, StepSimilar DEF T
<1> HIDE DEF three
<1>11. /\ Similar(DbOptions, "increase_parallelism", all(c, "set"), all(c, "inner"))
       /\ Similar(DbOptions, "create_if_missing", all(c, "set"), all(d, "set"))
  BY <1>3, <1>9, <1>10, StepSimilar DEF T
<1>12. QED
  BY <1>2, <1>11

-----------------------------------------------------------------------------
(* The configurations of the sessions. *)

Kinds == PlainKinds \cup TxnKinds

LEMMA CallsOnFacts ==
  ASSUME NEW D \in {DbOptions, CfOptions}, NEW calls \in Seq(CallsOn(D))
  PROVE  /\ calls \in Seq(Calls)
         /\ \A call \in CallsOn(D) : call \in Calls /\ Writes(call.key) \subseteq D
         /\ \A call \in Range(calls) : \E i \in DOMAIN calls : calls[i] = call /\ call \in CallsOn(D)
<1>1. ASSUME NEW call \in CallsOn(D) PROVE call \in Calls /\ Writes(call.key) \subseteq D
  <2>1. /\ call = [method |-> call.method, key |-> call.key]
        /\ call.method \in {"set", "tune", "inner"}
        /\ call.key \in D \/ (call.key \in ManyOptions /\ Writes(call.key) \subseteq D)
    BY DEF CallsOn
  <2>2. call \in Calls
    BY <2>1 DEF Calls, MethodKeys
  <2>3. \A key \in D : key \notin ManyOptions
    BY DEF DbOptions, CfOptions, ManyOptions
  <2>4. \A key : key \notin ManyOptions => Writes(key) = {key}
    BY DEF Writes, ManyOptions
  <2>5. QED
    BY <2>1, <2>2, <2>3, <2>4
<1> DEFINE C == CallsOn(D)
<1> HIDE DEF C
<1>2. calls \in Seq(C)
  BY DEF C
<1>3. calls \in Seq(Calls)
  <2>1. \A c \in C : c \in Calls
    BY <1>1 DEF C
  <2> DEFINE B == Calls
  <2>2. B = Calls
    OBVIOUS
  <2> HIDE DEF B
  <2>3. \A c \in C : c \in B
    BY <2>1, <2>2
  <2>4. calls \in Seq(B)
    BY <1>2, <2>3
  <2>5. QED
    BY <2>2, <2>4
<1>4. \A call \in Range(calls) : \E i \in DOMAIN calls : calls[i] = call /\ call \in C
  BY <1>2 DEF Range
<1>5. QED
  BY <1>1, <1>3, <1>4 DEF C

\* What every layer may rely on.
Configured(cfg) ==
  /\ cfg.create \in BOOLEAN
  /\ cfg.hard \in SUBSET HardSettings
  /\ cfg.profile \in Profiles \cup {None}
  /\ cfg.open \subseteq CfNames \cup {Default}
  /\ \A cf : ConfigOf(cfg, cf) \in Bases
  /\ cfg.custom # None =>
       /\ cfg.custom.db \in Seq(CallsOn(DbOptions))
       /\ cfg.custom.cf \in Seq(CallsOn(CfOptions))
       /\ cfg.custom.wrapped \in BOOLEAN
       /\ cfg.custom.wrapped => Default \in cfg.open

LEMMA WrapperConfigured ==
  ASSUME NEW w \in WrapperConfigs
  PROVE  /\ Configured(into_cf(w))
         /\ \A engine : Configured(into_txn(w, engine))
<1>1. ASSUME NEW v \in WrapperConfigs PROVE Configured(into_cf(v))
  <2> DEFINE cfg == into_cf(v)
  <2>1. /\ v.create \in BOOLEAN /\ v.hard \in SUBSET HardSettings /\ v.base \in Bases
        /\ v.custom \in Callbacks \cup {None}
    BY DEF WrapperConfigs
  <2>2. /\ cfg.create = v.create /\ cfg.hard = v.hard /\ cfg.profile = None
        /\ cfg.cfs = [cf \in {Default} |-> v.base] /\ cfg.open = {Default}
        /\ cfg.custom = IF v.custom = None THEN None ELSE [v.custom EXCEPT !.wrapped = TRUE]
    BY DEF into_cf
  <2> HIDE DEF cfg
  <2>3. \A cf : ConfigOf(cfg, cf) \in Bases
    <3>1. [profile |-> None, merge_operator |-> FALSE, comparator |-> FALSE, filter |-> FALSE] \in Bases
      BY DEF Bases
    <3>2. QED
      BY <2>1, <2>2, <3>1 DEF ConfigOf
  <2>4. cfg.custom # None =>
          /\ cfg.custom.db = v.custom.db /\ cfg.custom.cf = v.custom.cf /\ cfg.custom.wrapped = TRUE
          /\ v.custom \in Callbacks
    BY <2>1, <2>2 DEF Callbacks
  <2>5. v.custom \in Callbacks =>
          v.custom.db \in Seq(CallsOn(DbOptions)) /\ v.custom.cf \in Seq(CallsOn(CfOptions))
    BY DEF Callbacks
  <2>6. Configured(cfg)
    BY <2>1, <2>2, <2>3, <2>4, <2>5 DEF Configured
  <2>7. QED
    BY <2>6 DEF cfg
<1>2. ASSUME NEW engine PROVE Configured(into_txn(w, engine))
  <2> DEFINE v == [w EXCEPT !.base.comparator = FALSE]
             cfg == into_cf(v)
             e == [cfg EXCEPT !.engine = engine]
  <2>1. v \in WrapperConfigs
    BY DEF WrapperConfigs, Bases
  <2>2. Configured(cfg)
    BY <1>1, <2>1
  <2>3. into_txn(w, engine) = e
    BY DEF into_txn
  <2>4. /\ e.create = cfg.create /\ e.hard = cfg.hard /\ e.profile = cfg.profile
        /\ e.cfs = cfg.cfs /\ e.open = cfg.open /\ e.custom = cfg.custom
    <3> HIDE DEF v
    <3>1. QED BY DEF into_cf
  <2> HIDE DEF e, cfg
  <2>5. \A cf : ConfigOf(e, cf) = ConfigOf(cfg, cf)
    BY <2>4 DEF ConfigOf
  <2>6. Configured(e)
    BY <2>2, <2>4, <2>5 DEF Configured
  <2>7. QED
    BY <2>3, <2>6
<1>3. QED
  BY <1>1, <1>2

LEMMA CfConfigured ==
  ASSUME NEW configured \in SUBSET CfNames, NEW cfg \in CfConfigs(configured, CfNames)
  PROVE  /\ Configured(cfg) /\ Configured([cfg EXCEPT !.engine = "Optimistic"])
         /\ cfg.custom # None => ~cfg.custom.wrapped
<1>1. /\ cfg.create \in BOOLEAN /\ cfg.hard \in SUBSET HardSettings
      /\ cfg.profile \in Profiles \cup {None}
      /\ cfg.cfs \in [configured -> Bases] /\ cfg.open \in SUBSET CfNames
      /\ cfg.custom # None => cfg.custom \in Callbacks /\ ~cfg.custom.wrapped
  BY DEF CfConfigs
<1>2. \A cf : ConfigOf(cfg, cf) \in Bases
  <2>1. [profile |-> None, merge_operator |-> FALSE, comparator |-> FALSE, filter |-> FALSE] \in Bases
    BY DEF Bases
  <2>2. QED
    BY <1>1, <2>1 DEF ConfigOf
<1>3. cfg.custom # None =>
        /\ cfg.custom.db \in Seq(CallsOn(DbOptions)) /\ cfg.custom.cf \in Seq(CallsOn(CfOptions))
        /\ cfg.custom.wrapped \in BOOLEAN
  BY <1>1 DEF Callbacks
<1>4. Configured(cfg)
  BY <1>1, <1>2, <1>3 DEF Configured
<1>5. Configured([cfg EXCEPT !.engine = "Optimistic"])
  <2> DEFINE e == [cfg EXCEPT !.engine = "Optimistic"]
  <2>1. /\ e.create = cfg.create /\ e.hard = cfg.hard /\ e.profile = cfg.profile
        /\ e.cfs = cfg.cfs /\ e.open = cfg.open /\ e.custom = cfg.custom
    BY DEF CfConfigs
  <2> HIDE DEF e
  <2>2. \A cf : ConfigOf(e, cf) = ConfigOf(cfg, cf)
    BY <2>1 DEF ConfigOf
  <2>3. Configured(e)
    BY <1>4, <2>1, <2>2 DEF Configured
  <2>4. QED
    BY <2>3 DEF e
<1>6. QED
  BY <1>1, <1>4, <1>5

LEMMA SessionConfigured ==
  ASSUME NEW s \in Sessions
  PROVE  /\ s.kind \in Kinds
         /\ Configured(Config(s))
         /\ s.kind = "CFStore" /\ Config(s).custom # None => ~Config(s).custom.wrapped
<1>1. CASE s \in [kind : Wrappers, cfg : WrapperConfigs]
  <2>1. s.kind \in Wrappers /\ s.cfg \in WrapperConfigs
    BY <1>1
  <2>2. s.kind \in Kinds /\ s.kind # "CFStore"
    BY <2>1 DEF Kinds, PlainKinds, TxnKinds, Wrappers
  <2>3. Configured(Config(s))
    <3>1. Configured(into_cf(s.cfg)) /\ Configured(into_txn(s.cfg, "Pessimistic"))
          /\ Configured(into_txn(s.cfg, "Optimistic"))
      BY <2>1, WrapperConfigured
    <3>2. QED
      BY <2>1, <3>1 DEF Config, Wrappers
  <2>4. QED
    BY <2>2, <2>3
<1>2. ASSUME NEW configured \in SUBSET CfNames,
             s \in [kind : (PlainKinds \cup TxnKinds) \ Wrappers, cfg : CfConfigs(configured, CfNames)]
      PROVE  /\ s.kind \in Kinds
             /\ Configured(Config(s))
             /\ s.kind = "CFStore" /\ Config(s).custom # None => ~Config(s).custom.wrapped
  <2>1. s.kind \in Kinds \ Wrappers /\ s.cfg \in CfConfigs(configured, CfNames)
    BY <1>2 DEF Kinds
  <2>2. /\ Configured(s.cfg) /\ Configured([s.cfg EXCEPT !.engine = "Optimistic"])
        /\ s.cfg.custom # None => ~s.cfg.custom.wrapped
    BY <2>1, CfConfigured
  <2>3. Config(s) = IF s.kind = "CFOptimisticTxnStore" THEN [s.cfg EXCEPT !.engine = "Optimistic"] ELSE s.cfg
    BY <2>1 DEF Config, Kinds, PlainKinds, TxnKinds, Wrappers
  <2>4. QED
    BY <2>1, <2>2, <2>3
<1>3. QED
  BY <1>1, <1>2, SessionsAssumption

-----------------------------------------------------------------------------
(* The options a session opens the database with. *)

\* Settings and profile, before the callback.
TunedAs(t, hard, profile, method) ==
  /\ t \in Tunables(DbOptions)
  /\ t.locked \subseteq IF "parallelism" \in hard THEN {"increase_parallelism"} ELSE {}
  /\ t.inner["wal_dir"] = Unset
  /\ "recovery_mode" \in hard => t.inner["wal_recovery_mode"].by = "config"
  /\ "enable_statistics" \in hard => t.inner["statistics"].by = "config"
  /\ "parallelism" \in hard =>
       /\ t.inner["threads"].by = IF profile # None /\ method = "inner" THEN profile.kind ELSE "config"
       /\ t.inner["max_background_jobs"].by =
            IF profile # None /\ (method = "inner" \/ profile.kind = "RealTime")
            THEN profile.kind ELSE "config"
  /\ \A o \in DbOptions : t.inner[o].by # "callback"

LEMMA DbLayers ==
  ASSUME NEW hard \in SUBSET HardSettings, NEW profile \in Profiles \cup {None},
         NEW create \in BOOLEAN, NEW method \in {"set", "inner"}
  PROVE  TunedAs(TuneDb(profile, Settled(create, hard, method)), hard, profile, method)
<1> DEFINE u == Settled(create, hard, method)
           t == TuneDb(profile, u)
<1>1. SettledAs(u, hard, method)
  BY SettledFacts
<1> HIDE DEF u
<1>2. CASE profile = None
  <2>1. t = u
    BY <1>1, <1>2, TuneDbFacts DEF SettledAs
  <2> HIDE DEF t
  <2>2. TunedAs(t, hard, profile, method)
    BY <1>1, <1>2, <2>1 DEF SettledAs, TunedAs
  <2>3. QED
    BY <2>2 DEF t, u
<1>3. CASE profile # None
  <2>1. /\ t \in Tunables(DbOptions)
        /\ t.locked \subseteq u.locked
        /\ \A o \in {"wal_recovery_mode", "statistics", "wal_dir"} : t.inner[o] = u.inner[o]
        /\ \A o \in DbOptions : u.inner[o].by # "callback" => t.inner[o].by # "callback"
        /\ "increase_parallelism" \in u.locked =>
             /\ t.inner["threads"] = u.inner["threads"]
             /\ profile.kind # "RealTime" =>
                  t.inner["max_background_jobs"] = u.inner["max_background_jobs"]
        /\ "increase_parallelism" \notin u.locked =>
             t.inner["threads"].by = profile.kind /\ t.inner["max_background_jobs"].by = profile.kind
        /\ profile.kind = "RealTime" /\ "max_background_jobs" \notin u.locked =>
             t.inner["max_background_jobs"].by = profile.kind
    BY <1>1, <1>3, TuneDbFacts DEF SettledAs
  <2>2. u.locked = IF "parallelism" \in hard /\ method = "set" THEN {"increase_parallelism"} ELSE {}
    BY <1>1 DEF SettledAs
  <2> HIDE DEF t
  <2>3. TunedAs(t, hard, profile, method)
    BY <1>1, <1>3, <2>1, <2>2 DEF SettledAs, TunedAs
  <2>4. QED
    BY <2>3 DEF t, u
<1>4. QED
  BY <1>2, <1>3

\* RocksDbCFStore: then the callback, if it is called.
LEMMA PlainDb ==
  ASSUME NEW cfg, Configured(cfg), NEW create \in BOOLEAN, NEW cfs
  PROVE  LET t == TuneDb(cfg.profile, Settled(create, cfg.hard, "set"))
         IN  db_opts_tunable(cfg, create, cfs)
               = IF Called(cfg.custom, cfs) THEN ApplyAll(t, cfg.custom.db, "callback") ELSE t
BY PlainSettled, Zenon DEF db_opts_tunable

LEMMA TxnDb ==
  ASSUME NEW cfg, Configured(cfg)
  PROVE  build_db_wide_options(cfg) = TuneDb(cfg.profile, Settled(cfg.create, cfg.hard, "inner")).inner
<1>1. cfg.create \in BOOLEAN
  BY DEF Configured
<1>2. ApplyAll(new(DbOptions),
        Given(cfg.create, "create_if_missing", "inner")
        \o Given("parallelism" \in cfg.hard, "increase_parallelism", "inner")
        \o Given("recovery_mode" \in cfg.hard, "wal_recovery_mode", "inner")
        \o Given("enable_statistics" \in cfg.hard, "statistics", "inner"), "config")
        = Settled(cfg.create, cfg.hard, "inner")
  BY <1>1, TxnSettled
<1>3. QED
  BY <1>2, Zenon DEF build_db_wide_options

\* Who settled the options of the hard settings, and that no callback reaches
\* the database of a transactional store.
LEMMA HardSettingsWritten ==
  ASSUME NEW s \in Sessions
  PROVE  LET cfg == Config(s)
             settled(o, layer) == DbOf[s][o].by \in {layer, "callback"}
             unlocked == cfg.profile # None /\ s.kind \in TxnKinds
             jobs == cfg.profile # None /\ cfg.profile.kind = "RealTime"
         IN  /\ "recovery_mode" \in cfg.hard => settled("wal_recovery_mode", "config")
             /\ "enable_statistics" \in cfg.hard => settled("statistics", "config")
             /\ "parallelism" \in cfg.hard =>
                  /\ settled("threads", IF unlocked THEN cfg.profile.kind ELSE "config")
                  /\ settled("max_background_jobs", IF unlocked \/ jobs THEN cfg.profile.kind ELSE "config")
             /\ s.kind \in TxnKinds => \A o \in DbOptions : DbOf[s][o].by # "callback"
<1> DEFINE cfg == Config(s)
           options == OpenDbOptions(s)
<1>1. /\ Configured(cfg) /\ cfg.create \in BOOLEAN
      /\ cfg.hard \in SUBSET HardSettings /\ cfg.profile \in Profiles \cup {None}
      /\ s.kind \in Kinds
  BY SessionConfigured DEF Configured
<1>2. DbOf[s] = options
  BY DEF DbOf
<1> HIDE DEF cfg
<1>3. CASE s.kind \in PlainKinds
  <2> DEFINE t == TuneDb(cfg.profile, Settled(cfg.create, cfg.hard, "set"))
             u == ApplyAll(t, cfg.custom.db, "callback")
  <2>1. TunedAs(t, cfg.hard, cfg.profile, "set")
    BY <1>1, DbLayers
  <2>2. options = (IF Called(cfg.custom, cfg.open) THEN u ELSE t).inner
    BY <1>1, <1>3, PlainDb, Zenon DEF OpenDbOptions, cfg
  <2> HIDE DEF t, options
  <2>3. ASSUME Called(cfg.custom, cfg.open), NEW o \in DbOptions
        PROVE  u.inner[o].by \in {"callback", t.inner[o].by}
    <3>1. cfg.custom.db \in Seq(Calls) /\ "callback" \in Writers
      <4>1. cfg.custom.db \in Seq(CallsOn(DbOptions))
        BY <1>1, <2>3 DEF Called, Configured
      <4>2. QED
        BY <4>1, CallsOnFacts DEF Writers
    <3>2. QED
      BY <2>1, <3>1, WrittenBy DEF TunedAs
  <2> HIDE DEF u
  <2>4. \A o \in DbOptions : DbOf[s][o].by \in {"callback", t.inner[o].by}
    BY <2>2, <2>3, <1>2
  <2>5. {"wal_recovery_mode", "statistics", "threads", "max_background_jobs"} \subseteq DbOptions
    BY DEF DbOptions
  <2>6. s.kind \notin TxnKinds
    BY <1>3 DEF PlainKinds, TxnKinds
  <2>7. QED
    BY <2>1, <2>4, <2>5, <2>6 DEF TunedAs, cfg
<1>4. CASE s.kind \notin PlainKinds
  <2> DEFINE t == TuneDb(cfg.profile, Settled(cfg.create, cfg.hard, "inner"))
  <2>1. TunedAs(t, cfg.hard, cfg.profile, "inner")
    BY <1>1, DbLayers
  <2>2. DbOf[s] = t.inner
    BY <1>1, <1>2, <1>4, TxnDb DEF OpenDbOptions, cfg
  <2>3. s.kind \in TxnKinds
    BY <1>1, <1>4 DEF Kinds
  <2> HIDE DEF t
  <2>4. QED
    BY <2>1, <2>2, <2>3 DEF TunedAs, cfg
<1>5. QED
  BY <1>3, <1>4

LEMMA DbCallbackKept ==
  ASSUME NEW s \in Sessions, s.kind \in PlainKinds, Config(s).custom # None,
         NEW call \in Range(Config(s).custom.db),
         ~Lost(call, IF "parallelism" \in Config(s).hard THEN {"increase_parallelism"} ELSE {}),
         NEW o \in Writes(call.key)
  PROVE  DbOf[s][o].by = "callback"
<1> DEFINE cfg == Config(s)
           calls == cfg.custom.db
           t == TuneDb(cfg.profile, Settled(cfg.create, cfg.hard, "set"))
           u == ApplyAll(t, calls, "callback")
<1>1. /\ Configured(cfg) /\ cfg.create \in BOOLEAN
      /\ cfg.hard \in SUBSET HardSettings /\ cfg.profile \in Profiles \cup {None}
  BY SessionConfigured DEF Configured
<1>2. calls \in Seq(CallsOn(DbOptions)) /\ Called(cfg.custom, cfg.open)
  BY <1>1 DEF Configured, Called
<1>3. DbOf[s] = u.inner
  <2>1. DbOf[s] = db_opts_tunable(cfg, cfg.create, cfg.open).inner
    BY DEF DbOf, OpenDbOptions
  <2> HIDE DEF cfg
  <2>2. db_opts_tunable(cfg, cfg.create, cfg.open) = u
    BY <1>1, <1>2, PlainDb, Zenon
  <2>3. QED
    BY <2>1, <2>2
<1>4. /\ t \in Tunables(DbOptions)
      /\ t.locked \subseteq IF "parallelism" \in cfg.hard THEN {"increase_parallelism"} ELSE {}
  <2> HIDE DEF cfg
  <2>1. TunedAs(t, cfg.hard, cfg.profile, "set")
    BY <1>1, DbLayers
  <2> HIDE DEF t
  <2>2. QED BY <2>1 DEF TunedAs
<1>5. calls \in Seq(Calls) /\ "callback" \in Writers
  <2> HIDE DEF calls
  <2>1. QED BY <1>2, CallsOnFacts DEF Writers
<1>6. PICK i \in DOMAIN calls : calls[i] = call /\ call \in CallsOn(DbOptions)
  <2>1. call \in Range(calls)
    OBVIOUS
  <2> HIDE DEF calls
  <2>2. QED BY <1>2, <2>1, CallsOnFacts
<1>7. o \in DbOptions
  BY <1>2, <1>6, CallsOnFacts
<1>8. ~Lost(calls[i], t.locked) /\ o \in Writes(calls[i].key)
  <2> HIDE DEF t, calls
  <2>1. QED BY <1>4, <1>6 DEF Lost, cfg
<1>9. u.inner[o].by = "callback"
  <2> HIDE DEF t, calls
  <2>1. QED BY <1>4, <1>5, <1>7, <1>8, Prevails
<1>10. QED
  BY <1>3, <1>9

-----------------------------------------------------------------------------
(* The options of its column families. *)

LEMMA TuneCfFacts ==
  ASSUME NEW profile \in Profiles \cup {None}
  PROVE  /\ TuneCf(profile, new(CfOptions)) \in Tunables(CfOptions)
         /\ TuneCf(profile, new(CfOptions)).locked
              \subseteq IF profile # None /\ "fifo" \in profile.flags THEN {"max_open_files"} ELSE {}
<1> DEFINE t == new(CfOptions)
<1>1. t \in Tunables(CfOptions) /\ t.locked = {}
  BY NewTyped
<1> HIDE DEF t
<1>2. CASE profile = None
  BY <1>1, <1>2 DEF TuneCf, t
<1>3. CASE profile # None
  <2> DEFINE calls == CfCalls(profile)
             C == CfLines(profile)
             keys == IF "fifo" \in profile.flags THEN {"max_open_files"} ELSE {}
  <2>1. TuneCf(profile, t) = ApplyAll(t, calls, profile.kind)
    BY <1>3 DEF TuneCf, tune_cf_opts
  <2>2. profile.kind \in Writers
    BY <1>3 DEF Profiles, Writers
  <2>3. calls \in Seq(C)
    BY <1>3, CfCallsTyped
  <2>4. \A c \in C : c \in Calls /\ (c.method = "set" => c.key \in keys)
    BY DEF CfLines
  <2> HIDE DEF calls, C, keys
  <2>5. calls \in Seq(Calls)
    <3> DEFINE B == Calls
    <3>1. \A c \in C : c \in B
      BY <2>4
    <3> HIDE DEF B
    <3>2. calls \in Seq(B)
      BY <2>3, <3>1
    <3>3. QED
      BY <3>2 DEF B
  <2>6. \A i \in DOMAIN calls : calls[i].method = "set" => calls[i].key \in keys
    BY <2>3, <2>4
  <2>7. ApplyAll(t, calls, profile.kind) \in Tunables(CfOptions)
    BY <1>1, <2>2, <2>5, ApplyAllTyped
  <2>8. t.locked \subseteq keys
    BY <1>1
  <2>9. ApplyAll(t, calls, profile.kind).locked \subseteq keys
    BY <1>1, <2>2, <2>5, <2>6, <2>8, LockedAtMost
  <2>10. QED
    BY <1>3, <2>1, <2>7, <2>9 DEF keys, t
<1>4. QED
  BY <1>2, <1>3

\* The operators come last and overwrite nothing else.
OperatorCalls(base) ==
  Given(base.merge_operator, "merge_operator", "inner")
  \o Given(base.comparator, "comparator", "inner")
  \o Given(base.filter, "compaction_filter", "inner")

OperatorsOf(base) ==
  (IF base.merge_operator THEN {"merge_operator"} ELSE {})
  \cup (IF base.comparator THEN {"comparator"} ELSE {})
  \cup (IF base.filter THEN {"compaction_filter"} ELSE {})

LEMMA SetsOne ==
  ASSUME NEW D, NEW t \in Tunables(D), NEW key \in MethodKeys, NEW p \in BOOLEAN
  PROVE  LET u == Step(t, p, key, "inner")
         IN  /\ u \in Tunables(D)
             /\ p => Sets(D, t, u, key, "inner")
             /\ ~p => u = t
<1>1. CASE p = TRUE
  <2> DEFINE u == Apply(t, Call("inner", key), "config")
  <2>1. Sets(D, t, u, key, "inner")
    BY StepTaken
  <2>2. Step(t, p, key, "inner") = u
    BY <1>1 DEF Step
  <2> HIDE DEF u
  <2>3. QED
    BY <1>1, <2>1, <2>2 DEF Sets
<1>2. CASE p = FALSE
  BY <1>2 DEF Step
<1>3. QED
  BY <1>1, <1>2

LEMMA OperatorsLast ==
  ASSUME NEW t \in Tunables(CfOptions), NEW base \in Bases
  PROVE  LET u == ApplyAll(t, OperatorCalls(base), "config")
         IN  /\ \A o \in OperatorsOf(base) : u.inner[o].by = "config"
             /\ \A o \in CfOptions \ OperatorsOf(base) : u.inner[o] = t.inner[o]
<1> DEFINE p1 == base.merge_operator
           p2 == base.comparator
           p3 == base.filter
           a == Given(p1, "merge_operator", "inner")
           b == Given(p2, "comparator", "inner")
           c == Given(p3, "compaction_filter", "inner")
           t1 == Step(t, p1, "merge_operator", "inner")
           t2 == Step(t1, p2, "comparator", "inner")
           t3 == Step(t2, p3, "compaction_filter", "inner")
           T == Tunables(CfOptions)
<1>1. p1 \in BOOLEAN /\ p2 \in BOOLEAN /\ p3 \in BOOLEAN
  BY DEF Bases
<1>2. /\ "merge_operator" \in MethodKeys /\ "comparator" \in MethodKeys /\ "compaction_filter" \in MethodKeys
      /\ "merge_operator" \in CfOptions /\ "comparator" \in CfOptions /\ "compaction_filter" \in CfOptions
      /\ "inner" \in {"set", "inner"}
  BY DEF MethodKeys, CfOptions
<1>3. OperatorCalls(base) = (a \o b) \o c
  BY DEF OperatorCalls
<1>4. OperatorsOf(base) = (IF p1 THEN {"merge_operator"} ELSE {}) \cup (IF p2 THEN {"comparator"} ELSE {})
                          \cup (IF p3 THEN {"compaction_filter"} ELSE {})
  BY DEF OperatorsOf
<1> HIDE DEF p1, p2, p3
<1>5. a \in Seq(Calls) /\ ApplyAll(t, a, "config") = t1
  BY <1>1, <1>2, GivenStep
<1>6. b \in Seq(Calls) /\ ApplyAll(t1, b, "config") = t2
  BY <1>1, <1>2, GivenStep
<1>7. c \in Seq(Calls) /\ ApplyAll(t2, c, "config") = t3
  BY <1>1, <1>2, GivenStep
<1>8. t1 \in T /\ (p1 => Sets(CfOptions, t, t1, "merge_operator", "inner")) /\ (~p1 => t1 = t)
  BY <1>1, <1>2, SetsOne
<1> HIDE DEF t1, T
<1>9. t2 \in T /\ (p2 => Sets(CfOptions, t1, t2, "comparator", "inner")) /\ (~p2 => t2 = t1)
  BY <1>1, <1>2, <1>8, SetsOne DEF T
<1> HIDE DEF t2
<1>10. t3 \in T /\ (p3 => Sets(CfOptions, t2, t3, "compaction_filter", "inner")) /\ (~p3 => t3 = t2)
  BY <1>1, <1>2, <1>9, SetsOne DEF T
<1> HIDE DEF t3, a, b, c
<1>11. ApplyAll(t, OperatorCalls(base), "config") = t3
  <2> DEFINE ab == a \o b
  <2>1. ab \in Seq(Calls) /\ ApplyAll(t, ab, "config") = t2
    BY <1>5, <1>6, ApplyConcat
  <2> HIDE DEF ab
  <2>2. ApplyAll(t, ab \o c, "config") = t3
    BY <1>7, <2>1, ApplyConcat
  <2>3. QED
    BY <1>3, <2>2 DEF ab
<1>12. /\ Writes("merge_operator") = {"merge_operator"} /\ Writes("comparator") = {"comparator"}
       /\ Writes("compaction_filter") = {"compaction_filter"}
  BY DEF Writes
<1>13. \A o \in CfOptions \ OperatorsOf(base) : t3.inner[o] = t.inner[o]
  BY <1>1, <1>4, <1>8, <1>9, <1>10, <1>12 DEF Sets
<1>14. \A o \in OperatorsOf(base) : t3.inner[o].by = "config"
  BY <1>1, <1>2, <1>4, <1>8, <1>9, <1>10, <1>12 DEF Sets
<1>15. QED
  BY <1>11, <1>13, <1>14

\* Both copies of the code build a listed column family's options the same
\* way: profile, callback if there is one for it, operators.
LEMMA CfListed ==
  ASSUME NEW s \in Sessions, NEW cf \in Listed(s)
  PROVE  LET cfg == Config(s)
             t == TuneCf(effective_profile(cfg, cf), new(CfOptions))
             operators == OperatorCalls(ConfigOf(cfg, cf))
         IN  /\ cfg.custom # None /\ cf \in Seen(cfg.custom, cfg.open) =>
                  CfsOf[s][cf] = ApplyAll(ApplyAll(t, cfg.custom.cf, "callback"), operators, "config").inner
             /\ ~(cfg.custom # None /\ cf \in Seen(cfg.custom, cfg.open)) =>
                  CfsOf[s][cf] = ApplyAll(t, operators, "config").inner
<1> DEFINE cfg == Config(s)
           base == ConfigOf(cfg, cf)
           t == TuneCf(effective_profile(cfg, cf), new(CfOptions))
           u == ApplyAll(t, cfg.custom.cf, "callback")
           operators == OperatorCalls(base)
           seen == cfg.custom # None /\ cf \in Seen(cfg.custom, cfg.open)
<1>1. CfsOf[s][cf] = IF s.kind \in PlainKinds THEN cf_options(cfg, cf) ELSE txn_cf_options(cfg, cf)
  <2>1. CfsOf[s] = OpenCfOptions(s)
    BY DEF CfsOf
  <2>2. cf \in cfg.open
    BY DEF Listed
  <2>3. QED
    BY <2>1, <2>2 DEF OpenCfOptions
<1> HIDE DEF cfg
<1>2. cfg.custom # None /\ cf \in Seen(cfg.custom, cfg.open) => Called(cfg.custom, cfg.open)
  BY DEF Seen, Called
<1>3. \A v : opts_to_modify(base, v) = ApplyAll(v, operators, "config").inner
  BY DEF opts_to_modify, OperatorCalls
<1>4. CASE seen
  <2>1. cf_options(cfg, cf) = opts_to_modify(base, u)
    BY <1>2, <1>4 DEF cf_options
  <2>2. txn_cf_options(cfg, cf) = ApplyAll(u, operators, "config").inner
    BY <1>4 DEF txn_cf_options, OperatorCalls, effective_profile
  <2>3. QED
    BY <1>1, <1>3, <1>4, <2>1, <2>2 DEF cfg
<1>5. CASE ~seen
  <2>1. cf_options(cfg, cf) = opts_to_modify(base, t)
    BY <1>5 DEF cf_options, Called
  <2>2. txn_cf_options(cfg, cf) = ApplyAll(t, operators, "config").inner
    BY <1>5 DEF txn_cf_options, OperatorCalls, effective_profile
  <2>3. QED
    BY <1>1, <1>3, <1>5, <2>1, <2>2 DEF cfg
<1>6. QED
  BY <1>4, <1>5 DEF cfg

LEMMA OperatorsConfigured ==
  ASSUME NEW cfg, NEW cf
  PROVE  ConfiguredOperators(cfg, cf) = OperatorsOf(ConfigOf(cfg, cf))
BY DEF ConfiguredOperators, OperatorsOf

LEMMA CfTyped ==
  ASSUME NEW s \in Sessions, NEW cf
  PROVE  LET cfg == Config(s)
             profile == effective_profile(cfg, cf)
             t == TuneCf(profile, new(CfOptions))
         IN  /\ ConfigOf(cfg, cf) \in Bases
             /\ t \in Tunables(CfOptions)
             /\ t.locked \subseteq IF profile # None /\ "fifo" \in profile.flags THEN {"max_open_files"} ELSE {}
             /\ cfg.custom # None =>
                  /\ cfg.custom.cf \in Seq(CallsOn(CfOptions)) /\ cfg.custom.cf \in Seq(Calls)
                  /\ ApplyAll(t, cfg.custom.cf, "callback") \in Tunables(CfOptions)
<1> DEFINE cfg == Config(s)
           profile == effective_profile(cfg, cf)
           t == TuneCf(profile, new(CfOptions))
<1>1. Configured(cfg)
  BY SessionConfigured
<1> HIDE DEF cfg
<1>2. ConfigOf(cfg, cf) \in Bases /\ profile \in Profiles \cup {None}
  BY <1>1 DEF Configured, effective_profile, Bases
<1> HIDE DEF profile
<1>3. /\ t \in Tunables(CfOptions)
      /\ t.locked \subseteq IF profile # None /\ "fifo" \in profile.flags THEN {"max_open_files"} ELSE {}
  BY <1>2, TuneCfFacts
<1> HIDE DEF t
<1>4. ASSUME cfg.custom # None
      PROVE  /\ cfg.custom.cf \in Seq(CallsOn(CfOptions)) /\ cfg.custom.cf \in Seq(Calls)
             /\ ApplyAll(t, cfg.custom.cf, "callback") \in Tunables(CfOptions)
  <2> DEFINE calls == cfg.custom.cf
  <2>1. calls \in Seq(CallsOn(CfOptions))
    BY <1>1, <1>4 DEF Configured
  <2> HIDE DEF calls
  <2>2. calls \in Seq(Calls) /\ "callback" \in Writers
    BY <2>1, CallsOnFacts DEF Writers
  <2>3. ApplyAll(t, calls, "callback") \in Tunables(CfOptions)
    BY <1>3, <2>2, ApplyAllTyped
  <2>4. QED
    BY <2>1, <2>2, <2>3 DEF calls
<1>5. QED
  BY <1>2, <1>3, <1>4 DEF t, profile, cfg

LEMMA OperatorsKept ==
  ASSUME NEW s \in Sessions, NEW cf \in Listed(s), NEW o \in ConfiguredOperators(Config(s), cf)
  PROVE  CfsOf[s][cf][o].by = "config"
<1> DEFINE cfg == Config(s)
           t == TuneCf(effective_profile(cfg, cf), new(CfOptions))
           u == ApplyAll(t, cfg.custom.cf, "callback")
           base == ConfigOf(cfg, cf)
           seen == cfg.custom # None /\ cf \in Seen(cfg.custom, cfg.open)
<1>1. /\ seen => CfsOf[s][cf] = ApplyAll(u, OperatorCalls(base), "config").inner
      /\ ~seen => CfsOf[s][cf] = ApplyAll(t, OperatorCalls(base), "config").inner
  BY CfListed
<1>2. base \in Bases /\ t \in Tunables(CfOptions) /\ (cfg.custom # None => u \in Tunables(CfOptions))
  BY CfTyped
<1>3. o \in OperatorsOf(base)
  BY OperatorsConfigured
<1> HIDE DEF cfg, t, u, base
<1>4. ASSUME NEW v \in Tunables(CfOptions)
      PROVE  ApplyAll(v, OperatorCalls(base), "config").inner[o].by = "config"
  BY <1>2, <1>3, OperatorsLast
<1>5. QED
  BY <1>1, <1>2, <1>4

LEMMA CfCallbackKept ==
  ASSUME NEW s \in Sessions, Config(s).custom # None,
         NEW cf \in Seen(Config(s).custom, Config(s).open),
         NEW call \in Range(Config(s).custom.cf),
         ~Lost(call, IF effective_profile(Config(s), cf) # None
                        /\ "fifo" \in effective_profile(Config(s), cf).flags
                     THEN {"max_open_files"} ELSE {}),
         NEW o \in Writes(call.key) \ ConfiguredOperators(Config(s), cf)
  PROVE  CfsOf[s][cf][o].by = "callback"
<1> DEFINE cfg == Config(s)
           profile == effective_profile(cfg, cf)
           t == TuneCf(profile, new(CfOptions))
           calls == cfg.custom.cf
           u == ApplyAll(t, calls, "callback")
           base == ConfigOf(cfg, cf)
<1>1. cf \in Listed(s)
  BY DEF Seen, Listed
<1>2. CfsOf[s][cf] = ApplyAll(u, OperatorCalls(base), "config").inner
  BY <1>1, CfListed
<1>3. /\ base \in Bases /\ t \in Tunables(CfOptions) /\ u \in Tunables(CfOptions)
      /\ calls \in Seq(CallsOn(CfOptions)) /\ calls \in Seq(Calls)
      /\ t.locked \subseteq IF profile # None /\ "fifo" \in profile.flags THEN {"max_open_files"} ELSE {}
  BY CfTyped
<1>4. o \notin OperatorsOf(base) /\ o \in Writes(call.key)
  BY OperatorsConfigured
<1>5. call \in Range(calls)
      /\ ~Lost(call, IF profile # None /\ "fifo" \in profile.flags THEN {"max_open_files"} ELSE {})
  OBVIOUS
<1> HIDE DEF cfg, t, calls, base, profile
<1>6. PICK i \in DOMAIN calls : calls[i] = call /\ call \in CallsOn(CfOptions)
  BY <1>3, <1>5, CallsOnFacts
<1>7. o \in CfOptions
  BY <1>3, <1>4, <1>6, CallsOnFacts
<1>8. ~Lost(calls[i], t.locked) /\ o \in Writes(calls[i].key) /\ "callback" \in Writers
  BY <1>3, <1>4, <1>5, <1>6 DEF Lost, Writers
<1>9. u.inner[o].by = "callback"
  BY <1>3, <1>7, <1>8, Prevails
<1> HIDE DEF u
<1>10. ApplyAll(u, OperatorCalls(base), "config").inner[o] = u.inner[o]
  BY <1>3, <1>4, <1>7, OperatorsLast
<1>11. QED
  BY <1>2, <1>9, <1>10

-----------------------------------------------------------------------------
(* Two ways to build the options of a database, compared. *)

LEMMA TuneDbSimilar ==
  ASSUME NEW t \in Tunables(DbOptions), NEW u \in Tunables(DbOptions), NEW key, Similar(DbOptions, key, t, u),
         NEW profile \in Profiles \cup {None}
  PROVE  Similar(DbOptions, key, TuneDb(profile, t), TuneDb(profile, u))
<1>1. CASE profile = None
  BY <1>1 DEF TuneDb
<1>2. CASE profile # None
  <2> DEFINE calls == DbCalls(profile)
             C == TuneCalls(DbKeysOf(profile))
  <2>1. profile.kind \in Writers
    BY <1>2 DEF Profiles, Writers
  <2>2. calls \in Seq(C)
    BY DbCallsFacts
  <2>3. \A c \in C : c \in Calls
    BY DEF TuneCalls, DbKeysOf, DbKeys, Calls, MethodKeys, DbOptions, ManyOptions
  <2>4. TuneDb(profile, t) = ApplyAll(t, calls, profile.kind)
        /\ TuneDb(profile, u) = ApplyAll(u, calls, profile.kind)
    BY <1>2 DEF TuneDb, tune_db_opts
  <2> HIDE DEF calls, C
  <2>5. calls \in Seq(Calls)
    <3> DEFINE B == Calls
    <3>1. \A c \in C : c \in B
      BY <2>3
    <3> HIDE DEF B
    <3>2. calls \in Seq(B)
      BY <2>2, <3>1
    <3>3. QED
      BY <3>2 DEF B
  <2>6. QED
    BY <2>1, <2>4, <2>5, Alike
<1>3. QED
  BY <1>1, <1>2

LEMMA DbAgrees ==
  ASSUME NEW cfg, Configured(cfg), cfg.custom = None
  PROVE  Apart(db_opts_tunable(cfg, cfg.create, cfg.open).inner, Writes("increase_parallelism"))
           = Apart(build_db_wide_options(cfg), Writes("increase_parallelism"))
<1> DEFINE t0 == Settled(cfg.create, cfg.hard, "set")
           u0 == Settled(cfg.create, cfg.hard, "inner")
           t == TuneDb(cfg.profile, t0)
           u == TuneDb(cfg.profile, u0)
           threads == Writes("increase_parallelism")
<1>1. cfg.create \in BOOLEAN /\ cfg.hard \in SUBSET HardSettings /\ cfg.profile \in Profiles \cup {None}
  BY DEF Configured
<1>2. SettledAs(t0, cfg.hard, "set") /\ SettledAs(u0, cfg.hard, "inner")
  BY <1>1, SettledFacts
<1>3. Similar(DbOptions, "increase_parallelism", t0, u0)
  BY <1>1, SettledSimilar
<1>4. db_opts_tunable(cfg, cfg.create, cfg.open) = t
  <2>1. ~Called(cfg.custom, cfg.open)
    BY DEF Called
  <2>2. db_opts_tunable(cfg, cfg.create, cfg.open)
          = IF Called(cfg.custom, cfg.open) THEN ApplyAll(t, cfg.custom.db, "callback") ELSE t
    BY <1>1, PlainDb, Zenon
  <2>3. QED
    BY <2>1, <2>2
<1>5. build_db_wide_options(cfg) = u.inner
  BY TxnDb
<1> HIDE DEF t0, u0
<1>6. t0 \in Tunables(DbOptions) /\ u0 \in Tunables(DbOptions)
  BY <1>2 DEF SettledAs
<1>7. Similar(DbOptions, "increase_parallelism", t, u)
  BY <1>1, <1>3, <1>6, TuneDbSimilar
<1>8. t \in Tunables(DbOptions) /\ u \in Tunables(DbOptions)
  BY <1>1, <1>6, TuneDbFacts
<1> HIDE DEF t, u, threads
<1>9. Apart(t.inner, threads) = Apart(u.inner, threads)
  <2>1. DOMAIN t.inner = DbOptions /\ DOMAIN u.inner = DbOptions
    BY <1>8 DEF Tunables
  <2>2. \A o \in DbOptions \ threads : t.inner[o] = u.inner[o]
    BY <1>7 DEF Similar, threads
  <2>3. QED
    BY <2>1, <2>2 DEF Apart
<1>10. QED
  BY <1>4, <1>5, <1>9 DEF threads

LEMMA CfAgrees ==
  ASSUME NEW cfg, cfg.custom = None, NEW cf
  PROVE  cf_options(cfg, cf) = txn_cf_options(cfg, cf)
BY DEF cf_options, txn_cf_options, opts_to_modify, Called, effective_profile

\* Where the log is: RocksDbCFStore destroys with the directory it opens with,
\* and the transactional stores leave it where RocksDB puts it.
LEMMA CFStoreLog ==
  ASSUME NEW s \in Sessions, s.kind = "CFStore"
  PROVE  DbOf[s]["wal_dir"] = DestroyOptions(s)["wal_dir"]
<1> DEFINE cfg == Config(s)
           t0 == Settled(cfg.create, cfg.hard, "set")
           u0 == Settled(FALSE, cfg.hard, "set")
           t == TuneDb(cfg.profile, t0)
           u == TuneDb(cfg.profile, u0)
           calls == cfg.custom.db
           opened == db_opts_tunable(cfg, cfg.create, cfg.open)
           gone == db_opts_tunable(cfg, FALSE, {})
<1>1. /\ Configured(cfg) /\ cfg.create \in BOOLEAN /\ FALSE \in BOOLEAN
      /\ cfg.hard \in SUBSET HardSettings /\ cfg.profile \in Profiles \cup {None}
      /\ cfg.custom # None => ~cfg.custom.wrapped /\ calls \in Seq(CallsOn(DbOptions))
  BY SessionConfigured DEF Configured
<1>2. DbOf[s] = opened.inner /\ DestroyOptions(s) = gone.inner
  BY DEF DbOf, OpenDbOptions, DestroyOptions, cf_destroy_options, PlainKinds
<1> HIDE DEF cfg, calls
<1>3. SettledAs(t0, cfg.hard, "set") /\ SettledAs(u0, cfg.hard, "set")
  BY <1>1, SettledFacts
<1>4. Similar(DbOptions, "create_if_missing", t0, u0)
  BY <1>1, SettledSimilar
<1>5. opened = IF Called(cfg.custom, cfg.open) THEN ApplyAll(t, calls, "callback") ELSE t
  BY <1>1, PlainDb, Zenon DEF calls
<1>6. gone = IF Called(cfg.custom, {}) THEN ApplyAll(u, calls, "callback") ELSE u
  BY <1>1, PlainDb, Zenon DEF calls
<1> HIDE DEF t0, u0, opened, gone
<1>7. t0 \in Tunables(DbOptions) /\ u0 \in Tunables(DbOptions)
  BY <1>3 DEF SettledAs
<1>8. Similar(DbOptions, "create_if_missing", t, u)
  BY <1>1, <1>4, <1>7, TuneDbSimilar
<1>9. t \in Tunables(DbOptions) /\ u \in Tunables(DbOptions)
  BY <1>1, <1>7, TuneDbFacts
<1> HIDE DEF t, u
<1>10. "wal_dir" \in DbOptions \ Writes("create_if_missing")
  BY DEF DbOptions, Writes
<1>11. CASE cfg.custom = None
  <2>1. ~Called(cfg.custom, cfg.open) /\ ~Called(cfg.custom, {})
    BY <1>11 DEF Called
  <2>2. opened = t /\ gone = u
    BY <1>5, <1>6, <2>1
  <2>3. QED
    BY <1>2, <1>8, <1>10, <2>2 DEF Similar
<1>12. CASE cfg.custom # None
  <2>1. Called(cfg.custom, cfg.open) /\ Called(cfg.custom, {})
    BY <1>1, <1>12 DEF Called
  <2>2. opened = ApplyAll(t, calls, "callback") /\ gone = ApplyAll(u, calls, "callback")
    BY <1>5, <1>6, <2>1
  <2>3. calls \in Seq(Calls) /\ "callback" \in Writers
    BY <1>1, <1>12, CallsOnFacts DEF Writers
  <2>4. Similar(DbOptions, "create_if_missing", opened, gone)
    BY <1>8, <1>9, <2>2, <2>3, Alike
  <2>5. QED
    BY <1>2, <1>10, <2>4 DEF Similar
<1>13. QED
  BY <1>11, <1>12

LEMMA TxnLog ==
  ASSUME NEW s \in Sessions, s.kind \in TxnKinds
  PROVE  ~WalDir(s)
<1> DEFINE cfg == Config(s)
           t == TuneDb(cfg.profile, Settled(cfg.create, cfg.hard, "inner"))
<1>1. /\ Configured(cfg) /\ cfg.create \in BOOLEAN
      /\ cfg.hard \in SUBSET HardSettings /\ cfg.profile \in Profiles \cup {None}
  BY SessionConfigured DEF Configured
<1>2. DbOf[s] = build_db_wide_options(cfg)
  BY DEF DbOf, OpenDbOptions, PlainKinds, TxnKinds
<1> HIDE DEF cfg
<1>3. DbOf[s] = t.inner
  BY <1>1, <1>2, TxnDb
<1>4. TunedAs(t, cfg.hard, cfg.profile, "inner")
  BY <1>1, DbLayers
<1> HIDE DEF t
<1>5. QED
  BY <1>3, <1>4 DEF TunedAs, WalDir

-----------------------------------------------------------------------------
(* Types of the stores. *)

RowSets == [Keys -> Row \cup {None}]

\* A database whose column families are those of a session.
Database(d) ==
  /\ Default \in DOMAIN d.cfs /\ DOMAIN d.cfs \subseteq CfNames \cup {Default}
  /\ d \in Disks(DOMAIN d.cfs)

LEMMA OpenFamilies ==
  ASSUME NEW s \in Sessions
  PROVE  /\ DOMAIN CfsOf[s] = Listed(s) \cup {Default}
         /\ DOMAIN CfsOf[s] \subseteq CfNames \cup {Default}
<1>1. Configured(Config(s))
  BY SessionConfigured
<1>2. CfsOf[s] = OpenCfOptions(s)
  BY DEF CfsOf
<1>3. DOMAIN OpenCfOptions(s) = Config(s).open \cup {Default}
  BY DEF OpenCfOptions
<1>4. QED
  BY <1>1, <1>2, <1>3 DEF Configured, Listed

LEMMA DatabaseFacts ==
  ASSUME NEW d, Database(d), NEW cf \in DOMAIN d.cfs
  PROVE  /\ d = [wal |-> d.wal, cfs |-> d.cfs] /\ d.wal \in BOOLEAN
         /\ d.cfs \in [DOMAIN d.cfs -> CfStates]
         /\ d.cfs[cf] \in CfStates
         /\ d.cfs[cf] = [natural |-> d.cfs[cf].natural, rows |-> d.cfs[cf].rows]
         /\ d.cfs[cf].natural \in BOOLEAN /\ d.cfs[cf].rows \in RowSets
<1>1. d = [wal |-> d.wal, cfs |-> d.cfs] /\ d.wal \in BOOLEAN /\ d.cfs \in [DOMAIN d.cfs -> CfStates]
  BY DEF Database, Disks
<1>2. d.cfs[cf] \in CfStates
  BY <1>1
<1> DEFINE c == d.cfs[cf]
<1> HIDE DEF c
<1>3. c \in CfStates => /\ c = [natural |-> c.natural, rows |-> c.rows]
                       /\ c.natural \in BOOLEAN /\ c.rows \in RowSets
  BY DEF CfStates, RowSets
<1>4. QED
  BY <1>1, <1>2, <1>3 DEF c

LEMMA OpenedTyped ==
  ASSUME NEW s \in Sessions, disk # None => Database(disk)
  PROVE  DOMAIN Opened(s).cfs = DOMAIN CfsOf[s] /\ Database(Opened(s))
<1> DEFINE d == Opened(s)
           names == DOMAIN CfsOf[s]
<1>1. Default \in names /\ names \subseteq CfNames \cup {Default}
  BY OpenFamilies
<1>2. /\ d = [wal |-> d.wal, cfs |-> d.cfs] /\ d.wal = WalDir(s)
      /\ d.cfs = [cf \in names |-> IF disk # None /\ cf \in DOMAIN disk.cfs THEN disk.cfs[cf] ELSE Empty(s, cf)]
  BY DEF Opened
<1> HIDE DEF d, names
<1>3. d.wal \in BOOLEAN
  BY <1>2 DEF WalDir
<1>4. \A cf : Empty(s, cf) \in CfStates
  BY DEF Empty, CfStates, Natural
<1>5. disk # None => \A cf \in DOMAIN disk.cfs : disk.cfs[cf] \in CfStates
  BY DatabaseFacts
<1>6. d.cfs \in [names -> CfStates] /\ DOMAIN d.cfs = names
  BY <1>2, <1>4, <1>5
<1>7. Database(d)
  <2>1. d \in Disks(names)
    BY <1>2, <1>3, <1>6 DEF Disks
  <2>2. QED
    BY <1>1, <1>6, <2>1 DEF Database
<1>8. QED
  BY <1>6, <1>7 DEF d, names

LEMMA TypeDatabase ==
  TypeOK <=> /\ disk # None => Database(disk)
             /\ session \in Sessions \cup {None}
             /\ session # None => disk # None /\ DOMAIN disk.cfs = DOMAIN CfsOf[session]
             /\ writes \in 0..MaxWrites
BY DEF TypeOK, Database

\* Where an open store can write.
LEMMA AddressableFacts ==
  ASSUME TypeOK, session # None, NEW cf
  PROVE  /\ session \in Sessions /\ disk # None /\ Database(disk)
         /\ Addressable(cf) => cf \in DOMAIN disk.cfs
         /\ cf \in DOMAIN disk.cfs => Addressable(cf)
<1>1. session \in Sessions /\ disk # None /\ Database(disk) /\ DOMAIN disk.cfs = DOMAIN CfsOf[session]
  BY TypeDatabase
<1>2. DOMAIN CfsOf[session] = Listed(session) \cup {Default}
  BY <1>1, OpenFamilies
<1>3. QED
  BY <1>1, <1>2 DEF Addressable, get_cf_handle

LEMMA NewRows ==
  ASSUME NEW d, Database(d), NEW cf \in DOMAIN d.cfs, NEW rows \in RowSets
  PROVE  LET e == [d EXCEPT !.cfs[cf].rows = rows]
         IN  Database(e) /\ DOMAIN e.cfs = DOMAIN d.cfs /\ e # None
<1> DEFINE e == [d EXCEPT !.cfs[cf].rows = rows]
           c == [natural |-> d.cfs[cf].natural, rows |-> rows]
           names == DOMAIN d.cfs
           f == [d.cfs EXCEPT ![cf] = c]
<1>1. /\ d = [wal |-> d.wal, cfs |-> d.cfs] /\ d.wal \in BOOLEAN
      /\ d.cfs \in [names -> CfStates]
      /\ d.cfs[cf] = [natural |-> d.cfs[cf].natural, rows |-> d.cfs[cf].rows]
      /\ d.cfs[cf].natural \in BOOLEAN
  BY DatabaseFacts
<1>2. c \in CfStates
  BY <1>1 DEF CfStates, RowSets
<1>3. [d.cfs[cf] EXCEPT !.rows = rows] = c
  BY <1>1
<1>4. e = [wal |-> d.wal, cfs |-> f]
  <2>1. e = [d EXCEPT !.cfs = [d.cfs EXCEPT ![cf] = [d.cfs[cf] EXCEPT !.rows = rows]]]
    BY <1>1
  <2> HIDE DEF e, c
  <2>2. e = [d EXCEPT !.cfs = f]
    BY <2>1, <1>3
  <2> HIDE DEF f
  <2>3. QED
    BY <2>2, <1>1
<1> HIDE DEF e, c
<1>5. f \in [names -> CfStates] /\ DOMAIN f = names
  BY <1>1, <1>2
<1> HIDE DEF f
<1>6. e.cfs = f /\ e \in Disks(names)
  BY <1>1, <1>4, <1>5 DEF Disks
<1>7. names \subseteq CfNames \cup {Default} /\ Default \in names
  BY DEF Database
<1> HIDE DEF names
<1>8. Database(e) /\ DOMAIN e.cfs = names
  BY <1>5, <1>6, <1>7 DEF Database
<1>9. e # None
  BY <1>6, <1>7, NoneAssumption
<1>10. QED
  BY <1>8, <1>9 DEF e, names

LEMMA WriteTyped ==
  ASSUME TypeOK, NEW op, NEW cf, NEW names, NEW accepted, NEW rows,
         Write(op, cf, names, accepted, rows),
         Addressable(cf) /\ accepted => rows \in RowSets
  PROVE  TypeOK'
<1>1. session # None /\ session' = session /\ writes < MaxWrites
  BY DEF Write, Calling
<1>2. /\ session \in Sessions /\ disk # None /\ Database(disk) /\ DOMAIN disk.cfs = DOMAIN CfsOf[session]
      /\ writes \in 0..MaxWrites
  BY <1>1, TypeDatabase
<1>3. CASE Addressable(cf) /\ accepted
  <2>1. disk' = [disk EXCEPT !.cfs[cf].rows = rows] /\ writes' = writes + 1
    BY <1>3 DEF Write
  <2>2. cf \in DOMAIN disk.cfs /\ rows \in RowSets
    BY <1>1, <1>3, AddressableFacts
  <2>3. Database(disk') /\ DOMAIN disk'.cfs = DOMAIN disk.cfs /\ disk' # None
    BY <1>2, <2>1, <2>2, NewRows
  <2>4. writes' \in 0..MaxWrites
    BY <1>1, <1>2, <2>1, BoundAssumption
  <2>5. QED
    BY <1>1, <1>2, <2>3, <2>4 DEF TypeOK, Database
<1>4. CASE ~(Addressable(cf) /\ accepted)
  <2>1. disk' = disk /\ writes' = writes
    BY <1>4 DEF Write
  <2>2. QED
    BY <1>1, <2>1 DEF TypeOK
<1>5. QED
  BY <1>3, <1>4

LEMMA AddressedRows ==
  ASSUME TypeOK, session # None, NEW cf, Addressable(cf)
  PROVE  Rows(cf) \in RowSets
<1>1. Database(disk) /\ cf \in DOMAIN disk.cfs
  BY AddressableFacts
<1>2. QED
  BY <1>1, DatabaseFacts DEF Rows

LEMMA RowSetChange ==
  ASSUME NEW rows \in RowSets, NEW key \in Keys, NEW row \in Row \cup {None}
  PROVE  [rows EXCEPT ![key] = row] \in RowSets
BY DEF RowSets

LEMMA PutTyped ==
  ASSUME TypeOK, NEW op, NEW cf, NEW key \in Keys, NEW form \in Forms, Put(op, cf, key, form)
  PROVE  TypeOK'
<1> DEFINE row == [form |-> form, pending |-> FALSE, broken |-> FALSE]
           rows == [Rows(cf) EXCEPT ![key] = row]
<1>1. Write(op, cf, Names, TRUE, rows) /\ session # None
  BY DEF Put, Write, Calling
<1>2. row \in Row \cup {None}
  BY DEF Row
<1> HIDE DEF row
<1>3. Addressable(cf) => rows \in RowSets
  BY <1>1, <1>2, AddressedRows, RowSetChange
<1> HIDE DEF rows
<1>4. QED
  BY <1>1, <1>3, WriteTyped

LEMMA MergeTyped ==
  ASSUME TypeOK, NEW op, NEW cf, NEW names, NEW key \in Keys, NEW form \in Forms,
         Merge(op, cf, names, key, form)
  PROVE  TypeOK'
<1>1. PICK fails \in BOOLEAN :
        Write(op, cf, names, HasOperator(cf),
              [Rows(cf) EXCEPT ![key] =
                 [ form |-> form, pending |-> TRUE, broken |-> fails \/ (@ # None /\ @.broken) ]])
  BY DEF Merge
<1> DEFINE old == Rows(cf)[key]
           row == [ form |-> form, pending |-> TRUE, broken |-> fails \/ (old # None /\ old.broken) ]
           rows == [Rows(cf) EXCEPT ![key] = row]
<1>2. Write(op, cf, names, HasOperator(cf), rows) /\ session # None
  BY <1>1 DEF Write, Calling
<1>3. Addressable(cf) => rows \in RowSets
  <2> SUFFICES ASSUME Addressable(cf) PROVE rows \in RowSets
    OBVIOUS
  <2>1. Rows(cf) \in RowSets
    BY <1>2, AddressedRows
  <2>2. row \in Row \cup {None}
    BY DEF Row
  <2> HIDE DEF row
  <2>3. QED
    BY <2>1, <2>2, RowSetChange
<1> HIDE DEF rows
<1>4. QED
  BY <1>2, <1>3, WriteTyped

LEMMA OpenTyped ==
  ASSUME TypeOK, NEW s \in Sessions, open(s)
  PROVE  TypeOK'
<1>1. /\ disk # None => Database(disk)
      /\ session \in Sessions \cup {None} /\ writes \in 0..MaxWrites /\ writes' = writes
  BY TypeDatabase DEF open
<1>2. \/ disk' = disk /\ session' = session
      \/ disk' = Opened(s) /\ session = None /\ session' \in {s, None}
  <2>1. ~Refused(s) => session = None
    BY DEF Refused
  <2>2. QED
    BY <2>1 DEF open
<1>3. CASE disk' = disk /\ session' = session
  BY <1>1, <1>3 DEF TypeOK
<1>4. CASE disk' = Opened(s) /\ session = None /\ session' \in {s, None}
  <2>1. DOMAIN disk'.cfs = DOMAIN CfsOf[s] /\ Database(disk')
    BY <1>1, <1>4, OpenedTyped
  <2>2. disk' # None
    BY <2>1, NoneAssumption DEF Database
  <2>3. QED
    BY <1>1, <1>4, <2>1, <2>2 DEF TypeOK, Database
<1>5. QED
  BY <1>2, <1>3, <1>4

LEMMA CompactTyped ==
  ASSUME TypeOK, Compact
  PROVE  TypeOK'
<1>1. PICK cf \in DOMAIN disk.cfs, key \in Keys :
        /\ Rows(cf)[key] # None
        /\ disk' = [disk EXCEPT !.cfs[cf].rows[key].pending = FALSE]
  BY DEF Compact
<1>2. session # None /\ session' = session /\ writes' = writes
  BY DEF Compact, Calling
<1>3. Database(disk) /\ disk # None /\ session \in Sessions
  BY <1>2, AddressableFacts
<1> DEFINE row == [Rows(cf)[key] EXCEPT !.pending = FALSE]
           rows == [Rows(cf) EXCEPT ![key] = row]
<1>4. Rows(cf) \in RowSets
  BY <1>3, DatabaseFacts DEF Rows
<1>5. row \in Row \cup {None}
  BY <1>1, <1>4 DEF RowSets, Row
<1>6. disk' = [disk EXCEPT !.cfs[cf].rows = rows]
  BY <1>1 DEF Rows
<1> HIDE DEF row
<1>7. rows \in RowSets
  BY <1>4, <1>5, RowSetChange
<1> HIDE DEF rows
<1>8. Database(disk') /\ DOMAIN disk'.cfs = DOMAIN disk.cfs /\ disk' # None
  BY <1>3, <1>6, <1>7, NewRows
<1>9. QED
  BY <1>2, <1>3, <1>8 DEF TypeOK, Database

LEMMA DeleteRangeTyped ==
  ASSUME TypeOK, NEW cf, NEW from \in Keys, NEW to \in Keys, delete_range(cf, from, to)
  PROVE  TypeOK'
<1> DEFINE rows == [k \in Keys |-> IF ~Before(cf, k, from) /\ Before(cf, k, to) THEN None ELSE Rows(cf)[k]]
<1>1. \/ UNCHANGED <<disk, session, leftover, writes>>
      \/ \E accepted \in BOOLEAN : session # None /\ Write("delete_range", cf, Names, accepted, rows)
  BY DEF delete_range, Calling
<1>2. CASE UNCHANGED <<disk, session, leftover, writes>>
  BY <1>2 DEF TypeOK
<1>3. ASSUME NEW accepted \in BOOLEAN, session # None, Write("delete_range", cf, Names, accepted, rows)
      PROVE  TypeOK'
  <2>1. Addressable(cf) => rows \in RowSets
    BY <1>3, AddressedRows DEF RowSets
  <2> HIDE DEF rows
  <2>2. QED
    BY <1>3, <2>1, WriteTyped
<1>4. QED
  BY <1>1, <1>2, <1>3

LEMMA TypeStep ==
  ASSUME TypeOK, Next
  PROVE  TypeOK'
<1>1. ASSUME NEW s \in Sessions, open(s)
      PROVE  TypeOK'
  BY <1>1, OpenTyped
<1>2. ASSUME NEW s \in Sessions, destroy(s)
      PROVE  TypeOK'
  BY <1>2 DEF destroy, TypeOK
<1>3. CASE close \/ take
  BY <1>3, NoneAssumption DEF close, take, TypeOK
<1>4. CASE Compact
  BY <1>4, CompactTyped
<1>5. ASSUME NEW form \in Forms, write(form)
      PROVE  TypeOK'
  <2> DEFINE rows == [k \in Keys |-> [form |-> form, pending |-> FALSE, broken |-> FALSE]]
  <2>1. Write("write", Default, Names, TRUE, rows)
    BY <1>5 DEF write
  <2>2. rows \in RowSets
    BY DEF RowSets, Row
  <2> HIDE DEF rows
  <2>3. QED
    BY <2>1, <2>2, WriteTyped
<1>6. ASSUME NEW cf, NEW keys, ReadMany(cf, keys)
      PROVE  TypeOK'
  BY <1>6 DEF ReadMany, Read, TypeOK
<1>7. ASSUME NEW cf, NEW key, ReadOne(cf, key)
      PROVE  TypeOK'
  BY <1>7 DEF ReadOne, Read, TypeOK
<1>8. ASSUME NEW cf, NEW key \in Keys, put(cf, key) \/ put_raw(cf, key) \/ put_with_expiry(cf, key)
      PROVE  TypeOK'
  BY <1>8, PutTyped DEF put, put_raw, put_with_expiry, Forms
<1>9. ASSUME NEW cf, NEW key \in Keys, delete(cf, key)
      PROVE  TypeOK'
  <2> DEFINE rows == [Rows(cf) EXCEPT ![key] = None]
  <2>1. Write("delete", cf, Names, TRUE, rows) /\ session # None
    BY <1>9 DEF delete, Write, Calling
  <2>2. Addressable(cf) => rows \in RowSets
    BY <2>1, AddressedRows, RowSetChange
  <2> HIDE DEF rows
  <2>3. QED
    BY <2>1, <2>2, WriteTyped
<1>10. ASSUME NEW cf, NEW key \in Keys, NEW to \in Keys, delete_range(cf, key, to)
       PROVE  TypeOK'
  BY <1>10, DeleteRangeTyped
<1>11. ASSUME NEW cf, NEW key \in Keys, merge(cf, key) \/ merge_raw(cf, key) \/ merge_with_expiry(cf, key)
       PROVE  TypeOK'
  BY <1>11, MergeTyped DEF merge, merge_raw, merge_with_expiry, Forms
<1>12. QED
  BY <1>1, <1>2, <1>3, <1>4, <1>5, <1>6, <1>7, <1>8, <1>9, <1>10, <1>11 DEF Next

\* Whatever the stores do one after the other, the database keeps its shape,
\* and a session that is open has options for exactly the column families that
\* the database has: open (cf_store.rs:117) creates those it lists and RocksDB
\* refuses to open without those that exist.
THEOREM TypeCorrect == Spec => []TypeOK
<1>1. Init => TypeOK
  BY BoundAssumption DEF Init, TypeOK
<1>2. TypeOK /\ [Next]_vars => TypeOK'
  <2>1. ASSUME TypeOK, UNCHANGED vars
        PROVE  TypeOK'
    BY <2>1 DEF TypeOK, vars
  <2>2. QED
    BY <2>1, TypeStep
<1>3. QED
  BY <1>1, <1>2, PTL DEF Spec

\* The options of a session that has just been opened, whatever configuration
\* and callback (cf_store.rs:185-290, tx/internal.rs:60-160): which hard
\* settings a profile leaves alone and which it takes over, what of a callback
\* is in effect and where, and that the configured operators are.
THEOREM LayersAlwaysInOrder == Spec => []LayersInOrder
<1>1. TypeOK => LayersInOrder
  <2> SUFFICES ASSUME TypeOK, Opening PROVE LayersInOrder
    BY DEF LayersInOrder, HardSettingsSettled, CallbackPrevails, OperatorsInEffect
  <2>1. session \in Sessions
    BY DEF TypeOK, Opening
  <2>2. HardSettingsSettled
    BY <2>1, HardSettingsWritten DEF HardSettingsSettled
  <2>3. OperatorsInEffect
    BY <2>1, OperatorsKept DEF OperatorsInEffect
  <2>4. ASSUME Config(session).custom # None, session.kind \in PlainKinds,
               NEW call \in Range(Config(session).custom.db),
               ~Lost(call, IF "parallelism" \in Config(session).hard THEN {"increase_parallelism"} ELSE {}),
               NEW o \in Writes(call.key) \ {}
        PROVE  DbOf[session][o].by = "callback"
    BY <2>1, <2>4, DbCallbackKept
  <2>5. ASSUME Config(session).custom # None,
               NEW cf \in Seen(Config(session).custom, Config(session).open),
               NEW call \in Range(Config(session).custom.cf),
               ~Lost(call, IF effective_profile(Config(session), cf) # None
                              /\ "fifo" \in effective_profile(Config(session), cf).flags
                           THEN {"max_open_files"} ELSE {}),
               NEW o \in Writes(call.key) \ ConfiguredOperators(Config(session), cf)
        PROVE  CfsOf[session][cf][o].by = "callback"
    BY <2>1, <2>5, CfCallbackKept
  <2>6. session.kind \in TxnKinds => \A o \in DbOptions : DbOf[session][o].by # "callback"
    BY <2>1, HardSettingsWritten
  <2>7. CallbackPrevails
    BY <2>4, <2>5, <2>6 DEF CallbackPrevails, Lost
  <2>8. QED
    BY <2>2, <2>3, <2>7 DEF LayersInOrder
<1>2. QED
  BY <1>1, TypeCorrect, PTL

\* The two copies of the code that builds options make the same of one
\* configuration, but for the threads: every method that cf_store.rs and
\* tx/internal.rs call on the options writes the same options.
THEOREM PathsAlwaysAgree == Spec => []PathsAgree
<1>1. TypeOK => PathsAgree
  <2> SUFFICES ASSUME TypeOK, Opening, Config(session).custom = None PROVE PathsAgree
    BY DEF PathsAgree
  <2>1. session \in Sessions
    BY DEF TypeOK, Opening
  <2> DEFINE cfg == Config(session)
  <2>2. Configured(cfg)
    BY <2>1, SessionConfigured
  <2>3. PathsAgree <=>
          /\ Apart(db_opts_tunable(cfg, cfg.create, cfg.open).inner, Writes("increase_parallelism"))
               = Apart(build_db_wide_options(cfg), Writes("increase_parallelism"))
          /\ \A cf \in Listed(session) : cf_options(cfg, cf) = txn_cf_options(cfg, cf)
    BY Zenon DEF PathsAgree
  <2>4. cfg.custom = None
    OBVIOUS
  <2> HIDE DEF cfg
  <2>5. QED
    BY <2>2, <2>3, <2>4, DbAgrees, CfAgrees
<1>2. QED
  BY <1>1, TypeCorrect, PTL

\* What the writes do to all but the database.
WriteOps ==
  { "put", "put_raw", "put_with_expiry", "delete", "delete_range",
    "merge", "merge_raw", "merge_with_expiry", "write" }

Writing ==
  \E op \in WriteOps : \E cf, result :
    Return(op, cf, <<>>, result) /\ UNCHANGED <<session, leftover>>

LEMMA Steps ==
  ASSUME Next
  PROVE  \/ \E s \in Sessions : open(s)
         \/ \E s \in Sessions : destroy(s)
         \/ close \/ take \/ Compact
         \/ Writing
         \/ \E cf \in CfNames : (\E keys \in KeyLists : ReadMany(cf, keys)) \/ (\E key \in Keys : ReadOne(cf, key))
<1>1. ASSUME NEW op \in WriteOps, NEW cf, NEW names, NEW accepted, NEW rows,
             Write(op, cf, names, accepted, rows)
      PROVE  Writing
  BY <1>1 DEF Write, Writing
<1>2. ASSUME NEW form \in Forms, write(form)
      PROVE  Writing
  BY <1>1, <1>2 DEF write, WriteOps
<1>3. ASSUME NEW cf \in CfNames, NEW key \in Keys, put(cf, key) \/ put_raw(cf, key) \/ put_with_expiry(cf, key)
      PROVE  Writing
  BY <1>1, <1>3 DEF put, put_raw, put_with_expiry, Put, WriteOps
<1>4. ASSUME NEW cf \in CfNames, NEW key \in Keys, delete(cf, key)
      PROVE  Writing
  BY <1>1, <1>4 DEF delete, WriteOps
<1>5. ASSUME NEW cf \in CfNames, NEW key \in Keys, NEW to \in Keys, delete_range(cf, key, to)
      PROVE  Writing
  <2>1. CASE /\ Return("delete_range", cf, <<>>, Err("Other"))
             /\ UNCHANGED <<disk, session, leftover, writes>>
    BY <2>1 DEF Writing, WriteOps
  <2>2. ASSUME NEW accepted, NEW rows, Write("delete_range", cf, Names, accepted, rows)
        PROVE  Writing
    BY <1>1, <2>2 DEF WriteOps
  <2>3. QED
    BY <1>5, <2>1, <2>2 DEF delete_range
<1>6. ASSUME NEW cf \in CfNames, NEW key \in Keys, merge(cf, key) \/ merge_raw(cf, key) \/ merge_with_expiry(cf, key)
      PROVE  Writing
  <2>1. ASSUME NEW op \in WriteOps, NEW names, NEW form, Merge(op, cf, names, key, form)
        PROVE  Writing
    BY <1>1, <2>1 DEF Merge
  <2>2. QED
    BY <1>6, <2>1 DEF merge, merge_raw, merge_with_expiry, WriteOps
<1>7. QED
  BY <1>2, <1>3, <1>4, <1>5, <1>6 DEF Next

\* A store that is open accepts the name of every column family of the
\* database, the default one without a handle (cf_store.rs:304,
\* cf_tx_store.rs:175).
THEOREM NoRowOutOfReach == Spec => []EveryCfReachable
<1>1. TypeOK => EveryCfReachable
  BY AddressableFacts DEF EveryCfReachable
<1>2. QED
  BY <1>1, TypeCorrect, PTL

\* destroy finds the write-ahead log wherever the callback put it, except that
\* of RocksDbStore, whose callback asks for the options of the default column
\* family (store.rs) and is handed none (cf_store.rs:432).
THEOREM LogDestroyed == Spec => []LeftoverOnlyByStore
<1>1. Init => LeftoverOnlyByStore
  BY DEF Init, LeftoverOnlyByStore
<1>2. LeftoverOnlyByStore /\ [Next]_vars => LeftoverOnlyByStore'
  <2> SUFFICES ASSUME LeftoverOnlyByStore, [Next]_vars PROVE LeftoverOnlyByStore'
    OBVIOUS
  <2>1. ASSUME NEW s \in Sessions, destroy(s), leftover' # leftover
        PROVE  leftover' = "Store"
    <3>1. /\ leftover' = s.kind /\ disk.wal /\ DestroyOptions(s)["wal_dir"] = Unset
          /\ WalDir(s) = disk.wal
      BY <2>1 DEF destroy, SamePlace
    <3>2. s.kind \notin TxnKinds
      BY <3>1, TxnLog
    <3>3. s.kind # "CFStore"
      BY <3>1, CFStoreLog DEF WalDir
    <3>4. s.kind \in PlainKinds \cup TxnKinds
      BY SessionsAssumption DEF Wrappers, PlainKinds, TxnKinds
    <3>5. QED
      BY <3>1, <3>2, <3>3, <3>4 DEF PlainKinds
  <2>2. CASE leftover' # leftover
    <3>1. Next
      BY <2>2 DEF vars
    <3>2. \E s \in Sessions : destroy(s)
      BY <2>2, <3>1, Steps DEF open, close, take, Compact, Writing, ReadMany, ReadOne, Read
    <3>3. QED
      BY <2>1, <2>2, <3>2 DEF LeftoverOnlyByStore
  <2>3. QED
    BY <2>2 DEF LeftoverOnlyByStore
<1>3. QED
  BY <1>1, <1>2, PTL DEF Spec

-----------------------------------------------------------------------------
(* What the reads answer. *)

\* A first key that cannot be read makes the whole answer an error.
LEMMA CollectFacts ==
  ASSUME NEW n \in Nat, NEW results, DOMAIN results = 1..n, collect(results).ok
  PROVE  /\ \A i \in 1..n : results[i].ok
         /\ collect(results).value = [i \in 1..n |-> results[i].value]
<1>1. CASE \A i \in 1..n : results[i].ok
  BY <1>1 DEF collect, Ok
<1>2. CASE ~(\A i \in 1..n : results[i].ok)
  <2> DEFINE bad == {i \in 1..n : ~results[i].ok}
             first(i) == ~results[i].ok /\ \A j \in 1..(i - 1) : results[j].ok
  <2>1. \E i \in 1..n : first(i)
    <3> SUFFICES ASSUME \A i \in 1..n : ~first(i) PROVE FALSE
      OBVIOUS
    <3> DEFINE fine == {m \in Nat : \A i \in 1..n : i <= m => results[i].ok}
    <3>1. 0 \in fine
      OBVIOUS
    <3>2. ASSUME NEW m \in Nat, m \in fine PROVE m + 1 \in fine
      BY <3>2
    <3> HIDE DEF fine
    <3>3. Nat \subseteq fine
      BY <3>1, <3>2, SetInduction
    <3>4. QED
      BY <3>3, <1>2 DEF fine
  <2>2. collect(results) = results[CHOOSE i \in DOMAIN results : first(i)]
    BY <1>2 DEF collect
  <2>3. first(CHOOSE i \in DOMAIN results : first(i))
    <3> HIDE DEF first
    <3>1. QED BY <2>1
  <2>4. QED
    BY <2>2, <2>3
<1>3. QED
  BY <1>1, <1>2

RowOf(cf, key) == disk.cfs[cf].rows[key]

LEMMA LookupFacts ==
  ASSUME TypeOK, session # None, NEW cf, Addressable(cf), NEW key \in Keys
  PROVE  LET r == Lookup(cf, key)
             row == RowOf(cf, key)
         IN  /\ r.ok => (r.value = None <=> row = None)
             /\ r.ok /\ row # None =>
                  /\ ~Unreadable(cf, row)
                  /\ r.value \in [key : Keys, form : Forms] /\ r.value.key = key
             /\ ~r.ok => row # None /\ Unreadable(cf, row)
<1> DEFINE row == RowOf(cf, key)
           v == [key |-> key, form |-> row.form]
<1>1. row \in Row \cup {None}
  BY AddressedRows DEF Rows, RowSets, RowOf
<1>2. row # None => v \in [key : Keys, form : Forms] /\ v.key = key
  BY <1>1 DEF Row
<1>3. row # None => v \in Records
  BY <1>2 DEF Records, Forms
<1>4. row # None => v # None
  BY <1>3, NoneAssumption
<1>5. Lookup(cf, key) = IF row = None THEN Ok(None)
                        ELSE IF Unreadable(cf, row) THEN Err("RocksDb") ELSE Ok(v)
  BY DEF Lookup, RowOf
<1> HIDE DEF row, v
<1>6. QED
  BY <1>2, <1>4, <1>5 DEF Ok, Err, row

\* What is found of a row: nothing, or something made of what is stored.
Reads(cf, key, found) ==
  LET single == Lookup(cf, key)
  IN  IF single.ok /\ single.value # None
      THEN found \in Records /\ found.key = key /\ found.form \in {single.value.form, "garbage"}
      ELSE found = None

LEMMA DecodeFacts ==
  ASSUME NEW v \in [key : Keys, form : Forms], NEW lenient
  PROVE  /\ deserialize_value(v, lenient).ok =>
              LET w == deserialize_value(v, lenient).value
              IN  w \in Records /\ w.key = v.key /\ w.form \in {v.form, "garbage"}
         /\ from_slice(v, lenient).ok =>
              LET w == from_slice(v, lenient).value
              IN  w \in Records /\ w.key = v.key /\ w.form \in {v.form, "garbage"}
<1>1. v \in Records /\ v.form \in Forms
  BY DEF Records
<1>2. [v EXCEPT !.form = "garbage"] \in Records /\ [v EXCEPT !.form = "garbage"].key = v.key
      /\ [v EXCEPT !.form = "garbage"].form = "garbage"
  BY DEF Records
<1>3. QED
  BY <1>1, <1>2 DEF deserialize_value, from_slice, Misread, Ok, Err, Forms

\* The reads of one key.
LEMMA SingleReads ==
  ASSUME TypeOK, session # None, NEW cf, Addressable(cf), NEW key \in Keys, NEW lenient
  PROVE  /\ Lookup(cf, key).ok => Reads(cf, key, Lookup(cf, key).value)
         /\ get(cf, key, lenient).ok => Lookup(cf, key).ok /\ Reads(cf, key, get(cf, key, lenient).value)
         /\ get_with_expiry(cf, key, lenient).ok =>
              Lookup(cf, key).ok /\ Reads(cf, key, get_with_expiry(cf, key, lenient).value)
<1> DEFINE r == Lookup(cf, key)
           v == r.value
<1>1. r.ok /\ v # None => v \in [key : Keys, form : Forms] /\ v.key = key
  BY LookupFacts
<1>2. [key : Keys, form : Forms] \subseteq Records
  BY DEF Records
<1>3. /\ get(cf, key, lenient) = IF r.ok /\ v # None THEN deserialize_value(v, lenient) ELSE r
      /\ get_with_expiry(cf, key, lenient) = IF r.ok /\ v # None THEN from_slice(v, lenient) ELSE r
  BY DEF get, get_with_expiry, get_raw, map_or
<1> HIDE DEF r
<1>4. r.ok => Reads(cf, key, v)
  BY <1>1, <1>2 DEF Reads, r
<1>5. CASE r.ok /\ v # None
  <2>1. ASSUME NEW w \in Records, w.key = v.key, w.form \in {v.form, "garbage"}
        PROVE  Reads(cf, key, w)
    BY <1>1, <1>5, <2>1 DEF Reads, r
  <2>2. QED
    BY <1>1, <1>3, <1>4, <1>5, <2>1, DecodeFacts DEF r
<1>6. CASE ~(r.ok /\ v # None)
  BY <1>3, <1>4, <1>6 DEF r
<1>7. QED
  BY <1>5, <1>6


\* The reads of many keys: every value of the list is of its own key.
Answers(cf, keys, values) ==
  DOMAIN values = DOMAIN keys /\ \A i \in DOMAIN keys : Reads(cf, keys[i], values[i])

LEMMA MultigetReads ==
  ASSUME TypeOK, session # None, NEW cf, Addressable(cf), NEW n \in Nat, NEW keys \in [1..n -> Keys],
         NEW lenient, multiget(cf, keys, lenient).ok
  PROVE  /\ Answers(cf, keys, multiget(cf, keys, lenient).value)
         /\ \A i \in 1..n : Lookup(cf, keys[i]).ok => get(cf, keys[i], lenient).ok
<1> DEFINE result(i) == IF Lookup(cf, keys[i]).ok THEN get(cf, keys[i], lenient) ELSE Ok(None)
           results == [i \in 1..n |-> result(i)]
           m == multiget(cf, keys, lenient)
<1>1. m = collect(results)
  BY DEF multiget, get
<1>2. m.ok
  OBVIOUS
<1> HIDE DEF results, m
<1>3. DOMAIN results = 1..n /\ \A i \in 1..n : results[i] = result(i)
  BY DEF results
<1> HIDE DEF result
<1>4. (\A i \in 1..n : result(i).ok) /\ m.value = [i \in 1..n |-> result(i).value]
  BY <1>1, <1>2, <1>3, CollectFacts
<1>5. ASSUME NEW i \in 1..n
      PROVE  Reads(cf, keys[i], result(i).value) /\ (Lookup(cf, keys[i]).ok => get(cf, keys[i], lenient).ok)
  <2>1. keys[i] \in Keys
    OBVIOUS
  <2>2. CASE Lookup(cf, keys[i]).ok
    <3>1. result(i) = get(cf, keys[i], lenient)
      BY <2>2 DEF result
    <3>2. QED
      BY <1>4, <2>1, <3>1, SingleReads
  <2>3. CASE ~Lookup(cf, keys[i]).ok
    BY <2>3 DEF result, Ok, Reads
  <2>4. QED
    BY <2>2, <2>3
<1>6. Answers(cf, keys, m.value)
  BY <1>4, <1>5 DEF Answers
<1>7. QED
  BY <1>5, <1>6 DEF m

LEMMA MultigetRawReads ==
  ASSUME TypeOK, session # None, NEW cf, Addressable(cf), NEW n \in Nat, NEW keys \in [1..n -> Keys],
         multiget_raw(cf, keys).ok
  PROVE  /\ Answers(cf, keys, multiget_raw(cf, keys).value)
         /\ \A i \in 1..n : Lookup(cf, keys[i]).ok
         /\ multiget_raw(cf, keys).value = [i \in 1..n |-> Lookup(cf, keys[i]).value]
<1> DEFINE results == [i \in 1..n |-> Lookup(cf, keys[i])]
           m == multiget_raw(cf, keys)
<1>1. m = collect(results) /\ m.ok
  BY DEF multiget_raw
<1> HIDE DEF results, m
<1>2. DOMAIN results = 1..n /\ \A i \in 1..n : results[i] = Lookup(cf, keys[i])
  BY DEF results
<1>3. (\A i \in 1..n : Lookup(cf, keys[i]).ok) /\ m.value = [i \in 1..n |-> Lookup(cf, keys[i]).value]
  BY <1>1, <1>2, CollectFacts
<1>4. \A i \in 1..n : Reads(cf, keys[i], Lookup(cf, keys[i]).value)
  BY <1>3, SingleReads
<1>5. Answers(cf, keys, m.value)
  BY <1>3, <1>4 DEF Answers
<1>6. QED
  BY <1>3, <1>5 DEF m

LEMMA MultigetExpiryReads ==
  ASSUME TypeOK, session # None, NEW cf, Addressable(cf), NEW n \in Nat, NEW keys \in [1..n -> Keys],
         NEW lenient, multiget_with_expiry(cf, keys, lenient).ok
  PROVE  /\ Answers(cf, keys, multiget_with_expiry(cf, keys, lenient).value)
         /\ \A i \in 1..n : Lookup(cf, keys[i]).ok
<1> DEFINE raw == multiget_raw(cf, keys)
           m == multiget_with_expiry(cf, keys, lenient)
           result(i) == get_with_expiry(cf, keys[i], lenient)
           results == [i \in 1..n |-> map_or(Ok(raw.value[i]), LAMBDA v : from_slice(v, lenient))]
<1>1. m.ok /\ m = IF ~raw.ok THEN raw ELSE collect(results)
  BY DEF multiget_with_expiry
<1> HIDE DEF m, results
<1>2. raw.ok /\ m = collect(results)
  BY <1>1
<1>3. (\A i \in 1..n : Lookup(cf, keys[i]).ok) /\ raw.value = [i \in 1..n |-> Lookup(cf, keys[i]).value]
  BY <1>2, MultigetRawReads
<1>4. ASSUME NEW i \in 1..n PROVE results[i] = result(i)
  <2> DEFINE r == Lookup(cf, keys[i])
             v == r.value
  <2>1. raw.value[i] = v /\ r.ok
    BY <1>3
  <2>2. results[i] = map_or(Ok(v), LAMBDA w : from_slice(w, lenient))
    BY <2>1 DEF results
  <2>3. result(i) = map_or(r, LAMBDA w : from_slice(w, lenient))
    BY DEF get_with_expiry, get_raw
  <2>4. r = Ok(v)
    BY <2>1 DEF Lookup, Ok, Err
  <2> HIDE DEF r
  <2>5. QED
    BY <2>2, <2>3, <2>4
<1>5. DOMAIN results = 1..n
  BY DEF results
<1> HIDE DEF result, raw
<1>6. (\A i \in 1..n : result(i).ok) /\ m.value = [i \in 1..n |-> result(i).value]
  BY <1>1, <1>2, <1>4, <1>5, CollectFacts
<1>7. \A i \in 1..n : Reads(cf, keys[i], result(i).value)
  BY <1>6, SingleReads DEF result
<1>8. Answers(cf, keys, m.value)
  BY <1>6, <1>7 DEF Answers
<1>9. QED
  BY <1>3, <1>8 DEF m


-----------------------------------------------------------------------------
(* The pairs of the DAO macros. *)

\* The list of the pairs with a record, of the first n keys.
PairsUpTo(keys, r, upto) ==
  upto = [n \in 0..Len(keys) |->
           IF n = 0 THEN <<>>
           ELSE IF r.value[n] = None THEN upto[n - 1]
           ELSE Append(upto[n - 1], [key |-> keys[n], value |-> r.value[n]])]

LEMMA PairsExist ==
  ASSUME NEW keys, Len(keys) \in Nat, NEW r
  PROVE  \E upto : PairsUpTo(keys, r, upto)
<1> DEFINE next(prev, n) == IF r.value[n] = None THEN prev
                            ELSE Append(prev, [key |-> keys[n], value |-> r.value[n]])
           good == {n \in Nat : \E g : g = [i \in 0..n |-> IF i = 0 THEN <<>> ELSE next(g[i - 1], i)]}
<1> HIDE DEF next
<1>1. 0 \in good
  <2> DEFINE g == [i \in 0..0 |-> <<>>]
  <2>1. g = [i \in 0..0 |-> IF i = 0 THEN <<>> ELSE next(g[i - 1], i)]
    OBVIOUS
  <2>2. QED
    BY <2>1
<1>2. ASSUME NEW n \in Nat, n \in good PROVE n + 1 \in good
  <2>1. PICK g : g = [i \in 0..n |-> IF i = 0 THEN <<>> ELSE next(g[i - 1], i)]
    BY <1>2
  <2> DEFINE h == [i \in 0..(n + 1) |-> IF i = n + 1 THEN next(g[n], i) ELSE g[i]]
  <2>2. ASSUME NEW i \in 0..(n + 1)
        PROVE h[i] = IF i = 0 THEN <<>> ELSE next(h[i - 1], i)
    <3>1. CASE i = n + 1
      <4>1. h[i] = next(g[n], i) /\ h[i - 1] = g[n]
        BY <3>1
      <4>2. QED
        BY <4>1, <3>1
    <3>2. CASE i = 0
      BY <3>2, <2>1
    <3>3. CASE i # n + 1 /\ i # 0
      <4>1. h[i] = g[i] /\ h[i - 1] = g[i - 1] /\ i \in 0..n
        BY <3>3
      <4>2. QED
        BY <4>1, <2>1, <3>3
    <3>4. QED
      BY <3>1, <3>2, <3>3
  <2>3. h = [i \in 0..(n + 1) |-> IF i = 0 THEN <<>> ELSE next(h[i - 1], i)]
    <3>1. h = [i \in 0..(n + 1) |-> h[i]]
      OBVIOUS
    <3> HIDE DEF h
    <3>2. QED
      BY <2>2, <3>1
  <2> HIDE DEF h
  <2>4. QED
    BY <2>3
<1>3. Nat \subseteq good
  <2> HIDE DEF good
  <2>1. QED BY <1>1, <1>2, SetInduction
<1>4. PICK g : g = [i \in 0..Len(keys) |-> IF i = 0 THEN <<>> ELSE next(g[i - 1], i)]
  BY <1>3
<1>5. PairsUpTo(keys, r, g)
  BY <1>4, Zenon DEF PairsUpTo, next
<1>6. QED
  BY <1>5

\* The i-th pair is that of the at[i]-th key; every key with a record has one.
Paired(keys, values, n, pairs, at) ==
  /\ at \in Seq(1..n) /\ Len(at) = Len(pairs)
  /\ \A i, j \in 1..Len(at) : i < j => at[i] < at[j]
  /\ \A m \in 1..n : values[m] # None => \E i \in 1..Len(at) : at[i] = m
  /\ \A i \in 1..Len(at) :
       /\ values[at[i]] # None
       /\ pairs[i] = [key |-> keys[at[i]], value |-> values[at[i]]]

LEMMA PairsArePaired ==
  ASSUME NEW r, NEW keys, Len(keys) \in Nat
  PROVE  LET pairs == Pairs(keys, r)
         IN  DOMAIN pairs = 1..Len(pairs) /\ \E at : Paired(keys, r.value, Len(keys), pairs, at)
<1> DEFINE values == r.value
           S == {[key |-> keys[n], value |-> values[n]] : n \in 1..Len(keys)}
<1>1. PICK upto : PairsUpTo(keys, r, upto) /\ Pairs(keys, r) = upto[Len(keys)]
  <2> DEFINE g == CHOOSE upto : PairsUpTo(keys, r, upto)
  <2>1. PairsUpTo(keys, r, g)
    BY PairsExist
  <2>2. Pairs(keys, r) = g[Len(keys)]
    BY Zenon DEF Pairs, PairsUpTo
  <2> HIDE DEF g
  <2>3. QED
    BY <2>1, <2>2
<1>2. /\ upto[0] = <<>>
      /\ \A n \in 1..Len(keys) :
           upto[n] = IF values[n] = None THEN upto[n - 1]
                     ELSE Append(upto[n - 1], [key |-> keys[n], value |-> values[n]])
  <2> DEFINE next(prev, n) == IF values[n] = None THEN prev
                              ELSE Append(prev, [key |-> keys[n], value |-> values[n]])
  <2>1. upto = [n \in 0..Len(keys) |-> IF n = 0 THEN <<>> ELSE next(upto[n - 1], n)]
    BY <1>1, Zenon DEF PairsUpTo
  <2> HIDE DEF next
  <2>2. upto[0] = <<>> /\ \A n \in 1..Len(keys) : upto[n] = next(upto[n - 1], n)
    BY <2>1
  <2>3. QED
    BY <2>2, Zenon DEF next
<1> HIDE DEF values
<1> DEFINE good == {n \in Nat : n <= Len(keys) =>
                      upto[n] \in Seq(S) /\ \E at : Paired(keys, values, n, upto[n], at)}
<1>3. 0 \in good
  <2>1. Paired(keys, values, 0, <<>>, <<>>)
    BY DEF Paired
  <2>2. <<>> \in Seq(S)
    OBVIOUS
  <2>3. QED
    BY <1>2, <2>1, <2>2
<1>4. ASSUME NEW n \in Nat, n \in good PROVE n + 1 \in good
  <2> SUFFICES ASSUME n + 1 <= Len(keys)
               PROVE  upto[n + 1] \in Seq(S) /\ \E at : Paired(keys, values, n + 1, upto[n + 1], at)
    OBVIOUS
  <2>1. upto[n] \in Seq(S) /\ n + 1 \in 1..Len(keys) /\ (n + 1) - 1 = n
    BY <1>4
  <2>2. PICK at : Paired(keys, values, n, upto[n], at)
    BY <1>4
  <2> DEFINE prev == upto[n]
             pair == [key |-> keys[n + 1], value |-> values[n + 1]]
  <2>3. pair \in S
    BY <2>1
  <2>4. upto[n + 1] = IF values[n + 1] = None THEN prev ELSE Append(prev, pair)
    BY <1>2, <2>1
  <2> HIDE DEF S, prev
  <2>5. CASE values[n + 1] = None
    <3>1. Paired(keys, values, n + 1, prev, at)
      <4>1. at \in Seq(1..(n + 1))
        <5>1. \A c \in 1..n : c \in 1..(n + 1)
          OBVIOUS
        <5> DEFINE B == 1..n
                   C == 1..(n + 1)
        <5>2. at \in Seq(B) /\ \A c \in B : c \in C
          BY <5>1, <2>2 DEF Paired
        <5> HIDE DEF B, C
        <5>3. at \in Seq(C)
          BY <5>2
        <5>4. QED
          BY <5>3 DEF C
      <4>2. \A m \in 1..(n + 1) : values[m] # None => m \in 1..n
        BY <2>5
      <4>3. QED
        BY <2>2, <4>1, <4>2 DEF Paired, prev
    <3>2. QED
      BY <2>1, <2>4, <2>5, <3>1 DEF prev
  <2>6. CASE values[n + 1] # None
    <3> DEFINE to == Append(at, n + 1)
               pairs == Append(prev, pair)
    <3>1. /\ at \in Seq(1..n) /\ Len(at) = Len(prev) /\ Len(at) \in Nat
          /\ \A i \in 1..Len(at) : at[i] \in 1..n
      BY <2>2 DEF Paired, prev
    <3>2. /\ prev \in Seq(S) /\ pairs \in Seq(S) /\ Len(pairs) = Len(prev) + 1
          /\ pairs[Len(prev) + 1] = pair /\ \A i \in 1..Len(prev) : pairs[i] = prev[i]
      BY <2>1, <2>3 DEF prev
    <3>3. /\ to \in Seq(1..(n + 1)) /\ Len(to) = Len(at) + 1
          /\ to[Len(at) + 1] = n + 1 /\ \A i \in 1..Len(at) : to[i] = at[i]
      <4>1. at \in Seq(1..(n + 1))
        <5>1. \A c \in 1..n : c \in 1..(n + 1)
          OBVIOUS
        <5> DEFINE B == 1..n
                   C == 1..(n + 1)
        <5>2. at \in Seq(B) /\ \A c \in B : c \in C
          BY <5>1, <3>1
        <5> HIDE DEF B, C
        <5>3. at \in Seq(C)
          BY <5>2
        <5>4. QED
          BY <5>3 DEF C
      <4>2. n + 1 \in 1..(n + 1)
        OBVIOUS
      <4>3. QED
        BY <4>1, <4>2
    <3> HIDE DEF to, pairs, pair
    <3>4. \A i \in 1..Len(to) : i \in 1..Len(at) \/ i = Len(at) + 1
      BY <3>1, <3>3
    <3>5. ASSUME NEW i \in 1..Len(to), NEW j \in 1..Len(to), i < j
          PROVE  to[i] < to[j]
      <4>1. i \in 1..Len(at) /\ to[i] = at[i] /\ at[i] \in 1..n
        BY <3>1, <3>3, <3>5
      <4>2. CASE j \in 1..Len(at)
        <5>1. at[i] < at[j] /\ to[j] = at[j]
          BY <2>2, <3>3, <3>5, <4>1, <4>2 DEF Paired
        <5>2. QED
          BY <4>1, <5>1
      <4>3. CASE j = Len(at) + 1
        BY <3>3, <4>1, <4>3
      <4>4. QED
        BY <3>4, <4>2, <4>3
    <3>6. \A m \in 1..(n + 1) : values[m] # None => \E i \in 1..Len(to) : to[i] = m
      <4> TAKE m \in 1..(n + 1)
      <4> HAVE values[m] # None
      <4>1. CASE m = n + 1
        BY <3>1, <3>3, <4>1
      <4>2. CASE m # n + 1
        <5>1. PICK i \in 1..Len(at) : at[i] = m
          BY <2>2, <4>2 DEF Paired
        <5>2. QED
          BY <5>1, <3>1, <3>3
      <4>3. QED
        BY <4>1, <4>2
    <3>7. ASSUME NEW i \in 1..Len(to)
          PROVE  values[to[i]] # None /\ pairs[i] = [key |-> keys[to[i]], value |-> values[to[i]]]
      <4>1. CASE i \in 1..Len(at)
        BY <2>2, <3>1, <3>2, <3>3, <4>1 DEF Paired, prev
      <4>2. CASE i = Len(at) + 1
        BY <2>6, <3>1, <3>2, <3>3, <4>2 DEF pair
      <4>3. QED
        BY <3>4, <4>1, <4>2
    <3>8. Paired(keys, values, n + 1, pairs, to)
      BY <3>1, <3>2, <3>3, <3>5, <3>6, <3>7 DEF Paired
    <3>9. QED
      BY <2>4, <2>6, <3>2, <3>8 DEF pairs
  <2>7. QED
    BY <2>5, <2>6
<1>5. Nat \subseteq good
  <2> HIDE DEF good
  <2>1. QED BY <1>3, <1>4, SetInduction
<1>6. upto[Len(keys)] \in Seq(S) /\ \E at : Paired(keys, values, Len(keys), upto[Len(keys)], at)
  BY <1>5
<1> HIDE DEF S
<1>7. DOMAIN upto[Len(keys)] = 1..Len(upto[Len(keys)])
  BY <1>6
<1>8. QED
  BY <1>1, <1>6, <1>7, Zenon DEF values

-----------------------------------------------------------------------------
(* The answer that a caller has not taken yet. *)

Asked == ReadOps \cup {"dao"}

\* While a read's answer waits, nothing happens to the database.
LEMMA Waiting ==
  ASSUME [Next]_vars, answer' # None, answer'.op \in Asked
  PROVE  \/ UNCHANGED vars
         \/ \E cf \in CfNames :
              \/ \E keys \in KeyLists : ReadMany(cf, keys)
              \/ \E key \in Keys : ReadOne(cf, key)
<1>1. ASSUME NEW s \in Sessions, open(s) PROVE FALSE
  BY <1>1 DEF open, Return, Asked, ReadOps, ManyOps
<1>2. ASSUME NEW s \in Sessions, destroy(s) PROVE FALSE
  BY <1>2 DEF destroy, Return, Asked, ReadOps, ManyOps
<1>3. ~(close \/ take \/ Compact)
  BY DEF close, take, Compact, Calling
<1>4. ~Writing
  BY DEF Writing, Return, Asked, ReadOps, ManyOps, WriteOps
<1>5. QED
  BY <1>1, <1>2, <1>3, <1>4, Steps

\* What a read returns.
LEMMA Returned ==
  ASSUME NEW op, NEW cf, NEW keys, NEW result, Read(op, cf, keys, result)
  PROVE  /\ session # None /\ UNCHANGED <<disk, session>>
         /\ answer'.op = op /\ answer'.cf = cf /\ answer'.keys = keys
         /\ answer'.result.ok =>
              \/ keys = <<>> /\ answer'.result.value = <<>>
              \/ keys # <<>> /\ Addressable(cf) /\ answer'.result = result
BY DEF Read, Return, Calling, Ok, Err

LEMMA KeyListFacts ==
  ASSUME NEW keys \in KeyLists
  PROVE  \E n \in Nat : keys \in [1..n -> Keys] /\ Len(keys) = n /\ DOMAIN keys = 1..n
<1>1. PICK n \in 0..MaxKeys : keys \in [1..n -> Keys]
  BY DEF KeyLists
<1>2. n \in Nat
  BY <1>1, BoundAssumption
<1>3. QED
  BY <1>1, <1>2

\* What is known of a read that succeeded.
Right(a) ==
  /\ \E n \in Nat : a.keys \in [1..n -> Keys] /\ Len(a.keys) = n /\ DOMAIN a.keys = 1..n
  /\ \/ a.keys = <<>> /\ a.result.value = <<>> /\ a.op \in ManyOps \cup {"dao"}
     \/ /\ Addressable(a.cf)
        /\ \/ /\ a.op \in ManyOps /\ Answers(a.cf, a.keys, a.result.value)
              /\ a.op # "multiget" => \A i \in DOMAIN a.keys : Lookup(a.cf, a.keys[i]).ok
           \/ a.op = "dao" /\ \E r : Answers(a.cf, a.keys, r.value) /\ a.result.value = Pairs(a.keys, r)
           \/ /\ a.op \in {"get", "get_raw", "get_with_expiry", "exists"}
              /\ \A i \in DOMAIN a.keys :
                   /\ Lookup(a.cf, a.keys[i]).ok
                   /\ a.op # "exists" => Reads(a.cf, a.keys[i], a.result.value)
                   /\ a.op = "exists" => a.result.value = (Lookup(a.cf, a.keys[i]).value # None)

LEMMA ManyRight ==
  ASSUME TypeOK, NEW cf, NEW keys \in KeyLists, ReadMany(cf, keys), answer'.result.ok
  PROVE  session # None /\ UNCHANGED <<disk, session>> /\ Right(answer')
<1> DEFINE a == answer'
<1>1. PICK n \in Nat : keys \in [1..n -> Keys] /\ Len(keys) = n /\ DOMAIN keys = 1..n
  BY KeyListFacts
<1>2. ASSUME NEW op \in ManyOps \cup {"dao"}, NEW result, Read(op, cf, keys, result),
             session # None /\ Addressable(cf) /\ result.ok /\ op # "dao" =>
               /\ Answers(cf, keys, result.value)
               /\ op # "multiget" => \A i \in 1..n : Lookup(cf, keys[i]).ok,
             session # None /\ Addressable(cf) /\ result.ok /\ op = "dao" =>
               \E r : Answers(cf, keys, r.value) /\ result.value = Pairs(keys, r)
      PROVE  session # None /\ UNCHANGED <<disk, session>> /\ Right(a)
  <2>1. /\ session # None /\ UNCHANGED <<disk, session>>
        /\ a.op = op /\ a.cf = cf /\ a.keys = keys
        /\ \/ keys = <<>> /\ a.result.value = <<>>
           \/ keys # <<>> /\ Addressable(cf) /\ a.result = result
    BY <1>2, Returned
  <2>2. a.result.ok
    OBVIOUS
  <2> HIDE DEF a
  <2>3. CASE keys = <<>> /\ a.result.value = <<>>
    BY <1>1, <1>2, <2>1, <2>3 DEF Right
  <2>4. CASE Addressable(cf) /\ a.result = result /\ op # "dao"
    BY <1>1, <1>2, <2>1, <2>2, <2>4 DEF Right
  <2>5. CASE Addressable(cf) /\ a.result = result /\ op = "dao"
    BY <1>1, <1>2, <2>1, <2>2, <2>5 DEF Right
  <2>6. QED
    BY <2>1, <2>3, <2>4, <2>5
<1>3. CASE Read("multiget_raw", cf, keys, multiget_raw(cf, keys))
  <2>1. session # None /\ Addressable(cf) /\ multiget_raw(cf, keys).ok =>
          /\ Answers(cf, keys, multiget_raw(cf, keys).value)
          /\ \A i \in 1..n : Lookup(cf, keys[i]).ok
    BY <1>1, MultigetRawReads
  <2>2. QED
    BY <1>2, <1>3, <2>1 DEF ManyOps
<1>4. ASSUME NEW lenient, Read("multiget", cf, keys, multiget(cf, keys, lenient))
      PROVE  session # None /\ UNCHANGED <<disk, session>> /\ Right(a)
  <2>1. session # None /\ Addressable(cf) /\ multiget(cf, keys, lenient).ok =>
          Answers(cf, keys, multiget(cf, keys, lenient).value)
    BY <1>1, MultigetReads
  <2>2. QED
    BY <1>2, <1>4, <2>1 DEF ManyOps
<1>5. ASSUME NEW lenient, Read("multiget_with_expiry", cf, keys, multiget_with_expiry(cf, keys, lenient))
      PROVE  session # None /\ UNCHANGED <<disk, session>> /\ Right(a)
  <2>1. session # None /\ Addressable(cf) /\ multiget_with_expiry(cf, keys, lenient).ok =>
          /\ Answers(cf, keys, multiget_with_expiry(cf, keys, lenient).value)
          /\ \A i \in 1..n : Lookup(cf, keys[i]).ok
    BY <1>1, MultigetExpiryReads
  <2>2. QED
    BY <1>2, <1>5, <2>1 DEF ManyOps
<1>6. ASSUME NEW lenient, Read("dao", cf, keys, generate_dao_multiget(cf, keys, lenient))
      PROVE  session # None /\ UNCHANGED <<disk, session>> /\ Right(a)
  <2> DEFINE r == multiget(cf, keys, lenient)
             result == generate_dao_multiget(cf, keys, lenient)
  <2>1. result.ok => r.ok /\ result.value = Pairs(keys, r)
    BY DEF generate_dao_multiget, Ok
  <2>2. session # None /\ Addressable(cf) /\ r.ok => Answers(cf, keys, r.value)
    BY <1>1, MultigetReads
  <2> HIDE DEF r, result
  <2>3. Read("dao", cf, keys, result)
    BY <1>6 DEF result
  <2>4. QED
    BY <1>2, <2>1, <2>2, <2>3
<1>7. ASSUME NEW lenient, Read("dao", cf, keys, generate_dao_multiget_with_expiry(cf, keys, lenient))
      PROVE  session # None /\ UNCHANGED <<disk, session>> /\ Right(a)
  <2> DEFINE r == multiget_with_expiry(cf, keys, lenient)
             result == generate_dao_multiget_with_expiry(cf, keys, lenient)
  <2>1. result.ok => r.ok /\ result.value = Pairs(keys, r)
    BY DEF generate_dao_multiget_with_expiry, Ok
  <2>2. session # None /\ Addressable(cf) /\ r.ok => Answers(cf, keys, r.value)
    BY <1>1, MultigetExpiryReads
  <2> HIDE DEF r, result
  <2>3. Read("dao", cf, keys, result)
    BY <1>7 DEF result
  <2>4. QED
    BY <1>2, <2>1, <2>2, <2>3
<1>8. QED
  BY <1>3, <1>4, <1>5, <1>6, <1>7 DEF ReadMany

LEMMA OneRight ==
  ASSUME TypeOK, NEW cf, NEW key \in Keys, ReadOne(cf, key), answer'.result.ok
  PROVE  session # None /\ UNCHANGED <<disk, session>> /\ Right(answer')
<1> DEFINE a == answer'
           keys == <<key>>
<1>1. /\ keys \in [1..1 -> Keys] /\ Len(keys) = 1 /\ DOMAIN keys = 1..1 /\ 1 \in Nat /\ keys # <<>>
      /\ \A i \in DOMAIN keys : keys[i] = key
  OBVIOUS
<1>2. ASSUME NEW op \in {"get", "get_raw", "get_with_expiry", "exists"}, NEW result, Read(op, cf, keys, result),
             session # None /\ Addressable(cf) /\ result.ok =>
               /\ Lookup(cf, key).ok
               /\ op # "exists" => Reads(cf, key, result.value)
               /\ op = "exists" => result.value = (Lookup(cf, key).value # None)
      PROVE  session # None /\ UNCHANGED <<disk, session>> /\ Right(a)
  <2> HIDE DEF keys
  <2>1. /\ session # None /\ UNCHANGED <<disk, session>>
        /\ a.op = op /\ a.cf = cf /\ a.keys = keys
        /\ Addressable(cf) /\ a.result = result
    BY <1>1, <1>2, Returned
  <2>2. a.result.ok
    OBVIOUS
  <2> HIDE DEF a
  <2>3. QED
    BY <1>1, <1>2, <2>1, <2>2 DEF Right
<1>3. CASE Read("get_raw", cf, keys, get_raw(cf, key))
  <2>1. session # None /\ Addressable(cf) /\ get_raw(cf, key).ok =>
          Lookup(cf, key).ok /\ Reads(cf, key, get_raw(cf, key).value)
    BY SingleReads DEF get_raw
  <2> HIDE DEF keys
  <2>2. QED
    BY <1>2, <1>3, <2>1
<1>4. CASE Read("exists", cf, keys, exists(cf, key))
  <2>1. exists(cf, key).ok =>
          Lookup(cf, key).ok /\ exists(cf, key).value = (Lookup(cf, key).value # None)
    BY DEF exists, Ok
  <2> HIDE DEF keys
  <2>2. QED
    BY <1>2, <1>4, <2>1
<1>5. ASSUME NEW lenient, Read("get", cf, keys, get(cf, key, lenient))
      PROVE  session # None /\ UNCHANGED <<disk, session>> /\ Right(a)
  <2>1. session # None /\ Addressable(cf) /\ get(cf, key, lenient).ok =>
          Lookup(cf, key).ok /\ Reads(cf, key, get(cf, key, lenient).value)
    BY SingleReads
  <2> HIDE DEF keys
  <2>2. QED
    BY <1>2, <1>5, <2>1
<1>6. ASSUME NEW lenient, Read("get_with_expiry", cf, keys, get_with_expiry(cf, key, lenient))
      PROVE  session # None /\ UNCHANGED <<disk, session>> /\ Right(a)
  <2>1. session # None /\ Addressable(cf) /\ get_with_expiry(cf, key, lenient).ok =>
          Lookup(cf, key).ok /\ Reads(cf, key, get_with_expiry(cf, key, lenient).value)
    BY SingleReads
  <2> HIDE DEF keys
  <2>2. QED
    BY <1>2, <1>6, <2>1
<1>7. QED
  BY <1>3, <1>4, <1>5, <1>6 DEF ReadOne

\* Nothing is found of a row that is there only if RocksDB could not read it.
LEMMA RightAbsent ==
  ASSUME TypeOK, session # None, NEW a, Right(a), a.op \in ReadOps,
         NEW i \in DOMAIN a.keys, Found(a, i) = None
  PROVE  LET row == RowOf(a.cf, a.keys[i])
         IN  row = None \/ (a.op = "multiget" /\ Unreadable(a.cf, row))
<1> DEFINE key == a.keys[i]
           r == Lookup(a.cf, key)
<1>1. key \in Keys /\ a.keys # <<>> /\ key # None
  BY NoneAssumption DEF Right
<1>2. Addressable(a.cf)
  BY <1>1 DEF Right
<1>3. /\ r.ok => (r.value = None <=> RowOf(a.cf, key) = None)
      /\ ~r.ok => Unreadable(a.cf, RowOf(a.cf, key))
  BY <1>1, <1>2, LookupFacts
<1> HIDE DEF r
<1>4. ASSUME NEW found, Reads(a.cf, key, found), found = None
      PROVE  ~(r.ok /\ r.value # None)
  BY <1>4, NoneAssumption DEF Reads, r
<1>5. CASE a.op \in ManyOps
  <2>1. Answers(a.cf, a.keys, a.result.value) /\ (a.op # "multiget" => r.ok)
    BY <1>1, <1>5 DEF Right, ManyOps, r
  <2>2. Reads(a.cf, key, a.result.value[i])
    BY <2>1 DEF Answers
  <2>3. a.result.value[i] = None
    BY <1>5 DEF Found, ManyOps
  <2>4. QED
    BY <1>3, <1>4, <2>1, <2>2, <2>3
<1>6. CASE a.op \in {"get", "get_raw", "get_with_expiry"}
  <2>1. r.ok /\ Reads(a.cf, key, a.result.value)
    BY <1>1, <1>6 DEF Right, ManyOps, r
  <2>2. a.result.value = None
    BY <1>6 DEF Found, ManyOps
  <2>3. QED
    BY <1>3, <1>4, <2>1, <2>2
<1>7. CASE a.op = "exists"
  <2>1. r.ok /\ a.result.value = (r.value # None)
    BY <1>1, <1>7 DEF Right, ManyOps, r
  <2>2. ~a.result.value
    BY <1>1, <1>7 DEF Found, ManyOps
  <2>3. r.value = None
    BY <2>1, <2>2
  <2>4. QED
    BY <1>3, <2>1, <2>3
<1>8. QED
  BY <1>5, <1>6, <1>7 DEF ReadOps

LEMMA RightMany ==
  ASSUME NEW a, Right(a), a.op \in ManyOps
  PROVE  /\ DOMAIN a.result.value = DOMAIN a.keys
         /\ \A i \in DOMAIN a.keys :
              LET single == Lookup(a.cf, a.keys[i])
                  found == a.result.value[i]
              IN  IF single.ok /\ single.value # None
                  THEN found # None /\ found.key = a.keys[i]
                       /\ found.form \in {single.value.form, "garbage"}
                  ELSE found = None
<1>1. CASE a.keys = <<>> /\ a.result.value = <<>>
  <2>1. DOMAIN a.keys = {}
    BY <1>1
  <2>2. QED
    BY <1>1, <2>1
<1>2. CASE Answers(a.cf, a.keys, a.result.value)
  BY <1>2, NoneAssumption DEF Answers, Reads
<1>3. QED
  BY <1>1, <1>2 DEF Right, ManyOps

LEMMA RightPairs ==
  ASSUME NEW a, Right(a), a.op = "dao"
  PROVE  LET pairs == a.result.value
         IN  \E at \in [DOMAIN pairs -> Stored(a)] :
               /\ \A i, j \in DOMAIN pairs : i < j => at[i] < at[j]
               /\ \A n \in Stored(a) : \E i \in DOMAIN pairs : at[i] = n
               /\ \A i \in DOMAIN pairs :
                    pairs[i].key = a.keys[at[i]] /\ pairs[i].value.key = pairs[i].key
<1> DEFINE pairs == a.result.value
<1>1. CASE a.keys = <<>> /\ pairs = <<>>
  <2>1. DOMAIN a.keys = {} /\ DOMAIN pairs = {} /\ Stored(a) = {}
    BY <1>1 DEF Stored
  <2>2. <<>> \in [{} -> {}]
    OBVIOUS
  <2>3. QED
    BY <2>1, <2>2
<1>2. ASSUME NEW r, Answers(a.cf, a.keys, r.value), pairs = Pairs(a.keys, r)
      PROVE  \E at \in [DOMAIN pairs -> Stored(a)] :
               /\ \A i, j \in DOMAIN pairs : i < j => at[i] < at[j]
               /\ \A n \in Stored(a) : \E i \in DOMAIN pairs : at[i] = n
               /\ \A i \in DOMAIN pairs :
                    pairs[i].key = a.keys[at[i]] /\ pairs[i].value.key = pairs[i].key
  <2>1. Len(a.keys) \in Nat /\ DOMAIN a.keys = 1..Len(a.keys)
    BY DEF Right
  <2>2. DOMAIN pairs = 1..Len(pairs) /\ \E at : Paired(a.keys, r.value, Len(a.keys), pairs, at)
    BY <1>2, <2>1, PairsArePaired
  <2> HIDE DEF pairs
  <2>3. PICK at : Paired(a.keys, r.value, Len(a.keys), pairs, at)
    BY <2>2
  <2>4. \A n \in DOMAIN a.keys :
          /\ r.value[n] # None <=> n \in Stored(a)
          /\ r.value[n] # None => r.value[n].key = a.keys[n]
    BY <1>2, NoneAssumption DEF Answers, Reads, Stored
  <2>5. /\ at \in Seq(DOMAIN a.keys) /\ Len(at) = Len(pairs) /\ DOMAIN at = DOMAIN pairs
        /\ \A i \in DOMAIN at : at[i] \in DOMAIN a.keys
    BY <2>1, <2>2, <2>3 DEF Paired
  <2>6. \A i \in DOMAIN at :
          /\ at[i] \in Stored(a)
          /\ pairs[i].key = a.keys[at[i]] /\ pairs[i].value = r.value[at[i]]
          /\ pairs[i].value.key = pairs[i].key
    <3> TAKE i \in DOMAIN at
    <3>1. i \in 1..Len(at) /\ at[i] \in DOMAIN a.keys
      BY <2>2, <2>5
    <3> DEFINE m == at[i]
    <3>2. r.value[m] # None /\ pairs[i] = [key |-> a.keys[m], value |-> r.value[m]]
      BY <2>3, <3>1 DEF Paired
    <3>3. m \in Stored(a) /\ r.value[m].key = a.keys[m]
      BY <2>4, <3>1, <3>2
    <3> HIDE DEF m
    <3>4. pairs[i].key = a.keys[m] /\ pairs[i].value = r.value[m]
      BY <3>2
    <3>5. QED
      BY <3>3, <3>4 DEF m
  <2>7. at \in [DOMAIN pairs -> Stored(a)]
    BY <2>5, <2>6
  <2>8. \A n \in Stored(a) : \E i \in DOMAIN pairs : at[i] = n
    <3>1. Stored(a) \subseteq DOMAIN a.keys
      BY DEF Stored
    <3>2. QED
      BY <2>1, <2>2, <2>3, <2>4, <2>5, <3>1 DEF Paired
  <2>9. \A i, j \in DOMAIN pairs : i < j => at[i] < at[j]
    BY <2>2, <2>3, <2>5 DEF Paired
  <2>10. QED
    BY <2>5, <2>6, <2>7, <2>8, <2>9
<1>3. QED
  BY <1>1, <1>2 DEF Right, ManyOps

LEMMA SameStored ==
  ASSUME UNCHANGED <<disk, session>>
  PROVE  Stored(answer)' = Stored(answer')
BY DEF Stored, Lookup, Unreadable, HasOperator

\* A read that says None, or an exists that says false, means that the key is
\* absent, also when a merge failed or a session has no operator for the
\* operands an earlier one left (cf_store.rs:480-560); multiget alone hides
\* such an error behind None (cf_store.rs:533, tx/macros.rs:85).
THEOREM NoneAlwaysMeansAbsent == Spec => []NoneMeansAbsent
<1>1. Init => NoneMeansAbsent
  BY DEF Init, NoneMeansAbsent
<1>2. TypeOK /\ NoneMeansAbsent /\ [Next]_vars => NoneMeansAbsent'
  <2> SUFFICES ASSUME TypeOK, NoneMeansAbsent, [Next]_vars,
                      answer' # None, answer'.op \in ReadOps, answer'.result.ok
               PROVE  NoneMeansAbsent'
    BY DEF NoneMeansAbsent
  <2>1. CASE UNCHANGED vars
    BY <2>1 DEF NoneMeansAbsent, vars, Found, Unreadable, HasOperator
  <2>2. CASE ~UNCHANGED vars
    <3>1. session # None /\ UNCHANGED <<disk, session>> /\ Right(answer')
      <4>1. answer'.op \in Asked
        BY DEF Asked
      <4>2. \E cf \in CfNames :
              \/ \E keys \in KeyLists : ReadMany(cf, keys)
              \/ \E key \in Keys : ReadOne(cf, key)
        BY <2>2, <4>1, Waiting
      <4>3. QED
        BY <4>2, ManyRight, OneRight
    <3>2. \A i \in DOMAIN answer'.keys :
            LET row == disk.cfs[answer'.cf].rows[answer'.keys[i]]
            IN  Found(answer', i) = None =>
                  row = None \/ (answer'.op = "multiget" /\ Unreadable(answer'.cf, row))
      BY <3>1, RightAbsent DEF RowOf
    <3>3. QED
      BY <3>1, <3>2 DEF NoneMeansAbsent, Found, Unreadable, HasOperator
  <2>3. QED
    BY <2>1, <2>2
<1>3. QED
  BY <1>1, <1>2, TypeCorrect, PTL DEF Spec

\* A multiget answers for every key in its place, and the DAO macros that zip
\* its answers with the keys (macros.rs:40, 102) pair each key with its own
\* record, whatever the list of keys, repetitions included.
THEOREM AnswersAlwaysMatchKeys == Spec => []AnswersMatchKeys
<1>1. Init => AnswersMatchKeys
  BY DEF Init, AnswersMatchKeys, OneAnswerPerKey, PairsMatch
<1>2. TypeOK /\ AnswersMatchKeys /\ [Next]_vars => AnswersMatchKeys'
  <2> SUFFICES ASSUME TypeOK, AnswersMatchKeys, [Next]_vars,
                      answer' # None, answer'.op \in ManyOps \cup {"dao"}, answer'.result.ok
               PROVE  AnswersMatchKeys'
    BY DEF AnswersMatchKeys, OneAnswerPerKey, PairsMatch
  <2>1. CASE UNCHANGED vars
    <3>1. UNCHANGED <<disk, session, answer>>
      BY <2>1 DEF vars
    <3>2. Stored(answer)' = Stored(answer')
      BY <3>1, SameStored
    <3>3. OneAnswerPerKey'
      BY <3>1 DEF AnswersMatchKeys, OneAnswerPerKey, Lookup, Unreadable, HasOperator
    <3>4. PairsMatch'
      BY <3>1, <3>2 DEF AnswersMatchKeys, PairsMatch
    <3>5. QED
      BY <3>3, <3>4 DEF AnswersMatchKeys
  <2>2. CASE ~UNCHANGED vars
    <3>1. session # None /\ UNCHANGED <<disk, session>> /\ Right(answer')
      <4>1. answer'.op \in Asked
        BY DEF Asked, ReadOps
      <4>2. \E cf \in CfNames :
              \/ \E keys \in KeyLists : ReadMany(cf, keys)
              \/ \E key \in Keys : ReadOne(cf, key)
        BY <2>2, <4>1, Waiting
      <4>3. QED
        BY <4>2, ManyRight, OneRight
    <3>2. OneAnswerPerKey'
      BY <3>1, RightMany DEF OneAnswerPerKey, Lookup, Unreadable, HasOperator
    <3>3. PairsMatch'
      <4>1. Stored(answer)' = Stored(answer')
        BY <3>1, SameStored
      <4>2. QED
        BY <3>1, <4>1, RightPairs DEF PairsMatch
    <3>4. QED
      BY <3>2, <3>3 DEF AnswersMatchKeys
  <2>3. QED
    BY <2>1, <2>2
<1>3. QED
  BY <1>1, <1>2, TypeCorrect, PTL DEF Spec
=============================================================================

----------------------------- MODULE Iteration -----------------------------
(* iterate() of every store and context: IterationHelper::execute           *)
(* (iter/helpers.rs), ControlledIter and its raw and control-only twins     *)
(* (iter/mod.rs), and the find_* methods built on it (tx/macros.rs).        *)
(* Writers go on while one iterator is in use.                              *)
(*                                                                          *)
(* A key is a model value; the column family's comparator is the order in   *)
(* which the sequence `order` lists all keys, live or not, so that a prefix *)
(* or a start key that is not stored has its place too.  StartsWith[p] is   *)
(* the set of the keys that begin with the bytes of p.                      *)
(*                                                                          *)
(* RocksDB's iterator is external: it sees the database as it was when the  *)
(* iterator was made, and ends for good at an error of its own.  An error   *)
(* of the deserializer is an item like any other: it is counted, yielded,   *)
(* and the next call goes on with the following key; only the find_*        *)
(* methods, which collect a Result, give up there.                          *)
EXTENDS Integers, Sequences, SequencesExt, FiniteSetsExt

CONSTANTS Keys,         \* byte strings, stored or not
          Orders,       \* the comparators' orders of Keys
          StartsWith,   \* StartsWith[p]: the keys that begin with p
          None,         \* Option::None
          Limit,        \* how many items the "limit" control function keeps
          MaxWrites     \* bound: writes to the database

ASSUME OrderAssumption ==
  \A o \in Orders : /\ o \in Seq(Keys)
                    /\ \A k \in Keys : \E i \in DOMAIN o : o[i] = k
                    /\ \A i, j \in DOMAIN o : o[i] = o[j] => i = j
ASSUME PrefixAssumption ==
  StartsWith \in [Keys -> SUBSET Keys] /\ \A p \in Keys : p \in StartsWith[p]
ASSUME BoundAssumption == Limit \in Nat /\ MaxWrites \in Nat

VARIABLES
  order,     \* the column family's comparator
  db,        \* the value of every key, 0 if absent
  writes,    \* writes so far
  config,    \* the IterConfig in use, or None
  finding,   \* a find_* method collects what is yielded
  snap,      \* the database the iterator sees
  raw,       \* RocksDB's iterator: positions to deliver still, and its direction
  kept,      \* items_kept_count
  items,     \* what the iterator has yielded: keys with their values, or an error
  skipped,   \* keys the control function skipped
  stopped,   \* the control function said Stop
  pc         \* "idle", "open", "ended", "failed"

vars == <<order, db, writes, config, finding, snap, raw, kept, items, skipped, stopped, pc>>

Modes == {"Deserialize", "Raw", "ControlOnly"}

Controls == {"none", "limit", "any"}

Configs == [ prefix : Keys \cup {None}, start : Keys \cup {None},
             reverse : BOOLEAN, control : Controls, mode : Modes ]

\* In the place of a value: the deserializer refused the key or the value.
Refused == 0

Unpositioned == [todo |-> {}, back |-> FALSE]

Init ==
  /\ order \in Orders
  /\ db \in [Keys -> {0, 1}]
  /\ writes = 0
  /\ config = None /\ finding = FALSE /\ snap = db /\ raw = Unpositioned /\ kept = 0
  /\ items = <<>> /\ skipped = {} /\ stopped = FALSE /\ pc = "idle"

-----------------------------------------------------------------------------
(* Writers. *)
Write(k, v) ==
  /\ writes < MaxWrites
  /\ db' = [db EXCEPT ![k] = v]
  /\ writes' = writes + 1
  /\ UNCHANGED <<order, config, finding, snap, raw, kept, items, skipped, stopped, pc>>

put(k) == Write(k, writes + 2)

delete(k) == db[k] # 0 /\ Write(k, 0)

-----------------------------------------------------------------------------
(* The raw iterator: the live keys from a position on, in a direction. *)
Pos(k) == CHOOSE i \in DOMAIN order : order[i] = k

Live == {i \in DOMAIN order : db[order[i]] # 0}

IteratorStart == [todo |-> Live, back |-> FALSE]

IteratorEnd == [todo |-> Live, back |-> TRUE]

IteratorFrom(k, reverse) ==
  [todo |-> {i \in Live : IF reverse THEN i <= Pos(k) ELSE i >= Pos(k)}, back |-> reverse]

\* prefix_iterator: always forward; without a prefix extractor it runs on
\* beyond the prefix.
prefix_factory(p) == IteratorFrom(p, FALSE)

\* Mutant of general_factory: From(start) is always Forward.
general_factory_forward(c) ==
  IF c.start # None THEN IteratorFrom(c.start, FALSE)
  ELSE IF c.prefix # None THEN IteratorFrom(c.prefix, c.reverse)
  ELSE IF c.reverse THEN IteratorEnd ELSE IteratorStart

general_factory(c) ==
  IF c.start # None THEN IteratorFrom(c.start, c.reverse)
  ELSE IF c.prefix # None THEN IteratorFrom(c.prefix, c.reverse)
  ELSE IF c.reverse THEN IteratorEnd ELSE IteratorStart

use_optimized_prefix_iterator(c) == c.prefix # None /\ c.start = None

\* Mutant of base_rocksdb_iter: no prefix iterator, so that a reverse scan
\* starts at the prefix and walks away from the keys that have it.
base_rocksdb_iter_general(c) == general_factory(c)

base_rocksdb_iter(c) ==
  IF use_optimized_prefix_iterator(c) THEN prefix_factory(c.prefix) ELSE general_factory(c)

Open(c) ==
  /\ pc = "idle"
  /\ c.mode = "ControlOnly" => c.control # "none"
  /\ pc' = "open"
  /\ config' = c
  /\ snap' = db
  /\ raw' = base_rocksdb_iter(c)
  /\ UNCHANGED <<order, db, writes, kept, items, skipped, stopped>>

execute(c) == Open(c) /\ finding' = FALSE

(* find_by_prefix and find_from: an iteration collected to its end, or to *)
(* its first error.                                                       *)
Find(prefix, start, reverse, control) ==
  /\ Open([ prefix |-> prefix, start |-> start, reverse |-> reverse,
            control |-> control, mode |-> "Deserialize" ])
  /\ finding' = TRUE

find_by_prefix(p, reverse) == Find(p, None, reverse, "none")

find_from(k, reverse, control) == control # "none" /\ Find(None, k, reverse, control)

find_by_prefix_with_expire_val(p, reverse, control) ==
  control # "none" /\ Find(p, None, reverse, control)

-----------------------------------------------------------------------------
(* The control functions: the user's, behind the enforcement of the prefix. *)
user_control(c, i, decision) ==
  CASE c.control = "none"  -> decision = "Keep"
    [] c.control = "limit" -> decision = IF i < Limit THEN "Keep" ELSE "Stop"
    [] c.control = "any"   -> decision \in {"Keep", "Skip", "Stop"}

\* Mutant of effective_control: no enforcement of the prefix.
effective_control_user(c, k, i, decision) == user_control(c, i, decision)

effective_control(c, k, i, decision) ==
  IF c.prefix # None /\ k \notin StartsWith[c.prefix] THEN decision = "Stop"
  ELSE user_control(c, i, decision)

Matches(c, k) == c.prefix = None \/ k \in StartsWith[c.prefix]

\* What the raw iterator delivers next.
Current == IF raw.back THEN Max(raw.todo) ELSE Min(raw.todo)

Advance(decision) ==
  /\ pc = "open" /\ raw.todo # {}
  /\ effective_control(config, order[Current], kept, decision)
  /\ raw' = [raw EXCEPT !.todo = @ \ {Current}]

Stop ==
  /\ Advance("Stop")
  /\ stopped' = (stopped \/ Matches(config, order[Current]))
  /\ pc' = "ended"
  /\ UNCHANGED <<order, db, writes, config, finding, snap, kept, items, skipped>>

\* Mutant of Skip: skipped items are counted as well.
SkipCounted ==
  /\ Advance("Skip")
  /\ kept' = kept + 1
  /\ skipped' = skipped \cup {order[Current]}
  /\ UNCHANGED <<order, db, writes, config, finding, snap, items, stopped, pc>>

Skip ==
  /\ Advance("Skip")
  /\ skipped' = skipped \cup {order[Current]}
  /\ UNCHANGED <<order, db, writes, config, finding, snap, kept, items, stopped, pc>>

\* What the control function keeps is yielded.
Yield(val) ==
  /\ Advance("Keep")
  /\ items' = Append(items, [key |-> order[Current], val |-> val])
  /\ UNCHANGED <<order, db, writes, config, finding, snap, skipped, stopped>>

\* Mutant of Keep: items_kept_count stays as it is.
KeepUncounted == Yield(snap[order[Current]]) /\ UNCHANGED <<kept, pc>>

\* A kept item is counted and yielded; control-only mode yields nothing, the
\* item is what the control function saw and kept.
Keep ==
  /\ Yield(snap[order[Current]])
  /\ kept' = kept + 1
  /\ UNCHANGED pc

\* The deserializer is called on a kept item and refuses it.
Refuse == config # None /\ config.mode = "Deserialize" /\ Yield(Refused)

\* Mutant of DeserializeErr: the item is counted only if it deserializes.
DeserializeErrUncounted ==
  /\ Refuse
  /\ pc' = (IF finding THEN "failed" ELSE pc)
  /\ UNCHANGED kept

\* Mutant of DeserializeErr: an error is the end of every iteration.
DeserializeErrEnds ==
  /\ Refuse
  /\ kept' = kept + 1
  /\ pc' = (IF finding THEN "failed" ELSE "ended")

\* The error is yielded, and counted, in the place of the item; the iteration
\* goes on at the next call, but for the find_* methods.
DeserializeErr ==
  /\ Refuse
  /\ kept' = kept + 1
  /\ pc' = (IF finding THEN "failed" ELSE pc)

\* The raw iterator has no more.
Exhausted ==
  /\ pc = "open" /\ raw.todo = {}
  /\ pc' = "ended"
  /\ UNCHANGED <<order, db, writes, config, finding, snap, raw, kept, items, skipped, stopped>>

\* The raw iterator reports an error, after which it delivers nothing more.
RawErr ==
  /\ pc = "open"
  /\ raw' = [raw EXCEPT !.todo = {}]
  /\ pc' = "failed"
  /\ UNCHANGED <<order, db, writes, config, finding, snap, kept, items, skipped, stopped>>

\* next() after None: the iterators are not fused, so a raw iterator that was
\* stopped goes on with its next key.  The find_* methods do not call again.
CallAgain ==
  /\ pc = "ended" /\ config.mode # "ControlOnly" /\ ~finding
  /\ raw.todo # {}
  /\ pc' = "open"
  /\ UNCHANGED <<order, db, writes, config, finding, snap, raw, kept, items, skipped, stopped>>

-----------------------------------------------------------------------------
Start ==
  \/ \E c \in Configs : execute(c)
  \/ \E k \in Keys, reverse \in BOOLEAN :
       \/ find_by_prefix(k, reverse)
       \/ \E control \in Controls : \/ find_from(k, reverse, control)
                                    \/ find_by_prefix_with_expire_val(k, reverse, control)

Step == Stop \/ Skip \/ Keep \/ DeserializeErr \/ Exhausted \/ RawErr \/ CallAgain

Next ==
  \/ \E k \in Keys : put(k) \/ delete(k)
  \/ Start \/ Step

Spec == Init /\ [][Next]_vars

-----------------------------------------------------------------------------
\* Every variable has its type; the count handed to the control function is
\* that of the items yielded before, errors of the deserializer included.
TypeOK ==
  /\ order \in Orders
  /\ db \in [Keys -> 0..(MaxWrites + 1)] /\ snap \in [Keys -> 0..(MaxWrites + 1)]
  /\ writes \in 0..MaxWrites
  /\ config \in Configs \cup {None} /\ finding \in BOOLEAN
  /\ raw \in [todo : SUBSET DOMAIN order, back : BOOLEAN]
  /\ kept = Len(items)
  /\ items \in Seq([key : Keys, val : 0..(MaxWrites + 1)])
  /\ skipped \subseteq Keys
  /\ stopped \in BOOLEAN
  /\ pc \in {"idle", "open", "ended", "failed"}

\* The iterator walks against the comparator's order only if that was asked for
\* and a start key, or no prefix, was given.
Backward(c) == c.reverse /\ ~use_optimized_prefix_iterator(c)

\* Items come in the iterator's direction: no key is yielded twice.
InOrder ==
  \A i, j \in DOMAIN items : i < j =>
    IF Backward(config) THEN Pos(items[i].key) > Pos(items[j].key)
                        ELSE Pos(items[i].key) < Pos(items[j].key)

\* Everything yielded begins with the prefix and is live in the database as it
\* was when the iterator was made, with the value it had there or, from a
\* deserializer, an error; in order, whatever has been written since and
\* however often next() is called after its end ("strict prefix matching").
YieldsTheSnapshot ==
  /\ \A i \in DOMAIN items :
       /\ Matches(config, items[i].key) /\ snap[items[i].key] # 0
       /\ items[i].val = snap[items[i].key]
          \/ (items[i].val = Refused /\ config.mode = "Deserialize")
  /\ InOrder

\* What the guide says of `reverse`, the iteration's direction, whatever the
\* rest of the configuration: what is yielded descends.
ReverseDescends ==
  config # None /\ config.reverse =>
    \A i, j \in DOMAIN items : i < j => Pos(items[i].key) > Pos(items[j].key)

\* What an iteration should find: the live keys with the prefix, on the right
\* side of the start key.
Wanted(c) ==
  { k \in Keys : /\ snap[k] # 0 /\ Matches(c, k)
                 /\ c.start # None => IF c.reverse THEN Pos(k) <= Pos(c.start)
                                                   ELSE Pos(k) >= Pos(c.start) }

\* In this order the keys with the prefix p stand together, p first.
Contiguous(p) ==
  \A k \in StartsWith[p] :
    Pos(p) <= Pos(k) /\ \A j \in Pos(p)..Pos(k) : order[j] \in StartsWith[p]

\* An iteration that ended, also one called again after its end or after an
\* item the deserializer refused, and without a Stop of the user's control
\* function, has seen every key it should find, if the comparator keeps the
\* keys with the prefix together and the start key is one of them.  A
\* natural-order comparator does not, and a scan by prefix then ends at the
\* first gap.
FindsAll ==
  pc = "ended" /\ ~stopped /\
  (config.prefix # None => Contiguous(config.prefix)
     /\ (config.start # None => config.start \in StartsWith[config.prefix]))
  => {items[i].key : i \in DOMAIN items} \cup skipped = Wanted(config)

\* A control function that stops at the count it is given gets exactly as many
\* items as it allows, or all there are; items the deserializer refused are
\* among them.
LimitIsExact ==
  config # None /\ config.control = "limit" =>
    /\ Len(items) <= Limit
    /\ pc = "ended" /\ stopped => Len(items) = Limit
=============================================================================

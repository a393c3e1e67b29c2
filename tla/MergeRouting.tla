---------------------------- MODULE MergeRouting ---------------------------
(* The merge routers (merge.rs): two process-wide tables of key patterns,   *)
(* one for full and one for partial merges, filled through                  *)
(* MergeRouterBuilder and consulted by the operator every routed column     *)
(* family registers.  Writers add operands; RocksDB combines them whenever  *)
(* it compacts, in any thread and at any time, also while routes are added. *)
(*                                                                          *)
(* The handlers are those of examples/merge_routing.rs: a list of strings   *)
(* with a full handler only, and a set of strings with a full and a partial *)
(* one.  The partial one leaves a bare SimpleSet where an operand was, and  *)
(* the full one passes over what is no MergeValue<SimpleSet>; the one for   *)
(* lists takes the value below the operands as text, without decoding it.   *)
(*                                                                          *)
(* A token is what MessagePack bytes decode to; a stored value is a         *)
(* sequence of tokens, as default_full_merge (config.rs) concatenates, and  *)
(* decodes to its first one: trailing bytes are not looked at.  matchit's   *)
(* tables and RocksDB's compaction are external.                            *)
EXTENDS Integers, Sequences, SequencesExt, FiniteSets

CONSTANTS Keys,        \* keys of a column family with the routed operator
          Utf8Keys,    \* the ones whose bytes are a string
          Holds,       \* Holds[k]: "list" or "set", what an application keeps at k
          Patterns,    \* route patterns, the most specific ones first
          HandlerOf,   \* HandlerOf[p]: "list" or "set", the handlers for p
          Matches,     \* Matches[k]: the patterns the key matches
          Conflicts,   \* pairs of patterns matchit does not hold together
          Elements,    \* the strings in lists and sets
          Header,      \* the bytes in front of a string, read as text
          Used,        \* the MergeValueOperators an application uses
          None,
          MaxWrites    \* bound: puts and merges

ASSUME PatternAssumption ==
  /\ Patterns \in Seq(ToSet(Patterns)) /\ None \notin ToSet(Patterns)
  /\ Matches \in [Keys -> SUBSET ToSet(Patterns)]
ASSUME HandlerAssumption ==
  /\ Holds \in [Keys -> {"list", "set"}] /\ HandlerOf \in [ToSet(Patterns) -> {"list", "set"}]
  /\ \A k \in Keys : \A p \in Matches[k] : HandlerOf[p] = Holds[k]
ASSUME BoundAssumption == MaxWrites \in Nat

VARIABLES
  full,       \* FULL_MERGE_ROUTER: registered patterns
  partial,    \* PARTIAL_MERGE_ROUTER
  adding,     \* the patterns that calls of add_route are between their two halves with
  split,      \* one handler of a pair was added without the other
  name,       \* the builder has an operator name
  opened,     \* a store was opened with the built operator
  stored,     \* per key: the value RocksDB holds below the operands, or None
  operands,   \* per key: the operands RocksDB holds
  written,    \* per key: what was put, and the operands merged since
  combined,   \* per key: the operands that partial merges took since the put
  rerouted,   \* per key: its full merge route changed after it had operands
  writes      \* puts and merges so far

routers == <<full, partial, adding, split, name>>
data == <<stored, operands, written, combined, writes>>
vars == <<routers, opened, data, rerouted>>

PatternSet == ToSet(Patterns)

\* MergeValueOperator.
Operators == {"Add", "Remove", "Union", "Intersect"}

ASSUME UsedAssumption == Used \subseteq Operators

\* What is put, and what the handlers leave.
Texts == [of : {"String"}, items : Seq(Elements \cup {Header})]

Sets == [of : {"SimpleSet"}, set : SUBSET Elements]

\* MergeValue<String> and MergeValue<SimpleSet>, the operands of merge().
MergeTexts == [of : {"MergeValue<String>"}, op : Operators, str : Elements]

MergeSets == [of : {"MergeValue<SimpleSet>"}, op : Operators, set : SUBSET Elements]

Tokens == Texts \cup Sets \cup MergeTexts \cup MergeSets

ASSUME NoneAssumption ==
  None \notin Seq(Tokens) /\ None \notin Tokens /\ None \notin Seq(MergeTexts)
    /\ None \notin Seq(MergeSets) /\ Header \notin Elements

\* A fold from the left, its step a function of pairs: the theorems about
\* MergeRouting rest on lemmas about it.
Folded(step, start, seq) ==
  LET after[n \in 0..Len(seq)] == IF n = 0 THEN start ELSE step[<<after[n - 1], seq[n]>>]
  IN  after[Len(seq)]

Init ==
  /\ full = {} /\ partial = {} /\ adding = {} /\ split = FALSE
  /\ name = FALSE /\ opened = FALSE
  /\ stored = [k \in Keys |-> None]
  /\ operands = [k \in Keys |-> <<>>]
  /\ written = [k \in Keys |-> [base |-> None, ops |-> <<>>]]
  /\ combined = [k \in Keys |-> {}]
  /\ rerouted = [k \in Keys |-> FALSE]
  /\ writes = 0

-----------------------------------------------------------------------------
(* The tables. *)

\* Router::insert fails if the pattern conflicts with one already there.
Accepts(router, p) == \A q \in router : p # q /\ <<p, q>> \notin Conflicts /\ <<q, p>> \notin Conflicts

\* Router::at: the most specific registered pattern; other keys, and those
\* that are not strings, are left to the default.
Route(router, k) ==
  LET hits == {i \in DOMAIN Patterns : Patterns[i] \in router /\ Patterns[i] \in Matches[k]}
  IN  IF k \in Utf8Keys /\ hits # {} THEN Patterns[Min(hits)] ELSE None

\* A change of the full router that a key with operands is exposed to.
Reroute(newFull) ==
  rerouted' = [k \in Keys |->
    rerouted[k] \/ (written[k].ops # <<>> /\ Route(newFull, k) # Route(full, k))]

operator_name ==
  /\ ~name /\ name' = TRUE
  /\ UNCHANGED <<full, partial, adding, split, opened, data, rerouted>>

\* There is no partial handler for lists.
Paired(p) == HandlerOf[p] = "set"

\* One table only; an Err leaves everything as it was.
add_full_merge_route(p) ==
  /\ Accepts(full, p)
  /\ full' = full \cup {p}
  /\ split' = (split \/ Paired(p))
  /\ Reroute(full')
  /\ UNCHANGED <<partial, adding, name, opened, data>>

add_partial_merge_route(p) ==
  /\ Paired(p) /\ Accepts(partial, p)
  /\ partial' = partial \cup {p}
  /\ split' = TRUE
  /\ UNCHANGED <<full, adding, name, opened, data, rerouted>>

\* Mutant of add_route_full: the two halves swapped.
add_route_partial_first(p) ==
  /\ Paired(p) /\ Accepts(partial, p)
  /\ partial' = partial \cup {p}
  /\ adding' = adding \cup {p}
  /\ UNCHANGED <<full, split, name, opened, data, rerouted>>

\* add_route: first the full router, under its own lock, ...
add_route_full(p) ==
  /\ Paired(p) /\ Accepts(full, p)
  /\ full' = full \cup {p}
  /\ adding' = adding \cup {p}
  /\ Reroute(full')
  /\ UNCHANGED <<partial, split, name, opened, data>>

\* ... then the partial one, which may refuse: the first half stays.  Calls in
\* other threads may come in between.
add_route_partial(p) ==
  /\ p \in adding
  /\ partial' = IF Accepts(partial, p) THEN partial \cup {p} ELSE partial
  /\ adding' = adding \ {p}
  /\ UNCHANGED <<full, split, name, opened, data, rerouted>>

\* build() needs a name; the routes are where they are already.
build ==
  /\ name /\ ~opened
  /\ opened' = TRUE
  /\ UNCHANGED <<routers, data, rerouted>>

-----------------------------------------------------------------------------
(* What is called from RocksDB. *)

\* Ok of the operands if they all decode to one kind of MergeValue and have the
\* same operator.
validate_mergevalues_associativity(MergeValues, ops) ==
  IF ToSet(ops) \subseteq MergeValues /\ \A a, b \in ToSet(ops) : a.op = b.op THEN ops ELSE None

\* String::from_utf8_lossy, token by token: what is no text shows as Header.
TokenText(t) ==
  << Header >> \o CASE t.of = "String" -> t.items
                   [] t.of = "MergeValue<String>" -> << t.str >>
                   [] OTHER -> <<>>

AddText == [p \in Seq(Elements \cup {Header}) \X Tokens |-> p[1] \o TokenText(p[2])]

Text(value) == IF value = None THEN <<>> ELSE Folded(AddText, <<>>, value)

Strs(ops) == [i \in DOMAIN ops |-> ops[i].str]

\* Mutant of string_append_handler: the value below the operands is dropped.
string_append_handler_fresh(existing, ops) ==
  IF validate_mergevalues_associativity(MergeTexts, ops) = None THEN None
  ELSE << [of |-> "String", items |-> Strs(ops)] >>

\* The value below is not decoded: what was in front of its string stays in it.
string_append_handler(existing, ops) ==
  IF validate_mergevalues_associativity(MergeTexts, ops) = None THEN None
  ELSE << [of |-> "String", items |-> Text(existing) \o Strs(ops)] >>

\* The strings of a value that decodes to a SimpleSet.
Members(value) == IF value = None THEN {} ELSE IF value[1] \in Sets THEN value[1].set ELSE {}

\* The strings of operands that decode and are unions; others are passed over.
Unions(ops) == UNION {t.set : t \in {x \in ToSet(ops) : x \in MergeSets /\ x.op = "Union"}}

\* Mutant of set_union_full_handler: the value below the operands is dropped.
set_union_full_handler_fresh(existing, ops) == << [of |-> "SimpleSet", set |-> Unions(ops)] >>

set_union_full_handler(existing, ops) ==
  << [of |-> "SimpleSet", set |-> Members(existing) \cup Unions(ops)] >>

\* The operator is not looked at, and what comes of it is no operand.
set_union_partial_handler(ops) ==
  IF validate_mergevalues_associativity(MergeSets, ops) = None THEN None
  ELSE [of |-> "SimpleSet", set |-> UNION {t.set : t \in ToSet(ops)}]

Contents(value) == IF value = None THEN <<>> ELSE value

\* Mutant of default_full_merge: without a value the first operand is dropped.
default_full_merge_tail(existing, ops) ==
  IF existing = None /\ ops = <<>> THEN None
  ELSE IF existing = None THEN Tail(ops)
  ELSE existing \o ops

default_full_merge(existing, ops) ==
  IF existing = None /\ ops = <<>> THEN None ELSE Contents(existing) \o ops

default_partial_merge(ops) == None

router_full_merge_fn(k, existing, ops) ==
  LET route == Route(full, k)
  IN  CASE route = None -> default_full_merge(existing, ops)
        [] route # None /\ HandlerOf[route] = "list" -> string_append_handler(existing, ops)
        [] route # None /\ HandlerOf[route] = "set" -> set_union_full_handler(existing, ops)

router_partial_merge_fn(k, ops) ==
  IF Route(partial, k) # None THEN set_union_partial_handler(ops) ELSE default_partial_merge(ops)

-----------------------------------------------------------------------------
(* Writers and compaction. *)
put(k, token) ==
  /\ opened /\ writes < MaxWrites
  /\ stored' = [stored EXCEPT ![k] = << token >>]
  /\ written' = [written EXCEPT ![k] = [base |-> << token >>, ops |-> <<>>]]
  /\ operands' = [operands EXCEPT ![k] = <<>>]
  /\ combined' = [combined EXCEPT ![k] = {}]
  /\ rerouted' = [rerouted EXCEPT ![k] = FALSE]
  /\ writes' = writes + 1
  /\ UNCHANGED <<routers, opened>>

merge(k, operand) ==
  /\ opened /\ writes < MaxWrites
  /\ operands' = [operands EXCEPT ![k] = Append(@, operand)]
  /\ written' = [written EXCEPT ![k].ops = Append(@, operand)]
  /\ writes' = writes + 1
  /\ UNCHANGED <<routers, opened, stored, combined, rerouted>>

\* Compaction meets adjacent operands and no value below them.
CompactPartial(k, i, j) ==
  /\ i < j
  /\ LET some == SubSeq(operands[k], i, j)
         merged == router_partial_merge_fn(k, some)
     IN  /\ merged # None
         /\ operands' = [operands EXCEPT ![k] =
              Append(SubSeq(@, 1, i - 1), merged) \o SubSeq(@, j + 1, Len(@))]
         /\ combined' = [combined EXCEPT ![k] = @ \cup ToSet(some)]
  /\ UNCHANGED <<routers, opened, stored, written, rerouted, writes>>

\* Compaction meets the value, or knows that there is none, below the first
\* i operands; a failed merge fails the compaction and changes nothing.
CompactFull(k, i) ==
  /\ LET merged == router_full_merge_fn(k, stored[k], SubSeq(operands[k], 1, i))
     IN  /\ merged # None
         /\ stored' = [stored EXCEPT ![k] = merged]
         /\ operands' = [operands EXCEPT ![k] = SubSeq(@, i + 1, Len(@))]
  /\ UNCHANGED <<routers, opened, written, combined, rerouted, writes>>

-----------------------------------------------------------------------------
Register ==
  \/ operator_name \/ build
  \/ \E p \in PatternSet :
       add_full_merge_route(p) \/ add_partial_merge_route(p) \/ add_route_full(p) \/ add_route_partial(p)

\* A list is put, and merged into, one string at a time; a set as it comes.
PutChoices(k) ==
  IF Holds[k] = "list" THEN {[of |-> "String", items |-> << e >>] : e \in Elements} ELSE Sets

MergeChoices(k) ==
  {t \in (IF Holds[k] = "list" THEN MergeTexts ELSE MergeSets) : t.op \in Used}

Store ==
  \E k \in Keys :
    \/ \E token \in PutChoices(k) : put(k, token)
    \/ \E operand \in MergeChoices(k) : merge(k, operand)
    \/ \E i, j \in DOMAIN operands[k] : CompactPartial(k, i, j)
    \/ \E i \in DOMAIN operands[k] : CompactFull(k, i)

Next == Register \/ Store

Spec == Init /\ [][Next]_vars

-----------------------------------------------------------------------------
IsValue(v) == v = None \/ (v # <<>> /\ ToSet(v) \subseteq Tokens)

\* Every variable has its type; RocksDB never holds more operands than were
\* written.
TypeOK ==
  /\ full \subseteq PatternSet /\ partial \subseteq PatternSet
  /\ adding \subseteq PatternSet
  /\ split \in BOOLEAN /\ name \in BOOLEAN /\ opened \in BOOLEAN
  /\ writes \in 0..MaxWrites
  /\ \A k \in Keys : /\ IsValue(stored[k]) /\ IsValue(written[k].base)
                     /\ ToSet(operands[k]) \subseteq Tokens
                     /\ Len(operands[k]) <= Len(written[k].ops)
                     /\ combined[k] \subseteq ToSet(written[k].ops)
                     /\ rerouted[k] \in BOOLEAN

\* What a get returns: RocksDB merges what is left.
Get(k) ==
  IF operands[k] = <<>> THEN stored[k] ELSE router_full_merge_fn(k, stored[k], operands[k])

\* The same without any compaction.
Reference(k) ==
  IF written[k].ops = <<>> THEN written[k].base
  ELSE router_full_merge_fn(k, written[k].base, written[k].ops)

\* The strings in a text, in order, whatever else stands between them.
KeepStr == [p \in Seq(Elements) \X (Elements \cup {Header}) |->
              IF p[2] = Header THEN p[1] ELSE Append(p[1], p[2])]

Strings(text) == Folded(KeepStr, <<>>, text)

\* The strings of the operands that partial merges took.
Spoiled(k) == UNION {t.set : t \in combined[k]}

\* When compaction merges a key's operands into its value, and how many at a
\* time, does not change what a get finds, unless the key's full route changed
\* under its operands.  A list, if its operands can be merged at all, has the
\* strings it would have without compaction, in the same order; a set has the
\* same members, but for those a partial merge took, of which it may have any;
\* without a route, and without a partial merge, the value is the same.
CompactionKeepsElements ==
  \A k \in Keys : ~rerouted[k] =>
    LET route == Route(full, k)
    IN  /\ route = None /\ combined[k] = {} => Get(k) = Reference(k)
        /\ route # None /\ Holds[k] = "list" /\ Reference(k) # None =>
             Get(k) # None /\ Strings(Text(Get(k))) = Strings(Text(Reference(k)))
        /\ route # None /\ Holds[k] = "set" =>
             /\ Members(Reference(k)) \ Spoiled(k) \subseteq Members(Get(k))
             /\ Members(Get(k)) \subseteq Members(Reference(k))

\* As long as no pair of handlers is added one by one, a key with a partial
\* route has a full route, also while calls of add_route are between their two
\* tables, and the two are the same when all are done, if the key's handlers
\* come in pairs: one table never refuses what the other took.
RoutesPaired ==
  ~split => \A k \in Keys :
    /\ Route(partial, k) # None => Route(full, k) # None
    /\ adding = {} /\ Holds[k] = "set" => Route(partial, k) = Route(full, k)

\* What the example asserts of its set after two unions: everything that was
\* merged into it, by unions, is in it.
SetKeepsMembers ==
  \A k \in Keys :
    ~split /\ adding = {} /\ ~rerouted[k] /\ Holds[k] = "set" /\ Route(full, k) # None
      => Unions(written[k].ops) \subseteq Members(Get(k))

\* What the example asserts of its list after two merges: it is the strings
\* that were merged, and nothing else.
ListReadsBack ==
  \A k \in Keys :
    ~rerouted[k] /\ Holds[k] = "list" /\ Route(full, k) # None
      /\ written[k].base = None /\ Get(k) # None /\ Reference(k) # None
      => Get(k)[1].items = Strs(written[k].ops)
=============================================================================

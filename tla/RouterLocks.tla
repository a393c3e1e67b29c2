---------------------------- MODULE RouterLocks ----------------------------
(* The locks of the four process-wide routers: FULL_MERGE_ROUTER and         *)
(* PARTIAL_MERGE_ROUTER (merge.rs), COMPACTION_FILTER_ROUTER and             *)
(* BINARY_COMPACTION_FILTER_ROUTER (compaction_filter/).  RocksDB calls the  *)
(* operator and the filters in its threads and in those that read; a matched *)
(* handler runs while the read guard of its router is held.  Builders take   *)
(* the write lock to add a route.                                            *)
(*                                                                           *)
(* A handler may read a store, which merges and so takes the lock of the     *)
(* full merge router; one that runs under that lock re-enters it.            *)
(*                                                                           *)
(* A parking_lot::RwLock is external: a writer claims the lock, which holds  *)
(* new readers off, recursive ones too, and enters when the readers are gone.*)
EXTENDS Naturals, Sequences

CONSTANTS Workers,     \* threads in which RocksDB calls operators and filters
          Builders,    \* threads that add routes
          Free,        \* waiting for no lock, claimed by nobody
          MaxDepth     \* bound on the guards a worker holds

Routers == {"full", "partial", "text", "binary"}

ASSUME ThreadsAssumption ==
  /\ Workers \cap Builders = {}
  /\ Free \notin Workers \cup Builders \cup Routers
  /\ MaxDepth \in Nat

VARIABLES holds,       \* holds[w]: the routers whose read guards w has, inner ones last
          waits,       \* waits[w]: the router whose read guard w asked for, or Free
          todo,        \* todo[b]: the routers its call is to add the route to, in order
          claimed,     \* claimed[r]: the builder with or next to have the write lock
          reentered    \* a handler under the full merge router's lock read a store

lockVars == <<holds, waits, todo, claimed, reentered>>

Held(w) == {holds[w][i] : i \in DOMAIN holds[w]}

Readers(r) == {w \in Workers : r \in Held(w)}

LocksInit ==
  /\ holds = [w \in Workers |-> <<>>]
  /\ waits = [w \in Workers |-> Free]
  /\ todo = [b \in Builders |-> <<>>]
  /\ claimed = [r \in Routers |-> Free]
  /\ reentered = FALSE

-----------------------------------------------------------------------------
(* Operators and filters. *)

\* RocksDB calls router_full_merge_fn, router_partial_merge_fn,
\* router_compaction_filter_fn or binary_router_fn for a key they can route.
Call(w, r) ==
  /\ holds[w] = <<>> /\ waits[w] = Free
  /\ waits' = [waits EXCEPT ![w] = r]
  /\ UNCHANGED <<holds, todo, claimed, reentered>>

read(w) ==
  /\ waits[w] # Free /\ claimed[waits[w]] = Free
  /\ holds' = [holds EXCEPT ![w] = Append(@, waits[w])]
  /\ waits' = [waits EXCEPT ![w] = Free]
  /\ UNCHANGED <<todo, claimed, reentered>>

\* The handler reads a store.
Nested(w) ==
  /\ waits[w] = Free /\ Len(holds[w]) \in 1..(MaxDepth - 1)
  /\ waits' = [waits EXCEPT ![w] = "full"]
  /\ reentered' = (reentered \/ "full" \in Held(w))
  /\ UNCHANGED <<holds, todo, claimed>>

\* The handler returns, or no route matched: the guard is dropped.
Finish(w) ==
  /\ waits[w] = Free /\ holds[w] # <<>>
  /\ holds' = [holds EXCEPT ![w] = SubSeq(@, 1, Len(@) - 1)]
  /\ UNCHANGED <<waits, todo, claimed, reentered>>

-----------------------------------------------------------------------------
(* Registration. *)

\* add_route of MergeRouterBuilder, its two halves alone, and the filters'.
Calls == { <<"full", "partial">>, <<"full">>, <<"partial">>, <<"text">>, <<"binary">> }

add_route(b) ==
  /\ todo[b] = <<>>
  /\ \E call \in Calls : todo' = [todo EXCEPT ![b] = call]
  /\ UNCHANGED <<holds, waits, claimed, reentered>>

write(b) ==
  /\ todo[b] # <<>> /\ claimed[Head(todo[b])] = Free
  /\ claimed' = [claimed EXCEPT ![Head(todo[b])] = b]
  /\ UNCHANGED <<holds, waits, todo, reentered>>

Granted(b) ==
  /\ todo[b] # <<>> /\ claimed[Head(todo[b])] = b
  /\ Readers(Head(todo[b])) = {}

\* Mutant of insert: add_route drops its guards at the end.
insert_both(b) ==
  /\ Granted(b)
  /\ claimed' = IF Tail(todo[b]) # <<>> THEN claimed
                ELSE [r \in Routers |-> IF claimed[r] = b THEN Free ELSE claimed[r]]
  /\ todo' = [todo EXCEPT ![b] = Tail(@)]
  /\ UNCHANGED <<holds, waits, reentered>>

\* The route is inserted and the guard dropped.
insert(b) ==
  /\ Granted(b)
  /\ claimed' = [claimed EXCEPT ![Head(todo[b])] = Free]
  /\ todo' = [todo EXCEPT ![b] = Tail(@)]
  /\ UNCHANGED <<holds, waits, reentered>>

\* Mutant of insert_err: the refused half is tried again after the other one.
insert_err_again(b) ==
  /\ Granted(b)
  /\ claimed' = [claimed EXCEPT ![Head(todo[b])] = Free]
  /\ todo' = [todo EXCEPT ![b] = Append(Tail(@), Head(@))]
  /\ UNCHANGED <<holds, waits, reentered>>

\* Mutant of insert_err: a refused pattern is tried again, not returned.
insert_err_retry(b) ==
  /\ Granted(b) /\ Head(todo[b]) # "binary"
  /\ claimed' = [claimed EXCEPT ![Head(todo[b])] = Free]
  /\ UNCHANGED <<holds, waits, todo, reentered>>

\* A matchit router refuses the pattern (a trie never does): the guard is
\* dropped and add_route returns without its second half.
insert_err(b) ==
  /\ Granted(b) /\ Head(todo[b]) # "binary"
  /\ claimed' = [claimed EXCEPT ![Head(todo[b])] = Free]
  /\ todo' = [todo EXCEPT ![b] = <<>>]
  /\ UNCHANGED <<holds, waits, reentered>>

-----------------------------------------------------------------------------
Insert(b) == insert(b) \/ insert_err(b)

LocksNext ==
  \/ \E w \in Workers : read(w) \/ Nested(w) \/ Finish(w) \/ \E r \in Routers : Call(w, r)
  \/ \E b \in Builders : add_route(b) \/ write(b) \/ Insert(b)

LocksSpec == LocksInit /\ [][LocksNext]_lockVars

\* The outermost handler of a call returns.
Leave(w) == Len(holds[w]) = 1 /\ Finish(w)

\* Handlers return after finitely many reads, and a lock that is free again
\* and again goes in the end to each thread that waits for it (parking_lot is
\* eventually fair).
Fairness ==
  /\ \A w \in Workers : SF_lockVars(read(w)) /\ WF_lockVars(Finish(w)) /\ SF_lockVars(Leave(w))
  /\ \A b \in Builders : SF_lockVars(write(b)) /\ WF_lockVars(Insert(b))

LocksFairSpec == LocksSpec /\ Fairness

-----------------------------------------------------------------------------
\* Every variable has its type; what is left of a call that adds a route is a
\* call again.
LocksTypeOK ==
  /\ holds \in [Workers -> Seq(Routers)]
  /\ waits \in [Workers -> Routers \cup {Free}]
  /\ todo \in [Builders -> Calls \cup {<<>>}]
  /\ claimed \in [Routers -> Builders \cup {Free}]
  /\ reentered \in BOOLEAN

\* Thread t cannot go on before u does.
Blocks(t, u) ==
  \/ t \in Workers /\ waits[t] # Free /\ u = claimed[waits[t]]
  \/ t \in Builders /\ todo[t] # <<>> /\ u = claimed[Head(todo[t])] /\ u # t
  \/ /\ t \in Builders /\ todo[t] # <<>> /\ t = claimed[Head(todo[t])]
     /\ u \in Readers(Head(todo[t]))

\* As long as no full merge handler reads a store, no set of threads waits for
\* each other, although filters and partial merge handlers may read one under
\* their own routers' locks and routes are added at any time: add_route gives
\* up the full router before it asks for the partial one (merge.rs:61).
NoDeadlock ==
  ~reentered =>
    \A D \in SUBSET (Workers \cup Builders) :
      D # {} => \E t \in D : \A u \in D : ~Blocks(t, u)

\* Then every call of an operator or a filter, and every call that adds a
\* route, returns.
CallsReturn ==
  []~reentered =>
    /\ \A w \in Workers : (waits[w] # Free) ~> (holds[w] = <<>>)
    /\ \A b \in Builders : (todo[b] # <<>>) ~> (todo[b] = <<>>)
=============================================================================

------------------------- MODULE MaintenanceProofs -------------------------
(* Proofs about Maintenance, for all column families, keys and values, every *)
(* source, and any number of calls, edits and compactions between them.      *)
EXTENDS Maintenance, WellFoundedInduction, TLAPS

(* What the runs check is about the state in which migrate_db returns.  It  *)
(* follows from what its two loops maintain, while compactions run: the     *)
(* source has only what the filters left of it, the iterator holds what was *)
(* left of its records, the destination has only what is left of the one or *)
(* the other, and a record that is still in the source has reached the      *)
(* destination, unless its column family or the record itself is still to   *)
(* come.                                                                    *)

\* A call has begun, and nobody has edited the databases since.
Began == Running \/ call.result # "none"

SourceOnlyFiltered ==
  Began => \A cf \in Cfs, k \in Keys : src[cf][k] \in Rest(call.src0[cf][k])

ItemsFromSource ==
  \A k \in Keys : call.items[k] # None =>
    call.cf \in Migrated /\ call.items[k] \in Rest(call.src0[call.cf][k])

NothingForeign ==
  Began => \A cf \in Cfs, k \in Keys :
    \/ dst[cf][k] \in Rest(call.dst0[cf][k])
    \/ /\ cf \in Migrated /\ call.src0[cf][k] # None
       /\ dst[cf][k] \in Rest(call.src0[cf][k])

\* What is left of the record at k is in the destination, if anything.
Arrived(cf, k) == dst[cf][k] \in Rest(call.src0[cf][k])

Pending(cf, k) == call.cf = cf /\ call.items[k] # None

MigrateLoop ==
  call.pc = "migrate" => \A cf \in Migrated \ call.todo, k \in Keys :
    src[cf][k] # None => Arrived(cf, k) \/ Pending(cf, k)

ValidateLoop ==
  call.pc = "validate" => \A cf \in Migrated, k \in Keys :
    src[cf][k] # None \/ Pending(cf, k) => Arrived(cf, k)

LiveArrived ==
  call.result = "ok" => \A cf \in Migrated, k \in Keys :
    None \notin Rest(call.src0[cf][k]) => Arrived(cf, k)

IInv ==
  /\ TypeOK /\ SourceOnlyFiltered /\ ItemsFromSource /\ NothingForeign
  /\ MigrateLoop /\ ValidateLoop /\ LiveArrived /\ AlarmOnlyByFilter

CallSet ==
  [pc : {"closed", "migrate", "validate"}, list : SUBSET Cfs, validate : BOOLEAN,
   todo : SUBSET SrcCfs, cf : SrcCfs \cup {None}, items : [Keys -> Values \cup {None}],
   src0 : Content, dst0 : Content, result : Results]

-----------------------------------------------------------------------------
\* The least of some natural numbers is one of them.
LEMMA MinOfNat ==
  ASSUME NEW S \in SUBSET Nat, S # {}
  PROVE  Min(S) \in S
<1>1. \E x \in S : \A y \in S : ~(<<y, x>> \in OpToRel(<, Nat))
  BY NatLessThanWellFounded, WFMin
<1>2. ASSUME NEW x \in Nat, NEW y \in Nat, y < x PROVE <<y, x>> \in OpToRel(<, Nat)
  <2>1. <<y, x>> \in Nat \X Nat /\ <<y, x>>[1] < <<y, x>>[2]
    BY <1>2
  <2>2. QED
    BY <2>1, Zenon DEF OpToRel
<1>3. \A x, y \in Nat : ~(y < x) => x <= y
  OBVIOUS
<1>4. \E x \in S : \A y \in S : x <= y
  BY <1>1, <1>2, <1>3
<1>5. QED
  BY <1>4 DEF Min

\* The iterator's next key is one it has.
LEMMA ItemFacts ==
  ASSUME HasItem
  PROVE  Item \in Keys /\ call.items[Item] # None
<1> DEFINE S == {k \in Keys : call.items[k] # None}
<1>1. S \in SUBSET Nat /\ S # {}
  BY MaintenanceAssumption DEF HasItem
<1> HIDE DEF S
<1>2. Min(S) \in S
  BY <1>1, MinOfNat
<1>3. QED
  BY <1>2 DEF S, Item

\* What Rest allows: the value itself, whatever a filter makes of what is
\* left, and nothing but nothing when nothing was there.
LEMMA RestFacts ==
  /\ Rest(None) = {None}
  /\ \A v : v \in Rest(v)
  /\ \A v, w, x : w \in Rest(v) /\ w \in Values /\ x \in Filter[w] => x \in Rest(v)
<1>1. Rest(None) = {None}
  <2>1. {None} \in Closed
    BY MaintenanceAssumption DEF Closed
  <2>2. QED
    BY <2>1 DEF Rest
<1>2. ASSUME NEW v, NEW w \in Values, NEW x \in Filter[w], w \in Rest(v)
      PROVE  x \in Rest(v)
  <2>1. x \in Values \cup {None}
    BY MaintenanceAssumption
  <2>2. \A S \in Closed : v \in S => w \in S
    BY <1>2 DEF Rest
  <2>3. \A S \in Closed : w \in S => x \in S
    BY DEF Closed
  <2>4. QED
    BY <2>1, <2>2, <2>3 DEF Rest
<1>3. QED
  BY <1>1, <1>2 DEF Rest

\* The fields of the call after the iterator advanced.
LEMMA AdvancedFields ==
  ASSUME call \in CallSet, HasItem
  PROVE  /\ Advanced \in CallSet
         /\ Advanced.pc = call.pc /\ Advanced.list = call.list /\ Advanced.todo = call.todo
         /\ Advanced.cf = call.cf /\ Advanced.src0 = call.src0 /\ Advanced.dst0 = call.dst0
         /\ Advanced.result = call.result
         /\ Advanced.items = [call.items EXCEPT ![Item] = None]
<1>1. Item \in Keys
  BY ItemFacts
<1>2. QED
  BY <1>1 DEF Advanced, CallSet

\* The fields of the call when it returns.
LEMMA ReturnFields ==
  ASSUME call \in CallSet, NEW r \in Results
  PROVE  /\ Return(r) \in CallSet
         /\ Return(r).pc = "closed" /\ Return(r).list = call.list /\ Return(r).todo = {}
         /\ Return(r).src0 = call.src0 /\ Return(r).dst0 = call.dst0
         /\ Return(r).result = r /\ Return(r).items = Empty
<1>1. Empty \in [Keys -> Values \cup {None}]
  BY DEF Empty
<1>2. QED
  BY <1>1 DEF Return, CallSet

-----------------------------------------------------------------------------
(* The steps. *)

\* The beginning of a call: everything is as it was found.
LEMMA MigrateDbInv ==
  ASSUME IInv, NEW list \in SUBSET Cfs, NEW validate \in BOOLEAN, migrate_db(list, validate)
  PROVE  IInv'
<1>0. TypeOK
  BY DEF IInv
<1>1. /\ call' \in CallSet
      /\ call'.pc = "migrate" /\ call'.list = list /\ call'.todo = SrcCfs /\ call'.items = Empty
      /\ call'.src0 = src /\ call'.dst0 = dst /\ call'.result = "none"
      /\ UNCHANGED <<src, dst>>
  <2>1. NoCall \in CallSet /\ NoCall.items = Empty /\ NoCall.result = "none"
    BY DEF NoCall, CallSet, Empty, Content, Results
  <2>2. call' = [NoCall EXCEPT !.pc = "migrate", !.list = list, !.validate = validate,
                               !.todo = SrcCfs, !.src0 = src, !.dst0 = dst]
    BY DEF migrate_db
  <2>3. src \in Content /\ dst \in Content
    BY <1>0 DEF TypeOK
  <2>4. QED
    BY <2>1, <2>2, <2>3 DEF CallSet, migrate_db
<1>2. TypeOK'
  <2>1. calls' \in 0..MaxCalls
    BY <1>0, MaintenanceAssumption DEF TypeOK, migrate_db
  <2>2. dstCfs' \subseteq Cfs
    BY MaintenanceAssumption DEF migrate_db
  <2>3. QED
    BY <1>0, <1>1, <2>1, <2>2 DEF TypeOK, CallSet, Running, migrate_db
<1>3. SourceOnlyFiltered' /\ NothingForeign'
  BY <1>1, RestFacts DEF SourceOnlyFiltered, NothingForeign
<1>4. ItemsFromSource' /\ MigrateLoop' /\ ValidateLoop' /\ LiveArrived' /\ AlarmOnlyByFilter'
  BY <1>1 DEF ItemsFromSource, Empty, MigrateLoop, Migrated, ValidateLoop, LiveArrived, AlarmOnlyByFilter
<1>5. QED
  BY <1>2, <1>3, <1>4 DEF IInv

\* A call that fails at the beginning.
LEMMA OpenErrInv ==
  ASSUME IInv, NEW list \in SUBSET Cfs, OpenErr(list)
  PROVE  IInv'
<1>0. TypeOK
  BY DEF IInv
<1>1. /\ call' \in CallSet
      /\ call'.pc = "closed" /\ call'.list = {} /\ call'.todo = {} /\ call'.items = Empty
      /\ call'.src0 = src /\ call'.dst0 = dst /\ call'.result = "open_err"
      /\ UNCHANGED <<src, dst>>
  <2>1. /\ NoCall \in CallSet /\ NoCall.items = Empty /\ NoCall.pc = "closed"
        /\ NoCall.list = {} /\ NoCall.todo = {}
    BY DEF NoCall, CallSet, Empty, Content, Results
  <2>2. call' = [NoCall EXCEPT !.src0 = src, !.dst0 = dst, !.result = "open_err"]
    BY DEF OpenErr
  <2>3. src \in Content /\ dst \in Content /\ "open_err" \in Results
    BY <1>0 DEF TypeOK, Results
  <2>4. QED
    BY <2>1, <2>2, <2>3 DEF CallSet, OpenErr
<1>2. TypeOK'
  <2>1. calls' \in 0..MaxCalls
    BY <1>0, MaintenanceAssumption DEF TypeOK, OpenErr
  <2>2. dstCfs' \subseteq Cfs
    BY <1>0, MaintenanceAssumption DEF TypeOK, OpenErr
  <2>3. QED
    BY <1>0, <1>1, <2>1, <2>2 DEF TypeOK, CallSet, Running, OpenErr
<1>3. SourceOnlyFiltered' /\ NothingForeign'
  BY <1>1, RestFacts DEF SourceOnlyFiltered, NothingForeign
<1>4. ItemsFromSource' /\ MigrateLoop' /\ ValidateLoop' /\ LiveArrived' /\ AlarmOnlyByFilter'
  BY <1>1 DEF ItemsFromSource, Empty, MigrateLoop, ValidateLoop, LiveArrived, AlarmOnlyByFilter
<1>5. QED
  BY <1>2, <1>3, <1>4 DEF IInv

\* A call that returns r leaves the databases as its loops left them.
LEMMA ReturnInv ==
  ASSUME IInv, Running, NEW r \in Results, call' = Return(r),
         UNCHANGED <<src, dst, dstCfs, calls, edits>>,
         r = "ok" => \A cf \in Migrated, k \in Keys : src[cf][k] # None => Arrived(cf, k),
         r = "inconsistent" =>
           \E cf \in Migrated, k \in Keys :
             /\ dst[cf][k] \in Rest(call.src0[cf][k]) \ {None}
             /\ \E w \in Rest(call.src0[cf][k]) \ {None} : w # dst[cf][k],
         r = "missing" =>
           \E cf \in Migrated, k \in Keys :
             /\ dst[cf][k] = None
             /\ call.src0[cf][k] # None /\ None \in Rest(call.src0[cf][k])
  PROVE  IInv'
<1>0. TypeOK /\ call \in CallSet
  BY DEF IInv, TypeOK, CallSet
<1>1. /\ call' \in CallSet
      /\ call'.pc = "closed" /\ call'.list = call.list /\ call'.todo = {} /\ call'.items = Empty
      /\ call'.src0 = call.src0 /\ call'.dst0 = call.dst0 /\ call'.result = r
  BY <1>0, ReturnFields
<1>2. TypeOK'
  BY <1>0, <1>1 DEF TypeOK, CallSet, Running
<1>3. SourceOnlyFiltered'
  BY <1>1 DEF IInv, SourceOnlyFiltered, Began
<1>4. NothingForeign'
  BY <1>1 DEF IInv, NothingForeign, Began, Migrated
<1>5. ItemsFromSource' /\ MigrateLoop' /\ ValidateLoop'
  BY <1>1 DEF ItemsFromSource, Empty, MigrateLoop, ValidateLoop
<1>6. LiveArrived'
  <2>1. ASSUME r = "ok", NEW cf \in Migrated, NEW k \in Keys, None \notin Rest(call.src0[cf][k])
        PROVE  Arrived(cf, k)
    <3>1. cf \in Cfs
      BY MaintenanceAssumption DEF Migrated
    <3>2. src[cf][k] # None
      BY <2>1, <3>1 DEF IInv, SourceOnlyFiltered, Began
    <3>3. QED
      BY <2>1, <3>2
  <2>2. QED
    BY <1>1, <2>1 DEF LiveArrived, Migrated, Arrived
<1>7. AlarmOnlyByFilter'
  BY <1>1 DEF AlarmOnlyByFilter, Migrated
<1>8. QED
  BY <1>2, <1>3, <1>4, <1>5, <1>6, <1>7 DEF IInv

\* An error of the iterator, of put_raw or of get_raw.
LEMMA ItemErrInv ==
  ASSUME IInv, ItemErr
  PROVE  IInv'
<1>1. "io_err" \in Results
  BY DEF Results
<1>2. QED
  BY <1>1, ReturnInv DEF ItemErr

\* The head of either loop: an iterator is made on what the source has now.
LEMMA NextCfInv ==
  ASSUME IInv, NextCf
  PROVE  IInv'
<1>0. TypeOK /\ call \in CallSet /\ src \in Content /\ Running /\ call.items = Empty
  BY DEF IInv, TypeOK, CallSet, NextCf
<1>1. PICK cf \in call.todo :
        call' = [call EXCEPT !.todo = @ \ {cf}, !.cf = cf,
                             !.items = IF cf \in call.list THEN src[cf] ELSE Empty]
  BY DEF NextCf
<1>2. cf \in SrcCfs /\ cf \in Cfs /\ src[cf] \in [Keys -> Values \cup {None}]
      /\ Empty \in [Keys -> Values \cup {None}]
  BY <1>0, MaintenanceAssumption DEF CallSet, Content, Empty
<1>3. /\ call' \in CallSet
      /\ call'.pc = call.pc /\ call'.list = call.list /\ call'.todo = call.todo \ {cf}
      /\ call'.cf = cf /\ call'.items = IF cf \in call.list THEN src[cf] ELSE Empty
      /\ call'.src0 = call.src0 /\ call'.dst0 = call.dst0 /\ call'.result = call.result
      /\ UNCHANGED <<src, dst, dstCfs, calls, edits>>
  BY <1>0, <1>1, <1>2 DEF CallSet, NextCf
<1>4. TypeOK'
  BY <1>0, <1>3 DEF TypeOK, CallSet, Running
<1>5. SourceOnlyFiltered' /\ NothingForeign' /\ LiveArrived' /\ AlarmOnlyByFilter'
  BY <1>0, <1>3 DEF IInv, SourceOnlyFiltered, NothingForeign, LiveArrived, AlarmOnlyByFilter, Began,
                    Running, Migrated, Arrived
<1>6. ItemsFromSource'
  <2>1. \A k \in Keys : src[cf][k] \in Rest(call.src0[cf][k])
    BY <1>0, <1>2 DEF IInv, SourceOnlyFiltered, Began
  <2>2. QED
    BY <1>2, <1>3, <2>1 DEF ItemsFromSource, Migrated, Empty
<1>7. MigrateLoop'
  <2>1. ASSUME call.pc = "migrate", NEW d \in Migrated, d \notin call.todo \/ d = cf,
               NEW k \in Keys, src[d][k] # None
        PROVE  Arrived(d, k) \/ (cf = d /\ call'.items[k] # None)
    <3>1. CASE d = cf
      BY <1>3, <2>1, <3>1 DEF Migrated
    <3>2. CASE d # cf
      <4>1. ~Pending(d, k)
        BY <1>0 DEF Pending, Empty
      <4>2. QED
        BY <2>1, <3>2, <4>1 DEF IInv, MigrateLoop
    <3>3. QED
      BY <3>1, <3>2
  <2>2. QED
    BY <1>3, <2>1 DEF MigrateLoop, Migrated, Arrived, Pending
<1>8. ValidateLoop'
  <2>1. ASSUME call.pc = "validate", NEW d \in Migrated, NEW k \in Keys,
               src[d][k] # None \/ (cf = d /\ call'.items[k] # None)
        PROVE  Arrived(d, k)
    <3>1. src[d][k] # None
      BY <1>3, <2>1 DEF Empty
    <3>2. QED
      BY <2>1, <3>1 DEF IInv, ValidateLoop
  <2>2. QED
    BY <1>3, <2>1 DEF ValidateLoop, Migrated, Arrived, Pending
<1>9. QED
  BY <1>4, <1>5, <1>6, <1>7, <1>8 DEF IInv

\* put_raw of one record.
LEMMA MigrateItemInv ==
  ASSUME IInv, MigrateItem
  PROVE  IInv'
<1>0. TypeOK /\ call \in CallSet /\ dst \in Content /\ HasItem /\ call.pc = "migrate"
  BY DEF IInv, TypeOK, CallSet, MigrateItem
<1>1. Item \in Keys /\ call.items[Item] # None
  BY <1>0, ItemFacts
<1>2. /\ call.cf \in Migrated /\ call.cf \in Cfs /\ call.items[Item] \in Rest(call.src0[call.cf][Item])
      /\ call.items[Item] \in Values \cup {None}
  BY <1>0, <1>1, MaintenanceAssumption DEF IInv, ItemsFromSource, Migrated, CallSet
<1>3. /\ call' \in CallSet
      /\ call'.pc = "migrate" /\ call'.list = call.list /\ call'.todo = call.todo
      /\ call'.cf = call.cf /\ call'.src0 = call.src0 /\ call'.dst0 = call.dst0
      /\ call'.result = call.result /\ call'.items = [call.items EXCEPT ![Item] = None]
      /\ UNCHANGED <<src, dstCfs, calls, edits>>
  BY <1>0, AdvancedFields DEF MigrateItem
<1> DEFINE i == Item
           v == call.items[Item]
<1>4. /\ dst' \in Content
      /\ \A cf \in Cfs, k \in Keys : ~(cf = call.cf /\ k = i) => dst'[cf][k] = dst[cf][k]
      /\ dst'[call.cf][i] = v
  <2>1. dst' = [dst EXCEPT ![call.cf][i] = v]
    BY DEF MigrateItem
  <2> HIDE DEF i, v
  <2>2. i \in Keys /\ v \in Values \cup {None}
    BY <1>1, <1>2 DEF i, v
  <2>3. QED
    BY <1>0, <1>2, <2>1, <2>2 DEF Content
<1>5. /\ i \in Keys /\ v # None /\ call'.items = [call.items EXCEPT ![i] = None]
      /\ v \in Rest(call.src0[call.cf][i]) /\ call.src0[call.cf][i] # None
  BY <1>1, <1>2, <1>3, RestFacts
<1> HIDE DEF i, v
<1>6. TypeOK'
  BY <1>0, <1>3, <1>4 DEF TypeOK, CallSet, Running
<1>7. SourceOnlyFiltered' /\ LiveArrived' /\ ValidateLoop' /\ AlarmOnlyByFilter'
  BY <1>0, <1>3 DEF IInv, TypeOK, Running, SourceOnlyFiltered, LiveArrived, ValidateLoop, AlarmOnlyByFilter, Began
<1>8. ItemsFromSource'
  BY <1>0, <1>3, <1>5 DEF IInv, CallSet, ItemsFromSource, Migrated
<1>9. NothingForeign'
  <2>1. ASSUME NEW cf \in Cfs, NEW k \in Keys
        PROVE  \/ dst'[cf][k] \in Rest(call.dst0[cf][k])
               \/ /\ cf \in Migrated /\ call.src0[cf][k] # None
                  /\ dst'[cf][k] \in Rest(call.src0[cf][k])
    <3>1. CASE cf = call.cf /\ k = i
      BY <1>2, <1>4, <1>5, <3>1
    <3>2. CASE ~(cf = call.cf /\ k = i)
      BY <1>0, <1>4, <3>2 DEF IInv, NothingForeign, Began, Running
    <3>3. QED
      BY <3>1, <3>2
  <2>2. QED
    BY <1>3, <2>1 DEF NothingForeign, Migrated
<1>10. MigrateLoop'
  <2>1. ASSUME NEW cf \in Migrated \ call.todo, NEW k \in Keys, src[cf][k] # None
        PROVE  dst'[cf][k] \in Rest(call.src0[cf][k]) \/ (call.cf = cf /\ call'.items[k] # None)
    <3>0. cf \in Cfs
      BY MaintenanceAssumption DEF Migrated
    <3>1. CASE cf = call.cf /\ k = i
      BY <1>4, <1>5, <3>1
    <3>2. CASE ~(cf = call.cf /\ k = i)
      <4>1. Arrived(cf, k) \/ Pending(cf, k)
        BY <1>0, <2>1 DEF IInv, MigrateLoop
      <4>2. dst'[cf][k] = dst[cf][k] /\ (call.cf = cf => call'.items[k] = call.items[k])
        BY <1>0, <1>4, <1>5, <3>0, <3>2 DEF CallSet
      <4>3. QED
        BY <4>1, <4>2 DEF Arrived, Pending
    <3>3. QED
      BY <3>1, <3>2
  <2>2. QED
    BY <1>3, <2>1 DEF MigrateLoop, Migrated, Arrived, Pending
<1>11. QED
  BY <1>6, <1>7, <1>8, <1>9, <1>10 DEF IInv

\* get_raw of one record and its comparison: what is left of it is there, and
\* what is left of it was in the source.
LEMMA ValidateItemInv ==
  ASSUME IInv, ValidateItem
  PROVE  IInv'
<1>0. /\ TypeOK /\ call \in CallSet /\ HasItem /\ call.pc = "validate" /\ Running
      /\ UNCHANGED <<src, dst, dstCfs, calls, edits>>
  BY DEF IInv, TypeOK, CallSet, ValidateItem, Running
<1>1. Item \in Keys /\ call.items[Item] # None
  BY <1>0, ItemFacts
<1>2. call.cf \in Migrated /\ call.items[Item] \in Rest(call.src0[call.cf][Item])
  BY <1>1 DEF IInv, ItemsFromSource
<1>3. call.src0[call.cf][Item] # None
  BY <1>1, <1>2, RestFacts
<1>4. dst[call.cf][Item] \in Rest(call.src0[call.cf][Item])
  BY <1>0, <1>1, <1>2 DEF IInv, ValidateLoop, Pending, Arrived
<1>5. CASE dst[call.cf][Item] = None
  <2>1. call' = Return("missing") /\ "missing" \in Results
    BY <1>5 DEF ValidateItem, Results
  <2> DEFINE i == Item
             cf == call.cf
  <2>2. /\ i \in Keys /\ cf \in Migrated /\ dst[cf][i] = None
        /\ call.src0[cf][i] # None /\ None \in Rest(call.src0[cf][i])
    BY <1>1, <1>2, <1>3, <1>4, <1>5
  <2> HIDE DEF i, cf
  <2>3. QED
    BY <1>0, <2>1, <2>2, ReturnInv
<1>6. CASE dst[call.cf][Item] \notin {None, call.items[Item]}
  <2>1. call' = Return("inconsistent") /\ "inconsistent" \in Results
    BY <1>6 DEF ValidateItem, Results
  <2> DEFINE i == Item
             cf == call.cf
             w == call.items[Item]
  <2>2. /\ i \in Keys /\ cf \in Migrated /\ dst[cf][i] \in Rest(call.src0[cf][i]) \ {None}
        /\ w \in Rest(call.src0[cf][i]) \ {None} /\ w # dst[cf][i]
    BY <1>1, <1>2, <1>4, <1>6
  <2> HIDE DEF i, cf, w
  <2>3. QED
    BY <1>0, <2>1, <2>2, ReturnInv
<1>7. CASE dst[call.cf][Item] = call.items[Item]
  <2>1. call' = Advanced
    BY <1>1, <1>7 DEF ValidateItem
  <2>2. /\ call' \in CallSet
        /\ call'.pc = "validate" /\ call'.list = call.list /\ call'.todo = call.todo
        /\ call'.cf = call.cf /\ call'.src0 = call.src0 /\ call'.dst0 = call.dst0
        /\ call'.result = call.result /\ call'.items = [call.items EXCEPT ![Item] = None]
    BY <1>0, <2>1, AdvancedFields
  <2>3. \A k \in Keys : call'.items[k] # None => call'.items[k] = call.items[k]
    BY <1>0, <2>2 DEF CallSet
  <2>4. TypeOK'
    BY <1>0, <2>2 DEF TypeOK, CallSet, Running
  <2>5. SourceOnlyFiltered' /\ NothingForeign' /\ LiveArrived' /\ MigrateLoop' /\ AlarmOnlyByFilter'
    BY <1>0, <2>2 DEF IInv, SourceOnlyFiltered, NothingForeign, LiveArrived, MigrateLoop,
                      AlarmOnlyByFilter, Began, Running, Migrated, Arrived
  <2>6. ItemsFromSource'
    BY <2>2, <2>3 DEF IInv, ItemsFromSource, Migrated
  <2>7. ValidateLoop'
    BY <1>0, <2>2, <2>3 DEF IInv, ValidateLoop, Migrated, Arrived, Pending
  <2>8. QED
    BY <2>4, <2>5, <2>6, <2>7 DEF IInv
<1>8. QED
  BY <1>5, <1>6, <1>7

\* The end of a loop: nothing is pending, so everything has arrived.
LEMMA LoopDoneInv ==
  ASSUME IInv, LoopDone
  PROVE  IInv'
<1>0. /\ TypeOK /\ call \in CallSet /\ Running /\ call.todo = {} /\ ~HasItem
      /\ UNCHANGED <<src, dst, dstCfs, calls, edits>>
  BY DEF IInv, TypeOK, CallSet, LoopDone
<1>1. \A cf \in Migrated, k \in Keys : src[cf][k] # None => Arrived(cf, k)
  <2>1. \A cf, k : k \in Keys => ~Pending(cf, k)
    BY <1>0 DEF HasItem, Pending
  <2>2. CASE call.pc = "migrate"
    BY <1>0, <2>1, <2>2 DEF IInv, MigrateLoop
  <2>3. CASE call.pc = "validate"
    BY <2>3 DEF IInv, ValidateLoop
  <2>4. QED
    BY <1>0, <2>2, <2>3 DEF Running
<1>2. CASE call.pc = "migrate" /\ call.validate
  <2>1. /\ call' \in CallSet
        /\ call'.pc = "validate" /\ call'.list = call.list /\ call'.cf = call.cf
        /\ call'.items = call.items /\ call'.src0 = call.src0 /\ call'.dst0 = call.dst0
        /\ call'.result = call.result
    <3>1. call' = [call EXCEPT !.pc = "validate", !.todo = SrcCfs]
      BY <1>2 DEF LoopDone
    <3>2. QED
      BY <1>0, <3>1 DEF CallSet
  <2>2. TypeOK'
    BY <1>0, <2>1 DEF TypeOK, CallSet, Running
  <2>3. SourceOnlyFiltered' /\ NothingForeign' /\ ItemsFromSource'
    BY <1>0, <2>1 DEF IInv, SourceOnlyFiltered, NothingForeign, ItemsFromSource, Began, Running, Migrated
  <2>4. LiveArrived' /\ MigrateLoop' /\ AlarmOnlyByFilter'
    BY <1>0, <2>1 DEF IInv, TypeOK, Running, LiveArrived, MigrateLoop, AlarmOnlyByFilter, Migrated
  <2>5. ValidateLoop'
    BY <1>0, <1>1, <2>1 DEF HasItem, ValidateLoop, Migrated, Arrived, Pending
  <2>6. QED
    BY <2>2, <2>3, <2>4, <2>5 DEF IInv
<1>3. CASE ~(call.pc = "migrate" /\ call.validate)
  <2>1. call' = Return("ok") /\ "ok" \in Results
    BY <1>3 DEF LoopDone, Results
  <2>2. QED
    BY <1>0, <1>1, <2>1, ReturnInv
<1>4. QED
  BY <1>2, <1>3

\* Each value of a store is as it was or as its filter made it.
Compacted(a, b) ==
  \A cf \in Cfs, k \in Keys :
    b[cf][k] = a[cf][k] \/ (a[cf][k] \in Values /\ b[cf][k] \in Filter[a[cf][k]])

\* A compaction of either store drops or changes a value.
LEMMA CompactionInv ==
  ASSUME IInv, Compaction
  PROVE  IInv'
<1>0. TypeOK /\ src \in Content /\ dst \in Content /\ Running /\ call.result = "none"
      /\ UNCHANGED <<dstCfs, call, calls, edits>>
  BY DEF IInv, TypeOK, Compaction
<1>1. /\ src' \in Content /\ dst' \in Content
      /\ Compacted(src, src') /\ Compacted(dst, dst')
  <2>1. PICK d \in Cfs, i \in Keys :
          \/ /\ src[d][i] \in Values
             /\ \E w \in Filter[src[d][i]] : src' = [src EXCEPT ![d][i] = w]
             /\ UNCHANGED dst
          \/ /\ dst[d][i] \in Values
             /\ \E w \in Filter[dst[d][i]] : dst' = [dst EXCEPT ![d][i] = w]
             /\ UNCHANGED src
    BY DEF Compaction
  <2>2. \A a \in Content : Compacted(a, a)
    BY DEF Compacted
  <2>3. ASSUME NEW a \in Content, a[d][i] \in Values, NEW w \in Filter[a[d][i]]
        PROVE  LET b == [a EXCEPT ![d][i] = w] IN b \in Content /\ Compacted(a, b)
    <3>1. w \in Values \cup {None}
      BY <2>3, MaintenanceAssumption
    <3>2. QED
      BY <2>3, <3>1 DEF Content, Compacted
  <2>4. QED
    BY <1>0, <2>1, <2>2, <2>3
<1>2. /\ \A cf \in Cfs, k \in Keys : \A v : src[cf][k] \in Rest(v) => src'[cf][k] \in Rest(v)
      /\ \A cf \in Cfs, k \in Keys : \A v : dst[cf][k] \in Rest(v) => dst'[cf][k] \in Rest(v)
  BY <1>1, RestFacts DEF Compacted
<1>3. TypeOK'
  BY <1>0, <1>1 DEF TypeOK, Running
<1>4. SourceOnlyFiltered'
  BY <1>0, <1>2 DEF IInv, SourceOnlyFiltered, Began, Running
<1>5. NothingForeign'
  BY <1>0, <1>2 DEF IInv, NothingForeign, Began, Running, Migrated
<1>6. ItemsFromSource' /\ LiveArrived' /\ AlarmOnlyByFilter'
  BY <1>0 DEF IInv, ItemsFromSource, LiveArrived, AlarmOnlyByFilter, Migrated
<1>7. /\ Migrated \subseteq Cfs
      /\ \A cf \in Cfs, k \in Keys : src'[cf][k] # None => src[cf][k] # None
      /\ \A cf \in Cfs, k \in Keys : Arrived(cf, k) => dst'[cf][k] \in Rest(call.src0[cf][k])
  BY <1>1, <1>2, MaintenanceAssumption DEF Compacted, Migrated, Arrived
<1>8. MigrateLoop'
  BY <1>0, <1>7 DEF IInv, MigrateLoop, Migrated, Arrived, Pending
<1>9. ValidateLoop'
  BY <1>0, <1>7 DEF IInv, ValidateLoop, Migrated, Arrived, Pending
<1>10. QED
  BY <1>3, <1>4, <1>5, <1>6, <1>8, <1>9 DEF IInv

\* The record of no call has the type of a call.
LEMMA NoCallType == NoCall \in CallSet /\ NoCall.todo = {} /\ NoCall.items = Empty
                    /\ NoCall.result = "none" /\ NoCall.pc = "closed"
BY DEF NoCall, CallSet, Empty, Content, Results

\* An edit by the application: the last call no longer says anything.
LEMMA EditInv ==
  ASSUME IInv, Edit
  PROVE  IInv'
<1>0. TypeOK /\ src \in Content /\ dst \in Content /\ call' = NoCall
      /\ UNCHANGED <<dstCfs, calls>>
  BY DEF IInv, TypeOK, Edit
<1>1. src' \in Content /\ dst' \in Content
  <2>1. PICK k \in Keys, v \in Values \cup {None} :
          \/ \E cf \in SrcCfs : src' = [src EXCEPT ![cf][k] = v] /\ UNCHANGED dst
          \/ \E cf \in dstCfs : dst' = [dst EXCEPT ![cf][k] = v] /\ UNCHANGED src
    BY DEF Edit
  <2>2. SrcCfs \subseteq Cfs /\ dstCfs \subseteq Cfs
    BY <1>0, MaintenanceAssumption DEF TypeOK
  <2>3. CASE \E cf \in SrcCfs : src' = [src EXCEPT ![cf][k] = v] /\ UNCHANGED dst
    BY <1>0, <2>2, <2>3 DEF Content
  <2>4. CASE \E cf \in dstCfs : dst' = [dst EXCEPT ![cf][k] = v] /\ UNCHANGED src
    BY <1>0, <2>2, <2>4 DEF Content
  <2>5. QED
    BY <2>1, <2>3, <2>4
<1>2. edits' \in 0..MaxEdits
  BY <1>0, MaintenanceAssumption DEF TypeOK, Edit
<1>3. TypeOK'
  BY <1>0, <1>1, <1>2, NoCallType DEF TypeOK, CallSet, Running
<1>4. ~Running' /\ call'.pc = "closed" /\ call'.result = "none" /\ \A k \in Keys : call'.items[k] = None
  BY <1>0, NoCallType DEF Running, Empty
<1>5. QED
  BY <1>3, <1>4 DEF IInv, SourceOnlyFiltered, ItemsFromSource, NothingForeign, MigrateLoop, ValidateLoop,
                    LiveArrived, AlarmOnlyByFilter, Began

LEMMA StepInv == IInv /\ [Next]_vars => IInv'
<1> SUFFICES ASSUME IInv, [Next]_vars PROVE IInv'
  OBVIOUS
<1>1. CASE \E list \in SUBSET Cfs : OpenErr(list)
  BY <1>1, OpenErrInv
<1>2. CASE \E list \in SUBSET Cfs : \E validate \in BOOLEAN : migrate_db(list, validate)
  BY <1>2, MigrateDbInv
<1>3. CASE NextCf
  BY <1>3, NextCfInv
<1>4. CASE MigrateItem
  BY <1>4, MigrateItemInv
<1>5. CASE ValidateItem
  BY <1>5, ValidateItemInv
<1>6. CASE ItemErr
  BY <1>6, ItemErrInv
<1>7. CASE LoopDone
  BY <1>7, LoopDoneInv
<1>8. CASE Compaction
  BY <1>8, CompactionInv
<1>9. CASE Edit
  BY <1>9, EditInv
<1>10. CASE UNCHANGED vars
  BY <1>10 DEF vars, IInv, TypeOK, SourceOnlyFiltered, ItemsFromSource, NothingForeign, MigrateLoop,
               ValidateLoop, LiveArrived, AlarmOnlyByFilter, Began, Running, Migrated, Arrived, Pending
<1>11. QED
  BY <1>1, <1>2, <1>3, <1>4, <1>5, <1>6, <1>7, <1>8, <1>9, <1>10 DEF Next

LEMMA InitInv == Init => IInv
<1> SUFFICES ASSUME Init PROVE IInv
  OBVIOUS
<1>1. src \in Content /\ dst \in Content
  BY SourcesAssumption DEF Init, Content, Empty
<1>2. calls \in 0..MaxCalls /\ edits \in 0..MaxEdits
  BY MaintenanceAssumption DEF Init
<1>3. TypeOK
  BY <1>1, <1>2, NoCallType DEF Init, TypeOK, CallSet, Running
<1>4. ~Running /\ call.pc = "closed" /\ call.result = "none" /\ \A k \in Keys : call.items[k] = None
  BY NoCallType DEF Init, Running, Empty
<1>5. QED
  BY <1>3, <1>4 DEF IInv, SourceOnlyFiltered, ItemsFromSource, NothingForeign, MigrateLoop, ValidateLoop,
                    LiveArrived, AlarmOnlyByFilter, Began

LEMMA Invariant == Spec => []IInv
BY InitInv, StepInv, PTL DEF Spec

-----------------------------------------------------------------------------
\* Every variable has its type; a call that returned holds no iterator.
THEOREM TypeCorrect == Spec => []TypeOK
<1>1. IInv => TypeOK
  BY DEF IInv
<1>2. QED
  BY <1>1, Invariant, PTL

\* A call of migrate_db that is running or failed has put nothing into the
\* destination but what is left of the source's records, each in its own
\* column family, whatever the filters change or remove meanwhile.
THEOREM PartialMigrationIsSafe == Spec => []PartialIsSafe
<1>1. IInv => PartialIsSafe
  BY DEF IInv, NothingForeign, PartialIsSafe, Began
<1>2. QED
  BY <1>1, Invariant, PTL

\* migrate_db that returns Ok has laid the listed column families of the
\* source over the destination, up to what the filters made of either.
THEOREM MigrationIsOverlay == Spec => []OkIsOverlay
<1>1. IInv => OkIsOverlay
  <2> SUFFICES ASSUME IInv, call.result = "ok", NEW cf \in Cfs, NEW k \in Keys
               PROVE  dst[cf][k] \in
                        IF cf \notin Migrated \/ call.src0[cf][k] = None THEN Rest(call.dst0[cf][k])
                        ELSE Rest(call.src0[cf][k]) \cup
                               (IF None \in Rest(call.src0[cf][k]) THEN Rest(call.dst0[cf][k]) ELSE {})
    BY DEF OkIsOverlay
  <2>1. \/ dst[cf][k] \in Rest(call.dst0[cf][k])
        \/ /\ cf \in Migrated /\ call.src0[cf][k] # None
           /\ dst[cf][k] \in Rest(call.src0[cf][k])
    BY DEF IInv, NothingForeign, Began
  <2>2. cf \in Migrated /\ None \notin Rest(call.src0[cf][k])
          => dst[cf][k] \in Rest(call.src0[cf][k])
    BY DEF IInv, LiveArrived, Arrived
  <2>3. QED
    BY <2>1, <2>2
<1>2. QED
  BY <1>1, Invariant, PTL

\* The validation of migrate_db reports a different value only for a record
\* of which the filters can leave two values, and a missing key only for one
\* of which they can leave none.
THEOREM AlarmsAreTheFilters == Spec => []AlarmOnlyByFilter
<1>1. IInv => AlarmOnlyByFilter
  BY DEF IInv
<1>2. QED
  BY <1>1, Invariant, PTL
=============================================================================

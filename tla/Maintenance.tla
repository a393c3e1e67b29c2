---------------------------- MODULE Maintenance ----------------------------
(***************************************************************************)
(* utils/mod.rs: migrate_db.                                               *)
(*                                                                         *)
(* migrate_db opens two stores, copies the source's column families that   *)
(* the destination's configuration lists, key by key and without a batch,  *)
(* and then, if asked to, reads everything back.  Any step may fail and    *)
(* leaves what was copied so far; the caller may then call again, perhaps  *)
(* with another list, after either database was changed.  While the stores *)
(* are open, nobody else can write to them, but their background           *)
(* compactions run, and their compaction filters, which return Keep,       *)
(* Remove or Change, drop values and replace them by others (Filter).      *)
(* Keys are their ranks in the order of the iterator.                      *)
(***************************************************************************)
EXTENDS Naturals, FiniteSets, FiniteSetsExt

CONSTANTS
  Cfs,          \* names of column families, DefaultCf among them
  DefaultCf,
  SrcCfs,       \* what DB::list_cf finds in the source
  Keys,         \* numbers
  Values,
  Filter,       \* what a compaction filter of either store may make of a value
  None,         \* no value
  Sources,      \* what the source may hold before the first call
  MaxCalls, MaxEdits    \* bounds of calls of migrate_db and of changes between

ASSUME MaintenanceAssumption ==
  /\ DefaultCf \in SrcCfs /\ SrcCfs \subseteq Cfs
  /\ Keys \subseteq Nat /\ IsFiniteSet(Keys)
  /\ None \notin Values /\ Filter \in [Values -> SUBSET (Values \cup {None})]
  /\ MaxCalls \in Nat /\ MaxEdits \in Nat

Content == [Cfs -> [Keys -> Values \cup {None}]]

ASSUME SourcesAssumption ==
  Sources \subseteq {s \in Content : \A cf \in Cfs \ SrcCfs, k \in Keys : s[cf][k] = None}

VARIABLES
  src,      \* contents of the source
  dst,      \* contents of the destination
  dstCfs,   \* column families that exist in the destination
  call,     \* the running or last call of migrate_db
  calls, edits

vars == <<src, dst, dstCfs, call, calls, edits>>

Empty == [k \in Keys |-> None]

NoCall == [pc |-> "closed", list |-> {}, validate |-> FALSE, todo |-> {}, cf |-> None,
           items |-> Empty, src0 |-> [cf \in Cfs |-> Empty],
           dst0 |-> [cf \in Cfs |-> Empty], result |-> "none"]

\* The column families that this call is about.
Migrated == call.list \cap SrcCfs

-----------------------------------------------------------------------------
\* The source has data in the column families it has; the destination is new.
Init ==
  /\ src \in Sources
  /\ dst = [cf \in Cfs |-> Empty]
  /\ dstCfs = {}
  /\ call = NoCall
  /\ calls = 0 /\ edits = 0

\* RocksDB opens a database only with all its column families; the default
\* one is added if it is not listed, the others are created.
CanOpen(list) == dstCfs \subseteq list \cup {DefaultCf}

\* The beginning of migrate_db: both stores are opened and the source's
\* column families are listed.  src0 and dst0 record what was there.
migrate_db(list, validate) ==
  /\ call.pc = "closed" /\ calls < MaxCalls /\ CanOpen(list)
  /\ calls' = calls + 1
  /\ dstCfs' = list \cup {DefaultCf}
  /\ call' = [NoCall EXCEPT !.pc = "migrate", !.list = list, !.validate = validate,
                            !.todo = SrcCfs, !.src0 = src, !.dst0 = dst]
  /\ UNCHANGED <<src, dst, edits>>

\* One of the opens fails, or list_cf after them, before anything was copied.
OpenErr(list) ==
  /\ call.pc = "closed" /\ calls < MaxCalls
  /\ calls' = calls + 1
  /\ \/ UNCHANGED dstCfs
     \/ CanOpen(list) /\ dstCfs' = list \cup {DefaultCf}
  /\ call' = [NoCall EXCEPT !.src0 = src, !.dst0 = dst, !.result = "open_err"]
  /\ UNCHANGED <<src, dst, edits>>

\* Mutant of Return: the iterator outlives the call.
ReturnLeaky(r) == [call EXCEPT !.pc = "closed", !.result = r]

\* The stores and the iterator are dropped.
Return(r) == [call EXCEPT !.pc = "closed", !.result = r, !.items = Empty,
                          !.cf = None, !.todo = {}]

Running == call.pc \in {"migrate", "validate"}

\* Mutant of NextCf: the destination's list is not consulted.
NextCfAll ==
  /\ Running /\ call.items = Empty
  /\ \E cf \in call.todo :
       call' = [call EXCEPT !.todo = @ \ {cf}, !.cf = cf, !.items = src[cf]]
  /\ UNCHANGED <<src, dst, dstCfs, calls, edits>>

\* The head of either loop: a listed column family gets an iterator, which
\* shows the contents of this moment; another one is skipped.
NextCf ==
  /\ Running /\ call.items = Empty
  /\ \E cf \in call.todo :
       call' = [call EXCEPT
         !.todo = @ \ {cf}, !.cf = cf,
         !.items = IF cf \in call.list THEN src[cf] ELSE Empty]
  /\ UNCHANGED <<src, dst, dstCfs, calls, edits>>

HasItem == \E k \in Keys : call.items[k] # None

\* The iterator's next key.
Item == Min({k \in Keys : call.items[k] # None})

Advanced == [call EXCEPT !.items[Item] = None]

\* Mutant of MigrateItem: a record that is there already is taken for copied.
MigrateItemNew ==
  /\ call.pc = "migrate" /\ HasItem
  /\ dst' = [dst EXCEPT ![call.cf][Item] = IF @ = None THEN call.items[Item] ELSE @]
  /\ call' = Advanced
  /\ UNCHANGED <<src, dstCfs, calls, edits>>

\* put_raw of one record.
MigrateItem ==
  /\ call.pc = "migrate" /\ HasItem
  /\ dst' = [dst EXCEPT ![call.cf][Item] = call.items[Item]]
  /\ call' = Advanced
  /\ UNCHANGED <<src, dstCfs, calls, edits>>

\* Mutant of ValidateItem: the column family is not passed to get_raw.
ValidateItemDefault ==
  /\ call.pc = "validate" /\ HasItem
  /\ call' = CASE dst[DefaultCf][Item] = None -> Return("missing")
               [] dst[DefaultCf][Item] \notin {None, call.items[Item]} -> Return("inconsistent")
               [] OTHER -> Advanced
  /\ UNCHANGED <<src, dst, dstCfs, calls, edits>>

\* get_raw of one record and its comparison.
ValidateItem ==
  /\ call.pc = "validate" /\ HasItem
  /\ call' = CASE dst[call.cf][Item] = None -> Return("missing")
               [] dst[call.cf][Item] \notin {None, call.items[Item]} -> Return("inconsistent")
               [] OTHER -> Advanced
  /\ UNCHANGED <<src, dst, dstCfs, calls, edits>>

\* The iterator, put_raw or get_raw returned an error.
ItemErr ==
  /\ Running /\ HasItem
  /\ call' = Return("io_err")
  /\ UNCHANGED <<src, dst, dstCfs, calls, edits>>

\* A loop is over: on to the validation if it was asked for, or done.
LoopDone ==
  /\ Running /\ call.todo = {} /\ ~HasItem
  /\ call' = IF call.pc = "migrate" /\ call.validate
             THEN [call EXCEPT !.pc = "validate", !.todo = SrcCfs]
             ELSE Return("ok")
  /\ UNCHANGED <<src, dst, dstCfs, calls, edits>>

-----------------------------------------------------------------------------
\* A compaction while the stores are open: the filter removes a value, or
\* changes it.
Compaction ==
  /\ Running
  /\ \E cf \in Cfs, k \in Keys :
       \/ /\ src[cf][k] \in Values
          /\ \E w \in Filter[src[cf][k]] : src' = [src EXCEPT ![cf][k] = w]
          /\ UNCHANGED dst
       \/ /\ dst[cf][k] \in Values
          /\ \E w \in Filter[dst[cf][k]] : dst' = [dst EXCEPT ![cf][k] = w]
          /\ UNCHANGED src
  /\ UNCHANGED <<dstCfs, call, calls, edits>>

\* The application changes one of the databases between two calls.
Edit ==
  /\ call.pc = "closed" /\ edits < MaxEdits
  /\ edits' = edits + 1
  /\ \E k \in Keys, v \in Values \cup {None} :
       \/ \E cf \in SrcCfs : src' = [src EXCEPT ![cf][k] = v] /\ UNCHANGED dst
       \/ \E cf \in dstCfs : dst' = [dst EXCEPT ![cf][k] = v] /\ UNCHANGED src
  /\ call' = NoCall
  /\ UNCHANGED <<dstCfs, calls>>

-----------------------------------------------------------------------------
Next ==
  \/ \E list \in SUBSET Cfs : OpenErr(list) \/ \E validate \in BOOLEAN : migrate_db(list, validate)
  \/ NextCf \/ MigrateItem \/ ValidateItem \/ ItemErr \/ LoopDone
  \/ Compaction \/ Edit

Spec == Init /\ [][Next]_vars

-----------------------------------------------------------------------------
Results == {"none", "ok", "open_err", "io_err", "missing", "inconsistent"}

\* Every variable has its type; a closed call holds no iterator and no work.
TypeOK ==
  /\ src \in Content /\ dst \in Content
  /\ dstCfs \subseteq Cfs
  /\ call \in [pc : {"closed", "migrate", "validate"}, list : SUBSET Cfs,
               validate : BOOLEAN, todo : SUBSET SrcCfs, cf : SrcCfs \cup {None},
               items : [Keys -> Values \cup {None}], src0 : Content, dst0 : Content,
               result : Results]
  /\ call.pc = "closed" => call.todo = {} /\ call.items = Empty
  /\ Running => call.result = "none"
  /\ calls \in 0..MaxCalls /\ edits \in 0..MaxEdits

\* The sets of values that the filters do not lead out of.
Closed == {S \in SUBSET (Values \cup {None}) : \A v \in S \cap Values : Filter[v] \subseteq S}

\* What may be left of v: v itself, or what compactions may make of it.
Rest(v) == {v} \cup {w \in Values \cup {None} : \A S \in Closed : v \in S => w \in S}

\* When migrate_db returned Ok, the destination is the source laid over what
\* was in the destination, up to what the filters made of either: a record of
\* a listed column family that they cannot drop was copied, whatever earlier
\* calls left behind; one that they drop may have been dropped before the copy
\* and then left what was there; every other record and every other column
\* family is as it was.
OkIsOverlay ==
  call.result = "ok" => \A cf \in Cfs, k \in Keys :
    dst[cf][k] \in
      IF cf \notin Migrated \/ call.src0[cf][k] = None THEN Rest(call.dst0[cf][k])
      ELSE Rest(call.src0[cf][k]) \cup
             (IF None \in Rest(call.src0[cf][k]) THEN Rest(call.dst0[cf][k]) ELSE {})

\* A call that is running or that failed half-way has put nothing into the
\* destination but what is left of the source's records, each in its own
\* column family, and has taken nothing out: calling again is safe.
PartialIsSafe ==
  Running \/ call.result # "none" => \A cf \in Cfs, k \in Keys :
    dst[cf][k] \in Rest(call.dst0[cf][k]) \cup
      (IF cf \in Migrated /\ call.src0[cf][k] # None THEN Rest(call.src0[cf][k]) ELSE {})

\* Validation compares the stores after the filters had their turn, so it can
\* refuse a migration that lost nothing.  It does so only on a record that
\* they change: it finds another value only where two values may be left of
\* the source's, and no value only where none may be left of it.
AlarmOnlyByFilter ==
  /\ call.result = "inconsistent" =>
       \E cf \in Migrated, k \in Keys :
         /\ dst[cf][k] \in Rest(call.src0[cf][k]) \ {None}
         /\ \E w \in Rest(call.src0[cf][k]) \ {None} : w # dst[cf][k]
  /\ call.result = "missing" =>
       \E cf \in Migrated, k \in Keys :
         /\ dst[cf][k] = None
         /\ call.src0[cf][k] # None /\ None \in Rest(call.src0[cf][k])
=============================================================================

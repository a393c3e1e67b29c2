--------------------------- MODULE MCMaintenance ---------------------------
(* Instances of Maintenance for TLC. *)
EXTENDS Maintenance

CONSTANTS live, old

\* "spare" exists in no source: it can only be listed by the destination.
ThreeCfs == {"default", "users", "spare"}

SourceCfs == {"default", "users"}

TwoKeys == {1, 2}

\* The filters keep "live"; they remove "old" or rewrite it as "live".
Rewriting == [v \in {live, old} |-> IF v = old THEN {live, None} ELSE {}]

\* "default" has a live record, "users" a live and an old one.
SomeSources ==
  {[cf \in ThreeCfs |-> [k \in TwoKeys |->
      CASE cf = "default" /\ k = 2 -> live
        [] cf = "users" -> IF k = 1 THEN live ELSE old
        [] OTHER -> None]]}
=============================================================================

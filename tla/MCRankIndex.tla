----------------------------- MODULE MCRankIndex -----------------------------
(* Three objects: two take part in all passes, one in the top-down passes.  *)
EXTENDS RankIndex

CONSTANTS o1, o2, o3

MCObject == {o1, o2, o3}
MCUses == [o \in MCObject |-> IF o = o3 THEN {0, 2} ELSE 0 .. 2]
=============================================================================

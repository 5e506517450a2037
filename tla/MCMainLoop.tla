----------------------------- MODULE MCMainLoop -----------------------------
(***************************************************************************)
(* The instances of MainLoop that TLC checks: two objects of ranks 0 and 1 *)
(* (a child and its parent) of which one takes part in two passes, and two *)
(* workers, or one.                                                        *)
(***************************************************************************)
EXTENDS MainLoop

Child  == "child"
Parent == "parent"

MCObjects   == {Child, Parent}
MCRank      == [o \in MCObjects |-> IF o = Parent THEN 1 ELSE 0]
MCPasses    == [o \in MCObjects |-> IF o = Parent THEN {0, 1} ELSE {1}]
MCTwo       == [o \in MCObjects |-> IF o = Parent THEN 2 ELSE 1]
MCOne       == [o \in MCObjects |-> 1]
MCInService == [o \in MCObjects |-> IF o = Parent THEN 3 ELSE 0]
MCOutService == [o \in MCObjects |-> IF o = Parent THEN TS_NEVER ELSE 3]
MCAlways    == [o \in MCObjects |-> 0]
MCForever   == [o \in MCObjects |-> TS_NEVER]

MCLate      == {Parent}

MCFaults    == {TS_INVALID, TS_ZERO}
MCInvalid   == {TS_INVALID}

MCDelta     == {DT_INFINITY, 0, 1}
MCDeltaMay  == MCDelta \cup {DT_INVALID}
MCDeltaSeconds == {1, 2, DT_INVALID}
=============================================================================

---------------------------- MODULE MCDeferredInit ----------------------------
(***************************************************************************)
(* The instances of DeferredInit that TLC checks: every way in which four  *)
(* objects may wait for each other, or a chain against the order of their  *)
(* creation.                                                               *)
(***************************************************************************)
EXTENDS DeferredInit

MCAny   == {w \in [1 .. N -> SUBSET (1 .. N)] : \A o \in 1 .. N : o \notin w[o]}
MCChain == {[o \in 1 .. N |-> IF o < N THEN {o + 1} ELSE {}]}
=============================================================================

----------------------------- MODULE MCCommitAll -----------------------------
(***************************************************************************)
(* The instances of CommitAll that TLC checks: one list or both shared by  *)
(* threads, unevenly or not, and lists the main thread commits itself.     *)
(***************************************************************************)
EXTENDS CommitAll

Lists(n, m) == [l \in ListNo |-> IF l = 0 THEN n ELSE m]

MCCounts   == {Lists(5, 0), Lists(1, 1), Lists(2, 2)}
MCObserved == {Lists(4, 1)}
MCLate     == {<<0, 1>>}
=============================================================================

----------------------------- MODULE MCRankPool -----------------------------
(***************************************************************************)
(* The instances of RankPool that TLC checks: a list that is divided       *)
(* unevenly among its workers and a list of one object.                    *)
(***************************************************************************)
EXTENDS RankPool

MCTwoLists == <<5, 1>>    \* three threads: shares of 2, 2 and 1 objects, and 1
=============================================================================

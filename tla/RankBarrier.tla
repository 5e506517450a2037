---------------------------- MODULE RankBarrier ----------------------------
(***************************************************************************)
(* What the main loop relies on when it hands a rank list to its workers:  *)
(* every object of the list is synchronised exactly once, and the next     *)
(* list is not started before the last object of this one.                 *)
(***************************************************************************)
EXTENDS Naturals

CONSTANTS Lists,    \* how many rank lists there are, taken in turn for ever
          Size      \* the number of objects of each list

VARIABLES turn,     \* the list being synchronised
          synced    \* the objects of the list that have been

barrierVars == <<turn, synced>>

Members(l) == 1 .. Size[l]

Init == turn = 1 /\ synced = {}

Sync == \E some \in SUBSET (Members(turn) \ synced) :
            /\ some # {}
            /\ synced' = synced \cup some
            /\ UNCHANGED turn

NextList == /\ synced = Members(turn)
            /\ turn' = (turn % Lists) + 1
            /\ synced' = {}

Next == Sync \/ NextList

Spec == Init /\ [][Next]_barrierVars
=============================================================================

----------------------------- MODULE ObjectRank -----------------------------
(***************************************************************************)
(* Parents and ranks of objects (core/object.c).  A rank is only a number, *)
(* but the order in which the main loop visits objects rests on it: the    *)
(* rank of a parent has to stay above the ranks of its children.  set_rank *)
(* keeps it so by climbing from an object to its parent, to the parent of  *)
(* its parent and so on, raising each as far as needed, and refuses to go  *)
(* on when it comes back to where it started, meets an object it has       *)
(* flagged, or would exceed the number of objects.  A refusal leaves what  *)
(* the call has done: parents, ranks and flags are not restored, and most  *)
(* callers ignore the answer (load.c:4408, 6377, 6471).                    *)
(***************************************************************************)
EXTENDS Integers, FiniteSets

CONSTANTS Object, None,
          MaxRank        \* bound of the ranks that are asked for

ASSUME ObjectAssumption == None \notin Object /\ IsFiniteSet(Object)
ASSUME MaxRankAssumption == MaxRank \in Nat

VARIABLES made,    \* the objects created so far
          parent,  \* obj->parent
          rank,    \* obj->rank
          flag,    \* the objects that have OF_RERANK
          climb,   \* is a call of set_rank active?
          at,      \* the argument obj of its innermost activation
          want,    \* the argument rank of its innermost activation
          first,   \* its argument first: where the climb started
          open,    \* the objects of the activations that have not returned
          failed   \* has any call been refused so far?

callVars == <<climb, at, want, first, open>>
rankVars == <<made, parent, rank, flag, callVars, failed>>

Children(p) == {o \in made : parent[o] = p}

RankInit ==
  /\ made = {}
  /\ parent = [o \in Object |-> None]
  /\ rank = [o \in Object |-> 0]
  /\ flag = {}
  /\ climb = FALSE /\ at = None /\ want = 0 /\ first = None /\ open = {}
  /\ failed = FALSE

(* set_rank(o, r, NULL) is entered *)
Call(o, r) ==
  /\ climb' = TRUE /\ at' = o /\ want' = r /\ first' = None /\ open' = {}

Create(o) ==
  /\ ~climb /\ o \notin made
  /\ made' = made \cup {o}
  /\ UNCHANGED <<parent, rank, flag, callVars, failed>>

SetParent(o, p) ==
  /\ ~climb /\ {o, p} \subseteq made /\ o # p
  /\ parent' = [parent EXCEPT ![o] = p]
  /\ Call(p, rank[o])
  /\ UNCHANGED <<made, rank, flag, failed>>

ClearParent(o) ==
  /\ ~climb /\ o \in made
  /\ parent' = [parent EXCEPT ![o] = None]
  /\ UNCHANGED <<made, rank, flag, callVars, failed>>

SetRank(o, r) ==
  /\ ~climb /\ o \in made /\ r > rank[o]
  /\ Call(o, r)
  /\ UNCHANGED <<made, parent, rank, flag, failed>>

SetDependent(o, d) ==
  /\ ~climb /\ {o, d} \subseteq made /\ o # d
  /\ Call(d, rank[o])
  /\ UNCHANGED <<made, parent, rank, flag, failed>>

-----------------------------------------------------------------------------
(* One activation of set_rank. *)

\* mutant: a rank may reach the number of objects
RefusedLate == want > Cardinality(made) \/ at = first \/ at \in flag

Refused == want >= Cardinality(made) \/ at = first \/ at \in flag

\* mutant: an equal rank does not raise
RaisedAbove(o, r) == IF r > rank[o] THEN r + 1 ELSE rank[o]
Raised(o, r) == IF r >= rank[o] THEN r + 1 ELSE rank[o]

(* The answer is -1: every activation returns, and none clears its flag. *)
Refuse ==
  /\ climb /\ Refused
  /\ climb' = FALSE /\ failed' = TRUE
  /\ at' = None /\ want' = 0 /\ first' = None /\ open' = {}
  /\ UNCHANGED <<made, parent, rank, flag>>

(* The object has a parent, which is climbed to. *)
Ascend ==
  /\ climb /\ ~Refused /\ parent[at] # None
  /\ rank' = [rank EXCEPT ![at] = Raised(at, want)]
  /\ flag' = flag \cup {at}
  /\ open' = open \cup {at}
  /\ at' = parent[at]
  /\ want' = rank'[at]
  /\ first' = IF first = None THEN at ELSE first
  /\ UNCHANGED <<made, parent, climb, failed>>

\* mutant: only the flag of the last object is cleared
ReturnFlagged ==
  /\ climb /\ ~Refused /\ parent[at] = None
  /\ rank' = [rank EXCEPT ![at] = Raised(at, want)]
  /\ flag' = flag \ {at}
  /\ climb' = FALSE /\ at' = None /\ want' = 0 /\ first' = None /\ open' = {}
  /\ UNCHANGED <<made, parent, failed>>

(* The object has none: all activations return, each clearing its flag. *)
Return ==
  /\ climb /\ ~Refused /\ parent[at] = None
  /\ rank' = [rank EXCEPT ![at] = Raised(at, want)]
  /\ flag' = flag \ open
  /\ climb' = FALSE /\ at' = None /\ want' = 0 /\ first' = None /\ open' = {}
  /\ UNCHANGED <<made, parent, failed>>

RankNext ==
  \/ \E o \in Object : Create(o) \/ ClearParent(o)
  \/ \E o, p \in Object : SetParent(o, p) \/ SetDependent(o, p)
  \/ \E o \in Object, r \in 0 .. MaxRank : SetRank(o, r)
  \/ Refuse
  \/ Ascend
  \/ Return

-----------------------------------------------------------------------------
(* While no call has been refused, and between calls, the rank of a parent *)
(* is above the rank of its child, however parents were set and removed    *)
(* and ranks raised.  In particular there is no loop of parents.           *)
RankOrder ==
  ~climb /\ ~failed =>
    \A o \in Object : parent[o] # None => rank[o] < rank[parent[o]]

(* A call that is not refused leaves no object flagged: a flag that stays  *)
(* makes every later call that climbs through the object fail.             *)
FlagsCleared == ~climb /\ ~failed => flag = {}

(* No rank exceeds the number of objects, not even after a refusal: the    *)
(* guard against it is tested before the rank is raised by one more.       *)
RankBounded == \A o \in Object : rank[o] <= Cardinality(made)
=============================================================================

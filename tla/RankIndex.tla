------------------------------ MODULE RankIndex ------------------------------
(***************************************************************************)
(* From the ranks of objects to the order in which the main loop visits    *)
(* them.  setup_ranks (core/exec.c) puts every object into one index for   *)
(* each pass its class takes part in, at the ordinal that is its rank; an  *)
(* index (core/index.c) grows by doubling and remembers the first and last *)
(* ordinal used.  The loop over the passes then walks each index between   *)
(* these two, up or down (PASSINIT, PASSCMP, PASSINC).  Ranks are settled  *)
(* before: an index is built once, from the ranks as they are then.        *)
(***************************************************************************)
EXTENDS ObjectRank

CONSTANTS Uses,        \* the passes the class of an object takes part in
          LastOrdinal  \* the last ordinal of a new index: 10 in the code

Pass == 0 .. 2         \* PC_PRETOPDOWN, PC_BOTTOMUP, PC_POSTTOPDOWN

ASSUME UsesAssumption == Uses \in [Object -> SUBSET Pass]
ASSUME LastOrdinalAssumption == LastOrdinal \in Nat \ {0}

VARIABLES phase,     \* "model", "index", "sweep" or "done"
          pass,      \* the pass that is indexed or swept
          left,      \* the objects still to be put into its index
          slots,     \* the pairs <<ordinal, object>> of each index
          size,      \* its last_ordinal
          firstUsed, \* its first_used
          lastUsed,  \* its last_used
          pos,       \* the ordinal the sweep is at
          synced     \* the objects visited so far in the pass

indexVars == <<slots, size, firstUsed, lastUsed>>
sweepVars == <<phase, pass, left, pos, synced>>
vars == <<rankVars, indexVars, sweepVars>>

Users(k) == {o \in made : k \in Uses[o]}
ListAt(k, i) == {o \in Object : <<i, o>> \in slots[k]}

Init ==
  /\ RankInit
  /\ phase = "model" /\ pass = 0 /\ left = {} /\ pos = 0 /\ synced = {}
  /\ slots = [k \in Pass |-> {}]
  /\ size = [k \in Pass |-> LastOrdinal]
  /\ firstUsed = [k \in Pass |-> LastOrdinal]
  /\ lastUsed = [k \in Pass |-> 0]

Model ==
  /\ phase = "model"
  /\ RankNext
  /\ UNCHANGED <<indexVars, sweepVars>>

SetupRanks ==
  /\ phase = "model" /\ ~climb /\ made # {}
  /\ phase' = "index" /\ pass' = 0 /\ left' = Users(0)
  /\ UNCHANGED <<rankVars, indexVars, pos, synced>>

DoublingOf(m, n) == \E k \in 1 .. m : m = n * 2^k

(* What a block of n ordinals grows to when the ordinal d does not fit. *)
Doubled(n, d) ==
  {m \in n .. 2 * (n + d) : DoublingOf(m, n) /\ m > d /\ (m = 2 * n \/ m \div 2 <= d)}

(* index_insert: only the entries below the old size are copied when it grows *)
Insert(o) ==
  /\ phase = "index" /\ o \in left
  /\ LET d == rank[o]
     IN /\ \/ d < size[pass] /\ UNCHANGED size
           \/ /\ d >= size[pass]
              /\ \E m \in Doubled(size[pass], d) : size' = [size EXCEPT ![pass] = m]
        /\ slots' = [slots EXCEPT ![pass] =
                       {e \in @ : d < size[pass] \/ e[1] < size[pass]} \cup {<<d, o>>}]
        /\ firstUsed' = [firstUsed EXCEPT ![pass] = IF d < @ THEN d ELSE @]
        /\ lastUsed' = [lastUsed EXCEPT ![pass] = IF d > @ THEN d ELSE @]
  /\ left' = left \ {o}
  /\ UNCHANGED <<rankVars, phase, pass, pos, synced>>

\* mutant: the second pass starts at the lowest rank
FromFirst(k) == firstUsed[k]
\* mutant: the sweep leaves out the last rank
CmpShort(i, k) == IF k = 1 THEN i < lastUsed[k] ELSE i > firstUsed[k]

PassInit(k) == IF k = 1 THEN firstUsed[k] ELSE lastUsed[k]
PassCmp(i, k) == IF k = 1 THEN i <= lastUsed[k] ELSE i >= firstUsed[k]
PassInc(k) == IF k = 1 THEN 1 ELSE -1

IndexNextPass ==
  /\ phase = "index" /\ left = {}
  /\ IF pass < 2
       THEN pass' = pass + 1 /\ left' = Users(pass + 1) /\ UNCHANGED <<phase, pos>>
       ELSE pass' = 0 /\ phase' = "sweep" /\ pos' = PassInit(0) /\ UNCHANGED left
  /\ UNCHANGED <<rankVars, indexVars, synced>>

Visit ==
  /\ phase = "sweep" /\ PassCmp(pos, pass)
  /\ synced' = synced \cup ListAt(pass, pos)
  /\ pos' = pos + PassInc(pass)
  /\ UNCHANGED <<rankVars, indexVars, phase, pass, left>>

SweepNextPass ==
  /\ phase = "sweep" /\ ~PassCmp(pos, pass)
  /\ synced' = {}
  /\ IF pass < 2
       THEN pass' = pass + 1 /\ pos' = PassInit(pass + 1) /\ UNCHANGED phase
       ELSE phase' = "done" /\ UNCHANGED <<pass, pos>>
  /\ UNCHANGED <<rankVars, indexVars, left>>

Next ==
  \/ Model
  \/ SetupRanks
  \/ \E o \in Object : Insert(o)
  \/ IndexNextPass
  \/ Visit
  \/ SweepNextPass

Spec == Init /\ [][Next]_vars

-----------------------------------------------------------------------------
TypeOK ==
  /\ made \subseteq Object
  /\ parent \in [Object -> Object \cup {None}]
  /\ rank \in [Object -> Nat]
  /\ flag \subseteq Object /\ open \subseteq Object
  /\ climb \in BOOLEAN /\ failed \in BOOLEAN
  /\ at \in made \cup {None} /\ want \in Nat /\ first \in Object \cup {None}
  /\ phase \in {"model", "index", "sweep", "done"}
  /\ pass \in Pass /\ left \subseteq Object /\ pos \in Int /\ synced \subseteq Object
  /\ slots \in [Pass -> SUBSET (Nat \X Object)]
  /\ size \in [Pass -> Nat] /\ firstUsed \in [Pass -> Nat] /\ lastUsed \in [Pass -> Nat]

(* In the bottom-up pass a parent is visited after all its children, and in *)
(* the top-down passes before them, provided no call was refused.          *)
TreeOrder ==
  phase = "sweep" /\ ~failed =>
    \A p \in Users(pass), c \in Object :
      c \in Users(pass) /\ parent[c] = p =>
        IF pass = 1 THEN p \in synced => c \in synced
                    ELSE c \in synced => p \in synced

(* The walk over an index misses no object of the pass, also when it has   *)
(* grown, and whatever parents and ranks the model ended up with.          *)
AllVisited == phase = "sweep" /\ ~PassCmp(pos, pass) => synced = Users(pass)

=============================================================================

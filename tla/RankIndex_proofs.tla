-------------------------- MODULE RankIndex_proofs --------------------------
(***************************************************************************)
(* Proofs about ObjectRank and RankIndex, for every set of objects, every  *)
(* assignment of passes to classes and every initial size of the indexes.  *)
(***************************************************************************)
EXTENDS RankIndex, FiniteSetTheorems, TLAPS

(* An edge of the tree whose order is not established yet.                 *)
Disordered(o) == parent[o] # None /\ rank[o] >= rank[parent[o]]

(* During a climb only the edges to the object that is entered next may be *)
(* out of order, and then the rank that is passed to it puts them right.   *)
RankInv ==
  /\ \A o \in Object : parent[o] # o /\ parent[o] \in made \cup {None}
  /\ climb <=> at # None
  /\ ~climb => open = {}
  /\ ~failed => flag = open
  /\ ~failed => \A o \in Object : Disordered(o) =>
                  climb /\ at = parent[o] /\ rank[o] <= want

(* The objects that are in the index of pass k.                            *)
Inserted(k) ==
  {o \in Users(k) : /\ phase # "model"
                    /\ phase = "index" => k <= pass
                    /\ phase = "index" /\ k = pass => o \notin left}

IndexInv ==
  /\ phase # "model" => ~climb
  /\ phase = "index" => left \subseteq Users(pass)
  /\ \A k \in Pass : /\ firstUsed[k] \in Nat /\ lastUsed[k] \in Nat
                     /\ \A e \in slots[k] : e[2] \in Inserted(k) /\ e[1] = rank[e[2]]
                     /\ \A o \in Inserted(k) : /\ <<rank[o], o>> \in slots[k]
                                               /\ rank[o] < size[k]
                                               /\ firstUsed[k] <= rank[o]
                                               /\ rank[o] <= lastUsed[k]

Passed(o) == IF pass = 1 THEN rank[o] < pos ELSE rank[o] > pos

SweepInv ==
  /\ phase \in {"model", "index"} => synced = {}
  /\ phase = "sweep" => synced = {o \in Users(pass) : Passed(o)}

-----------------------------------------------------------------------------
(* The variables stay in the sets they are meant to range over.            *)
LEMMA InitTyped == Init => TypeOK
<1>1. 0 \in Pass
  BY DEF Pass
<1>2. Init => /\ slots \in [Pass -> SUBSET (Nat \X Object)]
              /\ size \in [Pass -> Nat] /\ firstUsed \in [Pass -> Nat]
              /\ lastUsed \in [Pass -> Nat]
  <2>1. LastOrdinal \in Nat /\ 0 \in Nat
    BY LastOrdinalAssumption
  <2>2. Init => slots \in [Pass -> SUBSET (Nat \X Object)]
    BY DEF Init
  <2>3. Init => size \in [Pass -> Nat] /\ firstUsed \in [Pass -> Nat]
    BY <2>1 DEF Init
  <2>4. Init => lastUsed \in [Pass -> Nat]
    BY <2>1 DEF Init
  <2>5. QED
    BY <2>2, <2>3, <2>4
<1>3. Init => /\ parent \in [Object -> Object \cup {None}]
              /\ rank \in [Object -> Nat]
  BY DEF Init, RankInit
<1>4. Init => /\ made \subseteq Object /\ flag \subseteq Object /\ open \subseteq Object
              /\ climb \in BOOLEAN /\ failed \in BOOLEAN
              /\ at \in made \cup {None} /\ want \in Nat
              /\ first \in Object \cup {None}
  <2>1. SUFFICES ASSUME Init
                 PROVE  /\ made = {} /\ flag = {} /\ open = {} /\ climb = FALSE
                        /\ failed = FALSE /\ at = None /\ want = 0 /\ first = None
    OBVIOUS
  <2>2. QED
    BY <2>1 DEF Init, RankInit
<1>5. Init => /\ phase \in {"model", "index", "sweep", "done"} /\ pass \in Pass
              /\ left \subseteq Object /\ pos \in Int /\ synced \subseteq Object
  <2>1. 0 \in Int
    OBVIOUS
  <2>2. SUFFICES ASSUME Init
                 PROVE  /\ phase = "model" /\ pass = 0 /\ left = {} /\ pos = 0
                        /\ synced = {}
    BY <1>1, <2>1
  <2>3. QED
    BY <2>2 DEF Init
<1>6. QED
  BY <1>2, <1>3, <1>4, <1>5 DEF TypeOK

LEMMA RaisedType ==
  ASSUME TypeOK, NEW o \in Object, NEW r \in Nat
  PROVE  /\ Raised(o, r) \in Nat
         /\ Raised(o, r) > r /\ Raised(o, r) >= rank[o]
BY DEF TypeOK, Raised

(* A step of the climb leaves the variables in their sets.                 *)
LEMMA ClimbTyped ==
  ASSUME TypeOK, RankInv, Ascend \/ Return,
         UNCHANGED <<indexVars, sweepVars>>
  PROVE  TypeOK'
<1>1. at \in made /\ at \in Object /\ want \in Nat
  BY DEF TypeOK, RankInv, Ascend, Return
<1>2. rank' = [rank EXCEPT ![at] = Raised(at, want)]
  BY DEF Ascend, Return
<1>3. Raised(at, want) \in Nat
  BY <1>1, RaisedType
<1>4. rank' \in [Object -> Nat] /\ rank'[at] \in Nat
  BY <1>1, <1>2, <1>3 DEF TypeOK
<1>5. CASE Ascend
  <2>1. parent[at] \in made
    BY <1>1, <1>5 DEF RankInv, Ascend
  <2>2. QED
    BY <1>1, <1>4, <1>5, <2>1 DEF TypeOK, Ascend, indexVars, sweepVars
<1>6. CASE Return
  BY <1>1, <1>4, <1>6 DEF TypeOK, Return, indexVars, sweepVars
<1>7. QED
  BY <1>5, <1>6

LEMMA IndexTyped ==
  ASSUME TypeOK, NEW o \in Object, Insert(o)
  PROVE  TypeOK'
<1>1. pass \in Pass /\ rank[o] \in Nat /\ size[pass] \in Nat
  BY DEF TypeOK
<1>2. size' \in [Pass -> Nat]
  <2>1. CASE UNCHANGED size
    BY <2>1 DEF TypeOK
  <2>2. ASSUME NEW m \in Doubled(size[pass], rank[o]), size' = [size EXCEPT ![pass] = m]
        PROVE  size' \in [Pass -> Nat]
    <3>1. m \in Nat
      BY <1>1 DEF Doubled
    <3>2. QED
      BY <1>1, <2>2, <3>1 DEF TypeOK
  <2>3. QED
    BY <2>1, <2>2 DEF Insert
<1>3. slots' \in [Pass -> SUBSET (Nat \X Object)]
  <2>1. <<rank[o], o>> \in Nat \X Object
    BY <1>1
  <2>2. {e \in slots[pass] : rank[o] < size[pass] \/ e[1] < size[pass]}
          \subseteq Nat \X Object
    BY <1>1 DEF TypeOK
  <2>3. QED
    BY <1>1, <2>1, <2>2 DEF TypeOK, Insert
<1>4. firstUsed' \in [Pass -> Nat] /\ lastUsed' \in [Pass -> Nat]
  BY <1>1 DEF TypeOK, Insert
<1>5. QED
  BY <1>2, <1>3, <1>4 DEF TypeOK, Insert, rankVars, callVars

LEMMA NextTyped ==
  ASSUME TypeOK, RankInv, [Next]_vars
  PROVE  TypeOK'
<1>1. CASE Model
  <2>0. UNCHANGED <<indexVars, sweepVars>>
    BY <1>1 DEF Model
  <2> USE <2>0 DEF TypeOK, indexVars, sweepVars
  <2>1. ASSUME NEW o \in Object, Create(o) PROVE TypeOK'
    BY <2>1 DEF Create, callVars
  <2>2. ASSUME NEW o \in Object, ClearParent(o) PROVE TypeOK'
    BY <2>2 DEF ClearParent, callVars
  <2>3. ASSUME NEW o \in Object, NEW p \in Object, SetParent(o, p) PROVE TypeOK'
    BY <2>3 DEF SetParent, Call
  <2>4. ASSUME NEW o \in Object, NEW p \in Object, SetDependent(o, p) PROVE TypeOK'
    BY <2>4 DEF SetDependent, Call
  <2>5. ASSUME NEW o \in Object, NEW r \in 0 .. MaxRank, SetRank(o, r) PROVE TypeOK'
    BY <2>5, MaxRankAssumption DEF SetRank, Call
  <2>6. CASE Refuse
    BY <2>6 DEF Refuse
  <2>7. CASE Ascend \/ Return
    BY <2>7, <2>0, ClimbTyped
  <2>8. QED
    BY <1>1, <2>1, <2>2, <2>3, <2>4, <2>5, <2>6, <2>7 DEF Model, RankNext
<1>2. CASE SetupRanks
  BY <1>2 DEF SetupRanks, TypeOK, Users, Pass, rankVars, callVars, indexVars
<1>3. ASSUME NEW o \in Object, Insert(o) PROVE TypeOK'
  BY <1>3, IndexTyped
<1>4. pass \in 0 .. 2 /\ pos \in Int /\ (\A k \in Pass : PassInit(k) \in Int)
  BY DEF TypeOK, Pass, PassInit
<1>5. CASE IndexNextPass
  <2>1. Users(pass + 1) \subseteq Object
    BY DEF Users, TypeOK
  <2>2. pass' \in Pass /\ left' \subseteq Object /\ pos' \in Int
    BY <1>4, <1>5, <2>1 DEF IndexNextPass, TypeOK, Pass
  <2>3. phase' \in {"model", "index", "sweep", "done"}
    BY <1>5 DEF IndexNextPass, TypeOK
  <2>4. QED
    BY <1>5, <2>2, <2>3 DEF IndexNextPass, TypeOK, rankVars, callVars, indexVars
<1>6. CASE Visit
  <2>1. pos' \in Int
    BY <1>4, <1>6 DEF Visit, PassInc
  <2>2. synced' \subseteq Object
    BY <1>6 DEF Visit, ListAt, TypeOK
  <2>3. QED
    BY <1>6, <2>1, <2>2 DEF Visit, TypeOK, rankVars, callVars, indexVars
<1>7. CASE SweepNextPass
  <2>1. pass' \in Pass /\ pos' \in Int
    BY <1>4, <1>7 DEF SweepNextPass, Pass
  <2>2. phase' \in {"model", "index", "sweep", "done"}
    BY <1>7 DEF SweepNextPass, TypeOK
  <2>3. QED
    BY <1>7, <2>1, <2>2 DEF SweepNextPass, TypeOK, rankVars, callVars, indexVars
<1>8. CASE UNCHANGED vars
  BY <1>8 DEF TypeOK, vars, rankVars, callVars, indexVars, sweepVars
<1>9. QED
  BY <1>1, <1>2, <1>3, <1>5, <1>6, <1>7, <1>8 DEF Next

-----------------------------------------------------------------------------
(* The climb keeps the order of ranks. *)

LEMMA RankInvInit == Init => RankInv
BY ObjectAssumption DEF Init, RankInit, RankInv, Disordered

LEMMA AscendKeepsRankInv ==
  ASSUME TypeOK, RankInv, Ascend
  PROVE  RankInv'
<1>1. at \in Object /\ want \in Nat /\ at # None
  BY DEF TypeOK, RankInv, Ascend
<1>2. rank' = [rank EXCEPT ![at] = Raised(at, want)]
  BY DEF Ascend
<1>3. /\ Raised(at, want) \in Nat /\ Raised(at, want) > want
      /\ Raised(at, want) >= rank[at]
  BY <1>1, RaisedType
<1>4. rank'[at] = Raised(at, want) /\ want' = Raised(at, want)
  BY <1>1, <1>2 DEF TypeOK, Ascend
<1>5. \A o \in Object : o # at => rank'[o] = rank[o]
  BY <1>1, <1>2 DEF TypeOK
<1>6. parent[at] \in made /\ parent[at] # at /\ parent[at] # None
  BY <1>1 DEF RankInv, Ascend
<1>7. ASSUME ~failed', NEW o \in Object, Disordered(o)'
      PROVE  climb' /\ at' = parent'[o] /\ rank'[o] <= want'
  <2>1. parent' = parent /\ climb' /\ at' = parent[at] /\ ~failed
    BY <1>7 DEF Ascend
  <2>2. parent[o] # None /\ parent[o] \in Object /\ rank'[o] >= rank'[parent[o]]
    BY <1>7, <2>1 DEF Disordered, TypeOK
  <2>3. CASE o = at
    BY <1>4, <1>3, <2>1, <2>3
  <2>4. CASE o # at
    <3>1. rank[o] >= rank[parent[o]]
      BY <1>3, <1>4, <1>5, <2>2, <2>4 DEF TypeOK
    <3>2. at = parent[o] /\ rank[o] <= want
      BY <2>1, <2>2, <3>1 DEF RankInv, Disordered
    <3>3. rank'[parent[o]] > rank'[o]
      BY <1>1, <1>3, <1>4, <1>5, <2>4, <3>2 DEF TypeOK
    <3>4. rank'[o] \in Nat /\ rank'[parent[o]] \in Nat
      BY <1>1, <1>3, <1>4, <1>5, <2>4, <3>2 DEF TypeOK
    <3>5. QED
      BY <2>2, <3>3, <3>4
  <2>5. QED
    BY <2>3, <2>4
<1>8. ~failed' => flag' = open'
  BY DEF RankInv, Ascend
<1>9. QED
  BY <1>6, <1>7, <1>8 DEF RankInv, Ascend

LEMMA ReturnKeepsRankInv ==
  ASSUME TypeOK, RankInv, Return
  PROVE  RankInv'
<1>1. at \in Object /\ want \in Nat /\ at # None
  BY DEF TypeOK, RankInv, Return
<1>2. rank' = [rank EXCEPT ![at] = Raised(at, want)]
  BY DEF Return
<1>3. /\ Raised(at, want) \in Nat /\ Raised(at, want) > want
      /\ Raised(at, want) >= rank[at]
  BY <1>1, RaisedType
<1>4. rank'[at] = Raised(at, want)
  BY <1>1, <1>2 DEF TypeOK
<1>5. \A o \in Object : o # at => rank'[o] = rank[o]
  BY <1>1, <1>2 DEF TypeOK
<1>6. ASSUME ~failed', NEW o \in Object PROVE ~Disordered(o)'
  <2>1. parent' = parent /\ ~failed
    BY <1>6 DEF Return
  <2>2. SUFFICES ASSUME parent[o] # None PROVE ~ (rank'[o] >= rank'[parent[o]])
    BY <2>1 DEF Disordered
  <2>3. parent[o] \in Object /\ o # at
    BY <2>2 DEF TypeOK, Return
  <2>4. rank[o] \in Nat /\ rank[parent[o]] \in Nat /\ rank'[o] = rank[o]
    BY <1>5, <2>3 DEF TypeOK
  <2>5. CASE Disordered(o)
    <3>1. at = parent[o] /\ rank[o] <= want
      BY <2>1, <2>5 DEF RankInv
    <3>2. QED
      BY <1>1, <1>3, <1>4, <2>4, <3>1
  <2>6. CASE ~Disordered(o)
    BY <1>1, <1>3, <1>4, <1>5, <2>2, <2>3, <2>4, <2>6 DEF Disordered
  <2>7. QED
    BY <2>5, <2>6
<1>7. ~failed' => flag' = open'
  BY DEF RankInv, Return
<1>8. QED
  BY <1>6, <1>7 DEF RankInv, Return

LEMMA RankInvStep ==
  ASSUME TypeOK, RankInv, [Next]_vars
  PROVE  RankInv'
<1>1. CASE Model
  <2>1. ASSUME NEW o \in Object, Create(o) PROVE RankInv'
    BY <2>1 DEF Create, callVars, RankInv, Disordered
  <2>2. ASSUME NEW o \in Object, ClearParent(o) PROVE RankInv'
    <3>1. parent' = [parent EXCEPT ![o] = None] /\ UNCHANGED <<made, rank, flag, callVars, failed>>
      BY <2>2 DEF ClearParent
    <3>2. \A q \in Object : parent'[q] \in {None, parent[q]}
      BY <3>1 DEF TypeOK
    <3>3. \A q \in Object : Disordered(q)' => Disordered(q) /\ parent'[q] = parent[q]
      BY <3>1, <3>2 DEF Disordered
    <3>4. \A q \in Object : parent'[q] # q /\ parent'[q] \in made \cup {None}
      BY <3>2, ObjectAssumption DEF RankInv
    <3>5. QED
      BY <3>1, <3>3, <3>4 DEF RankInv, callVars
  <2>3. ASSUME NEW o \in Object, NEW p \in Object, SetParent(o, p) PROVE RankInv'
    <3>1. /\ parent' = [parent EXCEPT ![o] = p] /\ UNCHANGED <<made, rank, flag, failed>>
          /\ climb' = TRUE /\ at' = p /\ want' = rank[o] /\ open' = {} /\ ~climb
          /\ p \in made /\ o # p
      BY <2>3 DEF SetParent, Call
    <3>2. \A q \in Object : parent'[q] = IF q = o THEN p ELSE parent[q]
      BY <3>1 DEF TypeOK
    <3>3. ASSUME ~failed', NEW q \in Object, Disordered(q)'
          PROVE  at' = parent'[q] /\ rank'[q] <= want'
      <4>1. q = o
        BY <3>1, <3>2, <3>3 DEF Disordered, RankInv
      <4>2. QED
        BY <3>1, <3>2, <4>1 DEF TypeOK
    <3>4. \A q \in Object : parent'[q] # q /\ parent'[q] \in made \cup {None}
      BY <3>1, <3>2 DEF RankInv
    <3>5. at' # None
      BY <3>1, ObjectAssumption
    <3>6. QED
      BY <3>1, <3>3, <3>4, <3>5 DEF RankInv
  <2>4. ASSUME NEW o \in Object, NEW p \in Object, SetDependent(o, p) PROVE RankInv'
    BY <2>4, ObjectAssumption DEF SetDependent, Call, RankInv, Disordered
  <2>5. ASSUME NEW o \in Object, NEW r \in 0 .. MaxRank, SetRank(o, r) PROVE RankInv'
    BY <2>5, ObjectAssumption DEF SetRank, Call, RankInv, Disordered
  <2>6. CASE Refuse
    BY <2>6 DEF Refuse, RankInv
  <2>7. QED
    BY <1>1, <2>1, <2>2, <2>3, <2>4, <2>5, <2>6, AscendKeepsRankInv,
       ReturnKeepsRankInv DEF Model, RankNext
<1>2. CASE UNCHANGED rankVars
  BY <1>2 DEF rankVars, callVars, RankInv, Disordered
<1>3. QED
  BY <1>1, <1>2 DEF Next, SetupRanks, Insert, IndexNextPass, Visit, SweepNextPass, vars

-----------------------------------------------------------------------------
(* What is inserted stays in its index, at the ordinal of its rank. *)

LEMMA IndexInvInit == Init => IndexInv
<1> SUFFICES ASSUME Init PROVE IndexInv
  OBVIOUS
<1>1. \A k \in Pass : Inserted(k) = {} /\ slots[k] = {}
  BY DEF Init, Inserted
<1>2. phase = "model"
  BY DEF Init
<1>3. \A k \in Pass : firstUsed[k] \in Nat /\ lastUsed[k] \in Nat
  BY InitTyped DEF TypeOK
<1>4. QED
  BY <1>1, <1>2, <1>3 DEF IndexInv

(* The index of one pass and the ranks of its objects agree.               *)
IndexOf(k) ==
  /\ \A e \in slots[k] : e[2] \in Inserted(k) /\ e[1] = rank[e[2]]
  /\ \A o \in Inserted(k) : /\ <<rank[o], o>> \in slots[k]
                            /\ rank[o] < size[k]
                            /\ firstUsed[k] <= rank[o]
                            /\ rank[o] <= lastUsed[k]

LEMMA DoubledBound ==
  ASSUME NEW n \in Nat, NEW d \in Nat, NEW m \in Doubled(n, d)
  PROVE  m \in Nat /\ m >= n /\ m > d
<1>1. m \in n .. 2 * (n + d) /\ m > d
  BY DEF Doubled
<1>2. QED
  BY <1>1

LEMMA InsertKeepsIndex ==
  ASSUME TypeOK, IndexInv, NEW o \in Object, Insert(o)
  PROVE  IndexInv'
<1>1. /\ pass \in Pass /\ rank \in [Object -> Nat] /\ size \in [Pass -> Nat]
      /\ firstUsed \in [Pass -> Nat] /\ lastUsed \in [Pass -> Nat]
      /\ slots \in [Pass -> SUBSET (Nat \X Object)]
  BY DEF TypeOK
<1>2. /\ UNCHANGED <<made, rank, climb, phase, pass>> /\ phase = "index" /\ o \in left
      /\ left' = left \ {o} /\ o \in Users(pass) /\ left \subseteq Users(pass)
  BY DEF Insert, rankVars, callVars, IndexInv
<1>3. \A k \in Pass : Inserted(k)' = IF k = pass THEN Inserted(k) \cup {o} ELSE Inserted(k)
  <2>1. TAKE k \in Pass
  <2>2. CASE k = pass
    BY <1>1, <1>2, <2>2 DEF Inserted, Users, Pass
  <2>3. CASE k # pass
    BY <1>1, <1>2, <2>3 DEF Inserted, Users, Pass
  <2>4. QED
    BY <2>2, <2>3
<1>4. \A k \in Pass : k # pass => UNCHANGED <<slots[k], size[k], firstUsed[k], lastUsed[k]>>
  BY <1>1 DEF Insert
<1>5. \A k \in Pass : firstUsed'[k] \in Nat /\ lastUsed'[k] \in Nat
  BY IndexTyped DEF TypeOK
<1>6. size'[pass] \in Nat /\ size'[pass] >= size[pass] /\ size'[pass] > rank[o]
  <2>1. CASE rank[o] < size[pass] /\ UNCHANGED size
    BY <1>1, <2>1
  <2>2. ASSUME NEW m \in Doubled(size[pass], rank[o]), size' = [size EXCEPT ![pass] = m]
        PROVE  size'[pass] \in Nat /\ size'[pass] >= size[pass] /\ size'[pass] > rank[o]
    BY <1>1, <2>2, DoubledBound
  <2>3. QED
    BY <2>1, <2>2 DEF Insert
<1>7. slots'[pass] = slots[pass] \cup {<<rank[o], o>>}
  <2>1. slots'[pass] = {e \in slots[pass] : rank[o] < size[pass] \/ e[1] < size[pass]}
                         \cup {<<rank[o], o>>}
    BY <1>1 DEF Insert
  <2>2. \A e \in slots[pass] : e[1] < size[pass]
    BY <1>1 DEF IndexInv
  <2>3. QED
    BY <2>1, <2>2
<1>8. /\ firstUsed'[pass] <= firstUsed[pass] /\ firstUsed'[pass] <= rank[o]
      /\ lastUsed'[pass] >= lastUsed[pass] /\ lastUsed'[pass] >= rank[o]
  BY <1>1 DEF Insert
<1>9. IndexOf(pass)'
  <2>1. \A e \in slots'[pass] : e[2] \in Inserted(pass) \cup {o} /\ e[1] = rank[e[2]]
    BY <1>1, <1>7 DEF IndexInv
  <2>2. ASSUME NEW q \in Inserted(pass) \cup {o}
        PROVE  /\ <<rank[q], q>> \in slots'[pass] /\ rank[q] < size'[pass]
               /\ firstUsed'[pass] <= rank[q] /\ rank[q] <= lastUsed'[pass]
    <3>1. CASE q = o
      BY <1>6, <1>7, <1>8, <3>1
    <3>2. CASE q \in Inserted(pass)
      <4>1. /\ <<rank[q], q>> \in slots[pass] /\ rank[q] < size[pass]
            /\ firstUsed[pass] <= rank[q] /\ rank[q] <= lastUsed[pass]
        BY <1>1, <3>2 DEF IndexInv
      <4>2. q \in Object /\ rank[q] \in Nat
        BY <1>1, <3>2 DEF Inserted, Users, TypeOK
      <4>3. QED
        BY <1>1, <1>5, <1>6, <1>7, <1>8, <4>1, <4>2
    <3>3. QED
      BY <2>2, <3>1, <3>2
  <2>3. Inserted(pass)' = Inserted(pass) \cup {o}
    BY <1>1, <1>2, <1>3 DEF Inserted
  <2>4. QED
    BY <1>2, <2>1, <2>2, <2>3 DEF IndexOf
<1>10. ASSUME NEW k \in Pass, k # pass PROVE IndexOf(k)'
  BY <1>2, <1>3, <1>4, <1>10 DEF IndexInv, IndexOf
<1>11. phase' # "model" => ~climb'
  BY <1>2 DEF IndexInv
<1>12. phase' = "index" => left' \subseteq Users(pass)'
  BY <1>2 DEF Users
<1>13. \A k \in Pass : IndexOf(k)'
  BY <1>2, <1>9, <1>10
<1>14. QED
  BY <1>5, <1>11, <1>12, <1>13 DEF IndexInv, IndexOf

(* A step that leaves the indexes and the ranks alone keeps them in         *)
(* agreement when it leaves the inserted objects alone too.                *)
LEMMA SameIndex ==
  ASSUME IndexInv, UNCHANGED <<indexVars, rank>>,
         \A k \in Pass : Inserted(k)' = Inserted(k),
         phase' # "model" => ~climb',
         phase' = "index" => left' \subseteq Users(pass)'
  PROVE  IndexInv'
BY DEF IndexInv, indexVars

LEMMA IndexInvStep ==
  ASSUME TypeOK, IndexInv, [Next]_vars
  PROVE  IndexInv'
<1>1. CASE Model
  <2>1. phase = "model" /\ phase' = "model" /\ UNCHANGED indexVars
    BY <1>1 DEF Model, sweepVars
  <2>2. \A k \in Pass : Inserted(k) = {} /\ Inserted(k)' = {}
    BY <2>1 DEF Inserted
  <2>3. QED
    BY <2>1, <2>2 DEF IndexInv, indexVars
<1>2. CASE SetupRanks
  <2>1. /\ UNCHANGED <<indexVars, rank, made, climb>> /\ phase = "model" /\ ~climb
        /\ phase' = "index" /\ pass' = 0 /\ left' = Users(0)
    BY <1>2 DEF SetupRanks, rankVars, callVars
  <2>2. Users(pass)' = Users(0) /\ \A k \in Pass : Users(k)' = Users(k)
    BY <2>1 DEF Users
  <2>3. \A k \in Pass : Inserted(k)' = {} /\ Inserted(k) = {}
    BY <2>1, <2>2 DEF Inserted, Pass
  <2>4. QED
    BY <2>1, <2>2, <2>3, SameIndex
<1>3. ASSUME NEW o \in Object, Insert(o) PROVE IndexInv'
  BY <1>3, InsertKeepsIndex
<1>4. CASE IndexNextPass
  <2>1. /\ UNCHANGED <<indexVars, rank, made, climb>> /\ phase = "index" /\ left = {} /\ ~climb
        /\ pass \in Pass
    BY <1>4 DEF IndexNextPass, rankVars, callVars, IndexInv, TypeOK
  <2>2. \A k : Users(k)' = Users(k)
    BY <2>1 DEF Users
  <2>3. CASE pass < 2 /\ pass' = pass + 1 /\ left' = Users(pass + 1) /\ phase' = phase
    <3>1. \A k \in Pass : Inserted(k)' = Inserted(k)
      <4>1. TAKE k \in Pass
      <4>2. CASE k <= pass
        BY <2>1, <2>2, <2>3, <4>2 DEF Inserted, Pass
      <4>3. CASE k = pass + 1
        BY <2>1, <2>2, <2>3, <4>3 DEF Inserted, Pass
      <4>4. CASE k > pass + 1
        BY <2>1, <2>2, <2>3, <4>4 DEF Inserted, Pass
      <4>5. QED
        BY <2>1, <4>2, <4>3, <4>4 DEF Pass
    <3>2. QED
      BY <2>1, <2>2, <2>3, <3>1, SameIndex
  <2>4. CASE pass = 2 /\ phase' = "sweep"
    <3>1. \A k \in Pass : Inserted(k)' = Inserted(k)
      BY <2>1, <2>2, <2>4 DEF Inserted, Pass
    <3>2. QED
      BY <2>1, <2>4, <3>1, SameIndex
  <2>5. QED
    BY <1>4, <2>1, <2>3, <2>4 DEF IndexNextPass, Pass
<1>5. CASE Visit \/ SweepNextPass
  <2>1. /\ UNCHANGED <<indexVars, rank, made, climb>> /\ phase = "sweep"
        /\ phase' \in {"sweep", "done"} /\ ~climb
    BY <1>5 DEF Visit, SweepNextPass, rankVars, callVars, IndexInv
  <2>2. \A k \in Pass : Inserted(k)' = Inserted(k)
    BY <2>1 DEF Inserted, Users
  <2>3. QED
    BY <2>1, <2>2, SameIndex
<1>6. CASE UNCHANGED vars
  BY <1>6 DEF vars, rankVars, callVars, indexVars, sweepVars, IndexInv, Inserted, Users
<1>7. QED
  BY <1>1, <1>2, <1>3, <1>4, <1>5, <1>6 DEF Next

-----------------------------------------------------------------------------
(* The sweep has visited what it has passed. *)

(* Between the indexing and the end, every object of a pass is in its index. *)
LEMMA AllInserted ==
  ASSUME IndexInv, TypeOK, NEW k \in Pass,
         phase = "sweep" \/ (phase = "index" /\ pass = 2 /\ left = {})
  PROVE  /\ Inserted(k) = Users(k)
         /\ \A i \in Int : ListAt(k, i) = {o \in Users(k) : rank[o] = i}
         /\ \A o \in Users(k) : firstUsed[k] <= rank[o] /\ rank[o] <= lastUsed[k]
<1>1. Inserted(k) = Users(k)
  BY DEF Inserted, Pass
<1>2. \A o \in Users(k) : o \in Object
  BY DEF Users, TypeOK
<1>3. \A i \in Int : ListAt(k, i) = {o \in Users(k) : rank[o] = i}
  BY <1>1, <1>2 DEF ListAt, IndexInv
<1>4. QED
  BY <1>1, <1>3 DEF IndexInv

LEMMA SweepInvInit == Init => SweepInv
BY DEF Init, SweepInv

(* At the ordinal a sweep starts from, no object has been passed.          *)
LEMMA StartPasses ==
  ASSUME TypeOK, IndexInv, NEW k \in Pass,
         phase = "sweep" \/ (phase = "index" /\ pass = 2 /\ left = {}),
         UNCHANGED <<made, rank>>, pass' = k, pos' = PassInit(k)
  PROVE  {o \in Users(pass)' : Passed(o)'} = {}
<1>1. Users(pass)' = Users(k)
  BY DEF Users
<1>2. SUFFICES ASSUME NEW o \in Users(k) PROVE ~ Passed(o)'
  BY <1>1
<1>3. rank[o] \in Nat /\ firstUsed[k] \in Nat /\ lastUsed[k] \in Nat
  BY DEF Users, TypeOK
<1>4. firstUsed[k] <= rank[o] /\ rank[o] <= lastUsed[k]
  BY AllInserted
<1>5. QED
  BY <1>3, <1>4 DEF Passed, PassInit

LEMMA SweepInvStep ==
  ASSUME TypeOK, IndexInv, SweepInv, [Next]_vars
  PROVE  SweepInv'
<1>1. CASE Model \/ SetupRanks \/ \E o \in Object : Insert(o)
  BY <1>1 DEF Model, SetupRanks, Insert, SweepInv, sweepVars
<1>2. CASE IndexNextPass
  <2>1. UNCHANGED <<made, rank, synced>> /\ synced = {} /\ pass \in Pass /\ 0 \in Pass
    BY <1>2 DEF IndexNextPass, SweepInv, rankVars, TypeOK, Pass
  <2>2. CASE pass < 2
    BY <1>2, <2>1, <2>2 DEF IndexNextPass, SweepInv
  <2>3. CASE ~(pass < 2)
    <3>1. pass = 2 /\ phase = "index" /\ left = {} /\ pass' = 0 /\ pos' = PassInit(0)
          /\ phase' = "sweep"
      BY <1>2, <2>1, <2>3 DEF IndexNextPass, Pass
    <3>2. {o \in Users(pass)' : Passed(o)'} = {}
      BY <2>1, <3>1, StartPasses
    <3>3. QED
      BY <2>1, <3>1, <3>2 DEF SweepInv
  <2>4. QED
    BY <2>2, <2>3
<1>3. CASE Visit
  <2>1. /\ UNCHANGED <<made, rank, phase, pass>> /\ phase = "sweep" /\ pass \in Pass
        /\ pos \in Int /\ synced' = synced \cup ListAt(pass, pos)
        /\ pos' = pos + PassInc(pass)
    BY <1>3 DEF Visit, rankVars, TypeOK
  <2>2. ListAt(pass, pos) = {o \in Users(pass) : rank[o] = pos}
    BY <2>1, AllInserted
  <2>3. ASSUME NEW o \in Users(pass)
        PROVE  Passed(o)' <=> (Passed(o) \/ rank[o] = pos)
    <3>1. rank[o] \in Nat
      BY DEF Users, TypeOK
    <3>2. QED
      BY <2>1, <3>1 DEF Passed, PassInc
  <2>4. Users(pass)' = Users(pass)
    BY <2>1 DEF Users
  <2>5. synced = {o \in Users(pass) : Passed(o)}
    BY <2>1 DEF SweepInv
  <2>6. synced' = {o \in Users(pass)' : Passed(o)'}
    BY <2>1, <2>2, <2>3, <2>4, <2>5
  <2>7. QED
    BY <2>1, <2>6 DEF SweepInv
<1>4. CASE SweepNextPass
  <2>1. UNCHANGED <<made, rank>> /\ synced' = {} /\ pass \in 0 .. 2 /\ phase = "sweep"
    BY <1>4 DEF SweepNextPass, rankVars, TypeOK, Pass
  <2>2. CASE pass < 2
    <3>1. pass' = pass + 1 /\ pos' = PassInit(pass + 1) /\ pass + 1 \in Pass
      BY <1>4, <2>1, <2>2 DEF SweepNextPass, Pass
    <3>2. {o \in Users(pass)' : Passed(o)'} = {}
      BY <2>1, <3>1, StartPasses
    <3>3. QED
      BY <2>1, <3>2 DEF SweepInv
  <2>3. CASE ~(pass < 2)
    BY <1>4, <2>1, <2>3 DEF SweepNextPass, SweepInv
  <2>4. QED
    BY <2>2, <2>3
<1>5. CASE UNCHANGED vars
  BY <1>5 DEF vars, rankVars, indexVars, sweepVars, SweepInv, Users, Passed
<1>6. QED
  BY <1>1, <1>2, <1>3, <1>4, <1>5 DEF Next

-----------------------------------------------------------------------------
(* The inductive invariant, and what follows from it. *)

IInv == TypeOK /\ RankInv /\ IndexInv /\ SweepInv

LEMMA Inductive == Spec => []IInv
<1>1. Init => IInv
  BY InitTyped, RankInvInit, IndexInvInit, SweepInvInit DEF IInv
<1>2. IInv /\ [Next]_vars => IInv'
  BY NextTyped, RankInvStep, IndexInvStep, SweepInvStep DEF IInv
<1>3. QED
  BY <1>1, <1>2, PTL DEF Spec

(* Parents, ranks, the arguments of set_rank, the indexes and the ordinals *)
(* of the sweep stay in the sets they range over: no step looks up what is *)
(* not there.                                                              *)
THEOREM Typed == Spec => []TypeOK
<1>1. IInv => TypeOK
  BY DEF IInv
<1>2. QED
  BY <1>1, Inductive, PTL

(* For any number of objects: as long as no call was refused, a parent is  *)
(* ranked above each of its children whenever set_rank is not running.     *)
THEOREM RanksOrdered == Spec => []RankOrder
<1>1. IInv => RankOrder
  <2>1. SUFFICES ASSUME IInv, ~climb, ~failed, NEW o \in Object, parent[o] # None
                 PROVE  rank[o] < rank[parent[o]]
    BY DEF RankOrder
  <2>2. ~ Disordered(o)
    BY <2>1 DEF IInv, RankInv
  <2>3. parent[o] \in Object /\ rank[o] \in Nat /\ rank[parent[o]] \in Nat
    BY <2>1 DEF IInv, TypeOK
  <2>4. QED
    BY <2>1, <2>2, <2>3 DEF Disordered
<1>2. QED
  BY <1>1, Inductive, PTL

(* For any number of objects: a call that is not refused clears every flag *)
(* it has set on its way up.                                               *)
THEOREM FlagsReturned == Spec => []FlagsCleared
<1>1. IInv => FlagsCleared
  BY DEF IInv, RankInv, FlagsCleared
<1>2. QED
  BY <1>1, Inductive, PTL

(* For any model, any assignment of passes and any initial size of the     *)
(* indexes: the walk over an index has visited all objects of the pass     *)
(* when it ends.                                                           *)
THEOREM SweepComplete == Spec => []AllVisited
<1>1. IInv => AllVisited
  <2>1. SUFFICES ASSUME IInv, phase = "sweep", ~PassCmp(pos, pass)
                 PROVE  synced = Users(pass)
    BY DEF AllVisited
  <2>2. synced = {o \in Users(pass) : Passed(o)} /\ pass \in Pass /\ pos \in Int
    BY <2>1 DEF IInv, SweepInv, TypeOK
  <2>3. ASSUME NEW o \in Users(pass) PROVE Passed(o)
    <3>1. /\ rank[o] \in Nat /\ firstUsed[pass] \in Nat /\ lastUsed[pass] \in Nat
      BY <2>1 DEF Users, IInv, TypeOK
    <3>2. firstUsed[pass] <= rank[o] /\ rank[o] <= lastUsed[pass]
      BY <2>1, <2>2, AllInserted DEF IInv
    <3>3. QED
      BY <2>1, <2>2, <3>1, <3>2 DEF Passed, PassCmp
  <2>4. QED
    BY <2>2, <2>3
<1>2. QED
  BY <1>1, Inductive, PTL

(* For any model whose ranks were set without a refusal: children come     *)
(* before parents in the bottom-up pass, after them in the other two.      *)
THEOREM TreeOrdered == Spec => []TreeOrder
<1>1. IInv => TreeOrder
  <2>1. SUFFICES ASSUME IInv, phase = "sweep", ~failed,
                        NEW p \in Users(pass), NEW c \in Object,
                        c \in Users(pass), parent[c] = p
                 PROVE  IF pass = 1 THEN p \in synced => c \in synced
                                    ELSE c \in synced => p \in synced
    BY DEF TreeOrder
  <2>2. synced = {o \in Users(pass) : Passed(o)} /\ pos \in Int
    BY <2>1 DEF IInv, SweepInv, TypeOK
  <2>3. p \in Object /\ p # None /\ rank[c] \in Nat /\ rank[p] \in Nat
    BY <2>1, ObjectAssumption DEF Users, IInv, TypeOK
  <2>4. ~climb
    BY <2>1 DEF IInv, IndexInv
  <2>5. ~Disordered(c)
    BY <2>1, <2>4 DEF IInv, RankInv
  <2>6. rank[c] < rank[p]
    BY <2>1, <2>3, <2>5 DEF Disordered
  <2>7. QED
    BY <2>1, <2>2, <2>3, <2>6 DEF Passed
<1>2. QED
  BY <1>1, Inductive, PTL

(* Raising a rank keeps it within the number of objects, for any number of *)
(* objects and any ranks that are asked for: the guard of set_rank is       *)
(* enough, though it is tested before one is added.                        *)
THEOREM RanksBounded == Spec => []RankBounded
<1>1. Init => RankBounded
  <2>1. SUFFICES ASSUME Init, NEW o \in Object PROVE rank[o] <= Cardinality(made)
    BY DEF RankBounded
  <2>2. rank[o] = 0 /\ made = {}
    BY <2>1 DEF Init, RankInit
  <2>3. QED
    BY <2>2, FS_EmptySet
<1>2. IInv /\ RankBounded /\ [Next]_vars => RankBounded'
  <2>1. SUFFICES ASSUME IInv, RankBounded, [Next]_vars, NEW o \in Object
                 PROVE  rank'[o] <= Cardinality(made')
    BY DEF RankBounded
  <2>2. TypeOK /\ RankInv /\ rank \in [Object -> Nat]
    BY <2>1 DEF IInv, TypeOK
  <2>3. IsFiniteSet(made) /\ Cardinality(made) \in Nat
    BY <2>2, ObjectAssumption, FS_Subset, FS_CardinalityType DEF TypeOK
  <2>4. ASSUME NEW q \in Object, Create(q) PROVE rank'[o] <= Cardinality(made')
    <3>1. Cardinality(made') = Cardinality(made) + 1
      BY <2>3, <2>4, FS_AddElement DEF Create
    <3>2. rank'[o] = rank[o] /\ rank[o] <= Cardinality(made) /\ rank[o] \in Nat
      BY <2>1, <2>2, <2>4 DEF Create, RankBounded
    <3>3. QED
      BY <2>3, <3>1, <3>2
  <2>5. CASE Ascend \/ Return
    <3>1. /\ at \in Object /\ want \in Nat /\ want < Cardinality(made) /\ made' = made
          /\ rank' = [rank EXCEPT ![at] = Raised(at, want)]
      BY <2>2, <2>3, <2>5 DEF Ascend, Return, Refused, TypeOK, RankInv
    <3>2. rank[o] <= Cardinality(made) /\ rank[at] <= Cardinality(made)
      BY <2>1, <3>1 DEF RankBounded
    <3>3. Raised(at, want) <= Cardinality(made)
      BY <2>2, <2>3, <3>1, <3>2 DEF Raised
    <3>4. QED
      BY <2>2, <3>1, <3>2, <3>3
  <2>6. CASE UNCHANGED <<made, rank>>
    BY <2>1, <2>6 DEF RankBounded
  <2>7. QED
    BY <2>1, <2>4, <2>5, <2>6
       DEF Next, Model, RankNext, ClearParent, SetParent, SetDependent, SetRank, Refuse,
           SetupRanks, Insert, IndexNextPass, Visit, SweepNextPass, vars, rankVars
<1>3. QED
  BY <1>1, <1>2, Inductive, PTL DEF Spec
=============================================================================

--------------------------- MODULE RankPool_proofs ---------------------------
(***************************************************************************)
(* The thread pool is a barrier, for every number of threads, every        *)
(* division of the lists and every width of the start counter.             *)
(***************************************************************************)
EXTENDS RankPool, FiniteSetTheorems, TLAPS

---------------------------------------------------------------------------
(* The division of a list *)

\* The division of a natural number leaves less than the divisor.
LEMMA DivFacts ==
    ASSUME NEW a \in Nat, NEW b \in Nat \ {0}
    PROVE  /\ a \div b \in Nat
           /\ b * (a \div b) <= a
           /\ a < b * (a \div b) + b
<1>1. a = (b * (a \div b)) + (a % b) /\ 0 <= a % b /\ a % b < b
  BY Z3
<1> QED BY <1>1, Z3

\* A quotient is bounded when the dividend is.
LEMMA DivBound ==
    ASSUME NEW a \in Nat, NEW b \in Nat \ {0}, NEW q \in Nat, a < b * (q + 1)
    PROVE  a \div b <= q
<1> DEFINE d == a \div b
<1>1. d \in Nat /\ b * d <= a
  BY DivFacts
<1>2. SUFFICES ASSUME d >= q + 1 PROVE FALSE
  BY <1>1
<1> HIDE DEF d
<1>3. b * d >= b * (q + 1)
  BY <1>1, <1>2, Z3
<1> QED BY <1>1, <1>3, Z3

\* A multiple is divided without remainder.
LEMMA DivExact ==
    ASSUME NEW b \in Nat \ {0}, NEW q \in Nat
    PROVE  (b * q) \div b = q
<1> DEFINE d == (b * q) \div b
<1>1. b * q \in Nat
  BY Z3
<1>2. d \in Nat /\ b * d <= b * q /\ b * q < b * d + b
  BY <1>1, DivFacts
<1> HIDE DEF d
<1>3. b * q < b * (d + 1)
  BY <1>2, Z3
<1>4. ~ (d > q)
  <2> SUFFICES ASSUME d >= q + 1 PROVE FALSE
    BY <1>2
  <2>1. b * d >= b * (q + 1)
    BY <1>2, Z3
  <2> QED BY <2>1, <1>2, Z3
<1>5. ~ (d < q)
  <2> SUFFICES ASSUME q >= d + 1 PROVE FALSE
    BY <1>2
  <2>1. b * q >= b * (d + 1)
    BY <1>2, Z3
  <2> QED BY <2>1, <1>2, <1>3, Z3
<1>6. d = q
  BY <1>2, <1>4, <1>5
<1> QED BY <1>6 DEF d

\* Shares of the rounded-up size, one per thread, hold the whole list.
LEMMA IncrType ==
    ASSUME NEW n \in Nat \ {0}
    PROVE  /\ Incr(n) \in Nat \ {0}
           /\ n <= ThreadCount * Incr(n)
<1> DEFINE a == n + ThreadCount - 1
<1>1. /\ ThreadCount \in Nat \ {0} /\ a \in Nat
      /\ a >= ThreadCount /\ Incr(n) = a \div ThreadCount
  BY RankPoolAssumption DEF Incr, CeilDiv
<1>2. /\ Incr(n) \in Nat
      /\ a < ThreadCount * Incr(n) + ThreadCount
  BY <1>1, DivFacts
<1>3. Incr(n) # 0
  BY <1>1, <1>2
<1> QED BY <1>1, <1>2, <1>3

\* A share is made of at least one object.
LEMMA NItemsType ==
    ASSUME NEW n \in Nat \ {0}
    PROVE  NItems(n) \in Nat \ {0}
BY IncrType DEF NItems

\* Neither rounding makes more workers than there are threads, nor none.
LEMMA NThreadsBound ==
    ASSUME NEW n \in Nat \ {0}
    PROVE  NThreads(n) \in 1 .. ThreadCount
<1> USE RankPoolAssumption
<1>1. Incr(n) \in Nat \ {0} /\ n <= ThreadCount * Incr(n)
  BY IncrType
<1>2. CASE Incr(n) <= 1
  <2>1. Incr(n) = 1
    BY <1>1, <1>2
  <2> QED BY <1>1, <2>1 DEF NThreads
<1>3. CASE ~ (Incr(n) <= 1)
  <2> DEFINE b == Incr(n)
             a == n + b - 1
  <2>1. a \in Nat /\ b \in Nat \ {0} /\ a >= b /\ NThreads(n) = a \div b
    BY <1>1, <1>3 DEF NThreads, CeilDiv
  <2>2. n <= b * ThreadCount
    BY <1>1, Z3
  <2> HIDE DEF b
  <2>3. a < b * (ThreadCount + 1)
    BY <2>1, <2>2, Z3
  <2>4. NThreads(n) <= ThreadCount
    BY <2>1, <2>3, DivBound
  <2>5. NThreads(n) \in Nat /\ a < b * NThreads(n) + b
    BY <2>1, DivFacts
  <2>6. NThreads(n) # 0
    BY <2>1, <2>5
  <2> QED BY <2>4, <2>5, <2>6
<1> QED BY <1>2, <1>3

\* No worker's share is empty.
LEMMA SliceNotEmpty ==
    ASSUME NEW n \in Nat \ {0}, NEW k \in 1 .. NThreads(n)
    PROVE  Slice(n, k) # {}
<1> DEFINE b == NItems(n)
           i == b * (k - 1) + 1
<1>1. b \in Nat \ {0} /\ NThreads(n) \in Nat /\ k \in Nat /\ k - 1 \in Nat
  BY NItemsType, NThreadsBound, RankPoolAssumption
<1>2. b * (k - 1) \in Nat /\ (b * (k - 1)) \div b = k - 1
  BY <1>1, DivExact
<1>3. i <= n
  <2>1. CASE Incr(n) <= 1
    <3>1. b = 1 /\ NThreads(n) = n
      BY <2>1 DEF NItems, NThreads
    <3> QED BY <3>1, <1>1
  <2>2. CASE ~ (Incr(n) <= 1)
    <3>1. b = Incr(n) /\ NThreads(n) = (n + b - 1) \div b
      BY <2>2 DEF NItems, NThreads, CeilDiv
    <3>2. n + b - 1 \in Nat
      BY <1>1
    <3> HIDE DEF b
    <3>3. b * NThreads(n) <= n + b - 1
      BY <3>1, <3>2, <1>1, DivFacts
    <3>4. b * k <= b * NThreads(n)
      BY <1>1, Z3
    <3>5. b * k = b * (k - 1) + b
      BY <1>1, Z3
    <3> QED BY <3>3, <3>4, <3>5, <1>1, <1>2, Z3
  <2> QED BY <2>1, <2>2
<1>4. i \in 1 .. n /\ i - 1 = b * (k - 1)
  BY <1>2, <1>3
<1>5. i \in Slice(n, k)
  BY <1>2, <1>4 DEF Slice
<1> QED BY <1>5

\* Every object of the list is in some worker's share.
LEMMA SlicesCover ==
    ASSUME NEW n \in Nat \ {0}, NEW i \in 1 .. n
    PROVE  \E k \in 1 .. NThreads(n) : i \in Slice(n, k)
<1> DEFINE b == NItems(n)
           q == (i - 1) \div b
<1>1. b \in Nat \ {0} /\ NThreads(n) \in Nat /\ i - 1 \in Nat
  <2>1. b \in Nat \ {0}
    BY NItemsType
  <2>2. NThreads(n) \in Nat
    BY NThreadsBound, RankPoolAssumption, SMTT(30)
  <2> QED BY <2>1, <2>2
<1>2. q \in Nat /\ b * q <= i - 1
  BY <1>1, DivFacts
<1>3. q + 1 <= NThreads(n)
  <2>1. CASE Incr(n) <= 1
    <3>1. b = 1 /\ NThreads(n) = n
      BY <2>1 DEF NItems, NThreads
    <3> HIDE DEF q
    <3> QED BY <3>1, <1>2
  <2>2. CASE ~ (Incr(n) <= 1)
    <3>1. b = Incr(n) /\ NThreads(n) = (n + b - 1) \div b
      BY <2>2 DEF NItems, NThreads, CeilDiv
    <3>2. n + b - 1 \in Nat
      BY <1>1
    <3> HIDE DEF b
    <3>3. n + b - 1 < b * NThreads(n) + b
      BY <3>1, <3>2, <1>1, DivFacts
    <3> HIDE DEF q
    <3>4. b * (q + 1) = b * q + b /\ b * (NThreads(n) + 1) = b * NThreads(n) + b
      BY <1>1, <1>2, Z3
    <3>5. b * (q + 1) < b * (NThreads(n) + 1)
      BY <3>3, <3>4, <1>1, <1>2, Z3
    <3>6. SUFFICES ASSUME q + 1 >= NThreads(n) + 1 PROVE FALSE
      BY <1>1, <1>2
    <3>7. b * (q + 1) >= b * (NThreads(n) + 1)
      BY <3>6, <1>1, <1>2, Z3
    <3> QED BY <3>5, <3>7, <1>1, <1>2, Z3
  <2> QED BY <2>1, <2>2
<1>4. i \in Slice(n, q + 1)
  BY <1>2 DEF Slice
<1>5. q + 1 \in 1 .. NThreads(n)
  BY <1>1, <1>2, <1>3
<1> QED BY <1>4, <1>5

\* No object is in the shares of two workers.
LEMMA SlicesDisjoint ==
    ASSUME NEW n, NEW k \in Nat, NEW j \in Nat, j # k
    PROVE  Slice(n, k) \cap Slice(n, j) = {}
BY DEF Slice

\* A list has as many workers as the division says, where its done count starts.
LEMMA CrewSize ==
    ASSUME NEW l \in List
    PROVE  /\ IsFiniteSet(Crew(l))
           /\ Cardinality(Crew(l)) = NThreads(Size[l])
<1> DEFINE m == NThreads(Size[l])
           f == [k \in 1 .. m |-> <<l, k>>]
<1>1. m \in 1 .. ThreadCount /\ m \in Nat
  <2>1. Size[l] \in Nat \ {0}
    BY RankPoolAssumption DEF List
  <2>2. m \in 1 .. ThreadCount
    BY <2>1, NThreadsBound
  <2> QED BY <2>2, RankPoolAssumption
<1>2. Crew(l) = {<<l, k>> : k \in 1 .. m}
  BY <1>1, RankPoolAssumption DEF Crew, Worker
<1>3. f \in Bijection(1 .. m, Crew(l))
  <2> HIDE DEF m
  <2>1. f \in [1 .. m -> Crew(l)]
    BY <1>2
  <2>2. \A a, b \in 1 .. m : f[a] = f[b] => a = b
    OBVIOUS
  <2>3. \A w \in Crew(l) : \E k \in 1 .. m : f[k] = w
    BY <1>2
  <2> QED BY <2>1, <2>2, <2>3 DEF Bijection, Injection, Surjection, IsInjective
<1>4. IsFiniteSet(1 .. m) /\ Cardinality(1 .. m) = m
  BY <1>1, FS_Interval
<1> QED BY <1>3, <1>4, FS_Bijection DEF ExistsBijection

---------------------------------------------------------------------------
(* Type correctness and the inductive invariant *)

IndInv == TypeOK /\ PoolInv

\* What a worker is: a list and a number within the threads of that list.
LEMMA WorkerFacts ==
    ASSUME NEW w \in Worker
    PROVE  /\ w[1] \in List /\ w[2] \in Nat /\ w = <<w[1], w[2]>>
           /\ w \in Crew(w[1])
           /\ w[2] \in 1 .. NThreads(Size[w[1]])
           /\ Size[w[1]] \in Nat \ {0}
<1>1. w \in List \X (1 .. ThreadCount) /\ w[2] <= NThreads(Size[w[1]])
  BY DEF Worker
<1>2. w[1] \in List /\ w[2] \in 1 .. ThreadCount /\ w = <<w[1], w[2]>>
  BY <1>1
<1>3. Size[w[1]] \in Nat \ {0}
  BY <1>2, RankPoolAssumption DEF List
<1>4. NThreads(Size[w[1]]) \in Nat /\ w[2] \in Nat /\ w[2] >= 1
  BY <1>2, <1>3, NThreadsBound, RankPoolAssumption
<1> QED BY <1>1, <1>2, <1>3, <1>4 DEF Crew

\* The shares of two workers of one list have no object in common.
LEMMA SharesDisjoint ==
    ASSUME NEW w \in Worker, NEW v \in Worker, w[1] = v[1], w # v
    PROVE  Share(w) \cap Share(v) = {}
BY WorkerFacts, SlicesDisjoint DEF Share

\* A share is part of its list.
LEMMA ShareInList ==
    ASSUME NEW w \in Worker
    PROVE  Share(w) \subseteq 1 .. Size[w[1]] /\ Share(w) # {}
BY WorkerFacts, SliceNotEmpty DEF Share, Slice

\* The number of workers a list still waits for, and what it says.
LEMMA OwingFinite ==
    ASSUME NEW l \in List, NEW S \in SUBSET Crew(l)
    PROVE  /\ IsFiniteSet(S)
           /\ Cardinality(S) \in 0 .. ThreadCount
           /\ Cardinality(S) = 0 <=> S = {}
<1>1. IsFiniteSet(S) /\ Cardinality(S) <= Cardinality(Crew(l))
  BY CrewSize, FS_Subset
<1>2. Size[l] \in Nat \ {0}
  BY RankPoolAssumption DEF List
<1>3. Cardinality(Crew(l)) \in 1 .. ThreadCount
  BY <1>2, CrewSize, NThreadsBound
<1>4. Cardinality(S) \in Nat
  BY <1>1, FS_CardinalityType
<1>5. Cardinality(S) \in 0 .. ThreadCount
  BY <1>1, <1>3, <1>4, RankPoolAssumption
<1> QED BY <1>1, <1>5, FS_EmptySet

\* The pool starts in the invariant.
LEMMA InitInv == Init => IndInv
<1> SUFFICES ASSUME Init PROVE IndInv
  OBVIOUS
<1>1. TypeOK
  BY RankPoolAssumption DEF Init, TypeOK, MainPlaces, WorkerPlaces, List
<1>2. PoolInv
  BY WorkerFacts DEF Init, PoolInv, WorkersKept, CountKept, SharesKept, Handed
<1> QED BY <1>1, <1>2 DEF IndInv

\* Every step of the main thread keeps the invariant.
LEMMA MainStepInv == IndInv /\ MainStep => IndInv'
<1> SUFFICES ASSUME IndInv, MainStep PROVE IndInv'
  OBVIOUS
<1> USE DEF IndInv, TypeOK, PoolInv, MainPlaces, WorkerPlaces
<1>0. turn \in List /\ Size[turn] \in Nat \ {0} /\ NThreads(Size[turn]) \in 0 .. ThreadCount
  <2>1. turn \in List /\ Size[turn] \in Nat \ {0}
    BY RankPoolAssumption DEF List
  <2>2. NThreads(Size[turn]) \in 1 .. ThreadCount
    BY <2>1, NThreadsBound
  <2> QED BY <2>1, <2>2
<1>1. CASE Visit
  <2>1. TypeOK'
    BY <1>1 DEF Visit
  <2>2. WorkersKept'
    BY <1>1 DEF Visit, WorkersKept, Handed
  <2>3. CountKept' /\ SharesKept'
    BY <1>1 DEF Visit, CountKept, SharesKept, Handed
  <2> QED BY <2>1, <2>2, <2>3
<1>2. CASE Arm
  <2>1. TypeOK'
    BY <1>2, <1>0 DEF Arm
  <2>2. WorkersKept'
    BY <1>2 DEF Arm, WorkersKept, Handed
  <2>3. CountKept' /\ SharesKept'
    BY <1>2, <1>0 DEF Arm, CountKept, SharesKept, Handed
  <2> QED BY <2>1, <2>2, <2>3
<1>3. CASE Start
  <2>1. (next_t1[turn] + 1) % Modulus \in 0 .. Modulus - 1
    BY RankPoolAssumption, <1>0
  <2>2. (next_t1[turn] + 1) % Modulus # next_t1[turn]
    <3>1. next_t1[turn] \in Nat /\ next_t1[turn] < Modulus /\ Modulus \in Nat /\ Modulus > 1
      BY RankPoolAssumption, <1>0
    <3>2. CASE next_t1[turn] + 1 < Modulus
      BY <3>1, <3>2, Z3
    <3>3. CASE next_t1[turn] + 1 = Modulus
      <4>1. (next_t1[turn] + 1) % Modulus = 0
        BY <3>1, <3>3, Z3
      <4> QED BY <4>1, <3>1, <3>3
    <3> QED BY <3>1, <3>2, <3>3
  <2>3. TypeOK'
    BY <1>3, <2>1, <1>0 DEF Start
  <2>4. ~Handed /\ Handed' /\ mpc' # "armed" /\ turn' = turn
    BY <1>3 DEF Start, Handed
  <2>5. \A w \in Worker : wpc[w] \notin {"sync", "done", "count"}
                          /\ t0[w] = next_t1[w[1]]
    BY <2>4 DEF WorkersKept
  <2>6. \A w \in Worker : wpc'[w] \notin {"sync", "done", "count"}
                          /\ (t0'[w] = next_t1'[w[1]] <=> w[1] # turn)
    <3> SUFFICES ASSUME NEW w \in Worker
                 PROVE  wpc'[w] \notin {"sync", "done", "count"}
                          /\ (t0'[w] = next_t1'[w[1]] <=> w[1] # turn)
      OBVIOUS
    <3>1. w[1] \in List
      BY WorkerFacts
    <3> QED BY <1>3, <2>2, <2>5, <1>0, <3>1 DEF Start
  <2>7. WorkersKept'
    BY <2>6, <2>4 DEF WorkersKept
  <2>8. Owing(turn)' = Crew(turn)
    BY <2>6, <2>4, <1>0 DEF Owing, Crew
  <2>9. CountKept'
    BY <1>3, <2>4, <2>8, <1>0, CrewSize DEF Start, CountKept
  <2>10. SharesKept'
    BY <1>3, <2>4, <2>6 DEF Start, SharesKept, Crew
  <2> QED BY <2>3, <2>7, <2>9, <2>10
<1>4. CASE AwaitDone
  <2>1. TypeOK'
    BY <1>4 DEF AwaitDone
  <2>2. Handed /\ Handed'
    BY <1>4 DEF AwaitDone, Handed
  <2>3. WorkersKept'
    BY <1>4, <2>2 DEF AwaitDone, WorkersKept
  <2>4. CountKept' /\ SharesKept'
    BY <1>4, <2>2 DEF AwaitDone, CountKept, SharesKept, Owing
  <2> QED BY <2>1, <2>3, <2>4
<1>5. CASE Relock
  <2>1. TypeOK'
    BY <1>5 DEF Relock
  <2>2. Handed /\ Handed'
    BY <1>5 DEF Relock, Handed
  <2>3. WorkersKept'
    BY <1>5, <2>2 DEF Relock, WorkersKept
  <2>4. CountKept' /\ SharesKept'
    BY <1>5, <2>2 DEF Relock, CountKept, SharesKept, Owing
  <2> QED BY <2>1, <2>3, <2>4
<1>6. CASE Leave
  <2>1. NextOf(turn) \in List
    BY RankPoolAssumption, <1>0 DEF NextOf, List
  <2>2. TypeOK'
    BY <1>6, <2>1 DEF Leave
  <2>3. Handed /\ ~Handed' /\ mpc' # "armed"
    BY <1>6 DEF Leave, Handed
  <2>4. Owing(turn) \in SUBSET Crew(turn) /\ Cardinality(Owing(turn)) = 0
    BY <1>6, <2>3 DEF Leave, AllDone, CountKept, Owing
  <2>5. Owing(turn) = {}
    BY <2>4, <1>0, OwingFinite
  <2>6. WorkersKept'
    BY <1>6, <2>3, <2>5 DEF Leave, WorkersKept, Owing, Crew
  <2> QED BY <2>2, <2>3, <2>6 DEF CountKept, SharesKept
<1> QED BY <1>1, <1>2, <1>3, <1>4, <1>5, <1>6 DEF MainStep

\* Every step of a worker keeps the invariant.
LEMMA WorkerStepInv ==
    ASSUME IndInv, NEW w \in Worker, WorkerStep(w)
    PROVE  IndInv'
<1> USE DEF IndInv, TypeOK, PoolInv, MainPlaces, WorkerPlaces
<1>0. /\ turn \in List /\ w[1] \in List /\ w \in Crew(w[1])
      /\ Share(w) \subseteq 1 .. Size[w[1]]
  BY WorkerFacts, ShareInList
<1>1. CASE LockStart(w) \/ AwaitStart(w)
  <2>1. TypeOK'
    BY <1>1 DEF LockStart, AwaitStart, Goto
  <2>2. /\ \A v \in Worker : wpc'[v] = wpc[v]
              \/ (wpc[v] \in {"start", "test"} /\ wpc'[v] \in {"test", "waiting"})
        /\ UNCHANGED <<mpc, turn, t0, next_t1, donecount, synced>>
    BY <1>1 DEF LockStart, AwaitStart, Goto
  <2>3. WorkersKept'
    BY <2>2 DEF WorkersKept, Handed
  <2>4. Owing(turn)' = Owing(turn)
    BY <2>2 DEF Owing, Crew
  <2> QED BY <2>1, <2>2, <2>3, <2>4 DEF CountKept, SharesKept, Handed
<1>2. CASE Started(w)
  <2>1. TypeOK'
    BY <1>2 DEF Started, Goto
  <2>2. /\ wpc' = [wpc EXCEPT ![w] = "sync"] /\ wpc[w] = "test"
        /\ t0[w] # next_t1[w[1]]
        /\ UNCHANGED <<mpc, turn, t0, next_t1, donecount, synced>>
    BY <1>2 DEF Started, Goto
  <2>3. WorkersKept'
    BY <2>2 DEF WorkersKept, Handed
  <2>4. Owing(turn)' = Owing(turn)
    BY <2>2 DEF Owing, Crew
  <2> QED BY <2>1, <2>2, <2>3, <2>4 DEF CountKept, SharesKept, Handed
<1>3. CASE SyncShare(w)
  <2>1. /\ wpc[w] = "sync" /\ wpc' = [wpc EXCEPT ![w] = "done"]
        /\ t0' = [t0 EXCEPT ![w] = next_t1[w[1]]]
        /\ synced' = synced \cup Share(w)
        /\ UNCHANGED <<mpc, turn, next_t1, donecount>>
    BY <1>3 DEF SyncShare, Goto
  <2>2. Handed /\ Handed' /\ w[1] = turn /\ mpc # "armed"
    BY <2>1 DEF WorkersKept, Handed
  <2>3. TypeOK'
    <3>1. Share(w) \subseteq Nat
      BY <1>0
    <3>2. t0' \in [Worker -> 0 .. Modulus - 1]
      BY <1>0, <2>1
    <3> QED BY <1>3, <3>1, <3>2 DEF SyncShare, Goto
  <2>4. WorkersKept'
    BY <2>1, <2>2 DEF WorkersKept
  <2>5. Owing(turn)' = Owing(turn)
    <3>1. w \in Owing(turn) /\ w \in Owing(turn)'
      BY <2>1, <2>2, <1>0 DEF Owing, Crew, WorkersKept
    <3> QED BY <3>1, <2>1 DEF Owing, Crew
  <2>6. CountKept'
    BY <2>1, <2>2, <2>5 DEF CountKept
  <2>7. SharesKept'
    <3>1. synced' \subseteq 1 .. Size[turn]
      BY <1>0, <2>1, <2>2 DEF SharesKept
    <3>2. ASSUME NEW v \in Crew(turn)
          PROVE  IF t0'[v] = next_t1[turn] THEN Share(v) \subseteq synced'
                                           ELSE Share(v) \cap synced' = {}
      <4>1. v \in Worker /\ v[1] = turn
        BY DEF Crew
      <4>2. CASE v = w
        BY <4>2, <2>1, <2>2
      <4>3. CASE v # w
        <5>1. Share(v) \cap Share(w) = {}
          BY <4>1, <4>3, <2>2, SharesDisjoint
        <5> QED BY <5>1, <4>1, <4>3, <2>1, <2>2 DEF SharesKept
      <4> QED BY <4>2, <4>3
    <3> QED BY <3>1, <3>2, <2>1 DEF SharesKept, Crew
  <2> QED BY <2>3, <2>4, <2>6, <2>7
<1>4. CASE LockDone(w)
  <2>1. TypeOK'
    BY <1>4 DEF LockDone, Goto
  <2>2. /\ wpc' = [wpc EXCEPT ![w] = "count"] /\ wpc[w] = "done"
        /\ UNCHANGED <<mpc, turn, t0, next_t1, donecount, synced>>
    BY <1>4 DEF LockDone, Goto
  <2>3. WorkersKept'
    BY <2>2 DEF WorkersKept, Handed
  <2>4. Owing(turn)' = Owing(turn)
    BY <2>2 DEF Owing, Crew
  <2> QED BY <2>1, <2>2, <2>3, <2>4 DEF CountKept, SharesKept, Handed
<1>5. CASE CountDone(w)
  <2>1. /\ wpc[w] = "count" /\ wpc' = [wpc EXCEPT ![w] = "start"]
        /\ donecount' = [donecount EXCEPT ![w[1]] = @ - 1]
        /\ UNCHANGED <<turn, t0, next_t1, synced>>
    BY <1>5 DEF CountDone, Goto
  <2>2. Handed /\ w[1] = turn /\ t0[w] = next_t1[turn]
    BY <2>1 DEF WorkersKept
  <2>3. Handed' /\ mpc' # "armed"
    BY <1>5, <2>2 DEF CountDone, Handed
  <2>4. Owing(turn)' = Owing(turn) \ {w} /\ w \in Owing(turn)
    BY <2>1, <2>2, <1>0 DEF Owing, Crew
  <2>5. IsFiniteSet(Owing(turn)) /\ Cardinality(Owing(turn)) \in 0 .. ThreadCount
        /\ Cardinality(Owing(turn)) # 0
    <3>1. Owing(turn) \in SUBSET Crew(turn)
      BY DEF Owing
    <3>2. (Cardinality(Owing(turn)) = 0) <=> (Owing(turn) = {})
      BY <3>1, <1>0, OwingFinite
    <3> QED BY <3>1, <3>2, <1>0, <2>4, OwingFinite
  <2>6. Cardinality(Owing(turn)') = Cardinality(Owing(turn)) - 1
    BY <2>4, <2>5, FS_RemoveElement
  <2>7. donecount[turn] = Cardinality(Owing(turn)) /\ donecount[turn] \in 1 .. ThreadCount
    BY <2>2, <2>5, RankPoolAssumption DEF CountKept
  <2>8. donecount' = [donecount EXCEPT ![turn] = donecount[turn] - 1]
    BY <2>1, <2>2
  <2>9. donecount' \in [List -> 0 .. ThreadCount] /\ donecount'[turn] = donecount[turn] - 1
    BY <2>7, <2>8, <1>0, RankPoolAssumption
  <2>10. TypeOK'
    BY <1>5, <2>9 DEF CountDone, Goto
  <2>11. WorkersKept'
    BY <2>1, <2>2, <2>3 DEF WorkersKept
  <2>12. CountKept'
    BY <2>1, <2>3, <2>6, <2>7, <2>9 DEF CountKept
  <2>13. SharesKept'
    BY <2>1, <2>2, <2>3 DEF SharesKept, Crew
  <2> QED BY <2>10, <2>11, <2>12, <2>13
<1> QED BY <1>1, <1>2, <1>3, <1>4, <1>5 DEF WorkerStep

\* A spurious wake-up keeps the invariant.
LEMMA WakeInv ==
    ASSUME IndInv, SpuriousDone \/ (\E w \in Worker : SpuriousStart(w))
    PROVE  IndInv'
<1> USE DEF IndInv, TypeOK, PoolInv, MainPlaces, WorkerPlaces
<1>1. CASE SpuriousDone
  <2>0. wakes' \in 0 .. Spurious
    BY <1>1, RankPoolAssumption DEF SpuriousDone
  <2>1. TypeOK'
    BY <1>1, <2>0 DEF SpuriousDone
  <2>2. /\ Handed /\ Handed'
        /\ UNCHANGED <<turn, wpc, t0, next_t1, donecount, synced>>
    BY <1>1 DEF SpuriousDone, Handed
  <2> QED BY <1>1, <2>1, <2>2
      DEF SpuriousDone, WorkersKept, CountKept, SharesKept, Owing, Crew
<1>2. ASSUME NEW w \in Worker, SpuriousStart(w) PROVE IndInv'
  <2>0. wakes' \in 0 .. Spurious
    BY <1>2, RankPoolAssumption DEF SpuriousStart
  <2>1. TypeOK'
    BY <1>2, <2>0 DEF SpuriousStart, Goto
  <2>2. /\ wpc' = [wpc EXCEPT ![w] = "start"] /\ wpc[w] = "waiting"
        /\ UNCHANGED <<mpc, turn, t0, next_t1, donecount, synced>>
    BY <1>2 DEF SpuriousStart, Goto
  <2>3. WorkersKept'
    BY <2>2 DEF WorkersKept, Handed
  <2>4. Owing(turn)' = Owing(turn)
    BY <2>2 DEF Owing, Crew
  <2> QED BY <2>1, <2>2, <2>3, <2>4 DEF CountKept, SharesKept, Handed
<1> QED BY <1>1, <1>2

\* Every step of the pool keeps the invariant.
LEMMA NextInv == IndInv /\ [Next]_vars => IndInv'
<1> SUFFICES ASSUME IndInv, [Next]_vars PROVE IndInv'
  OBVIOUS
<1>1. CASE UNCHANGED vars
  BY <1>1 DEF IndInv, TypeOK, PoolInv, WorkersKept, CountKept, SharesKept,
     Handed, Owing, Crew, vars
<1>2. CASE Next
  BY <1>2, MainStepInv, WorkerStepInv, WakeInv DEF Next
<1> QED BY <1>1, <1>2

\* The invariant holds in every run.
LEMMA Invariance == Spec => []IndInv
BY InitInv, NextInv, PTL DEF Spec

---------------------------------------------------------------------------
(* The theorems *)

\* Every variable of the pool keeps its type; in particular no done count
\* (exec.c, donecount) goes below zero or above the number of threads.
THEOREM TypeCorrect == Spec => []TypeOK
<1>1. IndInv => TypeOK
  BY DEF IndInv
<1> QED BY <1>1, Invariance, PTL

\* The done count of exec_start counts the workers that obj_syncproc has not
\* counted down, and what they have synchronised is their shares.
THEOREM CountCorrect == Spec => []PoolInv
<1>1. IndInv => PoolInv
  BY DEF IndInv
<1> QED BY <1>1, Invariance, PTL

\* Objects of different ranks are never synchronised at the same time.
THEOREM NoOverlap == Spec => []OneListAtATime
<1>1. IndInv => OneListAtATime
  BY DEF IndInv, PoolInv, WorkersKept, OneListAtATime
<1> QED BY <1>1, Invariance, PTL

\* No object is synchronised twice in one visit of its list.
THEOREM NoneTwice == Spec => SyncedOnce
<1> DEFINE Once == \A w \in Worker : wpc[w] = "sync" /\ wpc'[w] = "done"
                        => Share(w) # {} /\ Share(w) \cap synced = {}
<1>1. IndInv /\ [Next]_vars => [Once]_vars
  <2> SUFFICES ASSUME IndInv, NEW w \in Worker, wpc[w] = "sync"
               PROVE  Share(w) # {} /\ Share(w) \cap synced = {}
    OBVIOUS
  <2>1. w \in Crew(turn) /\ Handed /\ t0[w] # next_t1[turn]
    BY WorkerFacts DEF IndInv, PoolInv, WorkersKept
  <2> QED BY <2>1, ShareInList DEF IndInv, PoolInv, SharesKept
<1> QED BY <1>1, Invariance, PTL DEF Spec, SyncedOnce

\* When no worker owes anything, the whole list has been synchronised.
LEMMA ListDone ==
    ASSUME IndInv, Handed, Owing(turn) = {}
    PROVE  synced = 1 .. Size[turn]
<1> USE DEF IndInv, TypeOK, PoolInv
<1>1. Size[turn] \in Nat \ {0}
  BY RankPoolAssumption DEF List
<1>2. synced \subseteq 1 .. Size[turn]
  BY DEF SharesKept
<1>3. ASSUME NEW i \in 1 .. Size[turn] PROVE i \in synced
  <2>1. PICK k \in 1 .. NThreads(Size[turn]) : i \in Slice(Size[turn], k)
    BY <1>1, SlicesCover
  <2> DEFINE w == <<turn, k>>
  <2>2. NThreads(Size[turn]) \in 1 .. ThreadCount
    BY <1>1, NThreadsBound
  <2>3. k \in 1 .. ThreadCount
    BY <2>2, RankPoolAssumption
  <2>4. w \in Crew(turn)
    BY <2>1, <2>2, <2>3, RankPoolAssumption DEF Crew, Worker
  <2>5. i \in Share(w)
    BY <2>1 DEF Share
  <2> HIDE DEF w
  <2>6. t0[w] = next_t1[turn]
    BY <2>4 DEF Owing
  <2> QED BY <2>4, <2>5, <2>6 DEF SharesKept
<1> QED BY <1>2, <1>3

\* One step of the pool is one step of the barrier or none.
LEMMA BarrierStep == IndInv /\ [Next]_vars => [Barrier!Next]_(Barrier!barrierVars)
<1> SUFFICES ASSUME IndInv, [Next]_vars
             PROVE  [Barrier!Next]_(Barrier!barrierVars)
  OBVIOUS
<1> USE DEF Barrier!Next, Barrier!barrierVars
<1>1. CASE Visit \/ Arm \/ AwaitDone \/ Relock
  BY <1>1 DEF Visit, Arm, AwaitDone, Relock, Handed
<1>2. CASE Start
  BY <1>2 DEF Start, Handed
<1>3. CASE Leave
  <2>1. Handed /\ ~Handed' /\ turn' = (turn % Lists) + 1
    BY <1>3 DEF Leave, Handed, NextOf
  <2>2. Owing(turn) \in SUBSET Crew(turn) /\ Cardinality(Owing(turn)) = 0
    BY <1>3, <2>1 DEF Leave, AllDone, IndInv, PoolInv, CountKept, Owing
  <2>3. Owing(turn) = {}
    BY <2>2, OwingFinite DEF IndInv, TypeOK
  <2>4. synced = 1 .. Size[turn]
    BY <2>1, <2>3, ListDone
  <2> QED BY <2>1, <2>4 DEF Barrier!NextList, Barrier!Members
<1>4. ASSUME NEW w \in Worker, WorkerStep(w)
      PROVE  [Barrier!Next]_(Barrier!barrierVars)
  <2>1. CASE LockStart(w) \/ AwaitStart(w) \/ Started(w) \/ LockDone(w)
    BY <2>1 DEF LockStart, AwaitStart, Started, LockDone, Handed
  <2>2. CASE CountDone(w)
    <3>1. Handed /\ w[1] = turn
      BY <2>2 DEF CountDone, IndInv, PoolInv, WorkersKept
    <3>2. Handed' /\ UNCHANGED <<turn, synced>>
      BY <2>2, <3>1 DEF CountDone, Handed
    <3> QED BY <3>1, <3>2
  <2>3. CASE SyncShare(w)
    <3>1. w \in Crew(turn) /\ Handed /\ t0[w] # next_t1[turn] /\ w[1] = turn
      BY <2>3, WorkerFacts DEF SyncShare, IndInv, PoolInv, WorkersKept
    <3>2. Share(w) # {} /\ Share(w) \in SUBSET ((1 .. Size[turn]) \ synced)
      BY <3>1, ShareInList DEF IndInv, PoolInv, SharesKept
    <3>3. Handed' /\ turn' = turn /\ synced' = synced \cup Share(w)
      BY <2>3, <3>1 DEF SyncShare, Handed
    <3> QED BY <3>1, <3>2, <3>3 DEF Barrier!Sync, Barrier!Members
  <2> QED BY <1>4, <2>1, <2>2, <2>3 DEF WorkerStep
<1>5. CASE SpuriousDone
  BY <1>5 DEF SpuriousDone, Handed
<1>6. ASSUME NEW w \in Worker, SpuriousStart(w)
      PROVE  [Barrier!Next]_(Barrier!barrierVars)
  BY <1>6 DEF SpuriousStart, Handed
<1>7. CASE UNCHANGED vars
  BY <1>7 DEF vars, Handed
<1> QED BY <1>1, <1>2, <1>3, <1>4, <1>5, <1>6, <1>7 DEF Next, MainStep

\* However a list is divided and the threads are scheduled, the main thread
\* takes the next list when every object of this one has been synchronised
\* exactly once, and not before.
THEOREM PoolIsBarrier == Spec => ImplementsBarrier
<1>1. Init => Barrier!Init
  BY DEF Init, Barrier!Init, Handed
<1> QED BY <1>1, BarrierStep, Invariance, PTL
        DEF Spec, ImplementsBarrier, Barrier!Spec

=============================================================================

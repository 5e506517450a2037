--------------------------- MODULE CommitAll_proofs ---------------------------
(***************************************************************************)
(* For lists of any size, any number of threads and any commit times:      *)
(* observers are committed last, whether their list, the ordinary one or   *)
(* both are shared by threads; and as long as only one list is committed,  *)
(* or neither is shared (OneWay), every object is committed exactly once   *)
(* and no answer is lost.                                                  *)
(***************************************************************************)
EXTENDS CommitAll, FiniteSetTheorems, TLAPS

(* Would list l have threads?                                              *)
Shared(c, l) == ThreadCount # 1 /\ Processes(c[l]) > 1

(* The code is right only for these: observers are not committed at all    *)
(* when the ordinary list alone is shared, they are committed twice when   *)
(* their list alone is, and an answer is lost when both are.               *)
OneWay == \A c \in Counts : \/ c[0] = 0 \/ c[1] = 0
                            \/ ~Shared(c, 0) /\ ~Shared(c, 1)

Active(l) == list = l /\ mpc \in {"stopped?", "waiting"}
AtList(l) == list = l /\ mpc \in {"list", "create", "enable"}

(* Iterators are made for lists with items, that of the ordinary first.    *)
IteratorKept ==
  /\ \A l \in ListNo : /\ mti[l] = "ready" => count[l] > 0 /\ ThreadCount # 1
                       /\ input[l] # NEVER \/ output[l] # NEVER => HasThreads(l)
  /\ mti[1] = "ready" => mti[0] = "ready"
  /\ list = 1 => mti[0] = "ready" \/ init_tried \/ ThreadCount = 1
  /\ mpc \in {"create", "enable", "stopped?", "waiting"} => HasThreads(list)
  /\ mpc = "single" => /\ list = 0 /\ ~HasThreads(0)
                       /\ mti[0] = "ready" \/ init_tried \/ ThreadCount = 1

(* A list that has not been visited in this call was run before its time.  *)
ClockKept ==
  /\ mpc # "idle" => clock > 0
  /\ \A l \in ListNo :
       /\ input[l] = NEVER \/ input[l] <= clock
       /\ AtList(0) \/ AtList(l) \/ mpc = "single" => input[l] # clock
       /\ Active(l) => input[l] = clock
       /\ Active(0) /\ l = 1 => input[l] # clock

(* The threads that owe their share, and the objects one has been through. *)
Owing(l) == {w \in Crew(l) : data[w] # input[l] \/ wpc[w] = "stop"}
Passed(w, o) ==
  \/ data[w] = input[w[1]]
  \/ wpc[w] = "commit" /\ (o[2] - 1) % Portion(count[w[1]]) < items[w]

(* The stop count is the number of threads that owe, and only they work.   *)
ThreadsKept ==
  /\ \A w \in Process : wpc[w] # "none" => HasThreads(w[1]) /\ w \in Crew(w[1])
  /\ \A w \in Process : ~HasThreads(w[1]) => data[w] = NEVER
  /\ \A w \in Process : wpc[w] = "commit" => Active(w[1]) /\ data[w] # input[w[1]]
  /\ \A w \in Process : wpc[w] = "stop" => Active(w[1]) /\ data[w] = input[w[1]]
  /\ \A l \in ListNo : HasThreads(l) =>
       IF Active(l) THEN stop[l] = Cardinality(Owing(l))
                    ELSE \A w \in Crew(l) : data[w] = input[l]

Untouched(l) == \A o \in Objects : o[1] = l => committed[o] = 0
AllDone(l) == \A o \in Objects : o[1] = l /\ InServiceNow(o) => committed[o] = 1

(* What has been committed where the call stands.                          *)
OrderKept ==
  /\ AtList(0) => Untouched(0) /\ Untouched(1) /\ rejected = {}
  /\ mpc = "single" =>
       /\ rejected = {}
       /\ \A o \in Objects : committed[o] = IF o \notin todo /\ InServiceNow(o) THEN 1 ELSE 0
       /\ \A o \in Objects \ todo : o[1] = 1 => \A p \in todo : p[1] = 1
  /\ Active(0) =>
       /\ Untouched(1) /\ rejected = {}
       /\ \A w \in Crew(0) : \A o \in Share(w) :
            committed[o] = IF InServiceNow(o) /\ Passed(w, o) THEN 1 ELSE 0
  /\ AtList(1) \/ Active(1) \/ (mpc = "returned" /\ result # INVALID)
       => AllDone(0) \/ 0 \in rejected
  /\ 0 \in rejected => HasThreads(0)
  /\ AtList(1) /\ ~HasThreads(0) => AllDone(1)
  /\ mpc = "returned" /\ result # INVALID /\ ~HasThreads(0) /\ ~HasThreads(1) => AllDone(1)
  /\ mpc \in {"idle", "returned", "over"} => ObserversLast

(* The earliest answer is in the result, in the output of the list, or     *)
(* with a thread that has not given its own yet; and so is a failure.      *)
Held(t) ==
  \/ output[0] <= t
  \/ \E w \in Crew(0) : wpc[w] \in {"commit", "stop"} /\ final[w] <= t

AnswersKept ==
  /\ AtList(0) => ~failed /\ result = NEVER
  /\ mpc = "single" => result <= earliest /\ ~failed /\ clock < result
  /\ Active(0) => Held(earliest) /\ (failed => Held(INVALID))
  /\ AtList(1) \/ mpc = "returned" =>
       result <= earliest /\ (failed => result = INVALID)

(* Between two runs the output is the answer of the last one, by which the *)
(* next call may reject its list.                                          *)
OutputKept ==
  /\ ~Active(0) /\ output[0] # NEVER => output[0] <= earliest
  /\ AtList(1) \/ mpc = "returned" => (rejected # {} => clock < earliest)
  /\ Objects = {} => earliest = NEVER

Kept == /\ IteratorKept /\ ClockKept /\ ThreadsKept /\ OrderKept
        /\ OneWay => AnswersKept /\ OutputKept

IInv == TypeOK /\ Kept

---------------------------------------------------------------------------
(* The division of a list *)

\* A quotient lies where the product says.
LEMMA DivFacts ==
  ASSUME NEW a \in Nat, NEW b \in Nat \ {0}
  PROVE  /\ a \div b \in Nat /\ a % b \in 0 .. b - 1
         /\ a = b * (a \div b) + (a % b)
         /\ b * (a \div b) <= a /\ a < b * (a \div b) + b
<1>1. a = (b * (a \div b)) + (a % b) /\ 0 <= a % b /\ a % b < b
  BY Z3
<1> QED BY <1>1, Z3

LEMMA ModNat ==
  ASSUME NEW a \in Nat, NEW b \in Nat \ {0}
  PROVE  a % b \in Nat
<1>1. a % b \in 0 .. b - 1
  BY DivFacts
<1> QED BY <1>1

\* What is below a multiple has a quotient below the factor.
LEMMA DivBound ==
  ASSUME NEW a \in Nat, NEW b \in Nat \ {0}, NEW q \in Nat, a < b * q
  PROVE  a \div b < q
<1> DEFINE d == a \div b
<1>1. d \in Nat /\ b * d <= a
  BY DivFacts
<1> HIDE DEF d
<1>2. CASE d >= q
  <2>1. b * d >= b * q
    BY <1>1, <1>2, Z3
  <2> QED BY <1>1, <2>1, Z3
<1>3. CASE d < q
  BY <1>3 DEF d
<1> QED BY <1>1, <1>2, <1>3

\* There are no more threads wanted than items, nor than may be used.
LEMMA WantedBound ==
  ASSUME NEW n \in Nat \ {0}
  PROVE  Wanted(n) \in Nat \ {0} /\ Wanted(n) <= n /\ Wanted(n) <= ThreadCount
<1>1. ThreadCount \in Nat \ {0} /\ MinItems \in Nat \ {0}
  BY CommitAllAssumption
<1> DEFINE few == n \div MinItems
<1>2. few \in Nat /\ MinItems * few <= n
  BY <1>1, DivFacts
<1>3. few <= MinItems * few
  <2> HIDE DEF few
  <2> QED BY <1>1, <1>2, Z3
<1>4. CASE n >= ThreadCount * MinItems
  <2>1. ThreadCount * MinItems >= ThreadCount
    BY <1>1, Z3
  <2>2. Wanted(n) = ThreadCount
    BY <1>4 DEF Wanted
  <2> QED BY <1>1, <1>4, <2>1, <2>2
<1>5. CASE ~(n >= ThreadCount * MinItems)
  <2>1. n < MinItems * ThreadCount
    BY <1>1, <1>5, Z3
  <2>2. few < ThreadCount
    BY <1>1, <2>1, DivBound
  <2>3. Wanted(n) = IF few = 0 THEN 1 ELSE few
    BY <1>5 DEF Wanted
  <2> HIDE DEF few
  <2> QED BY <1>1, <1>2, <1>3, <2>2, <2>3
<1> QED BY <1>4, <1>5

\* Every item has a process, and there are at most twice as many processes
\* as threads are to be used.
LEMMA ProcessesBound ==
  ASSUME NEW n \in Nat \ {0}
  PROVE  /\ Portion(n) \in Nat \ {0} /\ Processes(n) \in Nat /\ Processes(n) <= 2 * ThreadCount
         /\ \A k \in 1 .. n : (k - 1) \div Portion(n) < Processes(n)
<1> DEFINE t == Wanted(n)
           p == Portion(n)
           q == Processes(n)
<1>1. t \in Nat \ {0} /\ t <= n /\ t <= ThreadCount /\ ThreadCount \in Nat
  BY WantedBound, CommitAllAssumption
<1>2. p \in Nat /\ n < t * p + t
  BY <1>1, DivFacts DEF Portion
<1>3. p # 0
  <2> HIDE DEF t, p
  <2> QED BY <1>1, <1>2, Z3
<1>4. q \in Nat /\ p * q <= n + p - 1 /\ n + p - 1 < p * q + p
  <2>1. n + p - 1 \in Nat
    BY <1>2, <1>3
  <2>2. q = (n + p - 1) \div p
    BY DEF Processes
  <2> QED BY <1>2, <1>3, <2>1, <2>2, DivFacts, ZenonT(60)
<1>5. q <= 2 * ThreadCount
  <2> HIDE DEF t, p, q
  <2>1. n + p - 1 < p * (2 * t)
    <3>1. n + p - 1 < t * p + t + p - 1
      BY <1>1, <1>2, Z3
    <3>2. t + p - 1 <= t * p
      <4>1. 0 <= (t - 1) * (p - 1)
        BY <1>1, <1>2, <1>3, Z3
      <4>2. (t - 1) * (p - 1) = t * p - t - p + 1
        BY <1>1, <1>2, Z3
      <4> QED BY <1>1, <1>2, <4>1, <4>2, Z3
    <3>3. p * (2 * t) = t * p + t * p
      BY <1>1, <1>2, Z3
    <3> QED BY <1>1, <1>2, <3>1, <3>2, <3>3, Z3
  <2>2. p * q < p * (2 * t)
    BY <1>1, <1>2, <1>4, <2>1, Z3
  <2>3. q < 2 * t
    BY <1>1, <1>2, <1>3, <1>4, <2>2, Z3
  <2> QED BY <1>1, <1>4, <2>3
<1>6. ASSUME NEW k \in 1 .. n PROVE (k - 1) \div p < q
  <2>1. k - 1 < p * q
    <3> HIDE DEF t, p, q
    <3> QED BY <1>2, <1>3, <1>4, Z3
  <2>2. k - 1 \in Nat
    OBVIOUS
  <2> QED BY <1>2, <1>3, <1>4, <2>1, <2>2, DivBound
<1> QED BY <1>2, <1>3, <1>4, <1>5, <1>6

\* The items of a share differ in where they are in it.
LEMMA SameIndex ==
  ASSUME NEW a \in Nat, NEW b \in Nat, NEW p \in Nat \ {0},
         a \div p = b \div p, a % p = b % p
  PROVE  a = b
<1>1. ASSUME NEW c \in Nat PROVE c = p * (c \div p) + (c % p)
  BY Z3
<1>2. b = p * (b \div p) + (b % p) /\ a = p * (a \div p) + (a % p)
  BY <1>1
<1> QED BY <1>2

\* The number of items of a share exceeds the index of each of them.
LEMMA IntervalSize ==
  ASSUME NEW n \in Nat, NEW p \in Nat \ {0}, NEW s \in Nat, NEW k \in 1 .. n,
         (k - 1) \div p = s
  PROVE  (k - 1) % p < Cardinality({j \in 1 .. n : (j - 1) \div p = s})
<1> DEFINE r == (k - 1) % p
           first == k - r
           I == {j \in 1 .. n : (j - 1) \div p = s}
<1>1. k - 1 \in Nat /\ r \in 0 .. p - 1 /\ k - 1 = p * s + r
  <2>1. \A c \in Nat : c % p \in 0 .. p - 1 /\ c = p * (c \div p) + (c % p)
    BY DivFacts
  <2>2. k - 1 \in Nat
    OBVIOUS
  <2> QED BY <2>1, <2>2
<1>2. p * s \in Nat /\ first = p * s + 1
  <2>1. p * s \in Nat
    BY Z3
  <2> HIDE DEF r
  <2> QED BY <1>1, <2>1
<1>3. first .. k \subseteq I
  <2> SUFFICES ASSUME NEW j \in first .. k PROVE j \in 1 .. n /\ (j - 1) \div p = s
    OBVIOUS
  <2> HIDE DEF r
  <2>1. j \in 1 .. n /\ j - 1 \in Nat /\ p * s <= j - 1 /\ j - 1 < p * s + p
    BY <1>1, <1>2
  <2> DEFINE d == (j - 1) \div p
  <2>2. d \in Nat /\ p * d <= j - 1 /\ j - 1 < p * d + p
    BY <2>1, DivFacts
  <2> HIDE DEF d
  <2>3. p * s < p * d + p /\ p * d < p * s + p
    BY <1>2, <2>1, <2>2, Z3
  <2>4. p * s < p * (d + 1) /\ p * d < p * (s + 1)
    BY <2>2, <2>3, Z3
  <2>5. s < d + 1 /\ d < s + 1
    BY <2>2, <2>4, Z3
  <2>6. d = s
    BY <2>2, <2>5
  <2> QED BY <2>1, <2>6 DEF d
<1>4. IsFiniteSet(I) /\ Cardinality(first .. k) <= Cardinality(I)
  <2>1. IsFiniteSet(1 .. n)
    BY FS_Interval
  <2>2. IsFiniteSet(I)
    BY <2>1, FS_Subset
  <2> QED BY <1>3, <2>2, FS_Subset
<1>5. Cardinality(first .. k) = r + 1
  <2>1. first \in Int /\ k \in Int /\ first <= k /\ k - first + 1 = r + 1
    BY <1>1, <1>2
  <2> QED BY <2>1, FS_Interval
<1>6. Cardinality(I) \in Nat
  BY <1>4, FS_CardinalityType
<1> QED BY <1>1, <1>4, <1>5, <1>6
---------------------------------------------------------------------------
(* Lists, their threads and shares *)

\* What is given by the sizes of the lists does not change.
LEMMA SizesFixed ==
  ASSUME UNCHANGED count
  PROVE  /\ Objects' = Objects
         /\ \A l : Crew(l)' = Crew(l)
         /\ \A w : Share(w)' = Share(w)
BY DEF Objects, Crew, Share

LEMMA CountType ==
  ASSUME TypeOK
  PROVE  /\ count \in [ListNo -> Nat]
         /\ \A o \in Objects : o[1] \in ListNo /\ o[2] \in 1 .. count[o[1]] /\ o = <<o[1], o[2]>>
         /\ \A l \in ListNo : \A k \in 1 .. count[l] : <<l, k>> \in Objects
<1>1. count \in [ListNo -> Nat]
  BY CommitAllAssumption DEF TypeOK
<1>2. \A o \in Objects : o[1] \in ListNo /\ o[2] \in 1 .. count[o[1]] /\ o = <<o[1], o[2]>>
  BY DEF Objects
<1>3. \A l \in ListNo : \A k \in 1 .. count[l] : <<l, k>> \in Objects
  BY DEF Objects
<1> QED BY <1>1, <1>2, <1>3

\* The times of this model.
LEMMA Times ==
  /\ LastTime \in Nat \ {0} /\ NEVER = 2 * LastTime + 1 /\ NEVER \in Nat
  /\ INVALID = 0 /\ OLD = 1 /\ 0 \in 0 .. NEVER /\ 1 \in 0 .. NEVER /\ NEVER \in 0 .. NEVER
  /\ OutService \in Nat
  /\ \A o : InSvc(o) \in 1 .. LastTime /\ InSvc(o) + 1 \in 0 .. NEVER
BY CommitAllAssumption DEF NEVER, INVALID, OLD, InSvc

\* An answer is a later time, a failure or 'old school'.
LEMMA AnswerTimes ==
  ASSUME TypeOK, NEW a \in Commits
  PROVE  a \in 0 .. NEVER /\ (a \in {INVALID, OLD} \/ a > clock)
BY Times, CommitAllAssumption DEF TypeOK, Commits

LEMMA MinTime ==
  ASSUME NEW a \in 0 .. NEVER, NEW b \in 0 .. NEVER
  PROVE  Min2(a, b) \in 0 .. NEVER /\ Min2(a, b) \in {a, b} /\ Min2(a, b) <= a /\ Min2(a, b) <= b
BY Times DEF Min2

\* There are finitely many threads for a list.
LEMMA CrewSize ==
  ASSUME NEW l \in ListNo
  PROVE  /\ Crew(l) \subseteq Process /\ IsFiniteSet(Crew(l))
         /\ Cardinality(Crew(l)) \in 0 .. 2 * ThreadCount
<1>1. ThreadCount \in Nat \ {0}
  BY CommitAllAssumption
<1>2. IsFiniteSet(1 .. 2 * ThreadCount) /\ Cardinality(1 .. 2 * ThreadCount) = 2 * ThreadCount
  BY <1>1, FS_Interval
<1>3. IsFiniteSet({l}) /\ Cardinality({l}) = 1
  BY FS_Singleton
<1> DEFINE P == {l} \X (1 .. 2 * ThreadCount)
<1>4. IsFiniteSet(P) /\ Cardinality(P) = 1 * (2 * ThreadCount)
  <2>1. /\ IsFiniteSet(P)
        /\ Cardinality(P) = Cardinality({l}) * Cardinality(1 .. 2 * ThreadCount)
    BY <1>2, <1>3, FS_Product, Zenon
  <2> QED BY <1>2, <1>3, <2>1, Zenon
<1>5. Crew(l) \subseteq P /\ Crew(l) \subseteq Process
  BY DEF Crew, Process
<1>6. IsFiniteSet(Crew(l)) /\ Cardinality(Crew(l)) <= Cardinality(P)
  BY <1>4, <1>5, FS_Subset
<1>7. Cardinality(Crew(l)) \in Nat
  BY <1>6, FS_CardinalityType
<1> HIDE DEF P
<1> QED BY <1>1, <1>4, <1>5, <1>6, <1>7

\* Every object of a list with threads is in the share of one of them, and
\* its index is less than the number of items of that share.
LEMMA OwnShare ==
  ASSUME TypeOK, IteratorKept, NEW o \in Objects, HasThreads(o[1])
  PROVE  /\ \E w \in Crew(o[1]) : o \in Share(w)
         /\ Portion(count[o[1]]) \in Nat \ {0} /\ o[2] - 1 \in Nat
         /\ \A w : o \in Share(w) =>
              w[1] = o[1] /\ (o[2] - 1) % Portion(count[o[1]]) < Cardinality(Share(w))
<1> DEFINE l == o[1]
           n == count[l]
           s == (o[2] - 1) \div Portion(n)
<1>1. l \in ListNo /\ n \in Nat \ {0} /\ o[2] \in 1 .. n
  BY CountType DEF IteratorKept, HasThreads
<1>2. Portion(n) \in Nat \ {0} /\ Processes(n) \in Nat /\ Processes(n) <= 2 * ThreadCount
      /\ s < Processes(n) /\ o[2] - 1 \in Nat /\ s \in Nat
  <2> HIDE DEF l, n
  <2>1. Portion(n) \in Nat \ {0} /\ Processes(n) \in Nat /\ Processes(n) <= 2 * ThreadCount
        /\ \A k \in 1 .. n : (k - 1) \div Portion(n) < Processes(n)
    BY <1>1, ProcessesBound
  <2>2. o[2] - 1 \in Nat
    BY <1>1
  <2> QED BY <1>1, <2>1, <2>2, DivFacts
<1>3. <<l, s + 1>> \in Crew(l)
  <2>1. s + 1 \in 1 .. 2 * ThreadCount /\ s + 1 <= Processes(n)
    BY <1>2, CommitAllAssumption
  <2> HIDE DEF s
  <2> QED BY <1>1, <2>1 DEF Crew, Process
<1>4. o \in Share(<<l, s + 1>>)
  <2>1. s = (s + 1) - 1
    BY <1>2
  <2> QED BY <2>1 DEF Share
<1>5. ASSUME NEW w, o \in Share(w)
      PROVE  w[1] = l /\ (o[2] - 1) % Portion(n) < Cardinality(Share(w))
  <2>1. w[1] = l /\ s = w[2] - 1
    BY <1>5 DEF Share
  <2> DEFINE I == {j \in 1 .. n : (j - 1) \div Portion(n) = s}
  <2>2. Share(w) = {l} \X I
    BY <1>1, <2>1, CountType DEF Share
  <2>3. IsFiniteSet(I) /\ IsFiniteSet({l}) /\ Cardinality({l}) = 1
    <3>1. I \subseteq 1 .. n
      OBVIOUS
    <3> HIDE DEF I, n
    <3>2. IsFiniteSet(1 .. n)
      BY <1>1, FS_Interval
    <3> QED BY <3>1, <3>2, FS_Subset, FS_Singleton
  <2>4. Cardinality(Share(w)) = 1 * Cardinality(I)
    <3> HIDE DEF I
    <3>1. Cardinality({l} \X I) = Cardinality({l}) * Cardinality(I)
      BY <2>3, FS_Product, Zenon
    <3> QED BY <2>2, <2>3, <3>1, Zenon
  <2>5. Cardinality(I) \in Nat
    BY <2>3, FS_CardinalityType
  <2>6. (o[2] - 1) % Portion(n) < Cardinality(I)
    BY <1>1, <1>2, IntervalSize
  <2> HIDE DEF I
  <2> QED BY <2>1, <2>4, <2>5, <2>6
<1> QED BY <1>2, <1>3, <1>4, <1>5

\* Two objects of a share are not at the same index.
LEMMA ShareIndex ==
  ASSUME TypeOK, IteratorKept, NEW w, NEW o \in Share(w), NEW p \in Share(w), HasThreads(o[1]),
         (o[2] - 1) % Portion(count[w[1]]) = (p[2] - 1) % Portion(count[w[1]])
  PROVE  o = p
<1>1. o \in Objects /\ p \in Objects /\ o[1] = w[1] /\ p[1] = w[1]
      /\ (o[2] - 1) \div Portion(count[w[1]]) = (p[2] - 1) \div Portion(count[w[1]])
  BY DEF Share
<1>2. Portion(count[w[1]]) \in Nat \ {0} /\ o[2] - 1 \in Nat /\ p[2] - 1 \in Nat
  BY <1>1, OwnShare
<1>3. o[2] - 1 = p[2] - 1
  BY <1>1, <1>2, SameIndex
<1>4. o[2] \in Nat /\ p[2] \in Nat /\ o = <<o[1], o[2]>> /\ p = <<p[1], p[2]>>
  BY <1>1, CountType
<1> QED BY <1>1, <1>3, <1>4

---------------------------------------------------------------------------
(* Types *)

LEMMA TypeInit == ASSUME Init PROVE TypeOK
<1>1. NEVER \in 0 .. NEVER /\ LastTime \in Nat /\ ThreadCount \in Nat
  BY Times, CommitAllAssumption
<1>2. /\ mti \in [ListNo -> {"none", "ready"}]
      /\ input \in [ListNo -> 0 .. NEVER] /\ output \in [ListNo -> 0 .. NEVER]
      /\ stop \in [ListNo -> 0 .. 2 * ThreadCount]
  BY <1>1 DEF Init
<1>3. /\ wpc \in [Process -> {"none", "enabled?", "started?", "waiting", "commit", "stop",
                             "ended"}]
      /\ enabled \in [Process -> BOOLEAN] /\ data \in [Process -> 0 .. NEVER]
      /\ final \in [Process -> 0 .. NEVER] /\ items \in [Process -> Nat]
      /\ committed \in [Objects -> Nat]
  BY <1>1 DEF Init
<1>4. /\ count \in Counts /\ clock \in 0 .. LastTime /\ mpc = "idle"
      /\ list \in ListNo /\ result \in 0 .. NEVER /\ todo \subseteq Objects
      /\ earliest \in 0 .. NEVER /\ rejected \subseteq ListNo
  BY <1>1 DEF Init, ListNo
<1>5. init_tried \in BOOLEAN /\ failed \in BOOLEAN
  BY DEF Init
<1> QED BY <1>2, <1>3, <1>4, <1>5 DEF TypeOK

\* What an answer does to the result when the main thread commits.
SingleAnswer(a) ==
  IF a = INVALID THEN result' = INVALID /\ mpc' = "returned"
  ELSE result' = Min2(result, IF a = OLD THEN NEVER ELSE a) /\ mpc' = mpc

\* An object is committed while it is in service.
LEMMA ServiceCases ==
  ASSUME TypeOK, NEW o
  PROVE  /\ Service(o) \in {"before", "entering", "after", "in"}
         /\ InServiceNow(o) <=> Service(o) = "in"
<1>1. clock \in Nat /\ InSvc(o) \in Nat /\ OutService \in Nat
  BY Times DEF TypeOK
<1> QED BY <1>1 DEF Service, InServiceNow

\* The main thread commits an object that is in service, and only then is
\* there an answer; before that it is asked for when it comes into service.
LEMMA SingleCases ==
  ASSUME TypeOK, NEW o \in Objects, CommitSingle(o)
  PROVE  \/ /\ UNCHANGED <<mpc, committed, failed>> /\ ~InServiceNow(o)
            /\ \/ UNCHANGED <<result, earliest>>
               \/ /\ clock < InSvc(o) /\ result' = Min2(result, InSvc(o))
                  /\ earliest' = Min2(earliest, InSvc(o))
               \/ /\ clock = InSvc(o) /\ result = InSvc(o) /\ result' = InSvc(o) + 1
                  /\ UNCHANGED earliest
         \/ InServiceNow(o) /\ \E a \in Commits : Committed(o, a) /\ SingleAnswer(a)
<1>1. Service(o) \in {"before", "entering", "after", "in"} /\ (InServiceNow(o) <=> Service(o) = "in")
  BY ServiceCases
<1>2. Service(o) = "before" => clock < InSvc(o)
  BY DEF Service
<1>3. CASE Service(o) = "before"
  BY <1>1, <1>2, <1>3 DEF CommitSingle, AwaitsService
<1>4. CASE Service(o) = "entering"
  <2>1. clock = InSvc(o)
    BY <1>4 DEF Service
  <2> QED BY <1>1, <1>4, <2>1 DEF CommitSingle, history
<1>5. CASE Service(o) = "after"
  <2>1. UNCHANGED <<result, mpc, history>>
    BY <1>5 DEF CommitSingle
  <2> QED BY <1>1, <1>5, <2>1 DEF history
<1>6. CASE Service(o) = "in"
  <2>1. \E a \in Commits : Committed(o, a) /\ SingleAnswer(a)
    BY <1>6 DEF CommitSingle, SingleAnswer
  <2> QED BY <1>1, <1>6, <2>1
<1> QED BY <1>1, <1>3, <1>4, <1>5, <1>6

LEMMA CommittedType ==
  ASSUME TypeOK, NEW o \in Objects, NEW a \in Commits, Committed(o, a)
  PROVE  committed' \in [Objects -> Nat] /\ earliest' \in 0 .. NEVER /\ failed' \in BOOLEAN
<1>1. a \in 0 .. NEVER
  BY AnswerTimes
<1>2. earliest' \in {earliest, Min2(earliest, a)}
  BY DEF Committed
<1>3. earliest' \in 0 .. NEVER
  BY <1>1, <1>2, MinTime DEF TypeOK
<1>4. committed' \in [Objects -> Nat]
  BY DEF Committed, TypeOK
<1>5. failed' \in BOOLEAN
  BY DEF Committed
<1> QED BY <1>3, <1>4, <1>5

\* The same for an object of a thread's share.
LEMMA ItemCases ==
  ASSUME TypeOK, NEW w \in Process, NEW o \in Objects, CommitItem(w, o)
  PROVE  \E a \in 0 .. NEVER :
           /\ final' = [final EXCEPT ![w] = Min2(final[w], a)]
           /\ \/ /\ ~InServiceNow(o) /\ UNCHANGED <<committed, failed>>
                 /\ earliest' \in {earliest, Min2(earliest, a)}
              \/ InServiceNow(o) /\ a \in Commits /\ Committed(o, a)
<1>1. Service(o) \in {"before", "entering", "after", "in"} /\ (InServiceNow(o) <=> Service(o) = "in")
  BY ServiceCases
<1>2. PICK a \in Commits \cup {InSvc(o), InSvc(o) + 1} :
        /\ CASE Service(o) = "before" -> a = InSvc(o) /\ AwaitsService(o)
             [] Service(o) = "entering" -> a = InSvc(o) + 1 /\ UNCHANGED history
             [] Service(o) = "after" -> a = NEVER /\ UNCHANGED history
             [] Service(o) = "in" -> a \in Commits /\ Committed(o, a)
        /\ final' = [final EXCEPT ![w] = Min2(@, a)]
  BY DEF CommitItem
<1>3. final' = [final EXCEPT ![w] = Min2(final[w], a)] /\ a \in 0 .. NEVER
  <2>1. InSvc(o) \in 0 .. NEVER /\ InSvc(o) + 1 \in 0 .. NEVER
    BY Times
  <2> QED BY <1>2, <2>1, AnswerTimes
<1> DEFINE Case == \/ /\ ~InServiceNow(o) /\ UNCHANGED <<committed, failed>>
                      /\ earliest' \in {earliest, Min2(earliest, a)}
                   \/ InServiceNow(o) /\ a \in Commits /\ Committed(o, a)
<1>4. ASSUME Service(o) = "before" PROVE Case
  <2>1. a = InSvc(o) /\ earliest' = Min2(earliest, InSvc(o)) /\ UNCHANGED <<committed, failed>>
    BY <1>2, <1>4 DEF AwaitsService
  <2> QED BY <1>1, <1>4, <2>1
<1>5. ASSUME Service(o) \in {"entering", "after"} PROVE Case
  <2>1. UNCHANGED history
    BY <1>2, <1>5
  <2> QED BY <1>1, <1>5, <2>1 DEF history
<1>6. ASSUME Service(o) = "in" PROVE Case
  <2>1. a \in Commits /\ Committed(o, a)
    BY <1>2, <1>6
  <2> QED BY <1>1, <1>6, <2>1
<1>8. Case
  <2> HIDE DEF Case
  <2> QED BY <1>1, <1>4, <1>5, <1>6
<1> HIDE DEF Case
<1>9. a \in 0 .. NEVER /\ final' = [final EXCEPT ![w] = Min2(final[w], a)] /\ Case
  BY <1>3, <1>8
<1> QED BY <1>9 DEF Case

LEMMA TypeMain ==
  ASSUME TypeOK, IteratorKept, Call \/ MainStep
  PROVE  TypeOK'
<1>0. /\ count' = count /\ Objects' = Objects /\ LastTime \in Nat /\ ListNo = {0, 1}
      /\ NEVER \in 0 .. NEVER /\ 0 \in 0 .. NEVER
  <2>1. count' = count
    BY DEF Call, MainStep, InitIterator, Created, Reject, StartThreads, AwaitThreads,
           GatherThreads, CommitBoth, EndSingle, Return, CreateThread, Enable, CommitSingle
  <2> QED BY <2>1, SizesFixed, Times DEF ListNo
<1>1. CASE Call
  <2>1. committed' \in [Objects -> Nat] /\ clock' \in 0 .. LastTime
    BY <1>0, <1>1 DEF Call, TypeOK
  <2>2. failed' \in BOOLEAN
    BY <1>1 DEF Call
  <2>3. UNCHANGED <<count, todo, iterators, threads>> /\ rejected' = {} /\ result' = NEVER
        /\ list' = 0 /\ earliest' = earliest /\ mpc' \in {"returned", "list"}
    BY <1>1 DEF Call
  <2> QED BY <1>0, <2>1, <2>2, <2>3 DEF TypeOK, iterators, threads
<1>2. CASE InitIterator
  <2>1. mti' \in [ListNo -> {"none", "ready"}] /\ mpc' \in {"list", "create"}
        /\ init_tried' \in BOOLEAN
    BY <1>2 DEF InitIterator, TypeOK
  <2> QED BY <1>0, <1>2, <2>1 DEF TypeOK, InitIterator, threads, history
<1>3. CASE \E w \in Process : CreateThread(w) \/ Enable(w)
  <2>1. PICK w \in Process : CreateThread(w) \/ Enable(w)
    BY <1>3
  <2>2. wpc' \in {wpc, [wpc EXCEPT ![w] = "enabled?"]} /\ enabled' \in {enabled, [enabled EXCEPT ![w] = TRUE]}
        /\ mpc' \in {"enable", "create"}
        /\ UNCHANGED <<count, clock, list, result, todo, iterators, data, final, items, history, rejected>>
    BY <2>1 DEF CreateThread, Enable
  <2>3. wpc' \in [Process -> {"none", "enabled?", "started?", "waiting", "commit", "stop",
                             "ended"}]
        /\ enabled' \in [Process -> BOOLEAN]
    BY <2>2 DEF TypeOK
  <2> QED BY <1>0, <2>2, <2>3 DEF TypeOK, iterators, history
<1>4. CASE Created \/ AwaitThreads
  BY <1>0, <1>4 DEF TypeOK, Created, AwaitThreads, iterators, threads, history
<1>5. CASE Reject
  <2>1. result' \in 0 .. NEVER /\ rejected' \subseteq ListNo /\ list' \in ListNo
        /\ mpc' \in {"list", "returned"}
    BY <1>0, <1>5 DEF TypeOK, Reject, NextList
  <2> QED BY <1>0, <1>5, <2>1 DEF TypeOK, Reject, iterators, threads, history
<1>6. CASE StartThreads
  <2>1. Cardinality(Crew(list)) \in 0 .. 2 * ThreadCount /\ clock \in 0 .. NEVER
    BY CrewSize, Times DEF TypeOK
  <2>2. /\ stop' \in [ListNo -> 0 .. 2 * ThreadCount] /\ input' \in [ListNo -> 0 .. NEVER]
        /\ output' \in [ListNo -> 0 .. NEVER]
    BY <1>0, <1>6, <2>1 DEF StartThreads, TypeOK
  <2>3. wpc' \in [Process -> {"none", "enabled?", "started?", "waiting", "commit", "stop",
                             "ended"}]
    BY <1>6 DEF StartThreads, TypeOK
  <2> QED BY <1>0, <1>6, <2>2, <2>3 DEF TypeOK, StartThreads, history
<1>7. CASE GatherThreads
  <2>1. result' \in 0 .. NEVER /\ list' \in ListNo /\ mpc' \in {"list", "returned"}
    BY <1>0, <1>7 DEF TypeOK, GatherThreads, NextList
  <2> QED BY <1>0, <1>7, <2>1 DEF TypeOK, GatherThreads, iterators, threads, history
<1>8. CASE CommitBoth
  <2>1. list' \in ListNo /\ mpc' \in {"list", "returned", "single"} /\ todo' \subseteq Objects
    BY <1>0, <1>8 DEF TypeOK, CommitBoth, NextList
  <2> QED BY <1>0, <1>8, <2>1 DEF TypeOK, CommitBoth, iterators, threads, history
<1>9. CASE EndSingle \/ Return
  <2>1. list' \in ListNo /\ mpc' \in {"list", "returned", "idle", "over"} /\ todo' \subseteq Objects
    BY <1>0, <1>9 DEF TypeOK, EndSingle, Return, NextList
  <2> QED BY <1>0, <1>9, <2>1 DEF TypeOK, EndSingle, Return, iterators, threads, history
<1>10. CASE \E o \in Objects : CommitSingle(o)
  <2>1. PICK o \in Objects : CommitSingle(o)
    BY <1>10
  <2>2. todo' = todo \ {o} /\ UNCHANGED <<count, clock, list, iterators, threads, rejected>>
    BY <2>1 DEF CommitSingle
  <2>3. ASSUME UNCHANGED <<mpc, committed, failed>>,
               \/ UNCHANGED <<result, earliest>>
               \/ /\ result' = Min2(result, InSvc(o)) /\ earliest' = Min2(earliest, InSvc(o))
               \/ result' = InSvc(o) + 1 /\ UNCHANGED earliest
        PROVE  TypeOK'
    <3>1. result' \in 0 .. NEVER /\ earliest' \in 0 .. NEVER
      <4>1. /\ result \in 0 .. NEVER /\ InSvc(o) \in 0 .. NEVER /\ InSvc(o) + 1 \in 0 .. NEVER
            /\ earliest \in 0 .. NEVER
        BY Times DEF TypeOK
      <4>2. Min2(result, InSvc(o)) \in 0 .. NEVER /\ Min2(earliest, InSvc(o)) \in 0 .. NEVER
        BY <4>1, MinTime
      <4> QED BY <2>3, <4>1, <4>2
    <3> QED BY <1>0, <2>2, <2>3, <3>1 DEF TypeOK, iterators, threads
  <2>4. ASSUME NEW a \in Commits, Committed(o, a), SingleAnswer(a)
        PROVE  TypeOK'
    <3>1. result' \in 0 .. NEVER /\ mpc' \in {"single", "returned"}
      <4>1. a \in 0 .. NEVER
        BY AnswerTimes
      <4> QED BY <2>1, <2>4, <4>1, MinTime, Times DEF TypeOK, SingleAnswer, CommitSingle
    <3>2. committed' \in [Objects -> Nat] /\ earliest' \in 0 .. NEVER /\ failed' \in BOOLEAN
      BY <2>4, CommittedType
    <3> QED BY <1>0, <2>2, <3>1, <3>2 DEF TypeOK, iterators, threads
  <2> QED BY <2>1, <2>3, <2>4, SingleCases
<1> QED BY <1>1, <1>2, <1>3, <1>4, <1>5, <1>6, <1>7, <1>8, <1>9, <1>10 DEF MainStep

LEMMA TypeThread ==
  ASSUME TypeOK, NEW w \in Process, ThreadStep(w),
         wpc[w] = "stop" => stop[w[1]] > 0
  PROVE  TypeOK'
<1>1. /\ w[1] \in ListNo /\ NEVER \in 0 .. NEVER
      /\ UNCHANGED <<count, clock, list, result, todo, mti, init_tried, input, enabled, rejected>>
  BY Times DEF Process, ThreadStep, TestEnabled, TestStarted, CommitItem, UpdateData, StopThread,
               ThreadUnchanged
<1>2. Objects' = Objects
  BY <1>1, SizesFixed
<1> USE <1>1, <1>2
<1>3. \A p : Goto(w, p) /\ p \in {"waiting", "commit", "stop", "enabled?", "started?", "ended"}
        => wpc' \in [Process -> {"none", "enabled?", "started?", "waiting", "commit", "stop", "ended"}]
  BY DEF Goto, TypeOK
<1>4. CASE TestEnabled(w)
  <2>1. wpc' \in [Process -> {"none", "enabled?", "started?", "waiting", "commit", "stop", "ended"}]
    BY <1>3, <1>4 DEF TestEnabled
  <2> QED BY <1>4, <2>1 DEF TypeOK, TestEnabled, history
<1>5. CASE TestStarted(w)
  <2>1. wpc' \in [Process -> {"none", "enabled?", "started?", "waiting", "commit", "stop", "ended"}]
    BY <1>3, <1>5 DEF TestStarted
  <2>2. final' \in [Process -> 0 .. NEVER] /\ items' \in [Process -> Nat]
    BY <1>5 DEF TestStarted, TypeOK
  <2> QED BY <1>5, <2>1, <2>2 DEF TypeOK, TestStarted, history
<1>6. CASE \E o \in Objects : CommitItem(w, o)
  <2>1. PICK o \in Objects : CommitItem(w, o)
    BY <1>6
  <2>2. items' \in [Process -> Nat] /\ UNCHANGED <<mpc, output, stop, wpc, data>>
    BY <2>1 DEF CommitItem, TypeOK
  <2>3. PICK a \in 0 .. NEVER :
           /\ final' = [final EXCEPT ![w] = Min2(final[w], a)]
           /\ \/ /\ ~InServiceNow(o) /\ UNCHANGED <<committed, failed>>
                 /\ earliest' \in {earliest, Min2(earliest, a)}
              \/ InServiceNow(o) /\ a \in Commits /\ Committed(o, a)
    BY <2>1, ItemCases
  <2>4. final' \in [Process -> 0 .. NEVER]
    BY <2>3, MinTime DEF TypeOK
  <2>5. committed' \in [Objects -> Nat] /\ earliest' \in 0 .. NEVER /\ failed' \in BOOLEAN
    BY <2>3, CommittedType, MinTime DEF TypeOK
  <2> QED BY <2>2, <2>4, <2>5 DEF TypeOK
<1>7. CASE UpdateData(w)
  <2>1. wpc' \in [Process -> {"none", "enabled?", "started?", "waiting", "commit", "stop", "ended"}]
    BY <1>3, <1>7 DEF UpdateData
  <2>2. data' \in [Process -> 0 .. NEVER]
    BY <1>7 DEF UpdateData, TypeOK
  <2> QED BY <1>7, <2>1, <2>2 DEF TypeOK, UpdateData, history
<1>8. CASE StopThread(w)
  <2>1. wpc' \in [Process -> {"none", "enabled?", "started?", "waiting", "commit", "stop", "ended"}]
    BY <1>3, <1>8 DEF StopThread
  <2>2. stop' \in [ListNo -> 0 .. 2 * ThreadCount]
    <3>1. stop[w[1]] > 0
      BY <1>8 DEF StopThread
    <3>2. stop[w[1]] - 1 \in 0 .. 2 * ThreadCount
      BY <3>1, CommitAllAssumption DEF TypeOK
    <3> QED BY <1>8, <3>2 DEF StopThread, TypeOK
  <2>3. output' \in [ListNo -> 0 .. NEVER]
    <3>1. GatherOutput(w[1], final[w]) \in 0 .. NEVER
      BY MinTime DEF GatherOutput, TypeOK
    <3> QED BY <1>8, <3>1 DEF StopThread, TypeOK
  <2>4. mpc' \in {mpc, "stopped?"}
    BY <1>8 DEF StopThread, Woken
  <2> QED BY <1>8, <2>1, <2>2, <2>3, <2>4 DEF TypeOK, StopThread, history
<1> QED BY <1>4, <1>5, <1>6, <1>7, <1>8 DEF ThreadStep
\* Only the ordinary list has threads when it is one or none of the two.
LEMMA OneList ==
  ASSUME TypeOK, IteratorKept, OneWay, NEW l \in ListNo, HasThreads(l)
  PROVE  l = 0 /\ count[1] = 0
<1>1. count \in Counts /\ count \in [ListNo -> Nat] /\ ListNo = {0, 1}
  BY CountType DEF TypeOK, ListNo
<1>2. mti[l] = "ready" /\ Processes(count[l]) > 1 /\ count[l] > 0 /\ ThreadCount # 1
  BY DEF HasThreads, IteratorKept
<1>3. Shared(count, l)
  BY <1>2 DEF Shared
<1>4. count[0] > 0
  BY <1>1, <1>2 DEF IteratorKept
<1>5. count[1] = 0
  BY <1>1, <1>3, <1>4 DEF OneWay
<1> QED BY <1>1, <1>2, <1>5

---------------------------------------------------------------------------
(* The main thread *)

LEMMA KeptInit == ASSUME Init PROVE Kept
<1>1. /\ clock = 0 /\ mpc = "idle" /\ list = 0 /\ rejected = {}
      /\ \A l \in ListNo : mti[l] = "none" /\ input[l] = NEVER /\ output[l] = NEVER
      /\ \A w \in Process : wpc[w] = "none" /\ data[w] = NEVER
      /\ \A o \in Objects : committed[o] = 0
  BY DEF Init
<1>2. IteratorKept
  BY <1>1 DEF IteratorKept, ListNo
<1>3. ClockKept
  BY <1>1 DEF ClockKept, AtList, Active
<1>4. ThreadsKept
  <2>1. \A l \in ListNo : ~HasThreads(l) /\ ~Active(l)
    BY <1>1 DEF Active, HasThreads
  <2> QED BY <1>1, <2>1 DEF ThreadsKept
<1>5. ObserversLast
  BY <1>1 DEF ObserversLast
<1>6. OrderKept
  BY <1>1, <1>5 DEF OrderKept, AtList, Active
<1>7. AnswersKept /\ OutputKept
  <2>1. 0 \in ListNo /\ earliest = NEVER
    BY DEF Init, ListNo
  <2> QED BY <1>1, <2>1 DEF AnswersKept, OutputKept, AtList, Active
<1> QED BY <1>2, <1>3, <1>4, <1>6, <1>7 DEF Kept

\* What a step that leaves the iterators and the threads alone does not change.
LEMMA ThreadsFixed ==
  ASSUME UNCHANGED <<count, iterators, threads>>
  PROVE  /\ Objects' = Objects
         /\ \A l : Crew(l)' = Crew(l) /\ HasThreads(l)' = HasThreads(l) /\ Owing(l)' = Owing(l)
         /\ \A w : Share(w)' = Share(w) /\ \A o : Passed(w, o)' = Passed(w, o)
         /\ UNCHANGED <<mti, init_tried, input, output, stop, wpc, enabled, data, final, items>>
<1>1. UNCHANGED <<mti, init_tried, input, output, stop, wpc, enabled, data, final, items>>
  BY DEF iterators, threads
<1>2. /\ Objects' = Objects
      /\ \A l : Crew(l)' = Crew(l)
      /\ \A w : Share(w)' = Share(w)
  BY SizesFixed
<1>3. \A l : HasThreads(l)' = HasThreads(l) /\ Owing(l)' = Owing(l)
  BY <1>1, <1>2 DEF HasThreads, Owing
<1>4. \A w, o : Passed(w, o)' = Passed(w, o)
  BY <1>1 DEF Passed
<1> QED BY <1>1, <1>2, <1>3, <1>4

\* A step that changes no answer keeps what is said of the last output.
LEMMA OutputFixed ==
  ASSUME IInv, OneWay, UNCHANGED <<count, clock, output, earliest, rejected>>,
         Active(0) => Active(0)',
         AtList(1)' \/ mpc' = "returned" => AtList(1) \/ mpc = "returned" \/ rejected = {}
  PROVE  OutputKept'
<1>1. Objects' = Objects /\ OutputKept
  BY SizesFixed DEF IInv, Kept
<1> QED BY <1>1 DEF OutputKept

\* A step between visits of lists keeps what is said of the threads.
LEMMA ThreadsIdle ==
  ASSUME TypeOK, ThreadsKept, UNCHANGED <<count, iterators, threads>>,
         \A l \in ListNo : Active(l)' <=> Active(l)
  PROVE  ThreadsKept'
<1> USE ThreadsFixed
<1>1. \A w \in Process : w[1] \in ListNo
  BY DEF Process
<1>2. \A w \in Process : wpc'[w] # "none" => HasThreads(w[1])' /\ w \in Crew(w[1])'
  BY DEF ThreadsKept
<1>3. \A w \in Process : wpc'[w] = "commit" => Active(w[1])' /\ data'[w] # input'[w[1]]
  BY <1>1 DEF ThreadsKept
<1>4. \A w \in Process : wpc'[w] = "stop" => Active(w[1])' /\ data'[w] = input'[w[1]]
  BY <1>1 DEF ThreadsKept
<1>5. \A l \in ListNo : HasThreads(l)' =>
       IF Active(l)' THEN stop'[l] = Cardinality(Owing(l)')
                     ELSE \A w \in Crew(l)' : data'[w] = input'[l]
  BY DEF ThreadsKept
<1>6. \A w \in Process : ~HasThreads(w[1])' => data'[w] = NEVER
  BY DEF ThreadsKept
<1> QED BY <1>2, <1>3, <1>4, <1>5, <1>6 DEF ThreadsKept

LEMMA KeptCall == ASSUME IInv, Call PROVE Kept'
<1> USE DEF IInv, Kept
<1>1. /\ mpc = "idle" /\ clock' \in clock + 1 .. LastTime /\ result' = NEVER /\ list' = 0
      /\ mpc' = IF Objects = {} THEN "returned" ELSE "list"
      /\ committed' = [o \in Objects |-> 0] /\ failed' = FALSE
      /\ rejected' = {} /\ UNCHANGED <<count, todo, iterators, threads, earliest>>
  BY DEF Call
<1> USE ThreadsFixed
<1>2. clock \in Nat /\ clock' \in Nat /\ clock < clock' /\ clock' # NEVER /\ LastTime \in Nat
  BY <1>1, Times DEF TypeOK
<1>3. /\ \A l \in ListNo : ~Active(l) /\ ~Active(l)'
      /\ ~AtList(1)' /\ ~Active(0)' /\ ~Active(1)'
  BY <1>1 DEF Active, AtList
<1>4. IteratorKept'
  BY <1>1 DEF IteratorKept
<1>5. ClockKept'
  <2>1. \A l \in ListNo : input[l] \in 0 .. NEVER
    BY DEF TypeOK
  <2>2. \A l \in ListNo : (input[l] = NEVER \/ input[l] <= clock') /\ input[l] # clock'
    BY <1>1, <1>2, <2>1, Times DEF ClockKept
  <2> QED BY <1>1, <1>2, <1>3, <2>2 DEF ClockKept
<1>6. ThreadsKept'
  BY <1>1, <1>3, ThreadsIdle
<1>7. Untouched(0)' /\ Untouched(1)'
  BY <1>1 DEF Untouched
<1>8. OrderKept'
  <2>1. Objects = {} => AllDone(0)' /\ AllDone(1)' /\ ObserversLast'
    BY <1>1 DEF AllDone, ObserversLast
  <2>2. rejected' = {} /\ mpc' \in {"returned", "list"} /\ (mpc' = "returned" => Objects = {})
    BY <1>1
  <2> QED BY <1>3, <1>7, <2>1, <2>2 DEF OrderKept
<1>9. OneWay => AnswersKept'
  <2> SUFFICES ASSUME OneWay PROVE AnswersKept'
    OBVIOUS
  <2>1. /\ mpc' # "single" /\ result' = NEVER /\ NEVER <= NEVER /\ ~failed'
        /\ Objects' = Objects
    BY <1>1, Times
  <2>2. mpc' = "returned" => earliest' = NEVER
    BY <1>1 DEF OutputKept
  <2> QED BY <1>3, <2>1, <2>2 DEF AnswersKept
<1>10. OneWay => OutputKept'
  <2>1. 0 \in ListNo /\ Objects' = Objects
    BY <1>1 DEF ListNo
  <2> QED BY <1>1, <1>3, <2>1 DEF OutputKept
<1> QED BY <1>4, <1>5, <1>6, <1>8, <1>9, <1>10

\* A step that makes an iterator or a thread, or waits, commits nothing.
LEMMA KeptInitIterator == ASSUME IInv, InitIterator PROVE Kept'
<1> USE DEF IInv, Kept
<1>1. /\ mpc = "list" /\ NeedsIterator /\ AtList(list)
      /\ UNCHANGED <<count, clock, list, result, todo, input, output, stop, wpc, enabled, data,
                     final, items, committed, earliest, failed, rejected>>
  BY DEF InitIterator, threads, history, AtList
<1>2. /\ Objects' = Objects
      /\ \A l : Crew(l)' = Crew(l)
      /\ \A w : Share(w)' = Share(w)
  BY <1>1, SizesFixed
<1>3. /\ mti[list] = "none" /\ ThreadCount # 1 /\ ~init_tried /\ list \in ListNo /\ ListNo = {0, 1}
      /\ count[list] \in Nat
  BY <1>1, CountType DEF NeedsIterator, TypeOK, ListNo
<1>4. mpc' \in {"list", "create"} /\ (\A l \in ListNo : (AtList(l)' <=> AtList(l)) /\ ~Active(l) /\ ~Active(l)')
  BY <1>1 DEF InitIterator, AtList, Active
<1>5. \/ count[list] = 0 /\ init_tried' = TRUE /\ mti' = mti /\ mpc' = mpc
      \/ /\ count[list] # 0 /\ mti' = [mti EXCEPT ![list] = "ready"] /\ init_tried' = init_tried
         /\ mpc' = IF Processes(count[list]) > 1 THEN "create" ELSE "list"
  BY DEF InitIterator
<1>6. /\ mti' \in {mti, [mti EXCEPT ![list] = "ready"]} /\ (mti' # mti => count[list] # 0)
      /\ (init_tried => init_tried')
  BY <1>3, <1>5
<1>7. \A l \in ListNo : /\ HasThreads(l) => HasThreads(l)'
                        /\ mti'[l] = "ready" => mti[l] = "ready" \/ (l = list /\ count[list] # 0)
                        /\ mti[l] = "ready" => mti'[l] = "ready"
                        /\ mti'[l] # mti[l] => l = list
  BY <1>1, <1>3, <1>6 DEF HasThreads, TypeOK
<1>8. IteratorKept'
  <2>1. \A l \in ListNo : /\ mti'[l] = "ready" => count[l] > 0 /\ ThreadCount # 1
                          /\ input[l] # NEVER \/ output[l] # NEVER => HasThreads(l)'
    BY <1>3, <1>7 DEF IteratorKept
  <2>2. list = 1 => mti[0] = "ready"
    BY <1>3 DEF IteratorKept
  <2>3. mti'[1] = "ready" => mti'[0] = "ready"
    BY <1>3, <1>7, <2>2 DEF IteratorKept
  <2>4. mpc' = "create" => HasThreads(list)'
    BY <1>1, <1>3, <1>5 DEF HasThreads, TypeOK
  <2> QED BY <1>1, <1>3, <1>4, <1>7, <2>1, <2>2, <2>3, <2>4 DEF IteratorKept
<1>9. ClockKept'
  BY <1>1, <1>4 DEF ClockKept, ListNo
<1>10. \A l \in ListNo : HasThreads(l)' /\ ~HasThreads(l) => l = list /\ input[l] = NEVER
  <2> SUFFICES ASSUME NEW l \in ListNo, HasThreads(l)', ~HasThreads(l)
               PROVE  l = list /\ input[l] = NEVER
    OBVIOUS
  <2>1. mti'[l] = "ready" /\ mti[l] # "ready"
    BY <1>1 DEF HasThreads
  <2> QED BY <1>7, <2>1 DEF IteratorKept
<1>11. ThreadsKept'
  <2>1. \A w \in Process : w[1] \in ListNo
    BY DEF Process
  <2>2. \A w \in Process : wpc[w] # "none" => HasThreads(w[1])' /\ w \in Crew(w[1])
    BY <1>7, <2>1 DEF ThreadsKept
  <2>3. \A w \in Process : wpc[w] # "commit" /\ wpc[w] # "stop"
    BY <1>4, <2>1 DEF ThreadsKept
  <2>4. \A w \in Process : ~HasThreads(w[1])' => data[w] = NEVER
    BY <1>7, <2>1 DEF ThreadsKept
  <2>5. ASSUME NEW l \in ListNo, HasThreads(l)', NEW w \in Crew(l) PROVE data[w] = input[l]
    <3>1. w \in Process /\ w[1] = l
      BY CrewSize DEF Crew
    <3>2. CASE HasThreads(l)
      BY <1>4, <3>2 DEF ThreadsKept
    <3>3. CASE ~HasThreads(l)
      BY <1>10, <2>5, <3>1, <3>3 DEF ThreadsKept
    <3> QED BY <3>2, <3>3
  <2> QED BY <1>1, <1>2, <1>4, <2>2, <2>3, <2>4, <2>5 DEF ThreadsKept
<1>12. /\ \A l : Untouched(l)' <=> Untouched(l)
       /\ \A l : AllDone(l)' <=> AllDone(l)
       /\ mpc' # "single" /\ mpc' # "returned" /\ mpc' # "idle" /\ mpc' # "over"
  BY <1>1, <1>2, <1>4 DEF Untouched, AllDone, InServiceNow
<1>13. OrderKept'
  <2>1. AtList(0)' => Untouched(0)' /\ Untouched(1)' /\ rejected = {}
    BY <1>3, <1>4, <1>12 DEF OrderKept
  <2>2. AtList(1)' => AllDone(0)' \/ 0 \in rejected
    BY <1>3, <1>4, <1>12 DEF OrderKept
  <2>3. 0 \in rejected => HasThreads(0)'
    BY <1>3, <1>7 DEF OrderKept
  <2>4. AtList(1)' /\ ~HasThreads(0)' => AllDone(1)'
    BY <1>3, <1>4, <1>7, <1>12 DEF OrderKept
  <2> QED BY <1>1, <1>3, <1>4, <1>12, <2>1, <2>2, <2>3, <2>4 DEF OrderKept
<1>14. OneWay => AnswersKept'
  BY <1>1, <1>3, <1>4, <1>12 DEF AnswersKept
<1>15. OneWay => OutputKept'
  BY <1>1, <1>3, <1>4, OutputFixed DEF ListNo
<1> QED BY <1>8, <1>9, <1>11, <1>13, <1>14, <1>15

LEMMA KeptCreate ==
  ASSUME IInv, NEW w \in Process, CreateThread(w) \/ Enable(w)
  PROVE  Kept'
<1> USE DEF IInv, Kept
<1>1. /\ w \in Crew(list) /\ mpc \in {"create", "enable"} /\ mpc' \in {"create", "enable"}
      /\ wpc' \in {wpc, [wpc EXCEPT ![w] = "enabled?"]}
      /\ UNCHANGED <<count, clock, list, result, todo, iterators, data, final, items, history, rejected>>
  BY DEF CreateThread, Enable
<1>2. UNCHANGED <<mti, init_tried, input, output, stop, committed, earliest, failed>>
  BY <1>1 DEF iterators, history
<1>3. /\ Objects' = Objects
      /\ \A l : Crew(l)' = Crew(l)
      /\ \A v : Share(v)' = Share(v)
  BY <1>1, SizesFixed
<1>4. /\ \A l : HasThreads(l)' = HasThreads(l)
      /\ \A l \in ListNo : (AtList(l)' <=> AtList(l)) /\ ~Active(l) /\ ~Active(l)'
      /\ list \in ListNo /\ w[1] = list /\ HasThreads(list)
  BY <1>1, <1>2 DEF HasThreads, AtList, Active, Crew, TypeOK, IteratorKept
<1>5. IteratorKept'
  BY <1>1, <1>2, <1>4 DEF IteratorKept
<1>6. ClockKept'
  BY <1>1, <1>2, <1>4 DEF ClockKept, ListNo
<1>7. \A v \in Process : /\ wpc'[v] # "none" => HasThreads(v[1]) /\ v \in Crew(v[1])
                         /\ wpc'[v] # "commit" /\ wpc'[v] # "stop"
  <2>1. \A v \in Process : v[1] \in ListNo /\ wpc[v] # "commit" /\ wpc[v] # "stop"
    BY <1>4 DEF ThreadsKept, Process
  <2> QED BY <1>1, <1>4, <2>1 DEF ThreadsKept, TypeOK
<1>8. ThreadsKept'
  BY <1>1, <1>2, <1>3, <1>4, <1>7 DEF ThreadsKept
<1>9. OrderKept'
  BY <1>1, <1>2, <1>3, <1>4 DEF OrderKept, Untouched, AllDone, InServiceNow, ListNo
<1>10. OneWay => AnswersKept'
  BY <1>1, <1>2, <1>4 DEF AnswersKept, ListNo
<1>11. OneWay => OutputKept'
  BY <1>1, <1>2, <1>4, OutputFixed DEF ListNo
<1> QED BY <1>5, <1>6, <1>8, <1>9, <1>10, <1>11

LEMMA KeptCreated == ASSUME IInv, Created PROVE Kept'
<1> USE DEF IInv, Kept
<1>1. /\ mpc = "create" /\ mpc' = "list"
      /\ UNCHANGED <<count, clock, list, result, todo, iterators, threads, history, rejected>>
  BY DEF Created
<1> USE ThreadsFixed
<1>2. UNCHANGED <<committed, earliest, failed>>
  BY <1>1 DEF history
<1>4. \A l \in ListNo : (AtList(l)' <=> AtList(l)) /\ ~Active(l) /\ ~Active(l)'
  BY <1>1 DEF AtList, Active
<1>5. IteratorKept'
  BY <1>1 DEF IteratorKept
<1>6. ClockKept'
  BY <1>1, <1>4 DEF ClockKept, ListNo
<1>7. ThreadsKept'
  BY <1>1, <1>4, ThreadsIdle
<1>8. OrderKept'
  BY <1>1, <1>2, <1>4 DEF OrderKept, Untouched, AllDone, InServiceNow, ListNo
<1>9. OneWay => AnswersKept'
  BY <1>1, <1>2, <1>4 DEF AnswersKept, ListNo
<1>10. OneWay => OutputKept'
  BY <1>1, <1>2, <1>4, OutputFixed DEF ListNo
<1> QED BY <1>5, <1>6, <1>7, <1>8, <1>9, <1>10

LEMMA KeptAwait == ASSUME IInv, AwaitThreads PROVE Kept'
<1> USE DEF IInv, Kept
<1>1. /\ mpc = "stopped?" /\ mpc' = "waiting"
      /\ UNCHANGED <<count, clock, list, result, todo, iterators, threads, history, rejected>>
  BY DEF AwaitThreads
<1> USE ThreadsFixed
<1>2. UNCHANGED <<committed, earliest, failed>>
  BY <1>1 DEF history
<1>4. \A l \in ListNo : ~AtList(l)' /\ ~AtList(l) /\ (Active(l)' <=> Active(l))
  BY <1>1 DEF AtList, Active
<1>5. IteratorKept'
  BY <1>1 DEF IteratorKept
<1>6. ClockKept'
  BY <1>1, <1>4 DEF ClockKept, ListNo
<1>7. ThreadsKept'
  BY <1>1, <1>4, ThreadsIdle
<1>8. OrderKept'
  BY <1>1, <1>2, <1>4 DEF OrderKept, Untouched, AllDone, InServiceNow, ListNo
<1>9. OneWay => AnswersKept'
  BY <1>1, <1>2, <1>4 DEF AnswersKept, ListNo, Held
<1>10. OneWay => OutputKept'
  BY <1>1, <1>2, <1>4, OutputFixed DEF ListNo
<1> QED BY <1>5, <1>6, <1>7, <1>8, <1>9, <1>10

\* A list that is rejected has threads, and nothing of it is committed.
LEMMA KeptReject == ASSUME IInv, Reject PROVE Kept'
<1> USE DEF IInv, Kept
<1>1. /\ mpc = "list" /\ ~NeedsIterator /\ Rejects(list) /\ result' = output[list]
      /\ rejected' = rejected \cup {list} /\ list' = 1 - list
      /\ mpc' = IF list = 0 THEN "list" ELSE "returned"
      /\ UNCHANGED <<count, clock, todo, iterators, threads, history>>
  BY DEF Reject, NextList
<1> USE ThreadsFixed
<1>2. UNCHANGED <<committed, earliest, failed>>
  BY <1>1 DEF history
<1>3. list \in {0, 1} /\ ListNo = {0, 1} /\ HasThreads(list) /\ output[list] > clock /\ clock > 0
      /\ clock \in Nat /\ output[list] \in 0 .. NEVER
  BY <1>1, Times DEF Rejects, IteratorKept, TypeOK, ListNo, ClockKept
<1>4. \A l \in ListNo : ~AtList(0)' /\ (AtList(1)' <=> list = 0) /\ ~Active(l) /\ ~Active(l)'
                        /\ AtList(list)
  BY <1>1, <1>3 DEF AtList, Active
<1>5. IteratorKept'
  BY <1>1, <1>3 DEF IteratorKept, HasThreads
<1>6. ClockKept'
  BY <1>1, <1>3, <1>4 DEF ClockKept
<1>7. ThreadsKept'
  BY <1>1, <1>4, ThreadsIdle
<1>8. /\ \A l : Untouched(l)' <=> Untouched(l)
      /\ \A l : AllDone(l)' <=> AllDone(l)
  BY <1>1, <1>2 DEF Untouched, AllDone, InServiceNow
<1>9. OrderKept'
  <2>1. 0 \in rejected' => HasThreads(0)'
    BY <1>1, <1>3 DEF OrderKept
  <2>2. CASE list = 0
    <3>1. AtList(1)' /\ 0 \in rejected' /\ HasThreads(0)' /\ mpc' = "list"
      BY <1>1, <1>3, <1>4, <2>2
    <3> QED BY <1>3, <1>4, <2>1, <3>1 DEF OrderKept
  <2>3. CASE list = 1
    <3>1. mpc' = "returned" /\ ~AtList(1)' /\ HasThreads(1)'
      BY <1>1, <1>3, <1>4, <2>3
    <3>2. AllDone(0) \/ 0 \in rejected
      BY <1>3, <1>4, <2>3 DEF OrderKept
    <3>3. AllDone(0)' \/ 0 \in rejected'
      BY <1>1, <1>8, <3>2
    <3>4. ObserversLast'
      BY <3>3 DEF ObserversLast, AllDone
    <3> QED BY <1>3, <1>4, <2>1, <3>1, <3>3, <3>4 DEF OrderKept
  <2> QED BY <1>3, <2>2, <2>3
<1>10. OneWay => AnswersKept'
  <2> SUFFICES ASSUME OneWay PROVE AnswersKept'
    OBVIOUS
  <2>1. list = 0
    BY <1>3, OneList
  <2>2. ~failed /\ output[0] <= earliest /\ output[0] # NEVER
    BY <1>1, <1>3, <1>4, <2>1, Times DEF AnswersKept, OutputKept, Rejects
  <2> QED BY <1>1, <1>2, <1>3, <1>4, <2>1, <2>2 DEF AnswersKept
<1>11. OneWay => OutputKept'
  <2> SUFFICES ASSUME OneWay PROVE OutputKept'
    OBVIOUS
  <2>1. list = 0
    BY <1>3, OneList
  <2>2. /\ output[0] <= earliest /\ output[0] > clock /\ output[0] \in Nat
        /\ earliest \in 0 .. NEVER
    BY <1>1, <1>3, <1>4, <2>1, Times DEF OutputKept, Rejects, TypeOK
  <2>3. clock < earliest
    BY <1>3, <2>2, Times
  <2> QED BY <1>1, <1>2, <2>2, <2>3 DEF OutputKept
<1> QED BY <1>5, <1>6, <1>7, <1>9, <1>10, <1>11

\* The threads of the list start: all of them owe their share.
LEMMA KeptStart == ASSUME IInv, StartThreads PROVE Kept'
<1> USE DEF IInv, Kept
<1>1. /\ mpc = "list" /\ HasThreads(list) /\ mpc' = "stopped?"
      /\ stop' = [stop EXCEPT ![list] = Cardinality(Crew(list))]
      /\ input' = [input EXCEPT ![list] = clock]
      /\ output' = [output EXCEPT ![list] = NEVER]
      /\ wpc' = [w \in Process |-> IF w[1] = list /\ wpc[w] = "waiting" THEN "started?" ELSE wpc[w]]
      /\ UNCHANGED <<count, clock, list, result, todo, mti, init_tried, enabled, data, final, items,
                     committed, failed, rejected>>
      /\ earliest' = NEVER
  BY DEF StartThreads
<1>2. /\ Objects' = Objects
      /\ \A l : Crew(l)' = Crew(l) /\ HasThreads(l)' = HasThreads(l)
      /\ \A v : Share(v)' = Share(v)
  BY <1>1, SizesFixed DEF HasThreads
<1>3. /\ list \in ListNo /\ ListNo = {0, 1} /\ clock > 0 /\ clock \in Nat /\ clock # NEVER
      /\ input'[list] = clock /\ output'[list] = NEVER /\ stop'[list] = Cardinality(Crew(list))
      /\ \A l \in ListNo : l # list => input'[l] = input[l] /\ output'[l] = output[l] /\ stop'[l] = stop[l]
  BY <1>1, Times DEF TypeOK, ListNo, ClockKept
<1>4. \A l \in ListNo : (Active(l)' <=> l = list) /\ ~Active(l) /\ ~AtList(l)' /\ (AtList(l) <=> l = list)
  BY <1>1, <1>3 DEF AtList, Active
<1>5. IteratorKept'
  BY <1>1, <1>2, <1>3 DEF IteratorKept
<1>6. ClockKept'
  <2>1. list = 0 => input[1] # clock
    BY <1>3, <1>4 DEF ClockKept
  <2> QED BY <1>1, <1>3, <1>4, <2>1 DEF ClockKept
<1>7. \A w \in Crew(list) : data[w] # input'[list]
  <2>1. input[list] # clock /\ \A w \in Crew(list) : data[w] = input[list]
    BY <1>1, <1>3, <1>4 DEF ClockKept, ThreadsKept
  <2> QED BY <1>3, <2>1
<1>8. \A v \in Process : /\ v[1] \in ListNo /\ wpc[v] # "commit" /\ wpc[v] # "stop"
                         /\ wpc'[v] # "commit" /\ wpc'[v] # "stop"
                         /\ (wpc'[v] # "none" => wpc[v] # "none")
  <2>1. \A v \in Process : v[1] \in ListNo /\ wpc[v] # "commit" /\ wpc[v] # "stop"
    BY <1>4 DEF ThreadsKept, Process
  <2> QED BY <1>1, <2>1
<1>9. ThreadsKept'
  <2>1. Owing(list)' = Crew(list)
    BY <1>1, <1>2, <1>7 DEF Owing
  <2>2. \A l \in ListNo : HasThreads(l)' =>
          IF Active(l)' THEN stop'[l] = Cardinality(Owing(l)')
                        ELSE \A w \in Crew(l)' : data'[w] = input'[l]
    BY <1>1, <1>2, <1>3, <1>4, <2>1 DEF ThreadsKept
  <2>3. \A w \in Process : wpc'[w] # "none" => HasThreads(w[1])' /\ w \in Crew(w[1])'
    BY <1>2, <1>8 DEF ThreadsKept
  <2>4. \A w \in Process : ~HasThreads(w[1])' => data'[w] = NEVER
    BY <1>1, <1>2 DEF ThreadsKept
  <2> QED BY <1>8, <2>2, <2>3, <2>4 DEF ThreadsKept
<1>10. /\ \A l : Untouched(l)' <=> Untouched(l)
       /\ \A l : AllDone(l)' <=> AllDone(l)
  BY <1>1, <1>2 DEF Untouched, AllDone, InServiceNow
<1>11. OrderKept'
  <2>1. ASSUME list = 0, NEW w \in Crew(0), NEW o \in Share(w)
        PROVE  committed'[o] = IF InServiceNow(o)' /\ Passed(w, o)' THEN 1 ELSE 0
    <3>1. o \in Objects /\ o[1] = 0 /\ w[1] = 0 /\ w \in Process
      BY CrewSize, <1>3 DEF Share, Crew
    <3>2. committed[o] = 0
      BY <1>3, <1>4, <2>1, <3>1 DEF OrderKept, Untouched
    <3>3. ~Passed(w, o)'
      BY <1>1, <1>7, <1>8, <2>1, <3>1 DEF Passed
    <3> QED BY <1>1, <3>2, <3>3
  <2>2. CASE list = 0
    <3>1. Untouched(1)' /\ rejected' = {}
      BY <1>1, <1>3, <1>4, <1>10, <2>2 DEF OrderKept
    <3> QED BY <1>1, <1>2, <1>3, <1>4, <2>1, <2>2, <3>1 DEF OrderKept
  <2>3. CASE list = 1
    <3>1. AllDone(0)' \/ 0 \in rejected'
      BY <1>1, <1>3, <1>4, <1>10, <2>3 DEF OrderKept
    <3>2. ~Active(0)' /\ ~AtList(0)' /\ ~AtList(1)' /\ (0 \in rejected' => HasThreads(0)')
      BY <1>1, <1>2, <1>3, <1>4, <2>3 DEF OrderKept
    <3> QED BY <1>1, <3>1, <3>2 DEF OrderKept
  <2> QED BY <1>3, <2>2, <2>3
<1>12. OneWay => AnswersKept'
  <2> SUFFICES ASSUME OneWay PROVE AnswersKept'
    OBVIOUS
  <2>1. list = 0
    BY <1>1, <1>3, OneList
  <2>2. ~failed
    BY <1>4, <2>1 DEF AnswersKept, ListNo
  <2>3. Held(earliest)'
    BY <1>1, <1>3, <2>1, Times DEF Held
  <2> QED BY <1>1, <1>3, <1>4, <2>1, <2>2, <2>3 DEF AnswersKept
<1>13. OneWay => OutputKept'
  <2>1. OneWay => Active(0)' /\ ~AtList(1)'
    BY <1>1, <1>3, <1>4, OneList
  <2> QED BY <1>1, <2>1 DEF OutputKept
<1> QED BY <1>5, <1>6, <1>9, <1>11, <1>12, <1>13

\* A list is left when no thread owes its share: then each of its objects has
\* been committed, and every answer is in the output.
LEMMA KeptGather == ASSUME IInv, GatherThreads PROVE Kept'
<1> USE DEF IInv, Kept
<1>1. /\ mpc = "stopped?" /\ Stopped /\ result' = output[list] /\ list' = 1 - list
      /\ mpc' = IF list = 0 THEN "list" ELSE "returned"
      /\ UNCHANGED <<count, clock, todo, iterators, threads, history, rejected>>
  BY DEF GatherThreads, NextList
<1> USE ThreadsFixed
<1>2. UNCHANGED <<committed, earliest, failed>>
  BY <1>1 DEF history
<1>3. /\ list \in {0, 1} /\ ListNo = {0, 1} /\ HasThreads(list) /\ Active(list) /\ input[list] = clock
      /\ clock \in Nat /\ list \in ListNo
  BY <1>1 DEF IteratorKept, TypeOK, ListNo, ClockKept, Active
<1>4. \A l \in ListNo : ~AtList(0)' /\ (AtList(1)' <=> list = 0) /\ ~Active(l)'
                        /\ ~AtList(l) /\ (Active(l) <=> l = list)
  BY <1>1, <1>3 DEF AtList, Active
<1>5. Owing(list) = {}
  <2>1. IsFiniteSet(Owing(list))
    BY <1>3, CrewSize, FS_Subset DEF Owing
  <2>2. Cardinality(Owing(list)) = 0
    BY <1>1, <1>3 DEF ThreadsKept, Stopped
  <2> QED BY <2>1, <2>2, FS_EmptySet
<1>6. \A w \in Crew(list) : data[w] = input[list] /\ wpc[w] # "stop" /\ wpc[w] # "commit"
  <2>1. \A w \in Crew(list) : w \in Process /\ w[1] = list
    BY <1>3, CrewSize DEF Crew
  <2> QED BY <1>5, <2>1 DEF Owing, ThreadsKept
<1>7. IteratorKept'
  BY <1>1, <1>3 DEF IteratorKept, HasThreads
<1>8. ClockKept'
  BY <1>1, <1>3, <1>4 DEF ClockKept
<1>9. ThreadsKept'
  <2>1. \A w \in Process : w[1] \in ListNo /\ wpc[w] # "stop" /\ wpc[w] # "commit"
    <3>1. \A w \in Process : w[1] \in ListNo
      BY DEF Process
    <3>2. \A w \in Process : wpc[w] # "none" /\ w[1] = list => w \in Crew(list)
      BY DEF ThreadsKept
    <3> QED BY <1>4, <1>6, <3>1, <3>2 DEF ThreadsKept
  <2>2. \A l \in ListNo : HasThreads(l) => \A w \in Crew(l) : data[w] = input[l]
    BY <1>4, <1>6 DEF ThreadsKept
  <2> QED BY <1>1, <1>4, <2>1, <2>2 DEF ThreadsKept
<1>10. /\ \A l : Untouched(l)' <=> Untouched(l)
       /\ \A l : AllDone(l)' <=> AllDone(l)
  BY <1>1, <1>2 DEF Untouched, AllDone, InServiceNow
<1>11. OrderKept'
  <2>1. CASE list = 0
    <3>1. AllDone(0)
      <4> SUFFICES ASSUME NEW o \in Objects, o[1] = 0, InServiceNow(o) PROVE committed[o] = 1
        BY DEF AllDone
      <4>1. PICK w \in Crew(0) : o \in Share(w)
        BY <1>3, <2>1, OwnShare
      <4>2. Passed(w, o)
        BY <1>3, <1>6, <2>1, <4>1 DEF Passed, Crew
      <4> QED BY <1>3, <2>1, <4>1, <4>2 DEF OrderKept
    <3>2. AtList(1)' /\ mpc' = "list" /\ HasThreads(0)'
      BY <1>1, <1>3, <1>4, <2>1
    <3> QED BY <1>3, <1>4, <1>10, <3>1, <3>2 DEF OrderKept
  <2>2. CASE list = 1
    <3>1. AllDone(0) \/ 0 \in rejected
      BY <1>3, <2>2 DEF OrderKept
    <3>2. AllDone(0)' \/ 0 \in rejected'
      BY <1>1, <1>10, <3>1
    <3>3. ObserversLast'
      BY <3>2 DEF ObserversLast, AllDone
    <3>4. mpc' = "returned" /\ ~AtList(1)' /\ HasThreads(1)' /\ (0 \in rejected' => HasThreads(0)')
      BY <1>1, <1>3, <1>4, <2>2 DEF OrderKept
    <3> QED BY <1>3, <1>4, <3>2, <3>3, <3>4 DEF OrderKept
  <2> QED BY <1>3, <2>1, <2>2
<1>12. OneWay => AnswersKept'
  <2> SUFFICES ASSUME OneWay PROVE AnswersKept'
    OBVIOUS
  <2>1. list = 0
    BY <1>3, OneList
  <2>2. Held(earliest) /\ (failed => Held(INVALID))
    BY <1>3, <2>1 DEF AnswersKept
  <2>3. output[0] <= earliest /\ (failed => output[0] <= INVALID)
    BY <1>6, <2>1, <2>2 DEF Held
  <2>4. failed => output[0] = INVALID
    BY <2>3, Times DEF TypeOK, ListNo
  <2> QED BY <1>1, <1>2, <1>3, <1>4, <2>1, <2>3, <2>4 DEF AnswersKept
<1>13. OneWay => OutputKept'
  <2> SUFFICES ASSUME OneWay PROVE OutputKept'
    OBVIOUS
  <2>1. list = 0
    BY <1>3, OneList
  <2>2. Held(earliest) /\ rejected = {} /\ Objects' = Objects
    BY <1>1, <1>3, <2>1 DEF AnswersKept, OrderKept
  <2>3. output[0] <= earliest
    BY <1>6, <2>1, <2>2 DEF Held
  <2> QED BY <1>1, <1>2, <2>2, <2>3 DEF OutputKept
<1> QED BY <1>7, <1>8, <1>9, <1>11, <1>12, <1>13

LEMMA KeptBoth == ASSUME IInv, CommitBoth PROVE Kept'
<1> USE DEF IInv, Kept
<1>1. /\ mpc = "list" /\ ~NeedsIterator /\ ~HasThreads(list)
      /\ IF list = 0 THEN todo' = Objects /\ mpc' = "single" /\ list' = list /\ earliest' = NEVER
                     ELSE /\ list' = 1 - list /\ mpc' = "returned" /\ todo' = todo
                          /\ earliest' = earliest
      /\ UNCHANGED <<count, clock, result, iterators, threads, committed, failed, rejected>>
  BY DEF CommitBoth, NextList
<1> USE ThreadsFixed
<1>2. UNCHANGED <<committed, failed>>
  BY <1>1
<1>3. /\ list \in {0, 1} /\ ListNo = {0, 1} /\ AtList(list) /\ clock \in Nat /\ clock < NEVER /\ list' = 0
  BY <1>1, Times DEF TypeOK, ListNo, AtList
<1>4. \A l \in ListNo : ~AtList(l)' /\ ~Active(l)' /\ ~Active(l) /\ (AtList(l) <=> l = list)
  BY <1>1, <1>3 DEF AtList, Active
<1>5. IteratorKept'
  <2>1. list = 0 => mti[0] = "ready" \/ init_tried \/ ThreadCount = 1
    BY <1>1 DEF NeedsIterator, TypeOK, ListNo
  <2> QED BY <1>1, <1>3, <2>1 DEF IteratorKept
<1>6. ClockKept'
  BY <1>1, <1>3, <1>4 DEF ClockKept
<1>7. ThreadsKept'
  BY <1>1, <1>4, ThreadsIdle
<1>8. /\ \A l : Untouched(l)' <=> Untouched(l)
      /\ \A l : AllDone(l)' <=> AllDone(l)
  BY <1>1, <1>2 DEF Untouched, AllDone, InServiceNow
<1>9. OrderKept'
  <2>1. CASE list = 0
    <3>1. mpc' = "single" /\ rejected' = {} /\ todo' = Objects
      BY <1>1, <1>3, <2>1 DEF OrderKept
    <3>2. \A o \in Objects : committed[o] = 0
      BY <1>3, <2>1, CountType DEF OrderKept, Untouched, ListNo
    <3>3. Objects' = Objects
      BY <1>1
    <3>4. \A o \in Objects : committed'[o] = 0
      BY <1>2, <3>2
    <3> QED BY <1>3, <1>4, <3>1, <3>3, <3>4 DEF OrderKept
  <2>2. CASE list = 1
    <3>1. mpc' = "returned" /\ (AllDone(0)' \/ 0 \in rejected') /\ (0 \in rejected' => HasThreads(0)')
      BY <1>1, <1>3, <1>8, <2>2 DEF OrderKept
    <3>2. ObserversLast'
      BY <3>1 DEF ObserversLast, AllDone
    <3>3. ~HasThreads(0)' => AllDone(1)'
      BY <1>1, <1>3, <1>8, <2>2 DEF OrderKept
    <3> QED BY <1>3, <1>4, <3>1, <3>2, <3>3 DEF OrderKept
  <2> QED BY <1>3, <2>1, <2>2
<1>10. OneWay => AnswersKept'
  <2> SUFFICES ASSUME OneWay PROVE AnswersKept'
    OBVIOUS
  <2>1. CASE list = 0
    <3>1. result' = NEVER /\ earliest' = NEVER /\ ~failed' /\ mpc' = "single"
      BY <1>1, <1>2, <1>3, <2>1 DEF AnswersKept
    <3>2. NEVER <= NEVER /\ clock' < NEVER
      BY <1>1, <1>3, Times
    <3> QED BY <1>3, <1>4, <3>1, <3>2 DEF AnswersKept
  <2>2. CASE list = 1
    <3>1. result <= earliest /\ (failed => result = INVALID)
      BY <1>3, <2>2 DEF AnswersKept
    <3> QED BY <1>1, <1>2, <1>3, <1>4, <2>2, <3>1 DEF AnswersKept
  <2> QED BY <1>3, <2>1, <2>2
<1>11. OneWay => OutputKept'
  <2> SUFFICES ASSUME OneWay PROVE OutputKept'
    OBVIOUS
  <2>1. CASE list = 0
    <3>1. output[0] <= NEVER
      BY <1>3, Times DEF TypeOK
    <3> QED BY <1>1, <1>3, <1>4, <2>1, <3>1 DEF OutputKept
  <2>2. CASE list = 1
    BY <1>1, <1>3, <1>4, <2>2, OutputFixed
  <2> QED BY <1>3, <2>1, <2>2
<1> QED BY <1>5, <1>6, <1>7, <1>9, <1>10, <1>11

LEMMA KeptEndSingle == ASSUME IInv, EndSingle PROVE Kept'
<1> USE DEF IInv, Kept
<1>1. /\ mpc = "single" /\ todo = {} /\ list = 0 /\ ~HasThreads(0) /\ list' = 1 /\ mpc' = "list"
      /\ UNCHANGED <<count, clock, result, todo, iterators, threads, history, rejected>>
  BY DEF EndSingle, NextList, IteratorKept
<1> USE ThreadsFixed
<1>2. UNCHANGED <<committed, earliest, failed>>
  BY <1>1 DEF history
<1>3. ListNo = {0, 1}
  BY DEF ListNo
<1>4. \A l \in ListNo : ~AtList(0)' /\ ~Active(l)' /\ ~Active(l) /\ ~AtList(l) /\ AtList(1)'
  BY <1>1 DEF AtList, Active
<1>8. /\ \A l : Untouched(l)' <=> Untouched(l)
      /\ \A l : AllDone(l)' <=> AllDone(l)
  BY <1>1, <1>2 DEF Untouched, AllDone, InServiceNow
<1>9. OrderKept'
  <2>1. rejected = {} /\ AllDone(0) /\ AllDone(1)
    BY <1>1 DEF OrderKept, AllDone
  <2> QED BY <1>1, <1>3, <1>4, <1>8, <2>1 DEF OrderKept
<1>5. IteratorKept'
  BY <1>1, <1>3 DEF IteratorKept
<1>6. ClockKept'
  BY <1>1, <1>3, <1>4 DEF ClockKept
<1>7. ThreadsKept'
  BY <1>1, <1>4, ThreadsIdle
<1>10. OneWay => AnswersKept'
  BY <1>1, <1>2, <1>3, <1>4 DEF AnswersKept
<1>11. OneWay => OutputKept'
  <2>1. rejected = {}
    BY <1>1 DEF OrderKept
  <2> QED BY <1>1, <1>2, <1>3, <1>4, <2>1, OutputFixed
<1> QED BY <1>5, <1>6, <1>7, <1>9, <1>10, <1>11

LEMMA KeptReturn == ASSUME IInv, Return PROVE Kept'
<1> USE DEF IInv, Kept
<1>1. /\ mpc = "returned" /\ mpc' \in {"over", "idle"} /\ todo' = {}
      /\ UNCHANGED <<count, clock, list, result, iterators, threads, history, rejected>>
  BY DEF Return
<1> USE ThreadsFixed
<1>2. UNCHANGED <<committed, earliest, failed>>
  BY <1>1 DEF history
<1>4. \A l \in ListNo : ~AtList(l)' /\ ~Active(l)' /\ ~Active(l) /\ ~AtList(l)
  BY <1>1 DEF AtList, Active
<1>3. ListNo = {0, 1}
  BY DEF ListNo
<1>5. IteratorKept'
  BY <1>1 DEF IteratorKept
<1>6. ClockKept'
  BY <1>1, <1>3, <1>4 DEF ClockKept
<1>7. ThreadsKept'
  BY <1>1, <1>4, ThreadsIdle
<1>8. ObserversLast'
  BY <1>1, <1>2 DEF OrderKept, ObserversLast, InServiceNow
<1>9. OrderKept'
  BY <1>1, <1>3, <1>4, <1>8 DEF OrderKept
<1>10. OneWay => AnswersKept'
  BY <1>1, <1>3, <1>4 DEF AnswersKept
<1>11. OneWay => OutputKept'
  BY <1>1, <1>2, <1>3, <1>4, OutputFixed
<1> QED BY <1>5, <1>6, <1>7, <1>9, <1>10, <1>11

\* The main thread commits one object; the ordinary ones come first.
LEMMA KeptSingle == ASSUME IInv, NEW o \in Objects, CommitSingle(o) PROVE Kept'
<1> USE DEF IInv, Kept
<1>1. /\ mpc = "single" /\ list = 0 /\ ~HasThreads(0) /\ FirstObject(o) /\ todo' = todo \ {o}
      /\ UNCHANGED <<count, clock, list, iterators, threads, rejected>>
  BY DEF CommitSingle, IteratorKept
<1> USE ThreadsFixed
<1>2. mpc' \in {"single", "returned"}
  <2>1. mpc' = mpc \/ mpc' = "returned"
    BY SingleCases DEF SingleAnswer
  <2> QED BY <1>1, <2>1
<1>3. ListNo = {0, 1} /\ o \in todo /\ (o[1] = 1 => \A p \in todo : p[1] = 1)
  <2>1. \A p \in todo : p \in Objects /\ p[1] \in {0, 1}
    BY CountType DEF TypeOK, ListNo
  <2> QED BY <1>1, <2>1, CountType DEF FirstObject, ListNo
<1>4. \A l \in ListNo : ~AtList(l)' /\ ~Active(l)' /\ ~Active(l) /\ ~AtList(l)
  BY <1>1, <1>2 DEF AtList, Active
<1>5. IteratorKept'
  BY <1>1, <1>2 DEF IteratorKept
<1>6. ClockKept'
  BY <1>1, <1>2, <1>3, <1>4 DEF ClockKept
<1>7. ThreadsKept'
  BY <1>1, <1>4, ThreadsIdle
<1>8. rejected = {} /\ (\A p \in Objects : committed[p] = IF p \notin todo /\ InServiceNow(p) THEN 1 ELSE 0)
      /\ (\A p \in Objects \ todo : p[1] = 1 => \A q \in todo : q[1] = 1)
  BY <1>1 DEF OrderKept
<1>9. /\ \A p \in Objects : committed'[p] = IF p \notin todo' /\ InServiceNow(p) THEN 1 ELSE 0
      /\ \A p \in Objects \ todo' : p[1] = 1 => \A q \in todo' : q[1] = 1
      /\ \A p : InServiceNow(p)' <=> InServiceNow(p)
  <2>1. \A p : InServiceNow(p)' <=> InServiceNow(p)
    BY <1>1 DEF InServiceNow
  <2>2. \A p \in Objects \ todo' : p[1] = 1 => \A q \in todo' : q[1] = 1
    BY <1>1, <1>3, <1>8
  <2>3. CASE ~InServiceNow(o) /\ committed' = committed
    BY <1>1, <1>8, <2>1, <2>2, <2>3
  <2>4. CASE InServiceNow(o) /\ committed' = [committed EXCEPT ![o] = @ + 1]
    <3>1. committed[o] = 0 /\ committed'[o] = 1 /\ \A p \in Objects \ {o} : committed'[p] = committed[p]
      BY <1>3, <1>8, <2>4 DEF TypeOK
    <3>2. \A p \in Objects : committed'[p] = IF p \notin todo' /\ InServiceNow(p) THEN 1 ELSE 0
      BY <1>1, <1>8, <2>4, <3>1
    <3> QED BY <2>1, <2>2, <3>2
  <2> QED BY <2>3, <2>4, SingleCases DEF Committed
<1>10. OrderKept'
  <2>1. ObserversLast'
    <3> SUFFICES ASSUME NEW p \in Objects, p[1] = 1, committed'[p] > 0,
                        NEW q \in Objects, q[1] = 0, InServiceNow(q)
                 PROVE  committed'[q] = 1
      BY <1>1, <1>9 DEF ObserversLast
    <3>1. p \notin todo'
      BY <1>9
    <3>2. q \notin todo'
      BY <1>9, <3>1
    <3> QED BY <1>9, <3>2
  <2>2. mpc' = "returned" => result' = INVALID
    BY <1>1, SingleCases DEF SingleAnswer
  <2>3. Objects' = Objects /\ rejected' = {}
    BY <1>1, <1>8
  <2> QED BY <1>2, <1>3, <1>4, <1>9, <2>1, <2>2, <2>3 DEF OrderKept
<1>11. OneWay => AnswersKept'
  <2> SUFFICES ASSUME OneWay PROVE AnswersKept'
    OBVIOUS
  <2>1. /\ result \in 0 .. NEVER /\ earliest \in 0 .. NEVER /\ clock \in Nat /\ NEVER \in Nat
        /\ result <= earliest /\ ~failed /\ clock < result /\ InSvc(o) \in 0 .. NEVER
    BY <1>1, Times DEF AnswersKept, TypeOK
  <2>2. ASSUME UNCHANGED <<mpc, committed, failed>>,
               \/ UNCHANGED <<result, earliest>>
               \/ /\ clock < InSvc(o) /\ result' = Min2(result, InSvc(o))
                  /\ earliest' = Min2(earliest, InSvc(o))
               \/ /\ clock = InSvc(o) /\ result = InSvc(o) /\ result' = InSvc(o) + 1
                  /\ UNCHANGED earliest
        PROVE  AnswersKept'
    <3>1. result' <= earliest' /\ clock < result'
      <4>1. ~(result = InSvc(o) /\ clock = InSvc(o))
        BY <2>1
      <4>2. \/ UNCHANGED <<result, earliest>>
            \/ /\ clock < InSvc(o) /\ result' = Min2(result, InSvc(o))
               /\ earliest' = Min2(earliest, InSvc(o))
        BY <4>1, <2>2
      <4>3. \A t \in {result, earliest} :
              /\ Min2(t, InSvc(o)) \in {t, InSvc(o)} /\ Min2(t, InSvc(o)) \in Nat
              /\ Min2(t, InSvc(o)) <= t /\ Min2(t, InSvc(o)) <= InSvc(o)
        BY <2>1, MinTime
      <4> QED BY <2>1, <4>2, <4>3
    <3>2. ~failed' /\ mpc' = "single" /\ clock' < result'
      BY <1>1, <2>1, <2>2, <3>1
    <3> QED BY <1>3, <1>4, <3>1, <3>2 DEF AnswersKept
  <2>3. ASSUME NEW a \in Commits, Committed(o, a), SingleAnswer(a) PROVE AnswersKept'
    <3>1. a \in 0 .. NEVER /\ (a \in {INVALID, OLD} \/ a > clock)
      BY AnswerTimes
    <3>2. CASE a = INVALID
      <4>1. mpc' = "returned" /\ result' = INVALID
        BY <2>3, <3>2 DEF SingleAnswer
      <4>2. earliest' \in Nat
        BY <2>3, CommittedType, Times
      <4> QED BY <1>3, <1>4, <4>1, <4>2, Times DEF AnswersKept
    <3>3. CASE a # INVALID
      <4> DEFINE b == IF a = OLD THEN NEVER ELSE a
      <4>1. mpc' = "single" /\ result' = Min2(result, b)
        BY <1>1, <2>3, <3>3 DEF SingleAnswer
      <4>2. b \in 0 .. NEVER /\ clock < b
        BY <1>1, <2>1, <3>1, <3>3, Times DEF TypeOK
      <4>3. result' <= result /\ result' <= b /\ clock < result' /\ result' \in Nat
        <5> HIDE DEF b
        <5>1. /\ Min2(result, b) \in 0 .. NEVER /\ Min2(result, b) \in {result, b}
              /\ Min2(result, b) <= result /\ Min2(result, b) <= b
          BY <2>1, <4>2, MinTime
        <5> QED BY <2>1, <4>1, <4>2, <5>1
      <4>4. earliest' = (IF a = OLD THEN earliest ELSE Min2(earliest, a)) /\ ~failed'
        BY <2>1, <2>3, <3>3 DEF Committed
      <4>5. result' <= earliest'
        <5>1. Min2(earliest, a) \in {earliest, a}
          BY <2>1, <3>1, MinTime
        <5> QED BY <2>1, <3>1, <4>3, <4>4, <5>1
      <4> QED BY <1>1, <1>3, <1>4, <4>1, <4>3, <4>4, <4>5 DEF AnswersKept
    <3> QED BY <3>2, <3>3
  <2> QED BY <2>2, <2>3, SingleCases
<1>12. OneWay => OutputKept'
  <2>1. output[0] = NEVER /\ Objects' = Objects /\ o \in Objects /\ rejected' = {} /\ output' = output
    BY <1>1, <1>3, <1>8 DEF IteratorKept
  <2> QED BY <2>1 DEF OutputKept
<1> QED BY <1>5, <1>6, <1>7, <1>10, <1>11, <1>12
---------------------------------------------------------------------------
(* The threads *)

\* What no step of a thread changes: the lists, and where the main thread is,
\* but for waking it.
LEMMA ThreadFrame ==
  ASSUME TypeOK, NEW w \in Process, ThreadStep(w)
  PROVE  /\ Objects' = Objects
         /\ \A l : Crew(l)' = Crew(l) /\ HasThreads(l)' = HasThreads(l)
         /\ \A v : Share(v)' = Share(v)
         /\ \A o : InServiceNow(o)' <=> InServiceNow(o)
         /\ \A l \in ListNo : (AtList(l)' <=> AtList(l)) /\ (Active(l)' <=> Active(l))
         /\ ListNo = {0, 1} /\ w[1] \in ListNo
         /\ mpc' = mpc \/ (mpc = "waiting" /\ mpc' = "stopped?")
         /\ UNCHANGED <<count, clock, list, result, todo, mti, init_tried, input, enabled, rejected>>
<1>1. UNCHANGED <<count, clock, list, result, todo, mti, init_tried, input, enabled, rejected>>
  BY DEF ThreadStep, TestEnabled, TestStarted, CommitItem, UpdateData, StopThread, ThreadUnchanged
<1>2. mpc' = mpc \/ (mpc = "waiting" /\ mpc' = "stopped?")
  BY DEF ThreadStep, TestEnabled, TestStarted, CommitItem, UpdateData, StopThread, Woken
<1>3. /\ Objects' = Objects
      /\ \A l : Crew(l)' = Crew(l)
      /\ \A v : Share(v)' = Share(v)
  BY <1>1, SizesFixed
<1>4. /\ \A l : HasThreads(l)' = HasThreads(l)
      /\ \A o : InServiceNow(o)' <=> InServiceNow(o)
      /\ \A l \in ListNo : (AtList(l)' <=> AtList(l)) /\ (Active(l)' <=> Active(l))
  BY <1>1, <1>2 DEF HasThreads, InServiceNow, AtList, Active
<1> QED BY <1>1, <1>2, <1>3, <1>4 DEF ListNo, Process

LEMMA ThreadIterators ==
  ASSUME IInv, NEW w \in Process, ThreadStep(w),
         \A l \in ListNo : output'[l] # output[l] => HasThreads(l)
  PROVE  IteratorKept' /\ ClockKept'
<1> USE ThreadFrame DEF IInv, Kept
<1>1. \A l \in ListNo : output'[l] # NEVER => HasThreads(l)
  BY DEF IteratorKept
<1>2. IteratorKept'
  BY <1>1 DEF IteratorKept
<1>3. ClockKept'
  BY DEF ClockKept
<1> QED BY <1>2, <1>3

\* A step after which the same has been committed of each list.
LEMMA ThreadOrder ==
  ASSUME IInv, NEW w \in Process, ThreadStep(w), UNCHANGED committed,
         Active(0) => \A v \in Crew(0) : \A o \in Share(v) : Passed(v, o)' <=> Passed(v, o)
  PROVE  OrderKept'
<1> USE ThreadFrame DEF IInv, Kept
<1>1. /\ \A l : Untouched(l)' <=> Untouched(l)
      /\ \A l : AllDone(l)' <=> AllDone(l)
      /\ ObserversLast' <=> ObserversLast
  BY DEF Untouched, AllDone, ObserversLast
<1>2. /\ AtList(0)' => Untouched(0)' /\ Untouched(1)' /\ rejected' = {}
      /\ 0 \in rejected' => HasThreads(0)'
      /\ AtList(1)' /\ ~HasThreads(0)' => AllDone(1)'
      /\ AtList(1)' \/ Active(1)' => AllDone(0)' \/ 0 \in rejected'
  BY <1>1 DEF OrderKept
<1>3. /\ mpc' \in {"idle", "returned", "over"} => ObserversLast'
      /\ mpc' = "returned" /\ result' # INVALID => AllDone(0)' \/ 0 \in rejected'
      /\ mpc' = "returned" /\ result' # INVALID /\ ~HasThreads(0)' /\ ~HasThreads(1)' => AllDone(1)'
  BY <1>1 DEF OrderKept
<1>4. mpc' = "single" =>
        /\ rejected' = {}
        /\ \A o \in Objects' : committed'[o] = IF o \notin todo' /\ InServiceNow(o)' THEN 1 ELSE 0
        /\ \A o \in Objects' \ todo' : o[1] = 1 => \A p \in todo' : p[1] = 1
  BY DEF OrderKept
<1>5. Active(0)' =>
        /\ Untouched(1)' /\ rejected' = {}
        /\ \A v \in Crew(0)' : \A o \in Share(v)' :
             committed'[o] = IF InServiceNow(o)' /\ Passed(v, o)' THEN 1 ELSE 0
  BY <1>1 DEF OrderKept
<1> QED BY <1>2, <1>3, <1>4, <1>5 DEF OrderKept

\* A step without an answer, after which none of those held is lost.
LEMMA ThreadAnswers ==
  ASSUME IInv, NEW w \in Process, ThreadStep(w), UNCHANGED <<earliest, failed>>,
         OneWay, Active(0) => \A t \in {earliest, INVALID} : Held(t) => Held(t)',
         output'[0] = output[0] \/ Active(0)
  PROVE  AnswersKept' /\ OutputKept'
<1> USE ThreadFrame DEF IInv, Kept
<1>1. Active(0)' => Held(earliest)' /\ (failed' => Held(INVALID)')
  BY DEF AnswersKept
<1>2. AtList(0)' => ~failed' /\ result' = NEVER
  BY DEF AnswersKept
<1>3. mpc' = "single" => result' <= earliest' /\ ~failed' /\ clock' < result'
  BY DEF AnswersKept
<1>4. AtList(1)' \/ mpc' = "returned" => result' <= earliest' /\ (failed' => result' = INVALID)
  BY DEF AnswersKept
<1>5. OutputKept'
  BY DEF OutputKept
<1> QED BY <1>1, <1>2, <1>3, <1>4, <1>5 DEF AnswersKept

\* Where a thread is when it is at work.
LEMMA AtWork ==
  ASSUME IInv, NEW w \in Process, wpc[w] # "none"
  PROVE  /\ HasThreads(w[1]) /\ w \in Crew(w[1]) /\ w[1] \in ListNo
         /\ wpc[w] \in {"commit", "stop"} \/ data[w] # input[w[1]] => Active(w[1])
<1> USE DEF IInv, Kept
<1>1. HasThreads(w[1]) /\ w \in Crew(w[1]) /\ w[1] \in ListNo
  BY DEF ThreadsKept, Process
<1>2. wpc[w] \in {"commit", "stop"} => Active(w[1])
  BY DEF ThreadsKept
<1>3. data[w] # input[w[1]] => Active(w[1])
  BY <1>1 DEF ThreadsKept
<1> QED BY <1>1, <1>2, <1>3

\* A thread tests whether it is enabled, and whether there is a new input.
LEMMA KeptTests ==
  ASSUME IInv, NEW w \in Process, TestEnabled(w) \/ TestStarted(w)
  PROVE  Kept'
<1> USE DEF IInv, Kept
<1>0. ThreadStep(w)
  BY DEF ThreadStep
<1> USE <1>0, ThreadFrame
<1>1. /\ wpc[w] \in {"enabled?", "started?"} /\ UNCHANGED <<mpc, output, stop, data, history>>
      /\ \/ /\ wpc' = [wpc EXCEPT ![w] = "commit"] /\ items' = [items EXCEPT ![w] = 0]
            /\ data[w] # input[w[1]] /\ final' = [final EXCEPT ![w] = NEVER]
         \/ /\ wpc' \in {[wpc EXCEPT ![w] = p] : p \in {"ended", "started?", "waiting"}}
            /\ UNCHANGED <<final, items>>
  BY DEF TestEnabled, TestStarted, Goto
<1>2. UNCHANGED <<committed, earliest, failed>>
  BY <1>1 DEF history
<1>3. /\ HasThreads(w[1]) /\ w \in Crew(w[1]) /\ w[1] \in ListNo
      /\ data[w] # input[w[1]] => Active(w[1])
  BY <1>1, AtWork
<1>4. /\ \A v \in Process \ {w} : wpc'[v] = wpc[v] /\ items'[v] = items[v] /\ final'[v] = final[v]
      /\ \/ wpc'[w] = "commit" /\ items'[w] = 0 /\ data[w] # input[w[1]]
         \/ wpc'[w] \in {"ended", "started?", "waiting"}
  BY <1>1 DEF TypeOK
<1>5. \A l \in ListNo : Owing(l)' = Owing(l)
  <2>1. \A l \in ListNo : Crew(l) \subseteq Process
    BY CrewSize
  <2> QED BY <1>1, <1>4, <2>1 DEF Owing
<1>6. ThreadsKept'
  <2>1. \A v \in Process : wpc'[v] # "none" => HasThreads(v[1])' /\ v \in Crew(v[1])'
    BY <1>3, <1>4 DEF ThreadsKept
  <2>2. \A v \in Process : v[1] \in ListNo
    BY DEF Process
  <2>3. \A v \in Process : wpc'[v] = "commit" => Active(v[1])' /\ data'[v] # input'[v[1]]
    BY <1>1, <1>3, <1>4, <2>2 DEF ThreadsKept
  <2>4. \A v \in Process : wpc'[v] = "stop" => Active(v[1])' /\ data'[v] = input'[v[1]]
    BY <1>1, <1>4, <2>2 DEF ThreadsKept
  <2>5. \A l \in ListNo : HasThreads(l)' =>
          IF Active(l)' THEN stop'[l] = Cardinality(Owing(l)')
                        ELSE \A v \in Crew(l)' : data'[v] = input'[l]
    BY <1>1, <1>5 DEF ThreadsKept
  <2>6. \A v \in Process : ~HasThreads(v[1])' => data'[v] = NEVER
    BY <1>1 DEF ThreadsKept
  <2> QED BY <2>1, <2>3, <2>4, <2>5, <2>6 DEF ThreadsKept
<1>7. IteratorKept' /\ ClockKept'
  BY <1>1, ThreadIterators
<1>8. OrderKept'
  <2>1. ASSUME NEW v \in Crew(0), NEW o \in Share(v), Active(0) PROVE Passed(v, o)' <=> Passed(v, o)
    <3>1. v \in Process /\ v[1] = 0
      BY CrewSize DEF Crew
    <3>2. CASE v # w
      BY <1>1, <1>4, <3>1, <3>2 DEF Passed
    <3>3. CASE v = w
      <4>1. o \in Objects /\ o[1] = 0
        BY <3>1 DEF Share
      <4>2. (o[2] - 1) % Portion(count[0]) \in Nat
        <5>1. Portion(count[0]) \in Nat \ {0} /\ o[2] - 1 \in Nat
          BY <1>3, <3>1, <3>3, <4>1, OwnShare
        <5> QED BY <5>1, ModNat
      <4>3. ~((o[2] - 1) % Portion(count[0]) < 0)
        BY <4>2
      <4> QED BY <1>1, <1>4, <3>1, <3>3, <4>3 DEF Passed
    <3> QED BY <3>2, <3>3
  <2> QED BY <1>2, <2>1, ThreadOrder
<1>9. OneWay => AnswersKept' /\ OutputKept'
  <2>1. ASSUME NEW t, Held(t) PROVE Held(t)'
    <3>1. \A v \in Crew(0) : v \in Process
      BY CrewSize
    <3> QED BY <1>1, <1>4, <2>1, <3>1 DEF Held
  <2>2. OneWay => \A t \in {earliest, INVALID} : Held(t) => Held(t)'
    BY <2>1
  <2> QED BY <1>1, <1>2, <2>2, ThreadAnswers
<1> QED BY <1>6, <1>7, <1>8, <1>9

\* An index in a share is a number, and each thread has a share of its own.
LEMMA IndexType ==
  ASSUME TypeOK, IteratorKept, NEW w \in Process, NEW o \in Share(w), HasThreads(w[1])
  PROVE  /\ o \in Objects /\ o[1] = w[1]
         /\ (o[2] - 1) % Portion(count[w[1]]) \in Nat
         /\ \A v \in Process : o \in Share(v) => v = w
<1>1. o \in Objects /\ o[1] = w[1] /\ w[2] \in Nat /\ w = <<w[1], w[2]>>
  BY CommitAllAssumption DEF Share, Process
<1>2. Portion(count[w[1]]) \in Nat \ {0} /\ o[2] - 1 \in Nat
  BY <1>1, OwnShare
<1>4. (o[2] - 1) % Portion(count[w[1]]) \in Nat
  BY <1>2, ModNat
<1>5. ASSUME NEW v \in Process, o \in Share(v) PROVE v = w
  <2>1. v[1] = w[1] /\ v[2] - 1 = w[2] - 1
    BY <1>1, <1>5 DEF Share
  <2>2. v[2] \in Nat /\ v = <<v[1], v[2]>>
    BY CommitAllAssumption DEF Process
  <2>3. v[2] = w[2]
    BY <1>1, <2>1, <2>2
  <2> QED BY <1>1, <2>1, <2>2, <2>3
<1> QED BY <1>1, <1>4, <1>5

\* A thread commits the next object of its share.
LEMMA KeptItem ==
  ASSUME IInv, NEW w \in Process, NEW o \in Objects, CommitItem(w, o)
  PROVE  Kept'
<1> USE DEF IInv, Kept
<1>0. ThreadStep(w)
  BY DEF ThreadStep
<1> USE <1>0, ThreadFrame
<1> DEFINE Index(p) == (p[2] - 1) % Portion(count[w[1]])
<1>1. /\ wpc[w] = "commit" /\ o \in Share(w) /\ items[w] = Index(o)
      /\ UNCHANGED <<mpc, output, stop, wpc, data>>
  BY DEF CommitItem
<1>2. items'[w] = items[w] + 1 /\ \A v \in Process \ {w} : items'[v] = items[v]
  BY DEF CommitItem, TypeOK
<1>3. PICK a \in 0 .. NEVER :
         /\ final' = [final EXCEPT ![w] = Min2(final[w], a)]
         /\ \/ /\ ~InServiceNow(o) /\ UNCHANGED <<committed, failed>>
               /\ earliest' \in {earliest, Min2(earliest, a)}
            \/ InServiceNow(o) /\ a \in Commits /\ Committed(o, a)
  BY ItemCases
<1>4. /\ HasThreads(w[1]) /\ w \in Crew(w[1]) /\ w[1] \in ListNo /\ Active(w[1])
      /\ data[w] # input[w[1]] /\ o[1] = w[1]
  <2>1. HasThreads(w[1]) /\ w \in Crew(w[1]) /\ w[1] \in ListNo /\ Active(w[1])
    BY <1>1, AtWork
  <2>2. data[w] # input[w[1]]
    BY <1>1 DEF ThreadsKept
  <2> QED BY <1>1, <2>1, <2>2 DEF Share
<1>5. /\ \A p \in Objects \ {o} : committed'[p] = committed[p]
      /\ committed'[o] = IF InServiceNow(o) THEN committed[o] + 1 ELSE committed[o]
  BY <1>3 DEF Committed, TypeOK
<1>6. ThreadsKept'
  <2>1. \A l \in ListNo : Owing(l)' = Owing(l)
    BY <1>1 DEF Owing
  <2>2. \A v \in Process : v[1] \in ListNo
    BY DEF Process
  <2> QED BY <1>1, <2>1, <2>2 DEF ThreadsKept
<1>7. IteratorKept' /\ ClockKept'
  BY <1>1, ThreadIterators
<1>8. OrderKept'
  <2>1. /\ list = w[1] /\ mpc \in {"stopped?", "waiting"} /\ mpc' = mpc /\ list' = list
        /\ ~AtList(0)' /\ ~AtList(1)'
    BY <1>1, <1>4 DEF Active, AtList
  <2>2. CASE w[1] = 1
    <3>1. ~Active(0)' /\ (Active(1)' => AllDone(0) \/ 0 \in rejected)
      BY <2>1, <2>2 DEF Active, OrderKept
    <3>2. AllDone(0) => AllDone(0)'
      BY <1>4, <1>5, <2>2 DEF AllDone
    <3> QED BY <2>1, <3>1, <3>2 DEF OrderKept
  <2>3. CASE w[1] = 0
    <3>1. /\ Active(0) /\ Untouched(1) /\ rejected = {}
          /\ \A v \in Crew(0) : \A p \in Share(v) :
               committed[p] = IF InServiceNow(p) /\ Passed(v, p) THEN 1 ELSE 0
      BY <1>4, <2>3 DEF OrderKept
    <3>2. Untouched(1)'
      BY <1>4, <1>5, <2>3, <3>1 DEF Untouched
    <3>3. ASSUME NEW v \in Crew(0), NEW p \in Share(v)
          PROVE  committed'[p] = IF InServiceNow(p)' /\ Passed(v, p)' THEN 1 ELSE 0
      <4>1. v \in Process /\ v[1] = 0
        BY CrewSize DEF Crew
      <4>2. /\ p \in Objects /\ Index(p) \in Nat /\ Index(o) \in Nat
            /\ (p = o => v = w)
        BY <1>1, <1>4, <2>3, <4>1, IndexType
      <4>3. CASE p = o
        <5>1. v = w /\ ~Passed(w, o) /\ Passed(w, o)'
          BY <1>1, <1>2, <1>4, <4>2, <4>3 DEF Passed
        <5> QED BY <1>1, <1>5, <3>1, <4>3, <5>1
      <4>4. CASE p # o
        <5>1. committed'[p] = committed[p]
          BY <1>5, <4>2, <4>4
        <5>2. CASE v # w
          <6>1. Passed(v, p)' <=> Passed(v, p)
            BY <1>1, <1>2, <4>1, <5>2 DEF Passed
          <6> QED BY <3>1, <5>1, <6>1
        <5>3. CASE v = w
          <6>1. Index(p) # Index(o)
            BY <1>1, <1>4, <4>4, <5>3, ShareIndex
          <6>2. Index(p) < items'[w] <=> Index(p) < items[w]
            BY <1>1, <1>2, <4>2, <6>1
          <6>3. Passed(v, p)' <=> Passed(v, p)
            BY <1>1, <5>3, <6>2 DEF Passed
          <6> QED BY <3>1, <5>1, <6>3
        <5> QED BY <5>2, <5>3
      <4> QED BY <4>3, <4>4
    <3> QED BY <2>1, <2>3, <3>1, <3>2, <3>3 DEF OrderKept, Active
  <2> QED BY <1>4, <2>2, <2>3
<1>9. OneWay => AnswersKept'
  <2> SUFFICES ASSUME OneWay PROVE AnswersKept'
    OBVIOUS
  <2>1. w[1] = 0 /\ w \in Crew(0) /\ Active(0)
    BY <1>4, OneList
  <2>2. /\ Held(earliest) /\ (failed => Held(INVALID))
    BY <2>1 DEF AnswersKept
  <2>3. /\ final'[w] \in Nat /\ final[w] \in Nat /\ final'[w] <= final[w] /\ final'[w] <= a
        /\ \A v \in Process \ {w} : final'[v] = final[v]
    <3>1. final[w] \in 0 .. NEVER
      BY DEF TypeOK
    <3>2. final'[w] = Min2(final[w], a)
      BY <1>3 DEF TypeOK
    <3> QED BY <1>3, <3>1, <3>2, MinTime DEF TypeOK
  <2>4. ASSUME NEW t \in Nat, Held(t) PROVE Held(t)'
    <3>1. \A v \in Crew(0) : v \in Process /\ final[v] \in Nat
      BY CrewSize, Times DEF TypeOK
    <3> QED BY <1>1, <2>3, <2>4, <3>1 DEF Held
  <2>5. ASSUME NEW t \in Nat, a <= t PROVE Held(t)'
    BY <1>1, <2>1, <2>3, <2>5 DEF Held
  <2>6. earliest \in Nat /\ a \in Nat /\ INVALID \in Nat /\ INVALID = 0
    BY Times DEF TypeOK
  <2>7. /\ earliest' = earliest \/ earliest' = Min2(earliest, a)
        /\ failed' => failed \/ a = INVALID
    <3>1. CASE earliest' \in {earliest, Min2(earliest, a)} /\ UNCHANGED failed
      BY <3>1
    <3>2. CASE Committed(o, a)
      <4>1. failed' = (failed \/ a = INVALID)
        BY <3>2 DEF Committed
      <4>2. failed' => failed \/ a = INVALID
        BY <4>1
      <4> QED BY <3>2, <4>2 DEF Committed
    <3> QED BY <1>3, <3>1, <3>2
  <2>8. earliest' \in {earliest, a}
    BY <2>7 DEF Min2
  <2>9. Held(earliest)' /\ (failed' => Held(INVALID)')
    <3>1. ASSUME failed' PROVE Held(INVALID)'
      BY <2>2, <2>4, <2>5, <2>6, <2>7, <3>1
    <3>2. CASE earliest' = earliest
      <4>1. Held(earliest)' <=> \/ output'[0] <= earliest
                               \/ \E v \in Crew(0) : wpc'[v] \in {"commit", "stop"} /\ final'[v] <= earliest
        BY <3>2 DEF Held
      <4> QED BY <1>1, <2>2, <2>4, <2>6, <3>1, <3>2, <4>1 DEF Held
    <3>3. CASE earliest' = a
      BY <1>1, <2>1, <2>3, <3>1, <3>3 DEF Held
    <3> QED BY <2>8, <3>2, <3>3
  <2>10. ~AtList(0)' /\ ~AtList(1)' /\ mpc' \notin {"single", "returned"}
    BY <1>1, <2>1 DEF Active, AtList
  <2> QED BY <2>9, <2>10 DEF AnswersKept
<1>10. OneWay => OutputKept'
  <2>1. OneWay => Active(0)' /\ ~AtList(1)' /\ mpc' # "returned"
    BY <1>1, <1>4, OneList DEF Active, AtList
  <2> QED BY <2>1 DEF OutputKept
<1> QED BY <1>6, <1>7, <1>8, <1>9, <1>10

\* A thread has been through its share.
LEMMA KeptUpdate ==
  ASSUME IInv, NEW w \in Process, UpdateData(w)
  PROVE  Kept'
<1> USE DEF IInv, Kept
<1>0. ThreadStep(w)
  BY DEF ThreadStep
<1> USE <1>0, ThreadFrame
<1>1. /\ wpc[w] = "commit" /\ items[w] = Cardinality(Share(w))
      /\ UNCHANGED <<mpc, output, stop, final, items, history>>
      /\ UNCHANGED <<committed, earliest, failed>>
  BY DEF UpdateData, history
<1>2. /\ data'[w] = input[w[1]] /\ wpc'[w] = "stop"
      /\ \A v \in Process \ {w} : data'[v] = data[v] /\ wpc'[v] = wpc[v]
  BY DEF UpdateData, Goto, TypeOK
<1>3. /\ HasThreads(w[1]) /\ w \in Crew(w[1]) /\ w[1] \in ListNo /\ Active(w[1])
      /\ data[w] # input[w[1]]
  <2>1. HasThreads(w[1]) /\ w \in Crew(w[1]) /\ w[1] \in ListNo /\ Active(w[1])
    BY <1>1, AtWork
  <2> QED BY <1>1, <2>1 DEF ThreadsKept
<1>4. \A l \in ListNo : \A v \in Crew(l) : v \in Process /\ v[1] = l
  BY CrewSize DEF Crew
<1>5. ThreadsKept'
  <2>1. ASSUME NEW l \in ListNo PROVE Owing(l)' = Owing(l)
    <3>1. \A v \in Crew(l) : (data'[v] # input'[l] \/ wpc'[v] = "stop")
                               <=> (data[v] # input[l] \/ wpc[v] = "stop")
      BY <1>2, <1>3, <1>4
    <3> QED BY <3>1 DEF Owing
  <2>2. \A v \in Process : v[1] \in ListNo
    BY DEF Process
  <2>3. /\ \A v \in Process : wpc'[v] # "none" => HasThreads(v[1])' /\ v \in Crew(v[1])'
        /\ \A v \in Process : ~HasThreads(v[1])' => data'[v] = NEVER
    BY <1>2, <1>3 DEF ThreadsKept
  <2>4. /\ \A v \in Process : wpc'[v] = "commit" => Active(v[1])' /\ data'[v] # input'[v[1]]
        /\ \A v \in Process : wpc'[v] = "stop" => Active(v[1])' /\ data'[v] = input'[v[1]]
    BY <1>2, <1>3, <2>2 DEF ThreadsKept
  <2>5. ASSUME NEW l \in ListNo, HasThreads(l)
        PROVE IF Active(l)' THEN stop'[l] = Cardinality(Owing(l)')
                            ELSE \A v \in Crew(l)' : data'[v] = input'[l]
    <3>1. CASE Active(l)
      BY <1>1, <2>1, <2>5, <3>1 DEF ThreadsKept
    <3>2. CASE ~Active(l)
      <4>1. l # w[1]
        BY <1>3, <3>2
      <4>2. \A v \in Crew(l) : data'[v] = data[v]
        BY <1>2, <1>4, <4>1
      <4> QED BY <2>5, <3>2, <4>2 DEF ThreadsKept
    <3> QED BY <3>1, <3>2
  <2> QED BY <2>3, <2>4, <2>5 DEF ThreadsKept
<1>6. IteratorKept' /\ ClockKept'
  BY <1>1, ThreadIterators
<1>7. OrderKept'
  <2>1. ASSUME NEW v \in Crew(0), NEW o \in Share(v), Active(0) PROVE Passed(v, o)' <=> Passed(v, o)
    <3>1. v \in Process /\ v[1] = 0
      BY <1>4
    <3>2. CASE v # w
      BY <1>1, <1>2, <3>1, <3>2 DEF Passed
    <3>3. CASE v = w
      <4>1. o \in Objects /\ o[1] = 0
        BY <3>1 DEF Share
      <4>2. (o[2] - 1) % Portion(count[0]) < items[w]
        BY <1>1, <1>3, <3>1, <3>3, <4>1, OwnShare
      <4> QED BY <1>1, <1>2, <3>1, <3>3, <4>2 DEF Passed
    <3> QED BY <3>2, <3>3
  <2> QED BY <1>1, <2>1, ThreadOrder
<1>8. OneWay => AnswersKept' /\ OutputKept'
  <2>1. ASSUME NEW t, Held(t) PROVE Held(t)'
    BY <1>1, <1>2, <1>4, <2>1 DEF Held
  <2>2. OneWay => \A t \in {earliest, INVALID} : Held(t) => Held(t)'
    BY <2>1
  <2> QED BY <1>1, <2>2, ThreadAnswers
<1> QED BY <1>5, <1>6, <1>7, <1>8

\* A thread that stops is one of those counted.
LEMMA StopPositive ==
  ASSUME IInv, NEW w \in Process, wpc[w] = "stop"
  PROVE  /\ HasThreads(w[1]) /\ w \in Owing(w[1]) /\ w[1] \in ListNo /\ Active(w[1])
         /\ IsFiniteSet(Owing(w[1])) /\ stop[w[1]] = Cardinality(Owing(w[1]))
         /\ stop[w[1]] > 0
<1> USE DEF IInv, Kept
<1>1. HasThreads(w[1]) /\ w \in Crew(w[1]) /\ w[1] \in ListNo /\ Active(w[1])
  BY AtWork
<1>2. w \in Owing(w[1]) /\ Owing(w[1]) \subseteq Crew(w[1])
  BY <1>1 DEF Owing
<1>3. IsFiniteSet(Owing(w[1]))
  BY <1>1, <1>2, CrewSize, FS_Subset
<1>4. stop[w[1]] = Cardinality(Owing(w[1]))
  BY <1>1 DEF ThreadsKept
<1>5. Cardinality(Owing(w[1])) \in Nat /\ Cardinality(Owing(w[1])) # 0
  BY <1>2, <1>3, FS_CardinalityType, FS_EmptySet
<1> QED BY <1>1, <1>2, <1>3, <1>4, <1>5

\* A thread gives its answer, and the last one wakes the main thread.
LEMMA KeptStop ==
  ASSUME IInv, NEW w \in Process, StopThread(w)
  PROVE  Kept'
<1> USE DEF IInv, Kept
<1>0. ThreadStep(w)
  BY DEF ThreadStep
<1> USE <1>0, ThreadFrame
<1>1. /\ wpc[w] = "stop" /\ UNCHANGED <<data, final, items, history>>
      /\ UNCHANGED <<committed, earliest, failed>>
  BY DEF StopThread, history
<1>2. /\ wpc'[w] = "enabled?" /\ \A v \in Process \ {w} : wpc'[v] = wpc[v]
      /\ stop'[w[1]] = stop[w[1]] - 1 /\ output'[w[1]] = Min2(output[w[1]], final[w])
      /\ \A l \in ListNo \ {w[1]} : stop'[l] = stop[l] /\ output'[l] = output[l]
  BY DEF StopThread, Goto, GatherOutput, TypeOK
<1>3. /\ HasThreads(w[1]) /\ w \in Owing(w[1]) /\ w[1] \in ListNo /\ Active(w[1])
      /\ IsFiniteSet(Owing(w[1])) /\ stop[w[1]] = Cardinality(Owing(w[1]))
      /\ data[w] = input[w[1]]
  <2>1. data[w] = input[w[1]]
    BY <1>1 DEF ThreadsKept
  <2> QED BY <1>1, <2>1, StopPositive
<1>4. \A l \in ListNo : \A v \in Crew(l) : v \in Process /\ v[1] = l
  BY CrewSize DEF Crew
<1>5. ThreadsKept'
  <2>1. \A v \in Process : v[1] \in ListNo
    BY DEF Process
  <2>2. /\ \A v \in Process : wpc'[v] # "none" => HasThreads(v[1])' /\ v \in Crew(v[1])'
        /\ \A v \in Process : ~HasThreads(v[1])' => data'[v] = NEVER
    BY <1>1, <1>2 DEF ThreadsKept
  <2>3. /\ \A v \in Process : wpc'[v] = "commit" => Active(v[1])' /\ data'[v] # input'[v[1]]
        /\ \A v \in Process : wpc'[v] = "stop" => Active(v[1])' /\ data'[v] = input'[v[1]]
    BY <1>1, <1>2, <2>1 DEF ThreadsKept
  <2>4. ASSUME NEW l \in ListNo, HasThreads(l)
        PROVE IF Active(l)' THEN stop'[l] = Cardinality(Owing(l)')
                            ELSE \A v \in Crew(l)' : data'[v] = input'[l]
    <3>1. CASE l = w[1]
      <4>1. Owing(l)' = Owing(l) \ {w}
        <5>1. w \notin Owing(l)'
          BY <1>1, <1>2, <1>3, <3>1 DEF Owing
        <5>2. \A v \in Crew(l) \ {w} : (data'[v] # input'[l] \/ wpc'[v] = "stop")
                                         <=> (data[v] # input[l] \/ wpc[v] = "stop")
          BY <1>1, <1>2, <1>4
        <5> QED BY <5>1, <5>2 DEF Owing
      <4>2. Cardinality(Owing(l) \ {w}) = Cardinality(Owing(l)) - 1
        BY <1>3, <3>1, FS_RemoveElement
      <4> QED BY <1>2, <1>3, <3>1, <4>1, <4>2
    <3>2. CASE l # w[1]
      <4>1. Owing(l)' = Owing(l)
        <5>1. \A v \in Crew(l) : (data'[v] # input'[l] \/ wpc'[v] = "stop")
                                   <=> (data[v] # input[l] \/ wpc[v] = "stop")
          BY <1>1, <1>2, <1>4, <3>2
        <5> QED BY <5>1 DEF Owing
      <4> QED BY <1>1, <1>2, <2>4, <3>2, <4>1 DEF ThreadsKept
    <3> QED BY <3>1, <3>2
  <2> QED BY <2>2, <2>3, <2>4 DEF ThreadsKept
<1>6. IteratorKept' /\ ClockKept'
  BY <1>2, <1>3, ThreadIterators
<1>7. OrderKept'
  <2>1. ASSUME NEW v \in Crew(0), NEW o \in Share(v), Active(0) PROVE Passed(v, o)' <=> Passed(v, o)
    <3>1. v \in Process /\ v[1] = 0
      BY <1>4
    <3> QED BY <1>1, <1>2, <1>3, <3>1 DEF Passed
  <2> QED BY <1>1, <2>1, ThreadOrder
<1>8. OneWay => AnswersKept' /\ OutputKept'
  <2>1. ASSUME NEW t \in Nat, Held(t) PROVE Held(t)'
    <3>1. /\ output[0] \in 0 .. NEVER /\ output[1] \in 0 .. NEVER
          /\ \A v \in Process : final[v] \in 0 .. NEVER
      BY DEF TypeOK
    <3>2. /\ output'[0] \in Nat /\ output'[0] <= output[0]
          /\ w[1] = 0 => output'[0] <= final[w]
      <4>1. CASE w[1] = 0
        <5>1. Min2(output[0], final[w]) \in 0 .. NEVER /\ Min2(output[0], final[w]) <= output[0]
              /\ Min2(output[0], final[w]) <= final[w]
          BY <3>1, MinTime
        <5> QED BY <1>2, <4>1, <5>1
      <4>2. CASE w[1] # 0
        BY <1>2, <3>1, <4>2
      <4> QED BY <4>1, <4>2
    <3>3. CASE output[0] <= t
      BY <3>1, <3>2, <3>3 DEF Held
    <3>4. ASSUME NEW v \in Crew(0), wpc[v] \in {"commit", "stop"}, final[v] <= t PROVE Held(t)'
      <4>1. v \in Process /\ v[1] = 0
        BY <1>4
      <4>2. CASE v = w
        BY <3>1, <3>2, <3>4, <4>1, <4>2 DEF Held
      <4>3. CASE v # w
        BY <1>1, <1>2, <3>4, <4>1, <4>3 DEF Held
      <4> QED BY <4>2, <4>3
    <3> QED BY <2>1, <3>3, <3>4 DEF Held
  <2>2. earliest \in Nat /\ INVALID \in Nat
    BY Times DEF TypeOK
  <2>3. \A t \in {earliest, INVALID} : Held(t) => Held(t)'
    BY <2>1, <2>2
  <2>4. output'[0] = output[0] \/ Active(0)
    BY <1>2, <1>3
  <2> QED BY <1>1, <2>3, <2>4, ThreadAnswers
<1> QED BY <1>5, <1>6, <1>7, <1>8

---------------------------------------------------------------------------
(* The theorems *)

LEMMA KeptStep == ASSUME IInv, [Next]_vars PROVE IInv'
<1>1. ASSUME Call \/ MainStep PROVE IInv'
  <2>1. TypeOK'
    BY <1>1, TypeMain DEF IInv, Kept
  <2>2. Kept'
    BY <1>1, KeptCall, KeptInitIterator, KeptCreate, KeptCreated, KeptReject, KeptStart, KeptAwait,
       KeptGather, KeptBoth, KeptEndSingle, KeptReturn, KeptSingle DEF MainStep
  <2> QED BY <2>1, <2>2 DEF IInv
<1>2. ASSUME NEW w \in Process, ThreadStep(w) PROVE IInv'
  <2>1. TypeOK'
    BY <1>2, TypeThread, StopPositive DEF IInv
  <2>2. Kept'
    BY <1>2, KeptTests, KeptItem, KeptUpdate, KeptStop DEF ThreadStep
  <2> QED BY <2>1, <2>2 DEF IInv
<1>3. ASSUME UNCHANGED vars PROVE IInv'
  <2>1. UNCHANGED <<count, iterators, threads>>
    BY <1>3 DEF vars, iterators, threads
  <2>2. /\ UNCHANGED <<count, clock, mpc, list, result, todo, mti, init_tried, input, output, stop>>
        /\ UNCHANGED <<wpc, enabled, data, final, items, committed, earliest, failed, rejected>>
    BY <1>3 DEF vars
  <2> USE <2>1, <2>2, ThreadsFixed DEF IInv, Kept
  <2>3. TypeOK'
    BY DEF TypeOK
  <2>4. IteratorKept' /\ ClockKept'
    BY DEF IteratorKept, ClockKept, AtList, Active
  <2>5. ThreadsKept'
    BY ThreadsIdle DEF Active
  <2>6. OrderKept'
    <3>1. \A o : InServiceNow(o)' <=> InServiceNow(o)
      BY DEF InServiceNow
    <3>2. /\ \A l : (AtList(l)' <=> AtList(l)) /\ (Active(l)' <=> Active(l))
          /\ \A l : (Untouched(l)' <=> Untouched(l)) /\ (AllDone(l)' <=> AllDone(l))
          /\ ObserversLast' <=> ObserversLast
      BY <3>1 DEF AtList, Active, Untouched, AllDone, ObserversLast
    <3> QED BY <3>1, <3>2 DEF OrderKept
  <2>7. OneWay => AnswersKept' /\ OutputKept'
    BY DEF AnswersKept, OutputKept, AtList, Active, Held
  <2> QED BY <2>3, <2>4, <2>5, <2>6, <2>7
<1>4. Next => Call \/ MainStep \/ (\E w \in Process : ThreadStep(w)) \/ UNCHANGED vars
  BY DEF Next, Over
<1> QED BY <1>1, <1>2, <1>3, <1>4

\* What is kept of the lists, their threads and their answers holds in every
\* state of commit_all, for lists of any size and any number of threads.
THEOREM CommitCorrect == Spec => []IInv
<1>1. Init => IInv
  BY TypeInit, KeptInit DEF IInv
<1>2. IInv /\ [Next]_vars => IInv'
  BY KeptStep
<1> QED BY <1>1, <1>2, PTL DEF Spec

\* Every variable of commit_all, the iterators and the threads has its type;
\* in particular no stop count falls below zero.
THEOREM Typed == Spec => []TypeOK
<1>1. IInv => TypeOK
  BY DEF IInv
<1> QED BY <1>1, CommitCorrect, PTL

\* Observers are committed after all ordinary objects have been, whichever of
\* the lists is shared by threads.
THEOREM ObserversAfter == Spec => []ObserversLast
<1>1. IInv => ObserversLast
  <2> SUFFICES ASSUME IInv, NEW o \in Objects, o[1] = 1, committed[o] > 0,
                      NEW p \in Objects, p[1] = 0, 0 \notin rejected, InServiceNow(p)
               PROVE  committed[p] = 1
    BY DEF ObserversLast
  <2> USE DEF IInv, Kept
  <2>1. CASE mpc \in {"idle", "returned", "over"}
    BY <2>1 DEF OrderKept, ObserversLast
  <2>2. CASE mpc = "single"
    <3>1. o \notin todo
      BY <2>2 DEF OrderKept
    <3>2. p \notin todo
      BY <2>2, <3>1 DEF OrderKept
    <3> QED BY <2>2, <3>2 DEF OrderKept
  <2>3. CASE AtList(0) \/ Active(0)
    BY <2>3 DEF OrderKept, Untouched
  <2>4. CASE AtList(1) \/ Active(1)
    BY <2>4 DEF OrderKept, AllDone
  <2> QED BY <2>1, <2>2, <2>3, <2>4 DEF TypeOK, AtList, Active, ListNo
<1> QED BY <1>1, CommitCorrect, PTL

\* When only one list is committed, or no list is shared, every object in
\* service has been committed exactly once when commit_all returns without a
\* failure, unless its list was rejected.
THEOREM EachOnce == ASSUME OneWay PROVE Spec => []EachCommitted
<1>1. IInv => EachCommitted
  <2> SUFFICES ASSUME IInv, mpc = "returned", result # INVALID,
                      NEW o \in Objects, o[1] \notin rejected, InServiceNow(o)
               PROVE  committed[o] = 1
    BY DEF EachCommitted
  <2> USE DEF IInv, Kept
  <2>1. CASE o[1] = 0
    BY <2>1 DEF OrderKept, AllDone
  <2>2. CASE o[1] = 1
    <3>1. count[1] # 0
      BY <2>2, CountType
    <3>2. ~HasThreads(0) /\ ~HasThreads(1)
      BY <3>1, OneList DEF ListNo
    <3> QED BY <2>2, <3>2 DEF OrderKept, AllDone
  <2> QED BY <2>1, <2>2, CountType DEF ListNo
<1> QED BY <1>1, CommitCorrect, PTL

\* Under the same condition commit_all answers no later than any object asked
\* for, and a failure is never lost among the answers of the threads.
THEOREM AnswersGiven == ASSUME OneWay PROVE Spec => []AnswerKept
<1>1. IInv => AnswerKept
  BY DEF IInv, Kept, AnswersKept, OutputKept, AnswerKept
<1> QED BY <1>1, CommitCorrect, PTL
=============================================================================

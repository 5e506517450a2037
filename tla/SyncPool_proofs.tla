--------------------------- MODULE SyncPool_proofs ---------------------------
(***************************************************************************)
(* For every pool, number of threads and width of the counter of runs:     *)
(* each item that is due takes part in a call, the answer is the earliest  *)
(* time any is due next, and no thread is at work between calls.           *)
(***************************************************************************)
EXTENDS SyncPool, FiniteSetTheorems, TLAPS

Thread == Worker \cup {0}
Portion(w) == IF w = 0 THEN Item ELSE Share(w)

(* Has w still to start in this call, or has it been through it?           *)
Stale(w) == IF Counting THEN run = (ran[w] + 1) % Modulus ELSE t0[w] # next_t1
Fresh(w) == t0[w] = next_t1 /\ (Counting => ran[w] = run)

(* No thread can tell the call from the last one.                          *)
Forgotten ==
  mpc = "await" /\ donecount = Threads /\ \A w \in Worker : wpc[w] = "waiting" /\ Fresh(w)

(* What the clock asks of an item: it has been synchronised, or is ahead.   *)
(* A schedule that has been is ahead.                                      *)
Settled(i) == clock < due[i] \/ (Counting /\ synced[i] = clock)

(* What t is to a set of items: the earliest time one of them is due, all  *)
(* of which are settled.                                                   *)
Earliest(t, items) ==
  /\ \A i \in items : Settled(i) /\ t <= due[i]
  /\ t = TS_NEVER \/ \E i \in items : due[i] = t

(* The threads that have still to count down, and the items of the others. *)
Owing == {w \in Worker : Stale(w) \/ wpc[w] = "done"}
Counted == {i \in Item : \E w \in Worker \ Owing : i \in Share(w)}

(* A thread's own earliest time is that of the items it has been through.  *)
SharesKept ==
  \A w \in Thread : wpc[w] # "waiting" =>
    /\ left[w] \subseteq Portion(w)
    /\ Earliest(earliest[w], Portion(w) \ left[w])
    /\ wpc[w] = "done" => left[w] = {}

(* The threads are idle between calls and have been through the last one;  *)
(* during a call those that owe it are what the done count counts.         *)
ThreadsKept ==
  /\ mpc # "await" => \A w \in Worker : wpc[w] = "waiting" /\ Fresh(w)
  /\ mpc = "armed" => donecount = Threads
  /\ Forgotten => pool.interpolated /\ ~Counting
  /\ mpc = "await" /\ ~Forgotten =>
       /\ donecount = Cardinality(Owing)
       /\ \A w \in Worker : /\ wpc[w] = "syncing" => Stale(w)
                            /\ wpc[w] = "done" => Fresh(w)
                            /\ wpc[w] = "waiting" => Stale(w) \/ Fresh(w)
       /\ Earliest(next_t2, Counted)
  /\ wpc[0] = IF mpc = "direct" THEN "syncing" ELSE "waiting"
  /\ mpc \in {"armed", "await"} => Threaded
  /\ mpc = "direct" => ~Threaded

(* Whatever was answered before, the next start is told from the last.     *)
ClockKept ==
  /\ next_t1 <= clock
  /\ mpc # "idle" => clock > 0
  /\ mpc = "await" => next_t1 = clock
  /\ mpc = "armed" => Counting \/ next_t1 # clock \/ pool.interpolated
  /\ clock = 0 => next_t2 = 0
  /\ mpc = "idle" /\ clock > 0 => answer = next_t2 /\ Earliest(next_t2, Item)

IInv == TypeOK /\ SharesKept /\ ThreadsKept /\ ClockKept

---------------------------------------------------------------------------
(* The division of the items *)

\* The next value of the counter of runs is one of its values, and another.
LEMMA NextRun ==
  ASSUME NEW v \in 0 .. Modulus - 1
  PROVE  (v + 1) % Modulus \in 0 .. Modulus - 1 /\ (v + 1) % Modulus # v
<1>1. Modulus \in Nat /\ Modulus >= 2
  BY PoolAssumption
<1>2. CASE v + 1 < Modulus
  <2>1. (v + 1) % Modulus = v + 1
    BY <1>1, <1>2, Z3
  <2> QED BY <1>1, <1>2, <2>1
<1>3. CASE v + 1 = Modulus
  <2>1. (v + 1) % Modulus = 0
    BY <1>1, <1>3, Z3
  <2> QED BY <1>1, <1>3, <2>1
<1> QED BY <1>1, <1>2, <1>3

\* A quotient lies where the product says.
LEMMA DivFacts ==
  ASSUME NEW a \in Nat, NEW b \in Nat \ {0}
  PROVE  /\ a \div b \in Nat
         /\ b * (a \div b) <= a
         /\ a < b * (a \div b) + b
<1>1. a = (b * (a \div b)) + (a % b) /\ 0 <= a % b /\ a % b < b
  BY Z3
<1> QED BY <1>1, Z3

\* No more threads are wanted than there are items.
LEMMA WantedBound ==
  ASSUME pool \in Pools, GlobalThreads >= 2
  PROVE  Wanted \in Nat \ {0} /\ Wanted <= pool.items
<1> DEFINE n == pool.items
<1>1. n \in Nat \ {0} /\ GlobalThreads \in Nat /\ MinItems \in Nat \ {0}
  BY PoolAssumption
<1>2. CASE n >= GlobalThreads * MinItems
  <2>1. GlobalThreads * MinItems >= GlobalThreads
    BY <1>1, Z3
  <2>2. Wanted = GlobalThreads
    BY <1>2 DEF Wanted
  <2> QED BY <1>1, <1>2, <2>1, <2>2
<1>3. CASE ~(n >= GlobalThreads * MinItems) /\ n < MinItems
  BY <1>1, <1>3 DEF Wanted
<1>4. CASE ~(n >= GlobalThreads * MinItems) /\ ~(n < MinItems)
  <2> DEFINE q == n \div MinItems
  <2>1. q \in Nat /\ MinItems * q <= n /\ n < MinItems * q + MinItems
    BY <1>1, DivFacts
  <2>2. Wanted = q
    BY <1>4 DEF Wanted
  <2> HIDE DEF q, n
  <2>3. q # 0
    BY <1>1, <1>4, <2>1, Z3
  <2>4. q <= MinItems * q
    BY <1>1, <2>1, Z3
  <2>5. q <= n
    BY <1>1, <2>1, <2>4, Z3
  <2> QED BY <2>1, <2>2, <2>3, <2>5 DEF n
<1> QED BY <1>2, <1>3, <1>4

\* Rounding down twice, then adding a thread for the rest, leaves no item out.
LEMMA SharesCover ==
  ASSUME pool \in Pools, Threaded
  PROVE  /\ Threads \in Nat \ {0}
         /\ \A i \in Item : \E w \in Worker : i \in Share(w)
<1> DEFINE n == pool.items
           p == PerThread
           a == n + p - 1
<1>1. n \in Nat \ {0} /\ GlobalThreads \in Nat
  BY PoolAssumption
<1>2. ~(GlobalThreads <= 1)
  BY <1>1 DEF Threaded, Threads
<1>3. Wanted \in Nat \ {0} /\ Wanted <= n
  BY <1>1, <1>2, WantedBound
<1>4. p \in Nat /\ Wanted * p <= n /\ n < Wanted * p + Wanted
  BY <1>1, <1>3, DivFacts DEF PerThread
<1> HIDE DEF n, p
<1>5. p # 0
  BY <1>1, <1>3, <1>4, Z3
<1>6. Threads = a \div p /\ a \in Nat
  BY <1>1, <1>2, <1>4, <1>5 DEF Threads, n, p
<1>7. Threads \in Nat /\ p * Threads <= a /\ a < p * Threads + p
  BY <1>4, <1>5, <1>6, DivFacts
<1>8. Threads >= 2
  BY DEF Threaded
<1>9. ASSUME NEW i \in Item PROVE \E w \in Worker : i \in Share(w)
  <2> DEFINE k == (i - 1) \div p
  <2>1. i \in Nat /\ 1 <= i /\ i <= n /\ i - 1 \in Nat
    BY <1>1 DEF Item, n
  <2>2. k \in Nat /\ p * k <= i - 1
    BY <1>4, <1>5, <2>1, DivFacts
  <2> HIDE DEF k
  <2>3. p * k < p * Threads
    BY <1>1, <1>4, <1>7, <2>1, <2>2, Z3
  <2>4. k < Threads
    BY <1>4, <1>5, <1>7, <2>2, <2>3, Z3
  <2>5. k + 1 \in Worker /\ (k + 1) - 1 = k
    BY <1>7, <2>2, <2>4 DEF Worker
  <2>6. i \in Share(k + 1)
    BY <2>5 DEF Share, k, p
  <2> QED BY <2>5, <2>6
<1> QED BY <1>7, <1>8, <1>9

\* No item is in two shares, and the main thread works only without others.
LEMMA SharesApart ==
  /\ \A w, v \in Worker : w # v => Share(w) \cap Share(v) = {}
  /\ \A w \in Worker : w \in Nat \ {0} /\ Share(w) \subseteq Item
<1>1. ASSUME NEW w \in Worker PROVE w \in Nat \ {0} /\ Share(w) \subseteq Item
  <2>1. w \in 1 .. Threads
    BY DEF Worker
  <2> QED BY <2>1 DEF Share
<1>2. ASSUME NEW w \in Worker, NEW v \in Worker, w # v
      PROVE  Share(w) \cap Share(v) = {}
  <2>1. w \in Nat /\ v \in Nat
    BY <1>1, <1>2
  <2>2. w - 1 # v - 1
    BY <1>2, <2>1
  <2> QED BY <2>2 DEF Share
<1> QED BY <1>1, <1>2

\* There are as many workers as threads.
LEMMA CrewSize ==
  ASSUME pool \in Pools
  PROVE  IsFiniteSet(Worker) /\ Threads \in Nat /\ (Threaded => Cardinality(Worker) = Threads)
<1>1. CASE Threaded
  <2>1. Threads \in Nat \ {0} /\ Worker = 1 .. Threads
    BY <1>1, SharesCover DEF Worker
  <2> QED BY <2>1, FS_Interval
<1>2. CASE ~Threaded
  <2>1. Worker = {}
    BY <1>2 DEF Worker
  <2>2. Threads \in Nat
    <3>1. CASE GlobalThreads <= 1
      BY <3>1, PoolAssumption DEF Threads
    <3>2. CASE ~(GlobalThreads <= 1)
      <4> DEFINE n == pool.items
                 p == PerThread
      <4>1. n \in Nat \ {0} /\ GlobalThreads \in Nat
        BY PoolAssumption
      <4>2. Wanted \in Nat \ {0} /\ Wanted <= n
        BY <4>1, <3>2, WantedBound
      <4>3. p \in Nat /\ n < Wanted * p + Wanted
        BY <4>1, <4>2, DivFacts DEF PerThread
      <4> HIDE DEF n, p
      <4>4. p # 0
        BY <4>1, <4>2, <4>3, Z3
      <4>5. n + p - 1 \in Nat
        BY <4>1, <4>3
      <4>6. (n + p - 1) \div p \in Nat
        BY <4>3, <4>4, <4>5, DivFacts
      <4> QED BY <4>6, <3>2 DEF Threads, n, p
    <3> QED BY <3>1, <3>2
  <2> QED BY <1>2, <2>1, <2>2, FS_EmptySet
<1> QED BY <1>1, <1>2

\* What depends on the pool alone does not change with a step.
LEMMA PoolFixed ==
  ASSUME pool' = pool
  PROVE  /\ Item' = Item /\ Threads' = Threads /\ Threaded' = Threaded
         /\ Worker' = Worker /\ Thread' = Thread /\ Counting' = Counting
         /\ \A w : Share(w)' = Share(w) /\ Portion(w)' = Portion(w)
<1>1. Item' = Item /\ Wanted' = Wanted /\ Counting' = Counting
  BY DEF Item, Wanted, Counting
<1>2. PerThread' = PerThread
  BY <1>1 DEF PerThread
<1>3. Threads' = Threads
  BY <1>2 DEF Threads
<1>4. Threaded' = Threaded /\ Worker' = Worker
  BY <1>3 DEF Threaded, Worker
<1>5. \A w : Share(w)' = Share(w)
  BY <1>1, <1>2 DEF Share
<1> QED BY <1>1, <1>3, <1>4, <1>5 DEF Thread, Portion

---------------------------------------------------------------------------
(* The types *)

\* Times and their order.
LEMMA Times ==
  /\ MaxTime \in Nat /\ TS_NEVER \in Nat /\ TS_NEVER > MaxTime + 1
  /\ Modulus \in Nat /\ Modulus >= 2
  /\ \A s, t \in Nat : Before(s, t) \in {s, t} /\ Before(s, t) <= s /\ Before(s, t) <= t
BY PoolAssumption DEF Before

\* A schedule is due after the time it is synchronised to.
LEMMA AnswersLater ==
  ASSUME TypeOK, NEW i \in Item, NEW t \in 0 .. MaxTime, NEW a \in Answers(i, t)
  PROVE  a \in Nat /\ (~Counting => t < a)
<1>1. due[i] \in Nat /\ pool.kind \in {"schedule", "loadshape", "enduse"}
  BY PoolAssumption DEF TypeOK
<1>2. CASE pool.kind = "schedule"
  <2>1. a \in ScheduleTimes(i, t)
    BY <1>2 DEF Answers
  <2>2. (a = due[i] /\ t < due[i]) \/ a \in t + 1 .. MaxTime + 1 \/ a = TS_NEVER
    BY <2>1 DEF ScheduleTimes
  <2> QED BY <1>1, <2>2, Times
<1>3. CASE pool.kind \in {"loadshape", "enduse"}
  <2>1. a \in (0 .. MaxTime + 1) \cup {TS_NEVER}
    BY <1>3, Times DEF Answers, ShapeTimes, EnduseTimes
  <2> QED BY <1>3, <2>1, Times DEF Counting
<1> QED BY <1>1, <1>2, <1>3

\* The time a thread goes to is the clock of the call.
LEMMA GoalIsClock ==
  ASSUME TypeOK, ThreadsKept, ClockKept, NEW w \in Thread, wpc[w] = "syncing"
  PROVE  Goal(w) = clock
<1>1. CASE w = 0
  BY <1>1 DEF Goal
<1>2. CASE w \in Worker
  <2>1. w # 0
    BY <1>2, SharesApart
  <2>2. mpc = "await"
    BY <1>2 DEF ThreadsKept
  <2> QED BY <2>1, <2>2 DEF Goal, ClockKept
<1> QED BY <1>1, <1>2 DEF Thread

LEMMA TypeInit == Init => TypeOK
<1> SUFFICES ASSUME Init PROVE TypeOK
  OBVIOUS
<1>1. pool \in Pools /\ Threads \in Nat
  BY CrewSize DEF Init
<1> QED BY <1>1, Times DEF Init, TypeOK, Thread

LEMMA TypeStep == IInv /\ Next => TypeOK'
<1> SUFFICES ASSUME IInv, Next PROVE TypeOK'
  OBVIOUS
<1> USE DEF IInv
<1>1. Threads \in Nat /\ pool \in Pools
  BY CrewSize DEF TypeOK
<1>2. pool' = pool => TypeOK' = (
        /\ pool \in Pools
        /\ due' \in [Item -> Nat] /\ synced' \in [Item -> 0 .. MaxTime]
        /\ clock' \in 0 .. MaxTime /\ answer' \in Nat
        /\ mpc' \in {"idle", "direct", "armed", "await"}
        /\ next_t1' \in 0 .. MaxTime /\ next_t2' \in Nat
        /\ run' \in 0 .. Modulus - 1 /\ donecount' \in 0 .. Threads
        /\ wpc' \in [Thread -> {"waiting", "syncing", "done"}]
        /\ left' \in [Thread -> SUBSET Item]
        /\ earliest' \in [Thread -> Nat]
        /\ t0' \in [Worker -> 0 .. MaxTime] /\ ran' \in [Worker -> 0 .. Modulus - 1])
  BY PoolFixed DEF TypeOK, Thread
<1>3. ASSUME NEW t \in 1 .. MaxTime, Call(t) PROVE TypeOK'
  <2>1. CASE CallCached(t)
    BY <2>1, <1>2, Times DEF CallCached, Asks, TypeOK, Thread, dataVars
  <2>2. CASE CallDirect(t)
    BY <2>2, <1>2, Times DEF CallDirect, Asks, TypeOK, Thread, dataVars
  <2>3. CASE CallThreads(t)
    BY <2>3, <1>1, <1>2, Times DEF CallThreads, Asks, TypeOK, Thread, dataVars
  <2> QED BY <1>3, <2>1, <2>2, <2>3 DEF Call
<1>4. CASE Start
  <2>1. run' \in 0 .. Modulus - 1
    BY <1>4, NextRun DEF Start, TypeOK
  <2> QED BY <1>4, <2>1, <1>2, Times DEF Start, TypeOK, Thread, dataVars
<1>5. CASE ReturnThreads
  BY <1>5, <1>2 DEF ReturnThreads, TypeOK, Thread, dataVars
<1>6. CASE ReturnDirect
  BY <1>6, <1>2 DEF ReturnDirect, TypeOK, Thread, dataVars
<1>7. ASSUME NEW w \in Thread, SyncItem(w) PROVE TypeOK'
  <2>1. Goal(w) = clock /\ clock \in 0 .. MaxTime
    BY <1>7, GoalIsClock DEF SyncItem, TypeOK
  <2>2. PICK i \in left[w] : \E t \in Answers(i, clock) :
          due' = [due EXCEPT ![i] = t] /\ earliest' = [earliest EXCEPT ![w] = Before(t, @)]
          /\ synced' = [synced EXCEPT ![i] = clock] /\ left' = [left EXCEPT ![w] = @ \ {i}]
    BY <1>7, <2>1 DEF SyncItem
  <2>3. PICK t \in Answers(i, clock) :
          due' = [due EXCEPT ![i] = t] /\ earliest' = [earliest EXCEPT ![w] = Before(t, @)]
          /\ synced' = [synced EXCEPT ![i] = clock] /\ left' = [left EXCEPT ![w] = @ \ {i}]
    BY <2>2
  <2>4. i \in Item /\ t \in Nat /\ earliest[w] \in Nat
    BY <1>7, <2>1, <2>2, <2>3, AnswersLater DEF TypeOK, Thread
  <2>5. Before(t, earliest[w]) \in Nat
    BY <2>4, Times
  <2> QED BY <1>7, <2>1, <2>3, <2>4, <2>5, <1>2 DEF SyncItem, TypeOK, Thread
<1>8. ASSUME NEW w \in Worker, Begin(w) PROVE TypeOK'
  BY <1>8, <1>2, Times, SharesApart DEF Begin, TypeOK, Thread
<1>9. ASSUME NEW w \in Worker, Finish(w) PROVE TypeOK'
  <2>1. ran[w] \in 0 .. Modulus - 1
    BY DEF TypeOK
  <2>2. ran' \in [Worker -> 0 .. Modulus - 1]
    BY <1>9, <2>1, NextRun DEF Finish, TypeOK
  <2> QED BY <1>9, <2>2, <1>2 DEF Finish, TypeOK, Thread
<1>10. ASSUME NEW w \in Worker, CountDown(w) PROVE TypeOK'
  <2>1. wpc[w] = "done" /\ mpc = "await"
    BY <1>10 DEF CountDown, ThreadsKept
  <2>2. w \in Owing /\ IsFiniteSet(Owing) /\ donecount = Cardinality(Owing)
    <3>1. ~Forgotten
      BY <2>1 DEF Forgotten
    <3> QED BY <2>1, <3>1, CrewSize, FS_Subset DEF Owing, ThreadsKept, TypeOK
  <2>3. donecount # 0
    BY <2>2, FS_EmptySet
  <2>4. donecount' \in 0 .. Threads
    BY <1>10, <2>3, <1>1 DEF CountDown, TypeOK
  <2>5. earliest[w] \in Nat /\ next_t2 \in Nat
    BY DEF TypeOK, Thread
  <2>6. next_t2' \in Nat
    BY <1>10, <2>5, Times DEF CountDown
  <2> QED BY <1>10, <2>4, <2>6, <1>2 DEF CountDown, TypeOK, Thread, dataVars
<1> QED BY <1>3, <1>4, <1>5, <1>6, <1>7, <1>8, <1>9, <1>10
        DEF Next, MainStep, WorkerStep, Thread

---------------------------------------------------------------------------
(* Every step preserves the invariant *)

Kept == SharesKept /\ ThreadsKept /\ ClockKept

\* A thread that has been through the last call does not start.
LEMMA FreshOrStale ==
  ASSUME TypeOK, NEW w \in Worker
  PROVE  /\ Fresh(w) => ~Stale(w) /\ ~Starts(w)
         /\ Starts(w) /\ (Stale(w) \/ Fresh(w)) => Stale(w)
<1>1. ran[w] \in 0 .. Modulus - 1
  BY DEF TypeOK
<1>2. (ran[w] + 1) % Modulus # ran[w]
  BY <1>1, NextRun
<1> QED BY <1>2 DEF Fresh, Stale, Starts

LEMMA KeptInit == Init => Kept
<1> SUFFICES ASSUME Init PROVE Kept
  OBVIOUS
<1>1. \A w \in Worker : Fresh(w)
  BY DEF Init, Fresh
<1>2. 0 \in Thread
  BY DEF Thread
<1> QED BY <1>1, <1>2 DEF Init, Kept, SharesKept, ThreadsKept, ClockKept, Thread, Forgotten

\* An answer that is given again is ahead of the clock.
LEMMA KeptCached == ASSUME IInv, NEW t \in 1 .. MaxTime, CallCached(t) PROVE Kept'
<1> USE DEF IInv
<1>1. /\ mpc = "idle" /\ mpc' = "idle" /\ clock' = t /\ t >= clock /\ t > 0 /\ Cached(t)
      /\ answer' = next_t2
      /\ UNCHANGED <<pool, due, synced, next_t1, next_t2, run, donecount, wpc, dataVars>>
  BY DEF CallCached, Asks
<1>2. Item' = Item /\ Threads' = Threads /\ Threaded' = Threaded
      /\ Worker' = Worker /\ Thread' = Thread /\ Counting' = Counting
  BY <1>1, PoolFixed
<1>3. \A w \in Thread : wpc[w] = "waiting"
  BY <1>1 DEF ThreadsKept, Thread
<1>4. SharesKept'
  BY <1>1, <1>2, <1>3 DEF SharesKept
<1>5. ThreadsKept'
  BY <1>1, <1>2 DEF ThreadsKept, Fresh, Forgotten, dataVars
<1>6. /\ next_t1 \in Nat /\ clock \in Nat /\ next_t2 \in Nat /\ t \in Nat /\ t <= MaxTime
      /\ \A i \in Item : due[i] \in Nat
  BY DEF TypeOK
<1>7. t < next_t2 /\ clock > 0
  <2>1. pool.kind \in {"schedule", "loadshape", "enduse"}
    BY PoolAssumption DEF TypeOK
  <2>2. /\ pool.kind = "schedule" => next_t2 = TS_NEVER \/ next_t2 > t
        /\ pool.kind = "loadshape" => next_t2 > t
        /\ pool.kind # "enduse"
    BY <1>1, ZenonT(30) DEF Cached
  <2>3. t < next_t2
    BY <1>6, <2>1, <2>2, Times
  <2> QED BY <2>3, <1>6 DEF ClockKept
<1>8. Earliest(next_t2, Item)
  BY <1>1, <1>7 DEF ClockKept
<1>9. ClockKept'
  BY <1>1, <1>2, <1>6, <1>7, <1>8 DEF ClockKept, Earliest, Settled
<1> QED BY <1>4, <1>5, <1>9 DEF Kept

LEMMA KeptDirect == ASSUME IInv, NEW t \in 1 .. MaxTime, CallDirect(t) PROVE Kept'
<1> USE DEF IInv
<1>1. /\ mpc = "idle" /\ mpc' = "direct" /\ clock' = t /\ t >= clock /\ t > 0 /\ ~Threaded
      /\ wpc' = [wpc EXCEPT ![0] = "syncing"]
      /\ left' = [left EXCEPT ![0] = Item] /\ earliest' = [earliest EXCEPT ![0] = TS_NEVER]
      /\ UNCHANGED <<pool, due, synced, answer, next_t1, next_t2, run, donecount, t0, ran>>
  BY DEF CallDirect, Asks
<1>2. Item' = Item /\ Threads' = Threads /\ Threaded' = Threaded
      /\ Worker' = Worker /\ Thread' = Thread /\ Counting' = Counting
      /\ \A w : Portion(w)' = Portion(w)
  BY <1>1, PoolFixed
<1>3. Worker = {} /\ Thread = {0} /\ Portion(0) = Item
  BY <1>1 DEF Worker, Thread, Portion
<1>4. wpc'[0] = "syncing" /\ left'[0] = Item /\ earliest'[0] = TS_NEVER
  BY <1>1, <1>3 DEF TypeOK, Thread
<1>5. SharesKept'
  BY <1>2, <1>3, <1>4 DEF SharesKept, Earliest
<1>6. ThreadsKept'
  BY <1>1, <1>2, <1>3, <1>4 DEF ThreadsKept, Forgotten
<1>7. ClockKept'
  BY <1>1, <1>2 DEF ClockKept, TypeOK
<1> QED BY <1>5, <1>6, <1>7 DEF Kept

\* A call that synchronises the items has a later time than the last one, is
\* told from it by the counter, or is of interpolated schedules.
LEMMA KeptThreads == ASSUME IInv, NEW t \in 1 .. MaxTime, CallThreads(t) PROVE Kept'
<1> USE DEF IInv
<1>1. /\ mpc = "idle" /\ mpc' = "armed" /\ clock' = t /\ t >= clock /\ t > 0 /\ Threaded
      /\ donecount' = Threads /\ ~Cached(t)
      /\ UNCHANGED <<pool, due, synced, answer, next_t1, next_t2, run, wpc, dataVars>>
  BY DEF CallThreads, Asks
<1>2. Item' = Item /\ Threads' = Threads /\ Threaded' = Threaded
      /\ Worker' = Worker /\ Thread' = Thread /\ Counting' = Counting
  BY <1>1, PoolFixed
<1>3. \A w \in Thread : wpc[w] = "waiting"
  BY <1>1 DEF ThreadsKept, Thread
<1>4. SharesKept'
  BY <1>1, <1>2, <1>3 DEF SharesKept
<1>5. ThreadsKept'
  BY <1>1, <1>2 DEF ThreadsKept, Fresh, Forgotten, dataVars
<1>6. next_t1 \in Nat /\ clock \in Nat /\ t \in Nat /\ next_t2 \in Nat
      /\ next_t1 <= clock /\ t <= MaxTime
  BY DEF TypeOK, ClockKept
<1>7. Counting \/ next_t1 # t \/ pool.interpolated
  <2> SUFFICES ASSUME ~Counting, next_t1 = t, ~pool.interpolated PROVE FALSE
    OBVIOUS
  <2>1. t = clock /\ pool.kind = "schedule"
    BY <1>1, <1>6 DEF Counting
  <2>2. next_t2 # TS_NEVER /\ ~(next_t2 > t)
    BY <1>1, <2>1 DEF Cached
  <2>3. Earliest(next_t2, Item)
    BY <1>1, <2>1 DEF ClockKept
  <2>4. \A i \in Item : clock < due[i] /\ due[i] \in Nat
    BY <2>3 DEF Earliest, Settled, TypeOK
  <2> QED BY <1>6, <2>1, <2>2, <2>3, <2>4 DEF Earliest
<1>8. ClockKept'
  BY <1>1, <1>2, <1>6, <1>7 DEF ClockKept
<1> QED BY <1>4, <1>5, <1>8 DEF Kept

\* With the new time, or the new count, every thread has still to start.
LEMMA KeptStart == ASSUME IInv, Start PROVE Kept'
<1> USE DEF IInv
<1>1. /\ mpc = "armed" /\ mpc' = "await" /\ next_t1' = clock /\ next_t2' = TS_NEVER
      /\ run' = IF Counting THEN (run + 1) % Modulus ELSE run
      /\ UNCHANGED <<pool, due, synced, clock, answer, donecount, wpc, dataVars>>
  BY DEF Start
<1>2. Item' = Item /\ Threads' = Threads /\ Threaded' = Threaded
      /\ Worker' = Worker /\ Thread' = Thread /\ Counting' = Counting
      /\ \A w : Share(w)' = Share(w)
  BY <1>1, PoolFixed
<1>3. \A w \in Thread : wpc[w] = "waiting"
  BY <1>1 DEF ThreadsKept, Thread
<1>4. SharesKept'
  BY <1>1, <1>2, <1>3 DEF SharesKept
<1>5. Threads >= 2 /\ Worker # {} /\ donecount = Threads /\ donecount = Cardinality(Worker)
  <2>1. Threaded /\ donecount = Threads
    BY <1>1 DEF ThreadsKept
  <2>2. Threads \in Nat /\ Threads >= 2 /\ Worker = 1 .. Threads
    BY <2>1, CrewSize DEF Threaded, Worker, TypeOK
  <2>3. 1 \in Worker
    BY <2>2
  <2> QED BY <2>1, <2>2, <2>3, CrewSize DEF TypeOK
<1>6. \A w \in Worker : Fresh(w)
  BY <1>1 DEF ThreadsKept
<1>7. ASSUME Counting \/ next_t1 # clock PROVE ThreadsKept'
  <2>1. ASSUME NEW w \in Worker PROVE Stale(w)' /\ ~Fresh(w)'
    <3>1. Stale(w)'
      BY <1>1, <1>2, <1>6, <1>7 DEF Fresh, Stale, dataVars
    <3>2. ~Fresh(w)'
      <4>1. CASE Counting
        <5>1. ran[w] = run /\ run \in 0 .. Modulus - 1
          BY <1>6, <4>1 DEF Fresh, TypeOK
        <5>2. run' # run /\ ran' = ran /\ Counting'
          BY <1>1, <1>2, <4>1, <5>1, NextRun DEF dataVars
        <5> QED BY <5>1, <5>2 DEF Fresh
      <4>2. CASE next_t1 # clock
        <5>1. t0[w] = next_t1 /\ next_t1' = clock /\ t0' = t0
          BY <1>1, <1>6 DEF Fresh, dataVars
        <5> QED BY <4>2, <5>1 DEF Fresh
      <4> QED BY <1>7, <4>1, <4>2
    <3> QED BY <3>1, <3>2
  <2>2. Owing' = Worker
    BY <1>2, <2>1 DEF Owing
  <2>3. Counted' = {}
    BY <1>2, <2>2 DEF Counted
  <2>4. ~Forgotten'
    BY <1>2, <1>5, <2>1 DEF Forgotten
  <2>5. Earliest(next_t2, Counted)'
    BY <1>1, <2>3 DEF Earliest
  <2>6. wpc'[0] = "waiting" /\ Threaded
    BY <1>1 DEF ThreadsKept
  <2> QED BY <1>1, <1>2, <1>3, <1>5, <2>1, <2>2, <2>4, <2>5, <2>6 DEF ThreadsKept, Thread
<1>8. ASSUME ~(Counting \/ next_t1 # clock) PROVE ThreadsKept'
  <2>1. pool.interpolated /\ ~Counting /\ next_t1' = next_t1
    BY <1>1, <1>8 DEF ClockKept
  <2>2. \A w \in Worker : Fresh(w)' /\ wpc'[w] = "waiting"
    BY <1>1, <1>2, <1>3, <1>6, <2>1 DEF Fresh, Thread, dataVars
  <2>3. Forgotten'
    BY <1>1, <1>2, <1>5, <2>2 DEF Forgotten
  <2>4. wpc'[0] = "waiting" /\ Threaded
    BY <1>1 DEF ThreadsKept
  <2> QED BY <1>1, <1>2, <2>1, <2>3, <2>4 DEF ThreadsKept
<1>9. ThreadsKept'
  BY <1>7, <1>8
<1>10. clock \in Nat /\ clock > 0
  BY <1>1 DEF ClockKept, TypeOK
<1>11. ClockKept'
  BY <1>1, <1>2, <1>10 DEF ClockKept
<1> QED BY <1>4, <1>9, <1>11 DEF Kept

\* When nobody owes the call, what has been counted is every item.
LEMMA KeptReturnThreads == ASSUME IInv, ReturnThreads PROVE Kept'
<1> USE DEF IInv
<1>1. /\ mpc = "await" /\ mpc' = "idle" /\ donecount = 0 /\ answer' = next_t2
      /\ UNCHANGED <<pool, due, synced, clock, next_t1, next_t2, run, donecount, wpc, dataVars>>
  BY DEF ReturnThreads
<1>2. Item' = Item /\ Threads' = Threads /\ Threaded' = Threaded
      /\ Worker' = Worker /\ Thread' = Thread /\ Counting' = Counting
  BY <1>1, PoolFixed
<1>11. ~Forgotten
  BY <1>1 DEF Forgotten, ThreadsKept, Threaded
<1>3. Owing = {}
  <2>1. IsFiniteSet(Owing) /\ Cardinality(Owing) = 0
    BY <1>1, <1>11, CrewSize, FS_Subset DEF ThreadsKept, TypeOK, Owing
  <2> QED BY <2>1, FS_EmptySet
<1>4. \A w \in Worker : wpc[w] = "waiting" /\ Fresh(w)
  <2> SUFFICES ASSUME NEW w \in Worker PROVE wpc[w] = "waiting" /\ Fresh(w)
    OBVIOUS
  <2>1. ~Stale(w) /\ wpc[w] # "done" /\ wpc[w] \in {"waiting", "syncing", "done"}
    BY <1>3 DEF Owing, TypeOK
  <2> QED BY <1>1, <1>11, <2>1 DEF ThreadsKept
<1>5. wpc[0] = "waiting"
  BY <1>1 DEF ThreadsKept
<1>6. SharesKept'
  BY <1>1, <1>2, <1>4, <1>5 DEF SharesKept, Thread
<1>7. ThreadsKept'
  BY <1>1, <1>2, <1>4, <1>5 DEF ThreadsKept, Fresh, Forgotten, dataVars
<1>8. Counted = Item
  BY <1>1, <1>3, SharesCover DEF Counted, ThreadsKept, TypeOK
<1>9. Earliest(next_t2, Item)
  BY <1>1, <1>8, <1>11 DEF ThreadsKept
<1>10. ClockKept'
  BY <1>1, <1>2, <1>9 DEF ClockKept, Earliest, Settled
<1> QED BY <1>6, <1>7, <1>10 DEF Kept

LEMMA KeptReturnDirect == ASSUME IInv, ReturnDirect PROVE Kept'
<1> USE DEF IInv
<1>1. /\ mpc = "direct" /\ left[0] = {} /\ mpc' = "idle"
      /\ next_t2' = earliest[0] /\ answer' = earliest[0]
      /\ wpc' = [wpc EXCEPT ![0] = "waiting"]
      /\ UNCHANGED <<pool, due, synced, clock, next_t1, run, donecount, dataVars>>
  BY DEF ReturnDirect
<1>2. Item' = Item /\ Threads' = Threads /\ Threaded' = Threaded
      /\ Worker' = Worker /\ Thread' = Thread /\ Counting' = Counting
  BY <1>1, PoolFixed
<1>3. Worker = {} /\ Thread = {0} /\ Portion(0) = Item
  BY <1>1 DEF Worker, Thread, Portion, ThreadsKept
<1>4. wpc'[0] = "waiting" /\ wpc[0] = "syncing"
  BY <1>1, <1>3 DEF TypeOK, Thread, ThreadsKept
<1>5. SharesKept'
  BY <1>2, <1>3, <1>4 DEF SharesKept
<1>6. ThreadsKept'
  BY <1>1, <1>2, <1>3, <1>4 DEF ThreadsKept, Forgotten
<1>7. Earliest(earliest[0], Item \ {})
  BY <1>1, <1>3, <1>4 DEF SharesKept
<1>8. clock > 0 /\ clock \in Nat
  BY <1>1 DEF ClockKept, TypeOK
<1>9. ClockKept'
  BY <1>1, <1>2, <1>7, <1>8 DEF ClockKept, Earliest, Settled
<1> QED BY <1>5, <1>6, <1>9 DEF Kept

\* A thread begins only in a call it has not been through.
LEMMA KeptBegin == ASSUME IInv, NEW w \in Worker, Begin(w) PROVE Kept'
<1> USE DEF IInv
<1>1. /\ wpc[w] = "waiting" /\ Starts(w)
      /\ wpc' = [wpc EXCEPT ![w] = "syncing"]
      /\ left' = [left EXCEPT ![w] = Share(w)]
      /\ earliest' = [earliest EXCEPT ![w] = TS_NEVER]
      /\ UNCHANGED <<pool, due, synced, clock, answer, mpc, next_t1, next_t2, run, donecount, t0, ran>>
  BY DEF Begin
<1>2. Item' = Item /\ Threads' = Threads /\ Threaded' = Threaded
      /\ Worker' = Worker /\ Thread' = Thread /\ Counting' = Counting
      /\ \A v : Share(v)' = Share(v) /\ Portion(v)' = Portion(v)
  BY <1>1, PoolFixed
<1>3. mpc = "await" /\ Stale(w) /\ ~Forgotten
  BY <1>1, FreshOrStale DEF ThreadsKept, Forgotten
<1>4. w # 0 /\ Portion(w) = Share(w)
  BY SharesApart DEF Portion
<1>5. /\ wpc'[w] = "syncing" /\ left'[w] = Share(w) /\ earliest'[w] = TS_NEVER
      /\ \A v \in Thread \ {w} : wpc'[v] = wpc[v] /\ left'[v] = left[v]
                                 /\ earliest'[v] = earliest[v]
  BY <1>1 DEF TypeOK, Thread
<1>6. SharesKept'
  BY <1>1, <1>2, <1>4, <1>5 DEF SharesKept, Earliest, Settled
<1>7. \A v \in Worker : Stale(v)' = Stale(v) /\ Fresh(v)' = Fresh(v)
  BY <1>1, <1>2 DEF Stale, Fresh
<1>8. Owing' = Owing
  BY <1>1, <1>2, <1>3, <1>5, <1>7 DEF Owing, Thread
<1>9. Counted' = Counted
  BY <1>2, <1>8 DEF Counted
<1>10. ThreadsKept'
  <2>1. wpc'[0] = wpc[0]
    BY <1>4, <1>5 DEF Thread
  <2>2. Earliest(next_t2, Counted)'
    BY <1>1, <1>2, <1>3, <1>9 DEF ThreadsKept, Earliest, Settled
  <2>3. ~Forgotten'
    BY <1>2, <1>5 DEF Forgotten
  <2> QED BY <1>1, <1>2, <1>3, <1>5, <1>7, <1>8, <2>1, <2>2, <2>3 DEF ThreadsKept, Thread
<1>11. ClockKept'
  BY <1>1, <1>2, <1>3 DEF ClockKept
<1> QED BY <1>6, <1>10, <1>11 DEF Kept

\* An item that is synchronised is in no other share, nor counted already.
LEMMA KeptSync == ASSUME IInv, NEW w \in Thread, SyncItem(w) PROVE Kept'
<1> USE DEF IInv
<1>1. /\ wpc[w] = "syncing"
      /\ UNCHANGED <<pool, clock, answer, mpc, next_t1, next_t2, run, donecount, wpc, t0, ran>>
  BY DEF SyncItem
<1>2. Goal(w) = clock /\ clock \in 0 .. MaxTime
  BY <1>1, GoalIsClock DEF TypeOK
<1>3. PICK i \in left[w] : \E t \in Answers(i, clock) :
        due' = [due EXCEPT ![i] = t] /\ earliest' = [earliest EXCEPT ![w] = Before(t, @)]
        /\ synced' = [synced EXCEPT ![i] = clock] /\ left' = [left EXCEPT ![w] = @ \ {i}]
  BY <1>2 DEF SyncItem
<1>4. PICK t \in Answers(i, clock) :
        due' = [due EXCEPT ![i] = t] /\ earliest' = [earliest EXCEPT ![w] = Before(t, @)]
        /\ synced' = [synced EXCEPT ![i] = clock] /\ left' = [left EXCEPT ![w] = @ \ {i}]
  BY <1>3
<1>5. /\ left[w] \subseteq Portion(w) /\ Earliest(earliest[w], Portion(w) \ left[w])
      /\ i \in Item /\ i \in Portion(w) /\ earliest[w] \in Nat
      /\ \A j \in Item : due[j] \in Nat
  BY <1>1 DEF SharesKept, TypeOK, Thread
<1>6. t \in Nat /\ (~Counting => clock < t)
  BY <1>2, <1>5, AnswersLater
<1>7. Item' = Item /\ Threads' = Threads /\ Threaded' = Threaded
      /\ Worker' = Worker /\ Thread' = Thread /\ Counting' = Counting
      /\ \A v : Share(v)' = Share(v) /\ Portion(v)' = Portion(v)
  BY <1>1, PoolFixed
<1>8. /\ due'[i] = t /\ synced'[i] = clock
      /\ \A j \in Item \ {i} : due'[j] = due[j] /\ synced'[j] = synced[j]
      /\ left'[w] = left[w] \ {i} /\ earliest'[w] = Before(t, earliest[w])
      /\ \A v \in Thread \ {w} : left'[v] = left[v] /\ earliest'[v] = earliest[v]
  BY <1>4, <1>5 DEF TypeOK, Thread
<1>9. \A v \in Thread : Portion(v) \subseteq Item
  BY SharesApart DEF Portion, Thread
<1>10. \A v \in Thread \ {w} : wpc[v] # "waiting" => i \notin Portion(v)
  <2> SUFFICES ASSUME NEW v \in Thread, v # w, wpc[v] # "waiting" PROVE i \notin Portion(v)
    OBVIOUS
  <2>1. CASE w \in Worker /\ v \in Worker
    BY <1>5, <2>1, SharesApart DEF Portion
  <2>2. CASE w = 0 \/ v = 0
    <3>1. mpc = "direct" /\ ~Threaded
      BY <1>1, <2>2 DEF ThreadsKept
    <3>2. Worker = {}
      BY <3>1 DEF Worker
    <3> QED BY <3>2 DEF Thread
  <2> QED BY <2>1, <2>2 DEF Thread
<1>11. SharesKept'
  <2> SUFFICES ASSUME NEW v \in Thread, wpc[v] # "waiting"
               PROVE  /\ left'[v] \subseteq Portion(v)
                      /\ \A j \in Portion(v) \ left'[v] :
                           Settled(j)' /\ earliest'[v] <= due'[j]
                      /\ \/ earliest'[v] = TS_NEVER
                         \/ \E j \in Portion(v) \ left'[v] : due'[j] = earliest'[v]
                      /\ wpc[v] = "done" => left'[v] = {}
    BY <1>1, <1>7 DEF SharesKept, Earliest
  <2>1. CASE v = w
    <3> DEFINE e == Before(t, earliest[w])
    <3>1. e \in {t, earliest[w]} /\ e <= t /\ e <= earliest[w]
      BY <1>5, <1>6, Times
    <3>2. Portion(w) \ left'[w] = (Portion(w) \ left[w]) \cup {i}
      BY <1>5, <1>8
    <3>3. \A j \in Portion(w) \ left[w] : due'[j] = due[j] /\ Settled(j)'
      BY <1>1, <1>3, <1>5, <1>7, <1>8, <1>9 DEF Earliest, Settled
    <3> HIDE DEF e
    <3>4. \A j \in Portion(w) \ left'[w] : Settled(j)' /\ e <= due'[j]
      <4> SUFFICES ASSUME NEW j \in Portion(w) \ left'[w]
                   PROVE  Settled(j)' /\ e <= due'[j]
        OBVIOUS
      <4>1. CASE j = i
        BY <1>1, <1>6, <1>7, <1>8, <3>1, <4>1 DEF Settled
      <4>2. CASE j \in Portion(w) \ left[w]
        <5>1. due'[j] = due[j] /\ due[j] \in Nat /\ Settled(j)' /\ earliest[w] <= due[j]
          BY <4>2, <3>3, <1>5, <1>9 DEF Earliest
        <5> QED BY <5>1, <3>1, <1>5, <1>6
      <4> QED BY <4>1, <4>2, <3>2
    <3>5. e = TS_NEVER \/ \E j \in Portion(w) \ left'[w] : due'[j] = e
      <4>1. CASE e = t
        BY <4>1, <1>8, <3>2
      <4>2. CASE e = earliest[w]
        BY <4>2, <1>5, <3>2, <3>3 DEF Earliest
      <4> QED BY <4>1, <4>2, <3>1
    <3> QED BY <2>1, <1>1, <1>5, <1>8, <3>4, <3>5 DEF e
  <2>2. CASE v # w
    BY <2>2, <1>1, <1>7, <1>8, <1>9, <1>10 DEF SharesKept, Earliest, Settled
  <2> QED BY <2>1, <2>2
<1>12. \A v \in Worker : Stale(v)' = Stale(v) /\ Fresh(v)' = Fresh(v)
  BY <1>1, <1>7 DEF Stale, Fresh
<1>13. Owing' = Owing /\ Counted' = Counted
  <2>1. Owing' = Owing
    BY <1>1, <1>7, <1>12 DEF Owing
  <2> QED BY <2>1, <1>7 DEF Counted
<1>14. ~Forgotten /\ ~Forgotten'
  <2>1. w = 0 => mpc # "await"
    BY <1>1 DEF ThreadsKept
  <2>2. w # 0 => w \in Worker
    BY DEF Thread
  <2> QED BY <1>1, <1>7, <2>1, <2>2 DEF Forgotten
<1>15. mpc = "await" => i \notin Counted
  <2> SUFFICES ASSUME mpc = "await", NEW v \in Worker \ Owing, i \in Share(v) PROVE FALSE
    BY DEF Counted
  <2>1. w # 0
    BY <1>1 DEF ThreadsKept
  <2>2. w \in Owing /\ i \in Share(w)
    BY <1>1, <1>5, <1>14, <2>1 DEF ThreadsKept, Owing, Portion, Thread
  <2> QED BY <2>2, SharesApart DEF Owing
<1>16. mpc = "await" => Earliest(next_t2, Counted)'
  BY <1>1, <1>7, <1>8, <1>13, <1>15, <1>14 DEF ThreadsKept, Earliest, Counted, Settled
<1>17. ThreadsKept'
  BY <1>1, <1>7, <1>12, <1>13, <1>16, <1>14 DEF ThreadsKept
<1>18. mpc # "idle"
  BY <1>1 DEF ThreadsKept, Thread
<1>19. ClockKept'
  BY <1>1, <1>7, <1>18 DEF ClockKept
<1> QED BY <1>11, <1>17, <1>19 DEF Kept

LEMMA KeptFinish == ASSUME IInv, NEW w \in Worker, Finish(w) PROVE Kept'
<1> USE DEF IInv
<1>1. /\ wpc[w] = "syncing" /\ left[w] = {}
      /\ t0' = [t0 EXCEPT ![w] = next_t1]
      /\ ran' = IF Counting THEN [ran EXCEPT ![w] = (@ + 1) % Modulus] ELSE ran
      /\ wpc' = [wpc EXCEPT ![w] = "done"]
      /\ UNCHANGED <<pool, due, synced, clock, answer, mpc, next_t1, next_t2, run, donecount, left, earliest>>
  BY DEF Finish
<1>2. Item' = Item /\ Threads' = Threads /\ Threaded' = Threaded
      /\ Worker' = Worker /\ Thread' = Thread /\ Counting' = Counting
      /\ \A v : Share(v)' = Share(v) /\ Portion(v)' = Portion(v)
  BY <1>1, PoolFixed
<1>3. mpc = "await" /\ Stale(w) /\ w # 0 /\ ~Forgotten
  BY <1>1, SharesApart DEF ThreadsKept, Forgotten
<1>4. /\ wpc'[w] = "done" /\ t0'[w] = next_t1
      /\ Counting => ran'[w] = (ran[w] + 1) % Modulus
      /\ \A v \in Thread \ {w} : wpc'[v] = wpc[v]
      /\ \A v \in Worker \ {w} : t0'[v] = t0[v] /\ ran'[v] = ran[v]
  BY <1>1 DEF TypeOK, Thread
<1>5. SharesKept'
  BY <1>1, <1>2, <1>4 DEF SharesKept, Earliest, Settled, Thread
<1>6. Fresh(w)'
  BY <1>1, <1>2, <1>3, <1>4 DEF Fresh, Stale
<1>7. \A v \in Worker \ {w} : Stale(v)' = Stale(v) /\ Fresh(v)' = Fresh(v)
  BY <1>1, <1>2, <1>4 DEF Stale, Fresh
<1>8. Owing' = Owing
  BY <1>2, <1>3, <1>4, <1>7 DEF Owing, Thread
<1>9. Counted' = Counted
  BY <1>2, <1>8 DEF Counted
<1>10. ThreadsKept'
  <2>1. wpc'[0] = wpc[0]
    BY <1>3, <1>4 DEF Thread
  <2>2. Earliest(next_t2, Counted)'
    BY <1>1, <1>2, <1>3, <1>9 DEF ThreadsKept, Earliest, Settled
  <2>3. ~Forgotten'
    BY <1>2, <1>4 DEF Forgotten
  <2> QED BY <1>1, <1>2, <1>3, <1>4, <1>6, <1>7, <1>8, <2>1, <2>2, <2>3 DEF ThreadsKept, Thread
<1>11. ClockKept'
  BY <1>1, <1>2, <1>3 DEF ClockKept
<1> QED BY <1>5, <1>10, <1>11 DEF Kept

\* The share of a thread that counts down joins what is counted.
LEMMA KeptCountDown == ASSUME IInv, NEW w \in Worker, CountDown(w) PROVE Kept'
<1> USE DEF IInv
<1>1. /\ wpc[w] = "done" /\ mpc # "armed"
      /\ donecount' = donecount - 1 /\ next_t2' = Before(earliest[w], next_t2)
      /\ wpc' = [wpc EXCEPT ![w] = "waiting"]
      /\ UNCHANGED <<pool, due, synced, clock, answer, mpc, next_t1, run, dataVars>>
  BY DEF CountDown
<1>2. Item' = Item /\ Threads' = Threads /\ Threaded' = Threaded
      /\ Worker' = Worker /\ Thread' = Thread /\ Counting' = Counting
      /\ \A v : Share(v)' = Share(v) /\ Portion(v)' = Portion(v)
  BY <1>1, PoolFixed
<1>3. mpc = "await" /\ Fresh(w) /\ ~Stale(w) /\ w # 0 /\ Portion(w) = Share(w) /\ ~Forgotten
  BY <1>1, FreshOrStale, SharesApart DEF ThreadsKept, Portion, Forgotten
<1>4. wpc'[w] = "waiting" /\ \A v \in Thread \ {w} : wpc'[v] = wpc[v]
  BY <1>1 DEF TypeOK, Thread
<1>5. SharesKept'
  BY <1>1, <1>2, <1>4 DEF SharesKept, Earliest, Settled, Thread, dataVars
<1>6. \A v \in Worker : Stale(v)' = Stale(v) /\ Fresh(v)' = Fresh(v)
  BY <1>1, <1>2 DEF Stale, Fresh, dataVars
<1>7. w \in Owing /\ Owing' = Owing \ {w}
  BY <1>1, <1>2, <1>3, <1>4, <1>6 DEF Owing, Thread
<1>8. donecount' = Cardinality(Owing')
  <2>1. IsFiniteSet(Owing) /\ donecount = Cardinality(Owing)
    BY <1>3, CrewSize, FS_Subset DEF ThreadsKept, TypeOK, Owing
  <2> QED BY <1>1, <1>7, <2>1, FS_RemoveElement
<1>9. Counted' = Counted \cup Share(w)
  <2>1. Share(w) \subseteq Item /\ Owing \subseteq Worker
    BY SharesApart DEF Owing
  <2> QED BY <1>2, <1>7, <2>1 DEF Counted
<1>10. Earliest(earliest[w], Share(w)) /\ Earliest(next_t2, Counted)
  <2>1. left[w] = {} /\ Earliest(earliest[w], Share(w) \ {})
    BY <1>1, <1>3 DEF SharesKept, Thread
  <2> QED BY <2>1, <1>3 DEF ThreadsKept, Earliest
<1>11. next_t2 \in Nat /\ earliest[w] \in Nat /\ \A i \in Item : due[i] \in Nat
  BY DEF TypeOK, Thread
<1>12. next_t2' \in {earliest[w], next_t2} /\ next_t2' <= earliest[w] /\ next_t2' <= next_t2
       /\ next_t2' \in Nat
  BY <1>1, <1>11, Times
<1>13. Earliest(next_t2, Counted)'
  <2>1. Share(w) \subseteq Item /\ Counted \subseteq Item
    BY SharesApart DEF Counted
  <2>2. \A i \in Counted' : Settled(i) /\ next_t2' <= due[i]
    BY <1>9, <1>10, <1>11, <1>12, <2>1 DEF Earliest
  <2>3. next_t2' = TS_NEVER \/ \E i \in Counted' : due[i] = next_t2'
    BY <1>9, <1>10, <1>12 DEF Earliest
  <2> QED BY <1>1, <1>2, <2>2, <2>3 DEF Earliest, Settled
<1>14. ThreadsKept'
  <2>1. wpc'[0] = wpc[0]
    BY <1>3, <1>4 DEF Thread
  <2>2. donecount \in 0 .. Threads /\ Threads \in Nat
    BY CrewSize DEF TypeOK
  <2>3. ~Forgotten'
    BY <1>1, <1>2, <2>2 DEF Forgotten
  <2> QED BY <1>1, <1>2, <1>3, <1>4, <1>6, <1>8, <1>13, <2>1, <2>3 DEF ThreadsKept, Thread
<1>15. ClockKept'
  <2>1. clock > 0 /\ clock \in Nat
    BY <1>3 DEF ClockKept, TypeOK
  <2> QED BY <1>1, <1>2, <1>3, <2>1 DEF ClockKept
<1> QED BY <1>5, <1>14, <1>15 DEF Kept

LEMMA KeptStep == IInv /\ [Next]_vars => IInv'
<1> SUFFICES ASSUME IInv, [Next]_vars PROVE IInv'
  OBVIOUS
<1>1. CASE Next
  <2>1. TypeOK'
    BY <1>1, TypeStep
  <2>2. ASSUME NEW t \in 1 .. MaxTime, Call(t) PROVE Kept'
    BY <2>2, KeptCached, KeptDirect, KeptThreads DEF Call
  <2>3. ASSUME MainStep PROVE Kept'
    <3>1. 0 \in Thread
      BY DEF Thread
    <3> QED BY <2>3, <3>1, KeptStart, KeptReturnThreads, KeptSync, KeptReturnDirect DEF MainStep
  <2>4. ASSUME NEW w \in Worker, WorkerStep(w) PROVE Kept'
    <3>1. w \in Thread
      BY DEF Thread
    <3> QED BY <2>4, <3>1, KeptBegin, KeptSync, KeptFinish, KeptCountDown DEF WorkerStep
  <2>5. Kept'
    BY <1>1, <2>2, <2>3, <2>4 DEF Next
  <2> QED BY <2>1, <2>5 DEF Kept, IInv
<1>2. CASE UNCHANGED vars
  <2>1. pool' = pool /\ due' = due /\ synced' = synced /\ clock' = clock /\ answer' = answer /\ mpc' = mpc
        /\ next_t1' = next_t1 /\ next_t2' = next_t2 /\ run' = run /\ donecount' = donecount
        /\ wpc' = wpc /\ left' = left /\ earliest' = earliest /\ t0' = t0 /\ ran' = ran
    BY <1>2 DEF vars, dataVars
  <2>2. Item' = Item /\ Threads' = Threads /\ Threaded' = Threaded
        /\ Worker' = Worker /\ Thread' = Thread /\ Counting' = Counting
        /\ \A v : Share(v)' = Share(v) /\ Portion(v)' = Portion(v)
    BY <2>1, PoolFixed
  <2>3. TypeOK'
    BY <2>1, <2>2 DEF IInv, TypeOK
  <2>4. SharesKept'
    BY <2>1, <2>2 DEF IInv, SharesKept, Earliest, Settled
  <2>5. \A v \in Worker : Stale(v)' = Stale(v) /\ Fresh(v)' = Fresh(v)
    BY <2>1, <2>2 DEF Stale, Fresh
  <2>6. Owing' = Owing
    BY <2>1, <2>2, <2>5 DEF Owing
  <2>7. Counted' = Counted
    BY <2>2, <2>6 DEF Counted
  <2>8. ThreadsKept'
    <3>1. Forgotten' = Forgotten
      BY <2>1, <2>2, <2>5 DEF Forgotten
    <3> QED BY <2>1, <2>2, <2>5, <2>6, <2>7, <3>1 DEF IInv, ThreadsKept, Earliest, Settled
  <2>9. ClockKept'
    BY <2>1, <2>2 DEF IInv, ClockKept, Earliest, Settled
  <2> QED BY <2>3, <2>4, <2>8, <2>9 DEF IInv
<1> QED BY <1>1, <1>2

---------------------------------------------------------------------------
(* The theorems *)

\* The types, and between calls the answer, are those of the invariant.
THEOREM PoolCorrect == Spec => []IInv
<1>1. Init => IInv
  BY TypeInit, KeptInit DEF IInv, Kept
<1>2. IInv /\ [Next]_vars => IInv'
  BY KeptStep
<1> QED BY <1>1, <1>2, PTL DEF Spec

\* Every variable of the pool keeps its type (schedule_syncall and its copies).
THEOREM Typed == Spec => []TypeOK
<1>1. IInv => TypeOK
  BY DEF IInv
<1> QED BY <1>1, PoolCorrect, PTL

\* The answer of a call is the earliest time an item is due, and what was due
\* has been synchronised, however the items are divided and the threads run.
THEOREM AnswersRight == Spec => []AnswerRight
<1>1. IInv => AnswerRight
  BY DEF IInv, ClockKept, AnswerRight, Earliest, Settled
<1> QED BY <1>1, PoolCorrect, PTL

\* No thread reads the list, or counts down, when no call is active.
THEOREM QuietPool == Spec => []QuietBetweenCalls
<1>1. IInv => QuietBetweenCalls
  BY DEF IInv, ThreadsKept, QuietBetweenCalls
<1> QED BY <1>1, PoolCorrect, PTL

\* Threads that cannot tell a call from the last one (and so never return from
\* it) are those of interpolated schedules: schedule.c:1088 compares times only.
THEOREM OnlyPlansForget == Spec => [](Forgotten => pool.interpolated /\ pool.kind = "schedule")
<1>1. IInv => (Forgotten => pool.interpolated /\ pool.kind = "schedule")
  BY DEF IInv, ThreadsKept, Counting
<1> QED BY <1>1, PoolCorrect, PTL
=============================================================================

------------------------------ MODULE RankPool ------------------------------
(***************************************************************************)
(* The thread pool of the main loop (core/exec.c): every rank list has its *)
(* own workers (obj_syncproc), a start condition they wait for and a done  *)
(* count the main thread waits for.  The main thread takes the lists in    *)
(* turn, iteration after iteration; on the first visit it divides the list *)
(* among workers and creates them.                                         *)
(*                                                                         *)
(* Mutexes are owned by a thread or free; a thread that waits on a         *)
(* condition has released its mutex, is moved out by a broadcast (or, up   *)
(* to Spurious times, for no reason) and has to take the mutex again.      *)
(***************************************************************************)
EXTENDS Naturals, FiniteSets

CONSTANTS ThreadCount,  \* global_threadcount, more than 1
          Lists,        \* nObjRankList
          Size,         \* ranks[pass]->ordinal[i]->size of each list
          Modulus,      \* 2^32: next_t1 is an unsigned int
          Spurious      \* bound: how often a condition wakes without a broadcast

ASSUME RankPoolAssumption ==
    /\ ThreadCount \in Nat \ {0, 1}
    /\ Lists \in Nat \ {0} /\ Size \in [1 .. Lists -> Nat \ {0}]
    /\ Modulus \in Nat \ {0, 1}
    /\ Spurious \in Nat

List == 1 .. Lists

---------------------------------------------------------------------------
(* How a list of n objects is divided *)

CeilDiv(a, b) == (a + b - 1) \div b

Incr(n)     == CeilDiv(n, ThreadCount)
NItems(n)   == IF Incr(n) <= 1 THEN 1 ELSE Incr(n)
NThreads(n) == IF Incr(n) <= 1 THEN n ELSE CeilDiv(n, Incr(n))

\* mutant: the first object is in no share
SliceShifted(n, k) == {i \in 1 .. n : i \div NItems(n) = k}

\* worker k takes the k-th run of NItems objects of the list
Slice(n, k) == {i \in 1 .. n : (i - 1) \div NItems(n) = k - 1}

Worker    == {w \in List \X (1 .. ThreadCount) : w[2] <= NThreads(Size[w[1]])}
Crew(l)   == {w \in Worker : w[1] = l}
Share(w)  == Slice(Size[w[1]], w[2])

---------------------------------------------------------------------------
VARIABLES
    mpc,        \* where the main thread stands
    turn,       \* the list it is at: iObjRankList
    wpc,        \* where each worker stands
    t0,         \* data->t0 of each worker
    next_t1,    \* the start condition of each list
    donecount,  \* the number of workers each list waits for
    startlock, donelock,  \* the owner of each mutex
    synced,     \* history: the objects synchronised since the list started
    wakes       \* how many spurious wake-ups are left

vars == <<mpc, turn, wpc, t0, next_t1, donecount, startlock, donelock, synced,
          wakes>>

Free == <<0, 0>>  \* no worker
Main == <<0, 1>>

\* main: visit -> locked -> armed -> test <-> waiting -> relock, test -> visit
MainPlaces   == {"visit", "locked", "armed", "test", "waiting", "relock"}
\* worker: start -> test <-> waiting -> start, test -> sync -> done -> start
WorkerPlaces == {"none", "start", "test", "waiting", "sync", "done", "count"}

Init ==
    /\ mpc = "visit" /\ turn = 1
    /\ wpc = [w \in Worker |-> "none"]
    /\ t0 = [w \in Worker |-> 0]
    /\ next_t1 = [l \in List |-> 0]
    /\ donecount = [l \in List |-> 0]
    /\ startlock = [l \in List |-> Free]
    /\ donelock = [l \in List |-> Free]
    /\ synced = {} /\ wakes = Spurious

---------------------------------------------------------------------------
(* The main thread *)

\* Create the workers of the list on its first visit, then lock donelock.
Visit ==
    /\ mpc = "visit" /\ donelock[turn] = Free
    /\ wpc' = [w \in Worker |-> IF w[1] = turn /\ wpc[w] = "none"
                                THEN "start" ELSE wpc[w]]
    /\ donelock' = [donelock EXCEPT ![turn] = Main]
    /\ mpc' = "locked"
    /\ UNCHANGED <<wakes, turn, t0, next_t1, donecount, startlock, synced>>

\* Set the done count, then lock startlock under donelock.
Arm ==
    /\ mpc = "locked" /\ startlock[turn] = Free
    /\ donecount' = [donecount EXCEPT ![turn] = NThreads(Size[turn])]
    /\ startlock' = [startlock EXCEPT ![turn] = Main]
    /\ mpc' = "armed"
    /\ UNCHANGED <<wakes, turn, wpc, t0, next_t1, donelock, synced>>

\* Change the start condition, wake the workers, unlock startlock.
Start ==
    /\ mpc = "armed"
    /\ next_t1' = [next_t1 EXCEPT ![turn] = (@ + 1) % Modulus]
    /\ wpc' = [w \in Worker |-> IF w[1] = turn /\ wpc[w] = "waiting"
                                THEN "start" ELSE wpc[w]]
    /\ startlock' = [startlock EXCEPT ![turn] = Free]
    /\ synced' = {}
    /\ mpc' = "test"
    /\ UNCHANGED <<wakes, turn, t0, donecount, donelock>>

\* mutant: the last worker is not waited for
AllButOneDone == donecount[turn] <= 1

AllDone == donecount[turn] = 0

\* mutant: the loop stays at its list
SameList(l) == l

NextOf(l) == (l % Lists) + 1

\* while donecount is not zero, wait for it and release donelock
AwaitDone ==
    /\ mpc = "test" /\ ~AllDone
    /\ donelock' = [donelock EXCEPT ![turn] = Free]
    /\ mpc' = "waiting"
    /\ UNCHANGED <<wakes, turn, wpc, t0, next_t1, donecount, startlock, synced>>

Relock ==
    /\ mpc = "relock" /\ donelock[turn] = Free
    /\ donelock' = [donelock EXCEPT ![turn] = Main]
    /\ mpc' = "test"
    /\ UNCHANGED <<wakes, turn, wpc, t0, next_t1, donecount, startlock, synced>>

\* The list is done: unlock donelock and take the next list.
Leave ==
    /\ mpc = "test" /\ AllDone
    /\ donelock' = [donelock EXCEPT ![turn] = Free]
    /\ turn' = NextOf(turn)
    /\ mpc' = "visit"
    /\ UNCHANGED <<wakes, wpc, t0, next_t1, donecount, startlock, synced>>

MainStep == Visit \/ Arm \/ Start \/ AwaitDone \/ Relock \/ Leave

---------------------------------------------------------------------------
(* A worker *)

Goto(w, p) == wpc' = [wpc EXCEPT ![w] = p]

LockStart(w) ==
    /\ wpc[w] = "start" /\ startlock[w[1]] = Free
    /\ startlock' = [startlock EXCEPT ![w[1]] = w]
    /\ Goto(w, "test")
    /\ UNCHANGED <<wakes, mpc, turn, t0, next_t1, donecount, donelock, synced>>

\* while the start condition has not changed, wait for it
AwaitStart(w) ==
    /\ wpc[w] = "test" /\ t0[w] = next_t1[w[1]]
    /\ startlock' = [startlock EXCEPT ![w[1]] = Free]
    /\ Goto(w, "waiting")
    /\ UNCHANGED <<wakes, mpc, turn, t0, next_t1, donecount, donelock, synced>>

Started(w) ==
    /\ wpc[w] = "test" /\ t0[w] # next_t1[w[1]]
    /\ startlock' = [startlock EXCEPT ![w[1]] = Free]
    /\ Goto(w, "sync")
    /\ UNCHANGED <<wakes, mpc, turn, t0, next_t1, donecount, donelock, synced>>

\* mutant: the start condition is not copied
SyncShareAgain(w) ==
    /\ wpc[w] = "sync"
    /\ synced' = synced \cup Share(w)
    /\ Goto(w, "done")
    /\ UNCHANGED <<wakes, mpc, turn, t0, next_t1, donecount, startlock, donelock>>

\* Synchronise the objects of the share, then copy the start condition, which
\* is read without its lock.
SyncShare(w) ==
    /\ wpc[w] = "sync"
    /\ synced' = synced \cup Share(w)
    /\ t0' = [t0 EXCEPT ![w] = next_t1[w[1]]]
    /\ Goto(w, "done")
    /\ UNCHANGED <<wakes, mpc, turn, next_t1, donecount, startlock, donelock>>

LockDone(w) ==
    /\ wpc[w] = "done" /\ donelock[w[1]] = Free
    /\ donelock' = [donelock EXCEPT ![w[1]] = w]
    /\ Goto(w, "count")
    /\ UNCHANGED <<wakes, mpc, turn, t0, next_t1, donecount, startlock, synced>>

\* One worker less to wait for: wake the main thread, unlock donelock.
CountDone(w) ==
    /\ wpc[w] = "count"
    /\ donecount' = [donecount EXCEPT ![w[1]] = @ - 1]
    /\ mpc' = IF mpc = "waiting" /\ turn = w[1] THEN "relock" ELSE mpc
    /\ donelock' = [donelock EXCEPT ![w[1]] = Free]
    /\ Goto(w, "start")
    /\ UNCHANGED <<wakes, turn, t0, next_t1, startlock, synced>>

WorkerStep(w) == \/ LockStart(w) \/ AwaitStart(w) \/ Started(w) \/ SyncShare(w)
                 \/ LockDone(w) \/ CountDone(w)

\* a condition may wake without having been signalled
SpuriousStart(w) ==
    /\ wakes > 0 /\ wpc[w] = "waiting"
    /\ Goto(w, "start") /\ wakes' = wakes - 1
    /\ UNCHANGED <<mpc, turn, t0, next_t1, donecount, startlock, donelock, synced>>

SpuriousDone ==
    /\ wakes > 0 /\ mpc = "waiting"
    /\ mpc' = "relock" /\ wakes' = wakes - 1
    /\ UNCHANGED <<turn, wpc, t0, next_t1, donecount, startlock, donelock, synced>>

Next == \/ MainStep \/ SpuriousDone
        \/ \E w \in Worker : WorkerStep(w) \/ SpuriousStart(w)

Spec == Init /\ [][Next]_vars

\* every thread of the process is scheduled
Fairness == /\ WF_vars(MainStep)
            /\ \A w \in Worker : WF_vars(WorkerStep(w))

FairSpec == Spec /\ Fairness

---------------------------------------------------------------------------
(* Properties *)

Handed == mpc \in {"test", "waiting", "relock"}

TypeOK ==
    /\ mpc \in MainPlaces /\ turn \in List
    /\ wpc \in [Worker -> WorkerPlaces]
    /\ t0 \in [Worker -> 0 .. Modulus - 1]
    /\ next_t1 \in [List -> 0 .. Modulus - 1]
    /\ donecount \in [List -> 0 .. ThreadCount]
    /\ startlock \in [List -> Worker \cup {Free, Main}]
    /\ donelock \in [List -> Worker \cup {Free, Main}]
    /\ synced \subseteq Nat /\ wakes \in 0 .. Spurious

\* The done count is the number of workers that have not counted down yet, and
\* the objects synchronised are the shares of those that have copied the start
\* condition; outside of a visit no worker has anything left to do.
Owing(l) == {w \in Crew(l) : t0[w] # next_t1[l] \/ wpc[w] \in {"done", "count"}}

WorkersKept ==
    \A w \in Worker :
        /\ wpc[w] = "sync" => t0[w] # next_t1[w[1]]
        /\ wpc[w] \in {"done", "count"} => t0[w] = next_t1[w[1]]
        /\ t0[w] # next_t1[w[1]] \/ wpc[w] \in {"sync", "done", "count"}
              => w[1] = turn /\ Handed

CountKept ==
    /\ mpc = "armed" => donecount[turn] = NThreads(Size[turn])
    /\ Handed => donecount[turn] = Cardinality(Owing(turn))

SharesKept ==
    Handed =>
        /\ synced \subseteq 1 .. Size[turn]
        /\ \A w \in Crew(turn) : IF t0[w] = next_t1[turn]
                                 THEN Share(w) \subseteq synced
                                 ELSE Share(w) \cap synced = {}

PoolInv == WorkersKept /\ CountKept /\ SharesKept

\* Objects of different ranks are never synchronised at the same time: a worker
\* that synchronises its share works on the list the main thread waits for.
OneListAtATime == \A w \in Worker : wpc[w] \in {"sync", "done", "count"}
                                        => w[1] = turn /\ Handed

\* No object is synchronised twice in one visit of its list: a worker that went
\* round finds the start condition it has just copied, even when the counter
\* wraps.
SyncedOnce == [][\A w \in Worker : wpc[w] = "sync" /\ wpc'[w] = "done"
                    => Share(w) # {} /\ Share(w) \cap synced = {}]_vars

\* The main thread goes on only when every object of the list is synchronised,
\* however the objects are divided among the workers.
Barrier == INSTANCE RankBarrier WITH synced <- IF Handed THEN synced ELSE {}

ImplementsBarrier == Barrier!Spec

\* No wake-up is lost: the main thread visits every list again and again.
EveryListVisited == \A l \in List : []<>(turn = l /\ mpc = "visit")
=============================================================================

------------------------------ MODULE SyncPool ------------------------------
(***************************************************************************)
(* The pools that synchronise schedules, load shapes and end uses at the   *)
(* head of every iteration of the main loop (core/schedule.c, loadshape.c, *)
(* enduse.c: three copies of one design).  Every item is due at some time; *)
(* a call synchronises the items to the clock and answers the earliest     *)
(* time any of them is due.  Many items are divided among threads, which   *)
(* start when the clock they are to go to differs from the one they were   *)
(* at (or, in two of the copies, when a counter of runs does), and which   *)
(* keep the earliest time in a variable they share.  A call may answer     *)
(* that time again without synchronising anything while it is ahead.       *)
(***************************************************************************)
EXTENDS Integers, FiniteSets

CONSTANTS Pools,     \* [kind, interpolated, items] of each pool that is tried
          GlobalThreads, \* global_threadcount
          MinItems,  \* the items a thread is worth: 4 in the code
          Modulus,   \* 2^32: run and ran are unsigned int
          TS_NEVER,
          MaxTime    \* bound: the last time a call synchronises to

ASSUME PoolAssumption ==
  /\ \A p \in Pools : p.items \in Nat \ {0} /\ p.interpolated \in BOOLEAN
                      /\ p.kind \in {"schedule", "loadshape", "enduse"}
  /\ GlobalThreads \in Nat /\ MinItems \in Nat \ {0} /\ Modulus \in Nat \ {0, 1}
  /\ MaxTime \in Nat /\ TS_NEVER \in Nat /\ TS_NEVER > MaxTime + 1

VARIABLES pool,      \* the pool, which does not change
          due,       \* next_t of each schedule, t2 of each shape
          synced,    \* t0 of each shape, t_last of each end use: the last call it was in
          clock,     \* the time of the last call
          answer,    \* what it answered
          mpc,       \* where the main thread stands
          next_t1, next_t2, run, donecount,
          wpc,       \* where each thread stands; 0 is the main thread itself
          left,      \* the items each still has to synchronise in this call
          earliest,  \* the local t2 of each
          t0, ran    \* data->t0, data->ran

dataVars == <<left, earliest, t0, ran>>
vars == <<pool, due, synced, clock, answer, mpc, next_t1, next_t2, run, donecount, wpc, dataVars>>

Item == 1 .. pool.items
Before(s, t) == IF s < t THEN s ELSE t

-----------------------------------------------------------------------------
(* The division of the items. *)

Wanted ==
  IF pool.items >= GlobalThreads * MinItems THEN GlobalThreads
  ELSE IF pool.items < MinItems THEN 1 ELSE pool.items \div MinItems

PerThread == pool.items \div Wanted

Threads ==
  IF GlobalThreads <= 1 THEN GlobalThreads
  ELSE (pool.items + PerThread - 1) \div PerThread

Threaded == Threads >= 2
Worker == IF Threaded THEN 1 .. Threads ELSE {}
Share(w) == {i \in Item : (i - 1) \div PerThread = w - 1}

Init ==
  /\ pool \in Pools
  /\ due = [i \in Item |-> 0] /\ synced = [i \in Item |-> 0]
  /\ clock = 0 /\ answer = 0 /\ mpc = "idle"
  /\ next_t1 = 0 /\ next_t2 = 0 /\ run = 0 /\ donecount = 0
  /\ wpc = [w \in Worker \cup {0} |-> "waiting"]
  /\ left = [w \in Worker \cup {0} |-> {}]
  /\ earliest = [w \in Worker \cup {0} |-> TS_NEVER]
  /\ t0 = [w \in Worker |-> 0] /\ ran = [w \in Worker |-> 0]

-----------------------------------------------------------------------------
(* schedule_syncall, loadshape_syncall, enduse_syncall *)

\* mutant: the answer is given once more when its time has come
CachedLate(t) ==
  CASE pool.kind = "schedule" -> next_t2 = TS_NEVER \/ (next_t2 >= t /\ ~pool.interpolated)
    [] pool.kind = "loadshape" -> next_t2 >= t /\ next_t2 < TS_NEVER
    [] pool.kind = "enduse" -> FALSE

Cached(t) ==
  CASE pool.kind = "schedule" -> next_t2 = TS_NEVER \/ (next_t2 > t /\ ~pool.interpolated)
    [] pool.kind = "loadshape" -> next_t2 > t /\ next_t2 < TS_NEVER
    [] pool.kind = "enduse" -> FALSE

Counting == pool.kind # "schedule"

(* The main loop calls at every iteration; it may stay at its clock. *)
Asks(t) ==
  /\ mpc = "idle" /\ t >= clock /\ t > 0
  /\ clock' = t

CallCached(t) ==
  /\ Asks(t) /\ Cached(t)
  /\ answer' = next_t2
  /\ UNCHANGED <<pool, due, synced, mpc, next_t1, next_t2, run, donecount, wpc, dataVars>>

CallDirect(t) ==
  /\ Asks(t) /\ ~Cached(t) /\ ~Threaded
  /\ mpc' = "direct" /\ wpc' = [wpc EXCEPT ![0] = "syncing"]
  /\ left' = [left EXCEPT ![0] = Item] /\ earliest' = [earliest EXCEPT ![0] = TS_NEVER]
  /\ UNCHANGED <<pool, due, synced, answer, next_t1, next_t2, run, donecount, t0, ran>>

ReturnDirect ==
  /\ mpc = "direct" /\ left[0] = {}
  /\ next_t2' = earliest[0] /\ answer' = earliest[0]
  /\ mpc' = "idle" /\ wpc' = [wpc EXCEPT ![0] = "waiting"]
  /\ UNCHANGED <<pool, due, synced, clock, next_t1, run, donecount, dataVars>>

(* The done count is set under donelock, which is held until the wait. *)
CallThreads(t) ==
  /\ Asks(t) /\ ~Cached(t) /\ Threaded
  /\ donecount' = Threads
  /\ mpc' = "armed"
  /\ UNCHANGED <<pool, due, synced, answer, next_t1, next_t2, run, wpc, dataVars>>

Start ==
  /\ mpc = "armed"
  /\ next_t1' = clock /\ next_t2' = TS_NEVER
  /\ run' = IF Counting THEN (run + 1) % Modulus ELSE run
  /\ mpc' = "await"
  /\ UNCHANGED <<pool, due, synced, clock, answer, donecount, wpc, dataVars>>

ReturnThreads ==
  /\ mpc = "await" /\ donecount = 0
  /\ answer' = next_t2
  /\ mpc' = "idle"
  /\ UNCHANGED <<pool, due, synced, clock, next_t1, next_t2, run, donecount, wpc, dataVars>>

-----------------------------------------------------------------------------
(* The thread procedures.  Waiting for the start condition and for donelock *)
(* are guards: the condition is tested and changed under its mutex.         *)

\* mutant: a run is told from the one before by its time alone
StartsByTime(w) == t0[w] # next_t1

Starts(w) == t0[w] # next_t1 \/ (Counting /\ ran[w] # run)

Begin(w) ==
  /\ wpc[w] = "waiting" /\ Starts(w)
  /\ wpc' = [wpc EXCEPT ![w] = "syncing"]
  /\ left' = [left EXCEPT ![w] = Share(w)]
  /\ earliest' = [earliest EXCEPT ![w] = TS_NEVER]
  /\ UNCHANGED <<pool, due, synced, clock, answer, mpc, next_t1, next_t2, run, donecount, t0, ran>>

(* A schedule is due when its value changes next, and not before.           *)
ScheduleTimes(i, t) ==
  IF due[i] # TS_NEVER /\ t < due[i] THEN {due[i]} ELSE (t + 1 .. MaxTime + 1) \cup {TS_NEVER}

(* A shape adds to the time a number of hours that is cut to an integer and *)
(* may be none or less; an end use is due when its shape says, untested.    *)
ShapeTimes == (1 .. MaxTime + 1) \cup {TS_NEVER}
EnduseTimes == (0 .. MaxTime + 1) \cup {TS_NEVER}

Answers(i, t) ==
  CASE pool.kind = "schedule" -> ScheduleTimes(i, t)
    [] pool.kind = "loadshape" -> ShapeTimes
    [] pool.kind = "enduse" -> EnduseTimes

Goal(w) == IF w = 0 THEN clock ELSE next_t1

(* One item of the list; next_t1 is read without a lock. *)
SyncItem(w) ==
  /\ wpc[w] = "syncing"
  /\ \E i \in left[w] :
       /\ \A j \in left[w] : i <= j
       /\ \E t \in Answers(i, Goal(w)) :
            /\ due' = [due EXCEPT ![i] = t]
            /\ earliest' = [earliest EXCEPT ![w] = Before(t, @)]
       /\ synced' = [synced EXCEPT ![i] = Goal(w)]
       /\ left' = [left EXCEPT ![w] = @ \ {i}]
  /\ UNCHANGED <<pool, clock, answer, mpc, next_t1, next_t2, run, donecount, wpc, t0, ran>>

Finish(w) ==
  /\ wpc[w] = "syncing" /\ left[w] = {}
  /\ t0' = [t0 EXCEPT ![w] = next_t1]
  /\ ran' = IF Counting THEN [ran EXCEPT ![w] = (@ + 1) % Modulus] ELSE ran
  /\ wpc' = [wpc EXCEPT ![w] = "done"]
  /\ UNCHANGED <<pool, due, synced, clock, answer, mpc, next_t1, next_t2, run, donecount, left, earliest>>

CountDown(w) ==
  /\ wpc[w] = "done" /\ mpc # "armed"
  /\ donecount' = donecount - 1
  /\ next_t2' = Before(earliest[w], next_t2)
  /\ wpc' = [wpc EXCEPT ![w] = "waiting"]
  /\ UNCHANGED <<pool, due, synced, clock, answer, mpc, next_t1, run, dataVars>>

WorkerStep(w) == Begin(w) \/ SyncItem(w) \/ Finish(w) \/ CountDown(w)

MainStep == Start \/ ReturnThreads \/ SyncItem(0) \/ ReturnDirect

Call(t) == CallCached(t) \/ CallDirect(t) \/ CallThreads(t)

Next ==
  \/ \E t \in 1 .. MaxTime : Call(t)
  \/ MainStep
  \/ \E w \in Worker : WorkerStep(w)

(* Nothing makes a call come; the threads and a call that is active run. *)
Fairness ==
  /\ WF_vars(MainStep)
  /\ \A w \in 1 .. GlobalThreads + 1 : WF_vars(w \in Worker /\ WorkerStep(w))

Spec == Init /\ [][Next]_vars /\ Fairness

-----------------------------------------------------------------------------
TypeOK ==
  /\ pool \in Pools
  /\ due \in [Item -> Nat] /\ synced \in [Item -> 0 .. MaxTime]
  /\ clock \in 0 .. MaxTime /\ answer \in Nat
  /\ mpc \in {"idle", "direct", "armed", "await"}
  /\ next_t1 \in 0 .. MaxTime /\ next_t2 \in Nat
  /\ run \in 0 .. Modulus - 1 /\ donecount \in 0 .. Threads
  /\ wpc \in [Worker \cup {0} -> {"waiting", "syncing", "done"}]
  /\ left \in [Worker \cup {0} -> SUBSET Item]
  /\ earliest \in [Worker \cup {0} -> Nat]
  /\ t0 \in [Worker -> 0 .. MaxTime] /\ ran \in [Worker -> 0 .. Modulus - 1]

(* When a call has returned, each item that was due by its time has been    *)
(* synchronised to it, and the answer is the earliest time something is due *)
(* next: a thread's part of it is not lost, and an answer that is given     *)
(* again has not been overtaken.                                            *)
AnswerRight ==
  mpc = "idle" /\ clock > 0 =>
    /\ \A i \in Item : answer <= due[i] /\ (clock < due[i] \/ synced[i] = clock)
    /\ answer = TS_NEVER \/ \E i \in Item : answer = due[i]

(* No thread is at work when no call is active: it would read the time of  *)
(* the next call in the middle of its list, and count down for that call.  *)
QuietBetweenCalls ==
  mpc \in {"idle", "armed"} => \A w \in Worker : wpc[w] = "waiting"

(* Every call returns, unless interpolated schedules are called once more  *)
(* at the clock of the last call, which the threads cannot tell from it.   *)
Again == pool.interpolated /\ next_t1 = clock
Returns == (mpc \in {"direct", "armed"} /\ ~Again) ~> (mpc = "idle")
=============================================================================

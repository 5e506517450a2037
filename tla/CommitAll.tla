------------------------------ MODULE CommitAll ------------------------------
(***************************************************************************)
(* The commit of a timestep (core/exec.c, commit_all) and the iterator     *)
(* that spreads it over threads (core/threadpool.c).  Objects are in one   *)
(* of two lists: ordinary ones, and observers that are committed after     *)
(* them.  A list is given an iterator the first time it is needed; a list  *)
(* that is too short for one is committed by the main thread itself.       *)
(*                                                                         *)
(* The sections under start.lock and under stop.lock are single steps: a   *)
(* thread waits on a condition only at their end, having released them.    *)
(***************************************************************************)
EXTENDS Naturals, FiniteSets

CONSTANTS
    Counts,         \* the sizes a model's lists may have: <<ordinary, observers>>
    ThreadCount,    \* global_threadcount
    MinItems,       \* the least worth a thread of its own: 8
    InService, OutService,  \* of every object but those of Late
    Late,           \* the objects that are in service at 1, and within a second
    LastTime,       \* bound: the latest time that is committed
    Delays,         \* bound: how much later than the clock answers may be
    Failing,        \* whether commits may fail, or answer 1
    EarlyThreads    \* whether a thread may run before its creator goes on

ListNo  == {0, 1}
NEVER   == 2 * LastTime + 1
INVALID == 0   \* TS_INVALID, less than every time
OLD     == 1   \* the answer of an 'old school' commit

ASSUME CommitAllAssumption ==
    /\ Counts \subseteq [ListNo -> Nat] /\ ThreadCount \in Nat \ {0}
    /\ MinItems \in Nat \ {0} /\ LastTime \in Nat \ {0}
    /\ InService \in 1 .. LastTime /\ OutService \in Nat
    /\ Late \subseteq ListNo \X Nat /\ Delays \subseteq 1 .. LastTime
    /\ {Failing, EarlyThreads} \subseteq BOOLEAN

Min2(a, b) == IF b < a THEN b ELSE a

(***************************************************************************)
(* mti_init: the number of threads of n items and the share of each        *)
(***************************************************************************)
Wanted(n) == LET few == n \div MinItems
             IN  IF n >= ThreadCount * MinItems THEN ThreadCount
                 ELSE IF few = 0 THEN 1 ELSE few

Portion(n) == n \div Wanted(n)

\* mutant: the remainder is left to nobody
ProcessesDown(n) == n \div Portion(n)

Processes(n) == (n + Portion(n) - 1) \div Portion(n)

Process == ListNo \X (1 .. 2 * ThreadCount)

VARIABLES
    count,      \* the sizes of the lists of this model
    clock,      \* t0 of the call
    mpc,        \* where the main thread stands
    list,       \* pc, the list it is at
    result,     \* the answer of commit_all so far
    todo,       \* objects commit_all_st has still to do, in the order of the lists
    mti,        \* the iterators: none, creating or ready
    init_tried, \* whether an iterator could not be made
    input, output, stop,    \* of each iterator
    wpc, enabled, data, final, items,   \* of each thread: items is the number done
    committed,  \* history: how often each object was committed in this call
    earliest,   \* history: the earliest time that objects asked for when their
                \* list was last gone through, to be committed or to enter service
    failed,     \* history: a commit failed in this call
    rejected    \* history: the lists that were rejected in this call

vars == <<count, clock, mpc, list, result, todo, mti, init_tried, input, output,
          stop, wpc, enabled, data, final, items, committed, earliest, failed,
          rejected>>

threads   == <<wpc, enabled, data, final, items>>
iterators == <<mti, init_tried, input, output, stop>>
history   == <<committed, earliest, failed>>

Objects == UNION {{l} \X (1 .. count[l]) : l \in ListNo}

Share(w) == {o \in Objects : /\ o[1] = w[1]
                             /\ (o[2] - 1) \div Portion(count[w[1]]) = w[2] - 1}

Crew(l) == {w \in Process : w[1] = l /\ w[2] <= Processes(count[l])}

InSvc(o) == IF o \in Late THEN 1 ELSE InService

Init ==
    /\ count \in Counts
    /\ clock = 0 /\ mpc = "idle" /\ list = 0 /\ result = NEVER /\ todo = {}
    /\ mti = [l \in ListNo |-> "none"] /\ init_tried = FALSE
    /\ input = [l \in ListNo |-> NEVER] /\ output = [l \in ListNo |-> NEVER]
    /\ stop = [l \in ListNo |-> 0]
    /\ wpc = [w \in Process |-> "none"] /\ enabled = [w \in Process |-> FALSE]
    /\ data = [w \in Process |-> NEVER] /\ final = [w \in Process |-> NEVER]
    /\ items = [w \in Process |-> 0]
    /\ committed = [o \in Objects |-> 0]
    /\ earliest = NEVER /\ failed = FALSE /\ rejected = {}

---------------------------------------------------------------------------
(* The main thread *)

\* The main loop commits each time at most once, and later times later.
Call ==
    /\ mpc = "idle"
    /\ clock' \in clock + 1 .. LastTime
    /\ result' = NEVER /\ list' = 0
    /\ mpc' = IF Objects = {} THEN "returned" ELSE "list"
    /\ committed' = [o \in Objects |-> 0] /\ failed' = FALSE /\ rejected' = {}
    /\ UNCHANGED <<count, todo, iterators, threads, earliest>>

NeedsIterator == mti[list] = "none" /\ ThreadCount # 1 /\ ~init_tried

\* mti_init; without items there is no iterator, and no further attempt
InitIterator ==
    /\ mpc = "list" /\ NeedsIterator
    /\ IF count[list] = 0
       THEN init_tried' = TRUE /\ UNCHANGED <<mti, mpc>>
       ELSE /\ mti' = [mti EXCEPT ![list] = "ready"]
            /\ mpc' = IF Processes(count[list]) > 1 THEN "create" ELSE "list"
            /\ UNCHANGED init_tried
    /\ UNCHANGED <<count, clock, list, result, todo, input, output, stop, threads,
                   history, rejected>>

\* A thread is created, and enabled once its creation has returned.
CreateThread(w) ==
    /\ mpc = "create" /\ w \in Crew(list) /\ wpc[w] = "none"
    /\ wpc' = [wpc EXCEPT ![w] = "enabled?"]
    /\ mpc' = "enable"
    /\ UNCHANGED <<count, clock, list, result, todo, iterators, enabled, data,
                   final, items, history, rejected>>

Enable(w) ==
    /\ mpc = "enable" /\ w \in Crew(list) /\ wpc[w] # "none" /\ ~enabled[w]
    /\ enabled' = [enabled EXCEPT ![w] = TRUE]
    /\ mpc' = "create"
    /\ UNCHANGED <<count, clock, list, result, todo, iterators, wpc, data, final,
                   items, history, rejected>>

Created ==
    /\ mpc = "create" /\ \A w \in Crew(list) : wpc[w] # "none"
    /\ mpc' = "list"
    /\ UNCHANGED <<count, clock, list, result, todo, iterators, threads, history,
                   rejected>>

\* the loop over the lists goes on
NextList == /\ list' = 1 - list
            /\ mpc' = IF list = 0 THEN "list" ELSE "returned"

\* The earliest answer of the last run is later than this time: no commit is
\* called, and the answer stands (mti_run, commit_reject).
Rejects(l) == mti[l] = "ready" /\ output[l] > clock /\ output[l] < NEVER

Reject ==
    /\ mpc = "list" /\ ~NeedsIterator /\ Rejects(list)
    /\ result' = output[list] /\ rejected' = rejected \cup {list}
    /\ NextList
    /\ UNCHANGED <<count, clock, todo, iterators, threads, history>>

HasThreads(l) == mti[l] = "ready" /\ Processes(count[l]) > 1

\* the section under both locks: reset the stop count and the output, set the
\* input and wake the threads
StartThreads ==
    /\ mpc = "list" /\ ~NeedsIterator /\ ~Rejects(list) /\ HasThreads(list)
    /\ stop' = [stop EXCEPT ![list] = Cardinality(Crew(list))]
    /\ input' = [input EXCEPT ![list] = clock]
    /\ output' = [output EXCEPT ![list] = NEVER]
    /\ wpc' = [w \in Process |-> IF w[1] = list /\ wpc[w] = "waiting"
                                 THEN "started?" ELSE wpc[w]]
    /\ mpc' = "stopped?" /\ earliest' = NEVER
    /\ UNCHANGED <<count, clock, list, result, todo, mti, init_tried, enabled, data,
                   final, items, committed, failed, rejected>>

\* mutant: the last thread is not waited for
NearlyStopped == stop[list] <= 1

Stopped == stop[list] = 0

AwaitThreads ==
    /\ mpc = "stopped?" /\ ~Stopped
    /\ mpc' = "waiting"
    /\ UNCHANGED <<count, clock, list, result, todo, iterators, threads, history,
                   rejected>>

\* the answer of an earlier list is replaced
GatherThreads ==
    /\ mpc = "stopped?" /\ Stopped
    /\ result' = output[list]
    /\ NextList
    /\ UNCHANGED <<count, clock, todo, iterators, threads, history, rejected>>

\* Without an iterator, or with one of a single thread, commit_all_st commits
\* both lists; this is not repeated for the second one.
CommitBoth ==
    /\ mpc = "list" /\ ~NeedsIterator /\ ~Rejects(list) /\ ~HasThreads(list)
    /\ IF list = 0
       THEN todo' = Objects /\ mpc' = "single" /\ earliest' = NEVER /\ UNCHANGED list
       ELSE NextList /\ UNCHANGED <<todo, earliest>>
    /\ UNCHANGED <<count, clock, result, iterators, threads, committed, failed,
                   rejected>>

\* whether the clock has come to the service of an object; a late one enters it
\* within the second
Service(o) == IF clock < InSvc(o) THEN "before"
              ELSE IF clock = InSvc(o) /\ o \in Late THEN "entering"
              ELSE IF clock > OutService THEN "after" ELSE "in"

\* what a commit function may answer
Commits == {clock + d : d \in Delays} \cup {NEVER}
           \cup (IF Failing THEN {INVALID, OLD} ELSE {})

Committed(o, a) ==
    /\ committed' = [committed EXCEPT ![o] = @ + 1]
    /\ earliest' = IF a \in {INVALID, OLD} THEN earliest ELSE Min2(earliest, a)
    /\ failed' = (failed \/ a = INVALID)

\* an object that is not in service yet asks for the time it will be
AwaitsService(o) == /\ earliest' = Min2(earliest, InSvc(o))
                    /\ UNCHANGED <<committed, failed>>

FirstObject(o) == o \in todo /\ \A p \in todo : o[1] <= p[1]

\* one object of commit_all_st
CommitSingle(o) ==
    /\ mpc = "single" /\ FirstObject(o)
    /\ todo' = todo \ {o}
    /\ CASE Service(o) = "before" ->
              /\ result' = Min2(result, InSvc(o))
              /\ AwaitsService(o) /\ UNCHANGED mpc
         [] Service(o) = "entering" ->
              /\ result' = IF InSvc(o) = result THEN InSvc(o) + 1 ELSE result
              /\ UNCHANGED <<mpc, history>>
         [] Service(o) = "after" -> UNCHANGED <<result, mpc, history>>
         [] Service(o) = "in" ->
              \E a \in Commits :
                 /\ Committed(o, a)
                 /\ IF a = INVALID
                    THEN result' = INVALID /\ mpc' = "returned"
                    ELSE /\ result' = Min2(result, IF a = OLD THEN NEVER ELSE a)
                         /\ UNCHANGED mpc
    /\ UNCHANGED <<count, clock, list, iterators, threads, rejected>>

EndSingle ==
    /\ mpc = "single" /\ todo = {}
    /\ NextList
    /\ UNCHANGED <<count, clock, result, todo, iterators, threads, history, rejected>>

\* an answer that is no later than the clock ends the run
Return ==
    /\ mpc = "returned"
    /\ mpc' = IF result <= clock \/ clock = LastTime THEN "over" ELSE "idle"
    /\ todo' = {}
    /\ UNCHANGED <<count, clock, list, result, iterators, threads, history, rejected>>

MainStep == \/ InitIterator \/ Created \/ Reject \/ StartThreads \/ AwaitThreads
            \/ GatherThreads \/ CommitBoth \/ EndSingle \/ Return
            \/ (\E w \in Process : CreateThread(w) \/ Enable(w))
            \/ (\E o \in Objects : CommitSingle(o))

---------------------------------------------------------------------------
(* A thread of an iterator *)

ThreadUnchanged == UNCHANGED <<count, clock, list, result, todo, mti, init_tried,
                               input, enabled, rejected>>

Goto(w, p) == wpc' = [wpc EXCEPT ![w] = p]

TestEnabled(w) ==
    /\ wpc[w] = "enabled?" /\ (EarlyThreads \/ mpc # "enable")
    /\ Goto(w, IF enabled[w] THEN "started?" ELSE "ended")
    /\ UNCHANGED <<mpc, output, stop, data, final, items, history>> /\ ThreadUnchanged

\* the section under start.lock: the input is new, or the thread waits
TestStarted(w) ==
    /\ wpc[w] = "started?"
    /\ IF data[w] = input[w[1]]
       THEN Goto(w, "waiting") /\ UNCHANGED <<final, items>>
       ELSE /\ Goto(w, "commit")
            /\ final' = [final EXCEPT ![w] = NEVER]
            /\ items' = [items EXCEPT ![w] = 0]
    /\ UNCHANGED <<mpc, output, stop, data, history>> /\ ThreadUnchanged

\* commit_call and commit_gather of one object of the share
CommitItem(w, o) ==
    /\ wpc[w] = "commit" /\ o \in Share(w)
    /\ items[w] = (o[2] - 1) % Portion(count[w[1]])
    /\ items' = [items EXCEPT ![w] = @ + 1]
    /\ \E a \in Commits \cup {InSvc(o), InSvc(o) + 1} :
         /\ CASE Service(o) = "before" -> a = InSvc(o) /\ AwaitsService(o)
              [] Service(o) = "entering" -> a = InSvc(o) + 1 /\ UNCHANGED history
              [] Service(o) = "after" -> a = NEVER /\ UNCHANGED history
              [] Service(o) = "in" -> a \in Commits /\ Committed(o, a)
         /\ final' = [final EXCEPT ![w] = Min2(@, a)]
    /\ UNCHANGED <<mpc, output, stop, wpc, data>> /\ ThreadUnchanged

UpdateData(w) ==
    /\ wpc[w] = "commit" /\ items[w] = Cardinality(Share(w))
    /\ data' = [data EXCEPT ![w] = input[w[1]]]
    /\ Goto(w, "stop")
    /\ UNCHANGED <<mpc, output, stop, final, items, history>> /\ ThreadUnchanged

\* mutant: the output is the last thread's
LastOutput(l, t) == t

GatherOutput(l, t) == Min2(output[l], t)

\* mutant: the main thread is not woken
NotWoken(p, l) == p

Woken(p, l) == IF p = "waiting" /\ list = l THEN "stopped?" ELSE p

\* the section under stop.lock
StopThread(w) ==
    /\ wpc[w] = "stop"
    /\ stop' = [stop EXCEPT ![w[1]] = @ - 1]
    /\ output' = [output EXCEPT ![w[1]] = GatherOutput(w[1], final[w])]
    /\ mpc' = Woken(mpc, w[1])
    /\ Goto(w, "enabled?")
    /\ UNCHANGED <<data, final, items, history>> /\ ThreadUnchanged

ThreadStep(w) == \/ TestEnabled(w) \/ TestStarted(w) \/ UpdateData(w) \/ StopThread(w)
                 \/ \E o \in Objects : CommitItem(w, o)

Over == mpc = "over" /\ UNCHANGED vars

Next == Call \/ MainStep \/ (\E w \in Process : ThreadStep(w)) \/ Over

\* The main thread is scheduled, and some thread that can run is: each runs only
\* so far before it waits or ends.  Nothing makes a call come.
Spec == /\ Init /\ [][Next]_vars
        /\ WF_vars(MainStep) /\ WF_vars(\E w \in Process : ThreadStep(w))

---------------------------------------------------------------------------
(* Properties *)

TypeOK ==
    /\ count \in Counts /\ clock \in 0 .. LastTime
    /\ mpc \in {"idle", "list", "create", "enable", "single", "stopped?", "waiting",
               "returned", "over"}
    /\ list \in ListNo /\ result \in 0 .. NEVER /\ todo \subseteq Objects
    /\ mti \in [ListNo -> {"none", "ready"}] /\ init_tried \in BOOLEAN
    /\ input \in [ListNo -> 0 .. NEVER] /\ output \in [ListNo -> 0 .. NEVER]
    /\ stop \in [ListNo -> 0 .. 2 * ThreadCount]
    /\ wpc \in [Process -> {"none", "enabled?", "started?", "waiting", "commit", "stop",
                            "ended"}]
    /\ enabled \in [Process -> BOOLEAN] /\ data \in [Process -> 0 .. NEVER]
    /\ final \in [Process -> 0 .. NEVER] /\ items \in [Process -> Nat]
    /\ committed \in [Objects -> Nat] /\ earliest \in 0 .. NEVER
    /\ failed \in BOOLEAN /\ rejected \subseteq ListNo

InServiceNow(o) == /\ clock > InSvc(o) \/ (clock = InSvc(o) /\ o \notin Late)
                   /\ clock <= OutService

\* When commit_all returns without a failure, every object in service has been
\* committed exactly once, unless its list was rejected, however the lists are
\* divided among threads or left to the main thread.
EachCommitted ==
    mpc = "returned" /\ result # INVALID =>
        \A o \in Objects : o[1] \notin rejected /\ InServiceNow(o) => committed[o] = 1

\* Observers are committed after all ordinary objects have been, by whichever
\* threads: they see the state the timestep ends with.
ObserversLast ==
    (\E o \in Objects : o[1] = 1 /\ committed[o] > 0)
        => \A o \in Objects : o[1] = 0 /\ 0 \notin rejected /\ InServiceNow(o)
                                 => committed[o] = 1

\* The answer is no later than any time asked for, also when it is that of an
\* earlier commit; a list is rejected only before anyone in it asked to be
\* committed; and a failure is never lost among the answers of the threads.
\* When both lists have threads the answer of the second replaces that of the
\* first, and nothing of this is said.
AnswerKept ==
    mpc = "returned" /\ ~(HasThreads(0) /\ HasThreads(1)) =>
        /\ result <= earliest
        /\ failed => result = INVALID
        /\ rejected # {} => clock < earliest

\* Every call returns: no wake-up is lost between two calls.
Returns == (mpc # "idle") ~> (mpc \in {"idle", "over"})
=============================================================================

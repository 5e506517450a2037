------------------------------ MODULE MainLoop ------------------------------
(***************************************************************************)
(* The main loop of exec_start (core/exec.c): how one process advances the *)
(* global clock from event to event.  Every iteration at a clock asks the  *)
(* modules for delta mode, synchronises the internal behaviours            *)
(* (schedules, loadshapes, enduses, links...), then every object, rank     *)
(* list by rank list in three passes, and posts what each of them answers  *)
(* in the main sync event.  When the answer is the clock itself the        *)
(* iteration is repeated, at most iteration_limit times; when it is        *)
(* another time the timestep is committed and the clock moves there.       *)
(*                                                                         *)
(* The objects, the internal behaviours, the modules and the scripts are   *)
(* the environment: they answer any time of a small reach.  The threads    *)
(* that share a rank list appear as the order in which its objects are     *)
(* synchronised and as the record each of them posts in; how the workers   *)
(* are woken and awaited is the module RankPool.                           *)
(***************************************************************************)
EXTENDS SyncData, FiniteSets

CONSTANTS
    Objects,        \* the objects of the model
    Rank,           \* obj->rank
    Passes,         \* the passes an object's class asks for, of 0 .. 2
    Thread,         \* the record an object's worker posts in, of 1 .. Threads
    Threads,        \* global_threadcount
    InService, OutService,  \* obj->in_svc and obj->out_svc
    LateInService,  \* the objects whose in_svc_micro is not zero
    StartTime,      \* global_starttime
    StopTime,       \* global_stoptime, TS_NEVER for none
    IterationLimit, \* global_iteration_limit
    MinimumTimestep,\* global_minimum_timestep
    RealTime,       \* whether global_run_realtime is set
    Reach,          \* bound: no answer is later than the clock plus Reach
    ObjectFaults,   \* answers of a failing object, of TS_INVALID and TS_ZERO
    CommitFaults,   \* answers of a failing commit, likewise
    Faulty,         \* the other parts of a run that may fail, of FaultyParts
    DeltaWishes,    \* what delta_modedesired may answer
    DeltaSeconds    \* what delta_update may answer

DT_INFINITY == TS_NEVER  \* DT's largest value: no module wants delta mode
DT_INVALID  == -1

FaultyParts == {"instance", "loadshape_transform", "transform", "precommit",
                "sync_script", "term_script", "signal"}

ASSUME MainLoopAssumption ==
    /\ Rank \in [Objects -> Nat] /\ Passes \in [Objects -> SUBSET (0 .. 2)]
    /\ Threads \in Nat \ {0} /\ Thread \in [Objects -> 1 .. Threads]
    /\ InService \in [Objects -> (0 .. TS_MAX - 1) \cup {TS_NEVER}]
    /\ OutService \in [Objects -> Nat] /\ LateInService \subseteq Objects
    /\ StartTime \in 2 .. TS_MAX /\ StopTime \in HardTimes
    /\ StopTime # TS_NEVER => StopTime < TS_MAX
    /\ IterationLimit \in Nat \ {0} /\ MinimumTimestep \in Nat \ {0}
    /\ TS_MAX + MinimumTimestep < TS_NEVER
    /\ RealTime \in BOOLEAN /\ Reach \in Nat
    /\ ObjectFaults \cup CommitFaults \subseteq {TS_INVALID, TS_ZERO}
    /\ Faulty \subseteq FaultyParts
    /\ DeltaWishes \subseteq Nat \cup {DT_INFINITY, DT_INVALID}
    /\ DeltaSeconds \subseteq Nat \cup {DT_INVALID}

VARIABLES
    clock,      \* global_clock
    main,       \* main_sync
    thread,     \* thread_data->data
    counter,    \* iteration_counter
    mode,       \* global_simulation_mode
    exitcode,   \* exit_code
    pc,         \* where the loop stands
    pass,       \* the pass in progress, then the thread merged next
    ranked,     \* the ranks of the pass whose list has been started
    todo,       \* the objects of the current list not synchronised yet
    result,     \* what exec_start returned
    asked,      \* history: earliest times asked for in this iteration
    reported,   \* history: some part of the run reported a failure
    precommits  \* history: precommits at this clock, counted up to 2

vars == <<clock, main, thread, counter, mode, exitcode, pc, pass, ranked, todo,
          result, asked, reported, precommits>>

lists   == <<pass, ranked, todo>>
history == <<asked, reported, precommits>>

Places == {"top", "precommit", "lists", "list", "merge", "advance", "scripts",
           "delta", "ended", "returned"}

Workers == 1 .. Threads

---------------------------------------------------------------------------
(* Times *)

\* the dates an answer given at time c may name
Near(c) == {t \in c .. c + Reach : t <= TS_MAX}

\* a hard or soft event at a near date, or none; -1 is not a soft event
Answers == Near(clock) \cup {-t : t \in Near(clock) \ {1, TS_MAX}}
                       \cup {TS_NEVER}

\* the answer of a part of the run that may fail
May(part, answer) == IF part \in Faulty THEN {answer} ELSE {}

\* the next multiple of the minimum timestep, for times after c
RoundUp(t, c) == IF MinimumTimestep > 1 /\ t > c /\ t < TS_NEVER
                 THEN ((t - 1) \div MinimumTimestep + 1) * MinimumTimestep
                 ELSE t

\* the stop time is accounted for unless the clock is already past it
PostStop(d, c) == IF c <= StopTime /\ StopTime # TS_NEVER
                  THEN SyncSet(d, StopTime + 1) ELSE d

\* the history of what an iteration asked for: t, hard or soft, unless it is
\* no time; a failure asks for nothing
Nothing == [any |-> TS_NEVER, hard |-> TS_NEVER]

Ask(a, t) == IF t \in {TS_INVALID, TS_ZERO, -TS_NEVER} THEN a
             ELSE [any  |-> Earlier(a.any, AbsoluteTimestamp(t)),
                   hard |-> IF t > 0 THEN Earlier(a.hard, t) ELSE a.hard]

---------------------------------------------------------------------------
(* Initial state: exec_start has initialised the objects and the ranks.    *)

Init ==
    /\ clock = StartTime
    /\ main = LET d == SyncSet(SyncReset, StartTime)
              IN  IF StopTime < TS_NEVER THEN SyncSet(d, StopTime + 1) ELSE d
    /\ thread = [w \in Workers |-> SyncReset]
    /\ counter = IterationLimit
    /\ mode = "INIT" /\ exitcode = "SUCCESS"
    /\ pc = "top" /\ pass = 0 /\ ranked = {} /\ todo = {}
    /\ result = "none"
    /\ asked = Ask(Nothing, StartTime)
    /\ reported = FALSE /\ precommits = 0

\* mutant: the exception posts nothing
ThrowQuietly(d) == main' = d /\ pc' = "ended"

\* An exception leaves the loop through CATCH, which posts TS_INVALID.
Throw(d) == main' = SyncSet(d, TS_INVALID) /\ pc' = "ended"

---------------------------------------------------------------------------
(* The head of an iteration *)

Continues == /\ counter > 0
             /\ SyncIsRunning(main, StopTime) \/ RealTime
             /\ exitcode = "SUCCESS"

\* while condition false: the loop ends, with the status main_sync has
LoopEnds ==
    /\ pc = "top" /\ ~Continues
    /\ pc' = "ended"
    /\ UNCHANGED <<clock, main, thread, counter, mode, exitcode, result, lists,
                   history>>

\* the wall clock, or the time of the sync event
NextClocks == IF RealTime THEN {t \in clock + 1 .. clock + 2 : t < TS_MAX}
              ELSE {SyncGet(main)}

\* a module cannot say, or delta mode is wanted with a coarse timestep
DeltaModeError(dt) == dt = DT_INVALID \/ (dt # DT_INFINITY /\ MinimumTimestep > 1)

DeltaAnswers == IF RealTime THEN {DT_INFINITY} ELSE DeltaWishes

\* the loop is left by a break, before anything is posted
DeltaRefused ==
    /\ pc = "top" /\ Continues
    /\ clock' \in NextClocks
    /\ \E dt \in DeltaAnswers : DeltaModeError(dt)
    /\ mode' = "ERROR" /\ pc' = "ended"
    /\ reported' = TRUE
    /\ UNCHANGED <<main, thread, counter, exitcode, result, asked, precommits, lists>>

\* The modules' answer sets the mode.  The time it asks for is posted in an
\* event that is reset before the internal behaviours are called.
SetMode(dt) == /\ ~DeltaModeError(dt)
               /\ mode' = IF dt = 0 THEN "DELTA" ELSE "EVENT"

NegativeClock ==
    /\ pc = "top" /\ Continues
    /\ clock' \in NextClocks /\ clock' < 0
    /\ \E dt \in DeltaAnswers : SetMode(dt)
    /\ Throw(main)
    /\ UNCHANGED <<thread, counter, exitcode, result, lists, history>>

\* syncall_internals: the behaviours answer hard (links and instances) or
\* soft; the soft answers are compared first and made one soft answer.
SyncInternals(hard, s, x, e, c) ==
    LET se == AbsoluteTimestamp(EarliestTimestamp(<<s, x, e, TS_ZERO>>))
        sa == EarliestTimestamp(<<hard, IF se # TS_NEVER THEN -se ELSE TS_NEVER,
                                  TS_ZERO>>)
    IN  IF sa > 0 THEN RoundUp(sa, c) ELSE -RoundUp(-sa, c)

\* The head of the iteration: the clock is set, the sync event reset, the stop
\* time posted and the internal behaviours synchronised.  Schedules and
\* loadshapes answer s, their transforms x (TS_ZERO on error), enduses and
\* heartbeats e; links and instances answer hard (TS_INVALID when one exited).
BeginIteration ==
    /\ pc = "top" /\ Continues
    /\ clock' \in NextClocks /\ clock' >= 0
    /\ \E dt \in DeltaAnswers : SetMode(dt)
    /\ \E s, e \in Near(clock') \cup {TS_NEVER},
          x \in {TS_NEVER} \cup May("loadshape_transform", TS_ZERO),
          hard \in Near(clock') \cup {TS_NEVER} \cup May("instance", TS_INVALID) :
         LET it == SyncInternals(hard, s, x, e, clock')
             posted == PostStop(SyncReset, clock')
         IN  /\ asked' = Ask(Ask(Ask(Nothing, -s), -e), hard)
             /\ reported' = (reported \/ x = TS_ZERO \/ hard = TS_INVALID)
             /\ IF \/ it # TS_NEVER /\ AbsoluteTimestamp(it) < clock'
                   \/ SyncSetThrows(it)
                THEN Throw(posted)
                ELSE main' = SyncSet(posted, it) /\ pc' = "precommit"
    /\ thread' = [w \in Workers |-> [thread[w] EXCEPT !.step_to = TS_NEVER,
                                                     !.hard_event = FALSE]]
    /\ precommits' = IF clock' = clock THEN precommits ELSE 0
    /\ UNCHANGED <<counter, exitcode, result, lists>>

\* mutant: every iteration is the first
AnyIteration == counter > 0

FirstIteration == counter = IterationLimit

\* precommit_all, on the first iteration of a timestep only
Precommit ==
    /\ pc = "precommit"
    /\ IF ~FirstIteration
       THEN pc' = "lists" /\ UNCHANGED <<main, precommits, reported>>
       ELSE /\ precommits' = IF precommits < 2 THEN precommits + 1 ELSE 2
            /\ \/ pc' = "lists" /\ UNCHANGED <<main, reported>>
               \/ "precommit" \in Faulty /\ Throw(main) /\ reported' = TRUE
    /\ pass' = 0 /\ ranked' = {}
    /\ UNCHANGED <<clock, thread, counter, mode, exitcode, todo, result, asked>>

---------------------------------------------------------------------------
(* The three passes over the rank lists *)

RanksOf(p) == {Rank[o] : o \in {q \in Objects : p \in Passes[q]}}

\* bottom up in pass 1, top down in passes 0 and 2 (PASSINIT, PASSINC)
NextRank(p, r) == /\ r \in RanksOf(p) \ ranked
                  /\ \A q \in RanksOf(p) \ ranked :
                        IF p % 2 = 1 THEN r <= q ELSE r >= q

StartList ==
    /\ pc = "lists"
    /\ \E r \in RanksOf(pass) :
         /\ NextRank(pass, r)
         /\ ranked' = ranked \cup {r}
         /\ todo' = {o \in Objects : pass \in Passes[o] /\ Rank[o] = r}
    /\ pc' = "list"
    /\ UNCHANGED <<clock, main, thread, counter, mode, exitcode, pass, result,
                   history>>

\* mutant: the last answer replaces the earlier ones
ThreadPostLast(d, t) ==
    LET u == IF t < -1 THEN -t ELSE t
        counted == [d EXCEPT !.hard_event = @ \/ (t >= -1 /\ t # TS_NEVER)]
    IN  IF u < clock THEN Fail(counted)
        ELSE [counted EXCEPT !.step_to = RoundUp(u, clock)]

\* mutant: a soft event is posted with its sign
ThreadPostSigned(d, t) ==
    IF AbsoluteTimestamp(t) < clock THEN Fail(d)
    ELSE [d EXCEPT !.hard_event = @ \/ (t > 0 /\ t # TS_NEVER),
                   !.step_to = Earlier(@, t)]

\* mutant: a stopped clock is not noticed
ThreadPostUnchecked(d, t) ==
    LET u == IF t < -1 THEN -t ELSE t
    IN  [d EXCEPT !.hard_event = @ \/ (t >= -1 /\ t # TS_NEVER),
                  !.step_to = Earlier(@, RoundUp(u, clock))]

\* ss_do_object_sync posts the answer t of an object in its worker's record.
ThreadPost(d, t) ==
    LET u == IF t < -1 THEN -t ELSE t
        counted == [d EXCEPT !.hard_event = @ \/ (t >= -1 /\ t # TS_NEVER)]
    IN  IF u < clock THEN Fail(counted)
        ELSE [counted EXCEPT !.step_to = Earlier(@, RoundUp(u, clock))]

\* what an object answers: a date when it is not in service yet, nothing when
\* it is no longer, else whatever its class computes
ObjectAnswers(o) ==
    IF clock < InService[o] THEN {InService[o]}
    ELSE IF clock = InService[o] /\ o \in LateInService THEN {InService[o] + 1}
    ELSE IF clock <= OutService[o] THEN Answers \cup ObjectFaults
    ELSE {TS_NEVER}

\* The objects of a list are synchronised in an order that depends on their
\* workers.  A single worker leaves the list at an object that is invalid.
SyncObject(o) ==
    /\ pc = "list" /\ o \in todo
    /\ \E t \in ObjectAnswers(o) :
         /\ thread' = [thread EXCEPT ![Thread[o]] = ThreadPost(@, t)]
         /\ todo' = IF Threads = 1 /\ t = TS_INVALID THEN {} ELSE todo \ {o}
         /\ asked' = Ask(asked, t)
         /\ reported' = (reported \/ t \in {TS_INVALID, TS_ZERO})
    /\ UNCHANGED <<clock, main, counter, mode, exitcode, pc, pass, ranked,
                   result, precommits>>

\* The loop waits for the whole list, then looks for a worker that failed.
EndList ==
    /\ pc = "list" /\ todo = {}
    /\ IF \E w \in Workers : SyncIsInvalid(thread[w])
       THEN Throw(main)
       ELSE pc' = "lists" /\ UNCHANGED main
    /\ UNCHANGED <<clock, thread, counter, mode, exitcode, result, lists,
                   history>>

\* At the end of a pass the other transforms are applied and posted.
EndPass ==
    /\ pc = "lists" /\ RanksOf(pass) \subseteq ranked
    /\ \E st \in Near(clock) \cup {TS_NEVER} \cup May("transform", TS_ZERO) :
         /\ main' = SyncSet(main, st)
         /\ asked' = Ask(asked, st)
         /\ reported' = (reported \/ st = TS_ZERO)
    /\ IF pass < 2 THEN pass' = pass + 1 /\ pc' = "lists"
                   ELSE pass' = 1 /\ pc' = "merge"
    /\ ranked' = {}
    /\ UNCHANGED <<clock, thread, counter, mode, exitcode, todo, result,
                   precommits>>

---------------------------------------------------------------------------
(* The end of an iteration *)

\* The records of the workers are merged in the main event one after the other.
MergeThread ==
    /\ pc = "merge"
    /\ pass' = IF pass < Threads THEN pass + 1 ELSE 0
    /\ IF SyncMergeThrows(thread[pass]) THEN Throw(main)
       ELSE /\ main' = SyncMerge(main, thread[pass])
            /\ pc' = IF pass < Threads THEN "merge" ELSE "advance"
    /\ UNCHANGED <<clock, thread, counter, mode, exitcode, ranked, todo,
                   result, history>>

\* Somebody asked for another time: the timestep is committed, and a commit
\* may ask for an earlier time, but not for one the clock has reached.
Commit ==
    /\ pc = "advance" /\ SyncGet(main) # clock
    /\ \E t \in Answers \cup CommitFaults :
         LET at == AbsoluteTimestamp(t)
         IN  /\ reported' = (reported \/ at <= clock)
             /\ IF at <= clock
                THEN Throw(main) /\ UNCHANGED <<counter, asked>>
                ELSE /\ main' = IF at < SyncGet(main) THEN SyncSet(main, t) ELSE main
                     /\ asked' = Ask(asked, t)
                     /\ counter' = IterationLimit
                     /\ pc' = "scripts"
    /\ UNCHANGED <<clock, thread, mode, exitcode, result, precommits,
                   lists>>

\* mutant: the iterations are not counted
IterationsKept == counter

IterationsLeft == counter - 1

\* Somebody asked for the clock itself: one iteration less is left.
Reiterate ==
    /\ pc = "advance" /\ SyncGet(main) = clock
    /\ counter' = IterationsLeft
    /\ IF counter' = 0 THEN Throw(main) /\ reported' = TRUE
                       ELSE pc' = "scripts" /\ UNCHANGED <<main, reported>>
    /\ UNCHANGED <<clock, thread, mode, exitcode, result, asked, precommits, lists>>

SyncScripts ==
    /\ pc = "scripts"
    /\ \/ pc' = "delta" /\ UNCHANGED <<main, reported>>
       \/ "sync_script" \in Faulty /\ Throw(main) /\ reported' = TRUE
    /\ UNCHANGED <<clock, thread, counter, mode, exitcode, result, asked,
                   precommits, lists>>

WantsDelta == mode = "DELTA" /\ SyncGet(main) >= clock

NoDelta ==
    /\ pc = "delta" /\ ~WantsDelta
    /\ pc' = "top"
    /\ UNCHANGED <<clock, main, thread, counter, mode, exitcode, result, lists,
                   history>>

\* delta_update runs until no module wants it any more and says how many
\* seconds the clock advances; the loop does not ask it twice, the mode being
\* event when the code that repeats this step is reached.
RunDelta ==
    /\ pc = "delta" /\ WantsDelta
    /\ \E n \in DeltaSeconds :
         IF n = DT_INVALID
         THEN mode' = "ERROR" /\ Throw(main) /\ reported' = TRUE
              /\ UNCHANGED asked
         ELSE /\ clock + n <= TS_MAX
              /\ mode' = "EVENT" /\ pc' = "top"
              /\ main' = SyncSet(main, clock + n)
              /\ asked' = Ask(asked, clock + n)
              /\ UNCHANGED reported
    /\ UNCHANGED <<clock, thread, counter, exitcode, result, precommits, lists>>

---------------------------------------------------------------------------
(* The end of the run, and the environment *)

\* the term scripts are run whatever happened, then the status is returned
Return ==
    /\ pc = "ended"
    /\ pc' = "returned"
    /\ \/ result' = main.status /\ UNCHANGED reported
       \/ "term_script" \in Faulty /\ result' = "FAILED" /\ reported' = TRUE
    /\ UNCHANGED <<clock, main, thread, counter, mode, exitcode, asked,
                   precommits, lists>>

\* SIGINT, at any time of the loop, through exec_sighandler and
\* exec_setexitcode; the handler is disabled when the loop ends
Interrupt ==
    /\ "signal" \in Faulty
    /\ pc \notin {"ended", "returned"} /\ exitcode = "SUCCESS"
    /\ exitcode' = "SIGINT"
    /\ UNCHANGED <<clock, main, thread, counter, mode, pc, result, lists,
                   history>>

LoopStep ==
    \/ LoopEnds \/ DeltaRefused \/ NegativeClock \/ BeginIteration \/ Precommit
    \/ StartList \/ (\E o \in Objects : SyncObject(o)) \/ EndList \/ EndPass
    \/ MergeThread \/ Commit \/ Reiterate \/ SyncScripts \/ NoDelta \/ RunDelta
    \/ Return

\* the run is over, or a realtime run, which has no end, is at the bound TS_MAX
Finished == /\ \/ pc = "returned"
               \/ pc = "top" /\ Continues /\ NextClocks = {}
            /\ UNCHANGED vars

Next == LoopStep \/ Interrupt \/ Finished

Spec == Init /\ [][Next]_vars

\* the loop is one thread of the process, always ready to take its next step
FairSpec == Spec /\ WF_vars(LoopStep)

---------------------------------------------------------------------------
(* Properties *)

WorkerRecords == [step_to : Nat, hard_event : BOOLEAN,
                  status : {"SUCCESS", "FAILED"}]
AskedRecords  == [any : HardTimes, hard : HardTimes]

TypeOK ==
    /\ clock \in -1 .. TS_MAX
    /\ main \in SyncRecords /\ thread \in [Workers -> WorkerRecords]
    /\ counter \in 0 .. IterationLimit
    /\ mode \in {"INIT", "EVENT", "DELTA", "ERROR"}
    /\ exitcode \in {"SUCCESS", "SIGINT"}
    /\ pc \in Places
    /\ pass \in 0 .. (IF Threads > 2 THEN Threads ELSE 2)
    /\ ranked \subseteq Nat /\ todo \subseteq Objects
    /\ result \in {"none", "SUCCESS", "FAILED"}
    /\ asked \in AskedRecords
    /\ reported \in BOOLEAN /\ precommits \in 0 .. 2

\* An event is never skipped: when the clock moves to the time of the sync
\* event, whoever asked in the iteration before asked for that time or a later
\* one, up to the minimum timestep.  This is what the sync logic table of
\* exec.c and the comment of exec_sync_set promise of the posts, for every
\* order in which objects, workers, transforms and commits post them.
NoEventSkipped == [][clock' # clock /\ clock' > 0
                        => clock' < asked.any + MinimumTimestep]_vars

\* The clock never goes back, unless to report a failure.
ClockMonotone == [][clock' >= clock \/ clock' = TS_INVALID]_vars

\* No run goes on past its stop time, and a run that ends with success before
\* it either had nothing hard left to wait for or was interrupted, or left the
\* loop on a mode error.
StopTimeKept ==
    /\ ~RealTime => clock <= StopTime
    /\ (/\ pc = "returned" /\ result = "SUCCESS" /\ exitcode = "SUCCESS"
        /\ ~RealTime /\ mode # "ERROR")
            => asked.hard = TS_NEVER \/ asked.hard + MinimumTimestep > StopTime

\* The break on a mode error leaves the status of the main event as it was.
LeftByBreak == mode = "ERROR" /\ main.status # "FAILED"

\* exec_start returns FAILED when an object, a transform, an instance, a
\* commit, a script or a module reported a failure, whether the condition, a
\* signal or an exception ended the loop.  The fourth way out, the break on a
\* mode error, returns what the loop's condition has just tested: success.
FailureReported == pc = "returned" /\ reported => (result = "FAILED" \/ LeftByBreak)

\* A precommit happens before the objects are synchronised at a new clock, and
\* once per timestep, as the comment above precommit_all says.
PrecommitFirst == pc \in {"lists", "list", "merge", "advance"} => precommits = 1

\* Seen from outside, the loop is the clock of EventClock.
Stopped == pc \in {"ended", "returned"}
Clean   == main.status = "SUCCESS" /\ exitcode = "SUCCESS" /\ mode # "ERROR"

Abstract == INSTANCE EventClock WITH
    now <- clock, request <- asked.any, promise <- asked.hard,
    Never <- TS_NEVER, Slack <- MinimumTimestep,
    state <- IF ~Stopped THEN "running" ELSE IF Clean THEN "done" ELSE "aborted"

\* Every request made in an iteration is honoured in time and no run ends with
\* a hard one left, whatever the objects, workers and modules answer.
ImplementsEventClock == Abstract!Spec

\* The convergence limit makes every run with a stop time end.
Terminates == <>(pc = "returned")
=============================================================================

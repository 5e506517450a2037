----------------------------- MODULE EventClock -----------------------------
(***************************************************************************)
(* What the main loop promises, without saying how: a clock driven by the  *)
(* requests of those who want to be called.  Requests are made while the   *)
(* clock stands; it then moves to a time no later than the earliest one    *)
(* (up to Slack, the granularity of the steps) and within the stop time,   *)
(* and the requests are made anew.  The run is done only when no promise - *)
(* a hard request - is left within the stop time; otherwise it is aborted. *)
(***************************************************************************)
EXTENDS Integers

CONSTANTS StartTime, StopTime, Never, Slack

VARIABLES now,      \* the clock
          request,  \* the earliest time requested, Never for none
          promise,  \* the earliest time requested by a hard event
          state     \* running, done or aborted

clockVars == <<now, request, promise, state>>

Init == /\ now = StartTime /\ request = now /\ promise = now
        /\ state = "running"

\* a request only brings the next step forward
Request == /\ state = "running"
           /\ request' \in now .. request
           /\ promise' \in request' .. promise
           /\ UNCHANGED <<now, state>>

Step == /\ state = "running" /\ state' = "running"
        /\ now' >= now /\ now' < request + Slack /\ now' <= StopTime
        /\ request' >= now' /\ promise' >= request'

Done == /\ state = "running" /\ state' = "done"
        /\ promise = Never \/ promise + Slack > StopTime
        /\ UNCHANGED <<now, request, promise>>

\* a failure or a signal; nothing is said of the clock it leaves behind
Abort == state = "running" /\ state' = "aborted"

Next == Request \/ Step \/ Done \/ Abort

Spec == Init /\ [][Next]_clockVars
=============================================================================

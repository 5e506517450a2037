------------------------------ MODULE SyncData ------------------------------
(***************************************************************************)
(* The sync event of the main loop (core/exec.c, "SYNC HANDLING API"): the *)
(* record in which every part of a run posts the next time it has to be    *)
(* called, and the timestamps it is made of (core/timestamp.[ch]).         *)
(*                                                                         *)
(* A timestamp is an integer.  A positive one is a hard event, a negative  *)
(* one the soft event of its absolute value, TS_INVALID is -1, TS_ZERO an  *)
(* error and TS_NEVER the largest integer of the type.  The count of hard  *)
(* events is kept as the fact that it is not zero, which is all that       *)
(* exec_sync_ishard, its only reader outside a log message, asks.          *)
(***************************************************************************)
EXTENDS Integers, Sequences

CONSTANTS TS_MAX,      \* the last date that is not treated as "never"
          TS_NEVER     \* the largest timestamp

ASSUME TimestampAssumption ==
    /\ TS_MAX \in Nat \ {0}
    /\ TS_NEVER \in Nat
    /\ TS_MAX < TS_NEVER

TS_ZERO    == 0
TS_INVALID == -1

Dates     == 1 .. TS_MAX
HardTimes == Dates \cup {TS_NEVER}
SoftTimes == {-t : t \in 2 .. TS_MAX - 1}

SyncRecords == [step_to    : (-TS_MAX .. TS_MAX) \cup {TS_NEVER},
                hard_event : BOOLEAN,
                status     : {"SUCCESS", "FAILED"}]

(***************************************************************************)
(* absolute_timestamp: only the soft times of valid dates are converted.   *)
(***************************************************************************)
AbsoluteTimestamp(t) == IF -TS_MAX <= t /\ t < 0 THEN -t ELSE t

(***************************************************************************)
(* earliest_timestamp is variadic and reads its arguments up to the first  *)
(* TS_ZERO after the first one; of those it returns the one whose absolute *)
(* time is least, the first of equals.                                     *)
(***************************************************************************)
EarliestTimestamp(args) ==
    LET read == {i \in DOMAIN args :
                    \A j \in 2 .. i : args[j] # TS_ZERO}
        at(i) == AbsoluteTimestamp(args[i])
    IN  args[CHOOSE i \in read :
                \A j \in read : at(i) < at(j) \/ (at(i) = at(j) /\ i <= j)]

Earlier(t, u) == IF u < t THEN u ELSE t

(***************************************************************************)
(* The API, one operator per function.                                     *)
(***************************************************************************)
SyncReset == [step_to |-> TS_NEVER, hard_event |-> FALSE, status |-> "SUCCESS"]

Fail(d) == [d EXCEPT !.status = "FAILED"]

\* exec_sync_set throws for these times and leaves the record as it is
SyncSetThrows(t) == t \notin {TS_NEVER, TS_INVALID}
                    /\ (t <= -TS_MAX \/ t > TS_MAX)

\* TS_NEVER is later than any valid date, so that the hard event of an empty
\* record and that of a later one are the same assignment.  A soft event is
\* posted to an empty record as it stands, with its sign.
SyncSet(d, t) ==
    CASE t = TS_NEVER -> d
      [] t = TS_INVALID \/ t = TS_ZERO -> Fail(d)
      [] t > 0 /\ t # TS_NEVER ->
            [d EXCEPT !.step_to = Earlier(@, t), !.hard_event = TRUE]
      [] t < 0 /\ t # TS_INVALID ->
            [d EXCEPT !.step_to = IF @ = TS_NEVER THEN t ELSE Earlier(@, -t)]

SyncIsNever(d)   == d.step_to = TS_NEVER
SyncIsInvalid(d) == d.status = "FAILED"
SyncIsHard(d)    == d.hard_event

SyncGet(d) == IF SyncIsNever(d) THEN TS_NEVER
              ELSE IF SyncIsInvalid(d) THEN TS_INVALID
              ELSE AbsoluteTimestamp(d.step_to)

\* mutant: soft events of the workers are not merged
SyncMergeHard(to, from) ==
    IF SyncIsInvalid(from) THEN SyncSet(to, TS_INVALID)
    ELSE IF SyncIsHard(from) THEN SyncSet(to, SyncGet(from)) ELSE to

SyncMerge(to, from) ==
    IF SyncIsInvalid(from) THEN SyncSet(to, TS_INVALID)
    ELSE IF SyncIsNever(from) THEN to
    ELSE IF SyncIsHard(from) THEN SyncSet(to, SyncGet(from))
    ELSE SyncSet(to, -SyncGet(from))

\* whether exec_sync_set throws for what exec_sync_merge posts
SyncMergeThrows(from) ==
    /\ ~SyncIsInvalid(from) /\ ~SyncIsNever(from)
    /\ SyncSetThrows(IF SyncIsHard(from) THEN SyncGet(from) ELSE -SyncGet(from))

\* mutant: one second too many
SyncIsRunningOn(d, stoptime) == /\ SyncGet(d) <= stoptime + 1
                                /\ ~SyncIsNever(d)
                                /\ SyncIsHard(d)

SyncIsRunning(d, stoptime) == /\ SyncGet(d) <= stoptime
                              /\ ~SyncIsNever(d)
                              /\ SyncIsHard(d)
=============================================================================

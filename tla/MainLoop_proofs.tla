-------------------------- MODULE MainLoop_proofs --------------------------
(***************************************************************************)
(* Theorems about the main loop, for every model, number of workers, stop  *)
(* time, minimum timestep and iteration limit.                             *)
(***************************************************************************)
EXTENDS MainLoop, TLAPS

---------------------------------------------------------------------------
(* Timestamps and sync records *)

\* What the assumptions say of the constants the proofs compare.
LEMMA Constants ==
    /\ TS_MAX \in Nat \ {0, 1} /\ TS_NEVER \in Nat /\ TS_MAX < TS_NEVER
    /\ MinimumTimestep \in Nat \ {0}
    /\ TS_MAX + MinimumTimestep < TS_NEVER
    /\ StopTime \in HardTimes /\ (StopTime # TS_NEVER => StopTime < TS_MAX)
    /\ StartTime \in 2 .. TS_MAX
    /\ IterationLimit \in Nat \ {0} /\ Threads \in Nat \ {0}
BY TimestampAssumption, MainLoopAssumption

\* absolute_timestamp changes the sign of the soft times of dates only.
LEMMA AbsoluteFacts ==
    ASSUME NEW t \in Int
    PROVE  /\ AbsoluteTimestamp(t) \in Int
           /\ t >= 0 => AbsoluteTimestamp(t) = t
           /\ t < 0 /\ -TS_MAX <= t => AbsoluteTimestamp(t) = -t
           /\ t < -TS_MAX => AbsoluteTimestamp(t) = t
BY Constants DEF AbsoluteTimestamp

\* What exec_sync_set makes of a record, for a time it does not throw for.
LEMMA SyncSetType ==
    ASSUME NEW d \in SyncRecords, NEW t \in Int, ~SyncSetThrows(t)
    PROVE  /\ SyncSet(d, t) \in SyncRecords
           /\ d.step_to # 0 => SyncSet(d, t).step_to # 0
<1> USE Constants DEF SyncRecords, SyncSetThrows, TS_INVALID, TS_ZERO
<1>1. CASE t = TS_NEVER
  BY <1>1 DEF SyncSet
<1>2. CASE t = TS_INVALID \/ t = TS_ZERO
  BY <1>2 DEF SyncSet, Fail
<1>3. CASE t > 0 /\ t # TS_NEVER
  <2>1. SyncSet(d, t) = [d EXCEPT !.step_to = Earlier(@, t), !.hard_event = TRUE]
    BY <1>3 DEF SyncSet
  <2>2. t \in 1 .. TS_MAX
    BY <1>3
  <2> DEFINE u == Earlier(d.step_to, t)
  <2>3. u \in ((-TS_MAX .. TS_MAX) \cup {TS_NEVER}) /\ (d.step_to # 0 => u # 0)
    BY <2>2 DEF Earlier
  <2>4. SyncSet(d, t) = [[d EXCEPT !.step_to = u] EXCEPT !.hard_event = TRUE]
    BY <2>1
  <2> HIDE DEF u
  <2> QED BY <2>3, <2>4
<1>4. CASE t < -1
  BY <1>4 DEF SyncSet, Earlier
<1> QED BY <1>1, <1>2, <1>3, <1>4

\* A record that holds a time, as it does when a stop time is posted first,
\* only ever gets an earlier one.
LEMMA SyncSetPosts ==
    ASSUME NEW d \in SyncRecords, d.step_to \in 1 .. TS_MAX,
           NEW t \in Int, ~SyncSetThrows(t)
    PROVE  LET e == SyncSet(d, t) IN
           /\ e.step_to = d.step_to \/ e.step_to = AbsoluteTimestamp(t)
           /\ e.step_to \in 1 .. d.step_to
           /\ t = TS_NEVER \/ e.status = "FAILED" \/ e.step_to <= AbsoluteTimestamp(t)
           /\ d.status = "FAILED" => e.status = "FAILED"
           /\ t \in {TS_INVALID, TS_ZERO} => e.status = "FAILED"
           /\ d.hard_event => e.hard_event
<1> USE Constants DEF SyncRecords, SyncSetThrows, TS_INVALID, TS_ZERO
<1>1. CASE t = TS_NEVER
  BY <1>1 DEF SyncSet
<1>2. CASE t = TS_INVALID \/ t = TS_ZERO
  BY <1>2 DEF SyncSet, Fail
<1>3. CASE t > 0 /\ t # TS_NEVER
  BY <1>3, AbsoluteFacts DEF SyncSet, Earlier
<1>4. CASE t < -1
  <2>1. AbsoluteTimestamp(t) = -t /\ d.step_to # TS_NEVER
    BY <1>4, AbsoluteFacts
  <2>2. SyncSet(d, t) = [d EXCEPT !.step_to = Earlier(@, -t)]
    BY <1>4, <2>1 DEF SyncSet
  <2> QED BY <1>4, <2>1, <2>2 DEF Earlier
<1> QED BY <1>1, <1>2, <1>3, <1>4

\* Posting TS_INVALID, as CATCH does, changes the status alone.
LEMMA SyncSetFails ==
    ASSUME NEW d \in SyncRecords
    PROVE  /\ SyncSet(d, TS_INVALID) = Fail(d)
           /\ Fail(d) \in SyncRecords /\ Fail(d).step_to = d.step_to
           /\ Fail(d).status = "FAILED"
BY Constants DEF SyncSet, Fail, SyncRecords, TS_INVALID, TS_ZERO

\* The time of a record, when it may be the next time of the clock.
LEMMA SyncGetFacts ==
    ASSUME NEW d \in SyncRecords, d.step_to # 0
    PROVE  /\ SyncGet(d) \in (1 .. TS_MAX) \cup {TS_INVALID, TS_NEVER}
           /\ SyncGet(d) = TS_INVALID <=> d.step_to # TS_NEVER /\ d.status = "FAILED"
           /\ d.step_to \in 1 .. TS_MAX /\ d.status # "FAILED"
                => SyncGet(d) = d.step_to
BY Constants, AbsoluteFacts
   DEF SyncGet, SyncIsNever, SyncIsInvalid, SyncRecords, TS_INVALID

---------------------------------------------------------------------------
(* Rounding *)

\* The division of a natural number leaves less than the divisor.
LEMMA DivMod ==
    ASSUME NEW a \in Nat, NEW b \in Nat \ {0}
    PROVE  /\ a \div b \in Nat
           /\ b * (a \div b) <= a
           /\ a < b * (a \div b) + b
<1>1. a = (b * (a \div b)) + (a % b) /\ 0 <= a % b /\ a % b < b
  BY Z3
<1> QED BY <1>1, Z3

\* A time after the clock is put off by less than the minimum timestep.
LEMMA RoundUpFacts ==
    ASSUME NEW t \in Int, NEW c \in Nat
    PROVE  /\ RoundUp(t, c) \in Int
           /\ t <= RoundUp(t, c) /\ RoundUp(t, c) < t + MinimumTimestep
           /\ t <= c \/ t >= TS_NEVER => RoundUp(t, c) = t
<1> USE Constants
<1>1. CASE MinimumTimestep > 1 /\ t > c /\ t < TS_NEVER
  <2> DEFINE q == (t - 1) \div MinimumTimestep
  <2>1. t - 1 \in Nat
    BY <1>1
  <2>2. /\ q \in Nat /\ MinimumTimestep * q <= t - 1
        /\ t - 1 < MinimumTimestep * q + MinimumTimestep
    BY <2>1, DivMod
  <2>3. RoundUp(t, c) = (q + 1) * MinimumTimestep
    BY <1>1 DEF RoundUp
  <2> HIDE DEF q
  <2>4. (q + 1) * MinimumTimestep = MinimumTimestep * q + MinimumTimestep
        /\ MinimumTimestep * q \in Nat
    BY <2>2, Z3
  <2> QED BY <1>1, <2>2, <2>3, <2>4
<1>2. CASE ~ (MinimumTimestep > 1 /\ t > c /\ t < TS_NEVER)
  BY <1>2 DEF RoundUp
<1> QED BY <1>1, <1>2

---------------------------------------------------------------------------
(* The internal behaviours *)

\* earliest_timestamp of two arguments and the end mark
LEMMA EarliestOfTwo ==
    ASSUME NEW a \in Int, NEW b \in Int \ {0}
    PROVE  EarliestTimestamp(<<a, b, TS_ZERO>>)
              = IF AbsoluteTimestamp(b) < AbsoluteTimestamp(a) THEN b ELSE a
<1> DEFINE args == <<a, b, TS_ZERO>>
           read == {i \in DOMAIN args : \A j \in 2 .. i : args[j] # TS_ZERO}
           at(i) == AbsoluteTimestamp(args[i])
           Best(i) == \A j \in read : at(i) < at(j) \/ (at(i) = at(j) /\ i <= j)
<1>1. read = {1, 2}
  <2>1. DOMAIN args = {1, 2, 3} /\ args[2] # TS_ZERO /\ args[3] = TS_ZERO
    BY DEF TS_ZERO
  <2>2. 1 \in read /\ 2 \in read
    BY <2>1
  <2>3. 3 \notin read
    BY <2>1
  <2> QED BY <2>1, <2>2, <2>3
<1>2. /\ at(1) = AbsoluteTimestamp(a) /\ at(2) = AbsoluteTimestamp(b)
      /\ at(1) \in Int /\ at(2) \in Int
  BY AbsoluteFacts
<1>3. EarliestTimestamp(args) = args[CHOOSE i \in read : Best(i)]
  BY DEF EarliestTimestamp
<1> HIDE DEF at
<1>4. \A i \in {1, 2} : Best(i) <=> i = (IF at(2) < at(1) THEN 2 ELSE 1)
  BY <1>1, <1>2
<1> HIDE DEF read, Best
<1> DEFINE k == CHOOSE i \in read : Best(i)
<1>5. k = (IF at(2) < at(1) THEN 2 ELSE 1)
  BY <1>1, <1>4
<1>6. EarliestTimestamp(args) = args[k]
  BY <1>3
<1> HIDE DEF k
<1> QED BY <1>2, <1>5, <1>6

\* and of three, none of which is the end mark
LEMMA EarliestOfThree ==
    ASSUME NEW a \in Int, NEW b \in Int \ {0}, NEW c \in Int \ {0}
    PROVE  LET e == EarliestTimestamp(<<a, b, c, TS_ZERO>>) IN
           /\ e \in {a, b, c}
           /\ \A t \in {a, b, c} : AbsoluteTimestamp(e) <= AbsoluteTimestamp(t)
<1> DEFINE args == <<a, b, c, TS_ZERO>>
           read == {i \in DOMAIN args : \A j \in 2 .. i : args[j] # TS_ZERO}
           at(i) == AbsoluteTimestamp(args[i])
           Best(i) == \A j \in read : at(i) < at(j) \/ (at(i) = at(j) /\ i <= j)
<1>1. read = {1, 2, 3}
  <2>1. /\ DOMAIN args = {1, 2, 3, 4}
        /\ args[2] # TS_ZERO /\ args[3] # TS_ZERO /\ args[4] = TS_ZERO
    BY DEF TS_ZERO
  <2>2. 1 \in read /\ 2 \in read /\ 3 \in read
    BY <2>1
  <2>3. 4 \notin read
    BY <2>1
  <2> QED BY <2>1, <2>2, <2>3
<1>2. /\ at(1) = AbsoluteTimestamp(a) /\ at(2) = AbsoluteTimestamp(b)
      /\ at(3) = AbsoluteTimestamp(c)
      /\ at(1) \in Int /\ at(2) \in Int /\ at(3) \in Int
  BY AbsoluteFacts
<1>3. EarliestTimestamp(args) = args[CHOOSE i \in read : Best(i)]
  BY DEF EarliestTimestamp
<1> HIDE DEF at
<1>4. \E i \in {1, 2, 3} : Best(i)
  <2>1. CASE at(1) <= at(2) /\ at(1) <= at(3)
    BY <1>1, <1>2, <2>1
  <2>2. CASE at(2) < at(1) /\ at(2) <= at(3)
    BY <1>1, <1>2, <2>2
  <2>3. CASE at(3) < at(1) /\ at(3) < at(2)
    BY <1>1, <1>2, <2>3
  <2> QED BY <1>2, <2>1, <2>2, <2>3
<1> DEFINE i == CHOOSE i \in read : Best(i)
<1>5. i \in read /\ Best(i)
  BY <1>1, <1>4
<1>6. i \in {1, 2, 3} /\ at(i) <= at(1) /\ at(i) <= at(2) /\ at(i) <= at(3)
  BY <1>1, <1>2, <1>5, SMTT(30)
<1> HIDE DEF i, read, Best
<1>7. args[i] \in {a, b, c} /\ at(i) = AbsoluteTimestamp(args[i])
  BY <1>6 DEF at
<1> QED BY <1>2, <1>3, <1>6, <1>7 DEF i

\* an error among the soft answers hides those that follow it
LEMMA EarliestAfterError ==
    ASSUME NEW a \in Int, NEW c \in Int
    PROVE  EarliestTimestamp(<<a, TS_ZERO, c, TS_ZERO>>) = a
<1> DEFINE args == <<a, TS_ZERO, c, TS_ZERO>>
           read == {i \in DOMAIN args : \A j \in 2 .. i : args[j] # TS_ZERO}
           at(i) == AbsoluteTimestamp(args[i])
           Best(i) == \A j \in read : at(i) < at(j) \/ (at(i) = at(j) /\ i <= j)
<1>1. read = {1}
  <2>1. DOMAIN args = {1, 2, 3, 4} /\ args[2] = TS_ZERO
    BY DEF TS_ZERO
  <2>2. 1 \in read
    BY <2>1
  <2>3. 2 \notin read /\ 3 \notin read /\ 4 \notin read
    BY <2>1
  <2> QED BY <2>1, <2>2, <2>3
<1>2. EarliestTimestamp(args) = args[CHOOSE i \in read : Best(i)]
  BY DEF EarliestTimestamp
<1>3. Best(1)
  BY <1>1, AbsoluteFacts
<1> HIDE DEF read, Best
<1> DEFINE k == CHOOSE i \in read : Best(i)
<1>4. k = 1
  BY <1>1, <1>3
<1>5. EarliestTimestamp(args) = args[k]
  BY <1>2
<1> HIDE DEF k
<1> QED BY <1>4, <1>5

\* syncall_internals answers a time before the minimum timestep after whatever
\* its parts ask for, or the failure of an instance.
Magnitude(t) == IF t > 0 THEN t ELSE -t

\* A near time is a date, at the clock or after it.
LEMMA NearFacts ==
    ASSUME NEW c \in 1 .. TS_MAX, NEW t \in Near(c)
    PROVE  t \in 1 .. TS_MAX /\ t >= c /\ t # TS_NEVER
BY Constants, MainLoopAssumption DEF Near

\* syncall_internals answers a time whatever its parts answer.
LEMMA InternalsType ==
    ASSUME NEW c \in 1 .. TS_MAX,
           NEW s \in Near(c) \cup {TS_NEVER}, NEW e \in Near(c) \cup {TS_NEVER},
           NEW x \in {TS_NEVER, TS_ZERO},
           NEW hard \in Near(c) \cup {TS_NEVER, TS_INVALID}
    PROVE  SyncInternals(hard, s, x, e, c) \in Int
<1> DEFINE se == AbsoluteTimestamp(EarliestTimestamp(<<s, x, e, TS_ZERO>>))
           y  == IF se # TS_NEVER THEN -se ELSE TS_NEVER
           sa == EarliestTimestamp(<<hard, y, TS_ZERO>>)
<1>0. c \in Nat
  BY Constants
<1>1. /\ s \in (1 .. TS_MAX) \cup {TS_NEVER} /\ e \in (1 .. TS_MAX) \cup {TS_NEVER}
      /\ hard \in (1 .. TS_MAX) \cup {TS_NEVER, -1}
  BY NearFacts DEF TS_INVALID
<1>3. EarliestTimestamp(<<s, x, e, TS_ZERO>>) \in (1 .. TS_MAX) \cup {TS_NEVER}
  <2>1. CASE x = TS_ZERO
    BY <1>1, <2>1, Constants, EarliestAfterError
  <2>2. CASE x = TS_NEVER
    BY <1>1, <2>2, Constants, EarliestOfThree
  <2> QED BY <2>1, <2>2
<1>4. se \in (1 .. TS_MAX) \cup {TS_NEVER}
  BY <1>3, AbsoluteFacts, Constants
<1> HIDE DEF se
<1>5. y \in Int \ {0}
  BY <1>4, Constants
<1> HIDE DEF y
<1>6. sa \in Int
  BY <1>1, <1>5, EarliestOfTwo, Constants
<1> HIDE DEF sa
<1>7. SyncInternals(hard, s, x, e, c)
         = IF sa > 0 THEN RoundUp(sa, c) ELSE -RoundUp(-sa, c)
  BY DEF SyncInternals, sa, y, se
<1> QED BY <1>0, <1>6, <1>7, RoundUpFacts

\* What it answers, when no transform fails.
LEMMA InternalsFacts ==
    ASSUME NEW c \in 1 .. TS_MAX,
           NEW s \in Near(c) \cup {TS_NEVER}, NEW e \in Near(c) \cup {TS_NEVER},
           NEW hard \in Near(c) \cup {TS_NEVER, TS_INVALID}
    PROVE  LET r == SyncInternals(hard, s, TS_NEVER, e, c) IN
           /\ r \in Int
           /\ hard = TS_INVALID => r = TS_INVALID
           /\ hard # TS_INVALID => \A t \in {s, e, hard} :
                 t = TS_NEVER \/ Magnitude(r) < t + MinimumTimestep
<1> DEFINE soft == EarliestTimestamp(<<s, TS_NEVER, e, TS_ZERO>>)
           se == AbsoluteTimestamp(soft)
           y  == IF se # TS_NEVER THEN -se ELSE TS_NEVER
           sa == EarliestTimestamp(<<hard, y, TS_ZERO>>)
           r  == SyncInternals(hard, s, TS_NEVER, e, c)
<1>0. c \in Nat
  BY Constants
<1>1. /\ s \in (1 .. TS_MAX) \cup {TS_NEVER} /\ e \in (1 .. TS_MAX) \cup {TS_NEVER}
      /\ hard \in (1 .. TS_MAX) \cup {TS_NEVER, -1}
  BY NearFacts DEF TS_INVALID
<1>2. /\ se \in (1 .. TS_MAX) \cup {TS_NEVER}
      /\ se <= s /\ se <= e
  <2>2. /\ soft \in {s, TS_NEVER, e}
        /\ se <= AbsoluteTimestamp(s) /\ se <= AbsoluteTimestamp(e)
    BY <1>1, Constants, EarliestOfThree
  <2>3. AbsoluteTimestamp(s) = s /\ AbsoluteTimestamp(e) = e /\ soft >= 0 /\ soft \in Int
    BY <1>1, <2>2, Constants, AbsoluteFacts
  <2>4. se = soft
    BY <2>3, AbsoluteFacts
  <2> HIDE DEF soft, se
  <2> QED BY <1>1, <2>2, <2>3, <2>4, Constants
<1> HIDE DEF se
<1>3. y \in Int \ {0} /\ AbsoluteTimestamp(y) = se
  BY <1>2, Constants, AbsoluteFacts
<1>4. sa = IF se < AbsoluteTimestamp(hard) THEN y ELSE hard
  BY <1>1, <1>3, Constants, EarliestOfTwo
<1>5. r = IF sa > 0 THEN RoundUp(sa, c) ELSE -RoundUp(-sa, c)
  BY DEF SyncInternals, sa, y, se
<1>6. CASE hard = TS_INVALID
  <2>1. AbsoluteTimestamp(hard) = 1 /\ sa = -1
    BY <1>2, <1>4, <1>6, Constants, AbsoluteFacts DEF TS_INVALID
  <2>2. RoundUp(1, c) = 1
    BY <1>0, RoundUpFacts
  <2> HIDE DEF sa, r
  <2> QED BY <1>5, <1>6, <2>1, <2>2 DEF TS_INVALID, r
<1>7. CASE hard # TS_INVALID
  <2>1. AbsoluteTimestamp(hard) = hard
    BY <1>1, <1>7, Constants, AbsoluteFacts DEF TS_INVALID
  <2>2. /\ sa \in Int \ {0} /\ Magnitude(sa) <= s /\ Magnitude(sa) <= e
        /\ Magnitude(sa) <= hard /\ Magnitude(sa) >= 1
    BY <1>1, <1>2, <1>4, <1>7, <2>1, Constants DEF Magnitude, TS_INVALID
  <2> HIDE DEF sa, r
  <2>3. r \in Int /\ Magnitude(r) = RoundUp(Magnitude(sa), c)
        /\ RoundUp(Magnitude(sa), c) < Magnitude(sa) + MinimumTimestep
    <3>1. Magnitude(sa) \in Nat /\ Magnitude(sa) >= 1
      BY <2>2 DEF Magnitude
    <3>2. /\ RoundUp(Magnitude(sa), c) \in Int
          /\ Magnitude(sa) <= RoundUp(Magnitude(sa), c)
          /\ RoundUp(Magnitude(sa), c) < Magnitude(sa) + MinimumTimestep
      BY <1>0, <3>1, RoundUpFacts
    <3> QED BY <1>5, <2>2, <3>1, <3>2 DEF Magnitude
  <2> QED BY <1>1, <1>7, <2>2, <2>3, Constants DEF Magnitude, r
<1> QED BY <1>6, <1>7

---------------------------------------------------------------------------
(* What is asked for, and what is posted for it *)

NoTimes == {TS_INVALID, TS_ZERO, -TS_NEVER}

\* an answer given at clock c: no time, or none before c
MayAnswer(t, c) == /\ t \in Int
                   /\ t \in NoTimes \/ (/\ AbsoluteTimestamp(t) \in HardTimes
                                        /\ AbsoluteTimestamp(t) >= c)

\* The history only gets earlier, and never earlier than the clock.
LEMMA AskFacts ==
    ASSUME NEW a \in AskedRecords, NEW c \in 1 .. TS_MAX, NEW t, MayAnswer(t, c)
    PROVE  LET b == Ask(a, t) IN
           /\ b \in AskedRecords
           /\ b.any <= a.any /\ b.hard <= a.hard
           /\ b.any = a.any \/ (t \notin NoTimes /\ b.any = AbsoluteTimestamp(t))
           /\ a.any >= c => b.any >= c
           /\ a.any <= a.hard => b.any <= b.hard
<1> USE Constants DEF MayAnswer, AskedRecords, HardTimes, Dates
<1>1. CASE t \in NoTimes
  BY <1>1 DEF Ask, NoTimes
<1>2. CASE t \notin NoTimes
  <2> DEFINE u == AbsoluteTimestamp(t)
  <2>1. /\ u \in (1 .. TS_MAX) \cup {TS_NEVER} /\ u >= c
        /\ t > 0 => t = u
    BY <1>2, AbsoluteFacts
  <2>2. Ask(a, t) = [any  |-> Earlier(a.any, u),
                     hard |-> IF t > 0 THEN Earlier(a.hard, t) ELSE a.hard]
    BY <1>2 DEF Ask, NoTimes
  <2> HIDE DEF u
  <2> QED BY <1>2, <2>1, <2>2 DEF Earlier, u
<1> QED BY <1>1, <1>2

\* An object's answer brings the time of its worker forward, close to what it
\* asked for, and never before the clock; a failure is kept.
LEMMA ThreadPostFacts ==
    ASSUME NEW d \in WorkerRecords, clock \in 1 .. TS_MAX,
           NEW t, MayAnswer(t, clock), t # -TS_NEVER
    PROVE  LET e == ThreadPost(d, t) IN
           /\ e \in WorkerRecords
           /\ e.step_to <= d.step_to
           /\ d.step_to >= clock => e.step_to >= clock
           /\ d.status = "FAILED" => e.status = "FAILED"
           /\ t \in {TS_INVALID, TS_ZERO} => e.status = "FAILED"
           /\ t \notin NoTimes => e.step_to < AbsoluteTimestamp(t) + MinimumTimestep
<1> USE Constants DEF MayAnswer, WorkerRecords, HardTimes, Dates
<1> DEFINE u == IF t < -1 THEN -t ELSE t
           counted == [d EXCEPT !.hard_event = @ \/ (t >= -1 /\ t # TS_NEVER)]
<1>1. counted \in WorkerRecords /\ counted.step_to = d.step_to /\ counted.status = d.status
  OBVIOUS
<1>2. ThreadPost(d, t) = IF u < clock THEN Fail(counted)
                         ELSE [counted EXCEPT !.step_to = Earlier(@, RoundUp(u, clock))]
  BY DEF ThreadPost
<1>3. u \in Int /\ clock \in Nat
  OBVIOUS
<1>4. /\ t \in {TS_INVALID, TS_ZERO} => u < clock
      /\ t \notin NoTimes => u = AbsoluteTimestamp(t) /\ u >= clock
  <2>1. t \in {TS_INVALID, TS_ZERO} => u < clock
    BY DEF TS_INVALID, TS_ZERO
  <2>2. ASSUME t \notin NoTimes PROVE u = AbsoluteTimestamp(t) /\ u >= clock
    <3>1. t # -1 /\ AbsoluteTimestamp(t) \in Nat /\ AbsoluteTimestamp(t) >= clock
      BY <2>2 DEF NoTimes, TS_INVALID
    <3>2. t >= 0 => AbsoluteTimestamp(t) = t
      BY AbsoluteFacts
    <3>3. t < 0 => AbsoluteTimestamp(t) = -t
      BY <3>1, AbsoluteFacts
    <3> QED BY <3>1, <3>2, <3>3
  <2> QED BY <2>1, <2>2
<1>5. t \in {TS_INVALID, TS_ZERO} \/ t \notin NoTimes
  BY DEF NoTimes
<1> HIDE DEF u, counted
<1>6. CASE t \in {TS_INVALID, TS_ZERO}
  BY <1>1, <1>2, <1>4, <1>6 DEF Fail, NoTimes
<1>7. CASE t \notin NoTimes
  <2> DEFINE r == RoundUp(u, clock)
  <2>1. r \in Int /\ r >= u /\ r < u + MinimumTimestep /\ u >= clock
    BY <1>3, <1>4, <1>7, RoundUpFacts
  <2>2. ThreadPost(d, t) = [counted EXCEPT !.step_to = Earlier(@, r)]
    BY <1>2, <1>3, <1>4, <1>7
  <2> HIDE DEF r
  <2>3. r \in Nat
    BY <2>1, <1>3
  <2> QED BY <1>1, <1>4, <1>7, <2>1, <2>2, <2>3 DEF Earlier, NoTimes
<1> QED BY <1>5, <1>6, <1>7

\* What an object in service answers can be posted.
LEMMA AnswersFacts ==
    ASSUME clock \in 1 .. TS_MAX, NEW t \in Answers
    PROVE  /\ MayAnswer(t, clock) /\ t \notin NoTimes /\ ~SyncSetThrows(t)
           /\ t # 0
<1> USE Constants DEF MayAnswer, NoTimes, HardTimes, Dates, SyncSetThrows,
                      TS_INVALID, TS_ZERO
<1>1. CASE t \in Near(clock)
  BY <1>1, NearFacts, AbsoluteFacts
<1>2. CASE t = TS_NEVER
  BY <1>2, AbsoluteFacts
<1>3. ASSUME NEW u \in Near(clock) \ {1, TS_MAX}, t = -u
      PROVE  /\ MayAnswer(t, clock) /\ t \notin NoTimes /\ ~SyncSetThrows(t)
             /\ t # 0
  <2>1. u \in 2 .. TS_MAX - 1 /\ u >= clock
    BY NearFacts
  <2>2. AbsoluteTimestamp(t) = u
    BY <1>3, <2>1, AbsoluteFacts
  <2> QED BY <1>3, <2>1, <2>2
<1> QED BY <1>1, <1>2, <1>3 DEF Answers

\* What any object answers is a time at the clock or later, or a failure.
LEMMA ObjectAnswersFacts ==
    ASSUME clock \in 1 .. TS_MAX, NEW o \in Objects, NEW t \in ObjectAnswers(o)
    PROVE  MayAnswer(t, clock) /\ t # -TS_NEVER
<1> USE Constants DEF MayAnswer, NoTimes, HardTimes, Dates, TS_INVALID, TS_ZERO
<1>1. InService[o] \in (0 .. TS_MAX - 1) \cup {TS_NEVER}
  BY MainLoopAssumption
<1>2. CASE clock < InService[o]
  BY <1>1, <1>2, AbsoluteFacts DEF ObjectAnswers
<1>3. CASE clock = InService[o] /\ o \in LateInService
  BY <1>1, <1>3, AbsoluteFacts DEF ObjectAnswers
<1>4. CASE t \in Answers
  BY <1>4, AnswersFacts
<1>5. CASE t \in ObjectFaults
  BY <1>5, MainLoopAssumption
<1>6. CASE t = TS_NEVER
  BY <1>6, AbsoluteFacts
<1> QED BY <1>2, <1>3, <1>4, <1>5, <1>6 DEF ObjectAnswers

---------------------------------------------------------------------------
(* Types *)

\* While the loop runs its clock is a date and iterations are left; no event is
\* posted for the time zero; merges are about workers.
LoopInv ==
    /\ TypeOK
    /\ main.step_to # 0
    /\ ~Stopped => clock \in 1 .. TS_MAX /\ counter >= 1
    /\ pc = "merge" => pass \in Workers

\* The stop time, posted first, fills the record with a hard date.
LEMMA PostStopFacts ==
    ASSUME NEW c \in 1 .. TS_MAX
    PROVE  LET d == PostStop(SyncReset, c) IN
           /\ d \in SyncRecords /\ d.step_to # 0
           /\ d.status = "SUCCESS"
           /\ StopTime # TS_NEVER /\ c <= StopTime
                => d.step_to = StopTime + 1 /\ d.hard_event
<1>1. SyncReset \in SyncRecords /\ SyncReset.step_to = TS_NEVER
      /\ SyncReset.status = "SUCCESS"
  BY Constants DEF SyncReset, SyncRecords
<1>2. CASE c <= StopTime /\ StopTime # TS_NEVER
  <2>1. StopTime + 1 \in 1 .. TS_MAX /\ StopTime + 1 # TS_NEVER
    BY <1>2, Constants DEF HardTimes, Dates
  <2>2. PostStop(SyncReset, c) = SyncSet(SyncReset, StopTime + 1)
    BY <1>2 DEF PostStop
  <2>3. SyncSet(SyncReset, StopTime + 1)
           = [step_to |-> StopTime + 1, hard_event |-> TRUE, status |-> "SUCCESS"]
    <3>1. SyncSet(SyncReset, StopTime + 1)
             = [SyncReset EXCEPT !.step_to = Earlier(@, StopTime + 1), !.hard_event = TRUE]
      BY <2>1, Constants DEF SyncSet, TS_INVALID, TS_ZERO
    <3>2. Earlier(SyncReset.step_to, StopTime + 1) = StopTime + 1
      BY <2>1, Constants DEF SyncReset, Earlier
    <3> QED BY <3>1, <3>2 DEF SyncReset
  <2>4. ~SyncSetThrows(StopTime + 1)
    BY <2>1, Constants DEF SyncSetThrows
  <2>5. SyncSet(SyncReset, StopTime + 1) \in SyncRecords
    BY <1>1, <2>1, <2>4, Constants, SyncSetType
  <2> QED BY <2>1, <2>2, <2>3, <2>5
<1>3. CASE ~(c <= StopTime /\ StopTime # TS_NEVER)
  BY <1>1, <1>3, Constants DEF PostStop
<1> QED BY <1>2, <1>3

\* An exception changes the status of the record alone.
LEMMA ThrowFacts ==
    ASSUME NEW d \in SyncRecords, Throw(d)
    PROVE  /\ main' \in SyncRecords /\ main'.step_to = d.step_to
           /\ main'.status = "FAILED" /\ pc' = "ended"
BY SyncSetFails DEF Throw

\* The next clock is a date, or TS_INVALID after a failure.
LEMMA NextClockFacts ==
    ASSUME LoopInv, ~Stopped, NEW c \in NextClocks, Continues
    PROVE  /\ c \in {TS_INVALID} \cup (1 .. TS_MAX)
           /\ ~RealTime => c = SyncGet(main) /\ c <= StopTime /\ main.step_to # TS_NEVER
<1> USE Constants DEF LoopInv, TypeOK
<1>1. CASE RealTime
  <2>1. c \in clock + 1 .. clock + 2 /\ c < TS_MAX
    BY <1>1 DEF NextClocks
  <2>2. clock \in 1 .. TS_MAX
    OBVIOUS
  <2> QED BY <1>1, <2>1, <2>2
<1>2. CASE ~RealTime
  <2>1. c = SyncGet(main) /\ SyncIsRunning(main, StopTime)
    BY <1>2 DEF NextClocks, Continues
  <2>2. c <= StopTime /\ main.step_to # TS_NEVER
    BY <2>1 DEF SyncIsRunning, SyncIsNever
  <2>3. c \in (1 .. TS_MAX) \cup {TS_INVALID, TS_NEVER}
    BY <2>1, SyncGetFacts
  <2>4. c # TS_NEVER
    BY <2>1, <2>2, AbsoluteFacts DEF SyncGet, SyncIsNever, SyncRecords, TS_INVALID
  <2> QED BY <1>2, <2>1, <2>2, <2>3, <2>4
<1> QED BY <1>1, <1>2

\* The loop starts in the invariant.
LEMMA InitType == Init => LoopInv
<1> SUFFICES ASSUME Init PROVE LoopInv
  OBVIOUS
<1> USE Constants
<1>1. SyncReset \in SyncRecords /\ SyncReset.step_to # 0 /\ SyncReset \in WorkerRecords
  BY DEF SyncReset, SyncRecords, WorkerRecords
<1>2. ~SyncSetThrows(StartTime)
  BY DEF SyncSetThrows
<1>3. StopTime < TS_NEVER => ~SyncSetThrows(StopTime + 1) /\ StopTime + 1 \in Int
  BY DEF SyncSetThrows, HardTimes, Dates
<1>4. main \in SyncRecords /\ main.step_to # 0
  <2> DEFINE d == SyncSet(SyncReset, StartTime)
  <2>1. d \in SyncRecords /\ d.step_to # 0
    BY <1>1, <1>2, SyncSetType
  <2>2. main = IF StopTime < TS_NEVER THEN SyncSet(d, StopTime + 1) ELSE d
    BY DEF Init
  <2> HIDE DEF d
  <2> QED BY <1>3, <2>1, <2>2, SyncSetType
<1>5. asked \in AskedRecords
  <2>1. MayAnswer(StartTime, 1)
    BY AbsoluteFacts DEF MayAnswer, HardTimes, Dates
  <2>2. Nothing \in AskedRecords
    BY DEF Nothing, AskedRecords, HardTimes
  <2> QED BY <2>1, <2>2, AskFacts DEF Init
<1>6. thread \in [Workers -> WorkerRecords]
  BY <1>1 DEF Init
<1>7. /\ clock \in 1 .. TS_MAX /\ counter \in 1 .. IterationLimit /\ pass = 0
      /\ pc = "top" /\ ranked = {} /\ todo = {}
      /\ mode = "INIT" /\ exitcode = "SUCCESS" /\ result = "none"
      /\ reported = FALSE /\ precommits = 0
  BY DEF Init
<1>8. TypeOK
  <2>1. /\ clock \in -1 .. TS_MAX /\ counter \in 0 .. IterationLimit
        /\ pass \in 0 .. (IF Threads > 2 THEN Threads ELSE 2)
    BY <1>7
  <2>2. reported \in BOOLEAN
    BY <1>7
  <2>3. pc \in Places
    BY <1>7 DEF Places
  <2>4. precommits \in 0 .. 2 /\ mode \in {"INIT", "EVENT", "DELTA", "ERROR"}
        /\ exitcode \in {"SUCCESS", "SIGINT"} /\ result \in {"none", "SUCCESS", "FAILED"}
    BY <1>7
  <2>5. main \in SyncRecords /\ thread \in [Workers -> WorkerRecords] /\ asked \in AskedRecords
    BY <1>4, <1>5, <1>6
  <2> QED BY <1>7, <2>1, <2>2, <2>3, <2>4, <2>5 DEF TypeOK
<1> QED BY <1>4, <1>7, <1>8 DEF LoopInv

\* The head of an iteration: what is posted is a valid record.
LEMMA BeginPosts ==
    ASSUME NEW c \in 1 .. TS_MAX,
           NEW s \in Near(c) \cup {TS_NEVER}, NEW e \in Near(c) \cup {TS_NEVER},
           NEW x \in {TS_NEVER} \cup May("loadshape_transform", TS_ZERO),
           NEW hard \in Near(c) \cup {TS_NEVER} \cup May("instance", TS_INVALID)
    PROVE  /\ MayAnswer(-s, c) /\ MayAnswer(-e, c) /\ MayAnswer(hard, c)
           /\ x \in {TS_NEVER, TS_ZERO}
           /\ hard \in Near(c) \cup {TS_NEVER, TS_INVALID}
           /\ SyncInternals(hard, s, x, e, c) \in Int
<1> USE Constants
<1>1. x \in {TS_NEVER, TS_ZERO} /\ hard \in Near(c) \cup {TS_NEVER, TS_INVALID}
  BY DEF May
<1>2. SyncInternals(hard, s, x, e, c) \in Int
  BY <1>1, InternalsType
<1>3. ASSUME NEW t \in Near(c) \cup {TS_NEVER} PROVE MayAnswer(-t, c)
  BY <1>3, NearFacts, AbsoluteFacts DEF MayAnswer, NoTimes, HardTimes, Dates
<1>4. MayAnswer(hard, c)
  BY <1>1, NearFacts, AbsoluteFacts DEF MayAnswer, NoTimes, HardTimes, Dates, TS_INVALID
<1> QED BY <1>1, <1>2, <1>3, <1>4

\* The head of an iteration keeps the invariant.
LEMMA BeginType ==
    ASSUME LoopInv, BeginIteration
    PROVE  LoopInv'
<1> USE Constants
<1>1. ~Stopped /\ clock' \in NextClocks /\ clock' >= 0 /\ Continues
  BY DEF BeginIteration, Stopped
<1>2. clock' \in 1 .. TS_MAX
  BY <1>1, NextClockFacts DEF TS_INVALID
<1>3. PICK dt \in DeltaAnswers : SetMode(dt)
  BY DEF BeginIteration
<1>4. PICK s \in Near(clock') \cup {TS_NEVER}, e \in Near(clock') \cup {TS_NEVER},
          x \in {TS_NEVER} \cup May("loadshape_transform", TS_ZERO),
          hard \in Near(clock') \cup {TS_NEVER} \cup May("instance", TS_INVALID) :
         LET it == SyncInternals(hard, s, x, e, clock')
             posted == PostStop(SyncReset, clock')
         IN  /\ asked' = Ask(Ask(Ask(Nothing, -s), -e), hard)
             /\ reported' = (reported \/ x = TS_ZERO \/ hard = TS_INVALID)
             /\ IF \/ it # TS_NEVER /\ AbsoluteTimestamp(it) < clock'
                   \/ SyncSetThrows(it)
                THEN Throw(posted)
                ELSE main' = SyncSet(posted, it) /\ pc' = "precommit"
  BY DEF BeginIteration
<1> DEFINE it == SyncInternals(hard, s, x, e, clock')
           posted == PostStop(SyncReset, clock')
<1>5. it \in Int /\ posted \in SyncRecords /\ posted.step_to # 0
  BY <1>2, BeginPosts, PostStopFacts
<1>6. main' \in SyncRecords /\ main'.step_to # 0 /\ pc' \in {"ended", "precommit"}
  <2>1. CASE Throw(posted)
    BY <1>5, <2>1, ThrowFacts
  <2>2. CASE ~SyncSetThrows(it) /\ main' = SyncSet(posted, it) /\ pc' = "precommit"
    BY <1>5, <2>2, SyncSetType
  <2> QED BY <1>4, <2>1, <2>2
<1>7. asked' \in AskedRecords
  <2>1. MayAnswer(-s, clock') /\ MayAnswer(-e, clock') /\ MayAnswer(hard, clock')
    BY <1>2, BeginPosts
  <2>2. Nothing \in AskedRecords
    BY DEF Nothing, AskedRecords, HardTimes
  <2>3. Ask(Nothing, -s) \in AskedRecords
    BY <1>2, <2>1, <2>2, AskFacts
  <2>4. Ask(Ask(Nothing, -s), -e) \in AskedRecords
    BY <1>2, <2>1, <2>3, AskFacts
  <2> QED BY <1>2, <1>4, <2>1, <2>4, AskFacts
<1>8. reported' \in BOOLEAN
  BY <1>4
<1> HIDE DEF it, posted
<1>9. thread' \in [Workers -> WorkerRecords]
  <2>1. thread' = [w \in Workers |-> [thread[w] EXCEPT !.step_to = TS_NEVER,
                                                     !.hard_event = FALSE]]
    BY DEF BeginIteration
  <2>2. ASSUME NEW w \in Workers
        PROVE  [thread[w] EXCEPT !.step_to = TS_NEVER, !.hard_event = FALSE] \in WorkerRecords
    <3> DEFINE d == [thread[w] EXCEPT !.step_to = TS_NEVER]
    <3>1. d \in WorkerRecords
      BY DEF LoopInv, TypeOK, WorkerRecords
    <3>2. [thread[w] EXCEPT !.step_to = TS_NEVER, !.hard_event = FALSE]
             = [d EXCEPT !.hard_event = FALSE]
      OBVIOUS
    <3> HIDE DEF d
    <3> QED BY <3>1, <3>2 DEF WorkerRecords
  <2> QED BY <2>1, <2>2
<1>10. precommits' \in 0 .. 2 /\ mode' \in {"EVENT", "DELTA"}
  <2>1. precommits' = IF clock' = clock THEN precommits ELSE 0
    BY DEF BeginIteration
  <2>2. precommits \in 0 .. 2
    BY DEF LoopInv, TypeOK
  <2>3. mode' \in {"EVENT", "DELTA"}
    BY <1>3 DEF SetMode
  <2> QED BY <2>1, <2>2, <2>3
<1>11. UNCHANGED <<counter, exitcode, result, lists>>
  BY DEF BeginIteration
<1>12. TypeOK'
  BY <1>2, <1>6, <1>7, <1>8, <1>9, <1>10, <1>11 DEF LoopInv, TypeOK, Places, lists
<1> QED BY <1>1, <1>2, <1>6, <1>11, <1>12 DEF LoopInv, Stopped

\* The parts of the invariant the steps use most.
LEMMA LoopFacts ==
    ASSUME LoopInv
    PROVE  /\ clock \in -1 .. TS_MAX /\ main \in SyncRecords /\ main.step_to # 0
           /\ thread \in [Workers -> WorkerRecords]
           /\ counter \in 0 .. IterationLimit
           /\ asked \in AskedRecords /\ reported \in BOOLEAN
           /\ precommits \in 0 .. 2
           /\ ranked \subseteq Nat /\ todo \subseteq Objects
           /\ ~Stopped => clock \in 1 .. TS_MAX /\ counter >= 1
BY DEF LoopInv, TypeOK

\* Everything TypeOK says, in the parts that an action may change.
LEMMA TypeParts ==
    ASSUME clock' \in -1 .. TS_MAX, main' \in SyncRecords, main'.step_to # 0,
           thread' \in [Workers -> WorkerRecords],
           counter' \in 0 .. IterationLimit,
           mode' \in {"INIT", "EVENT", "DELTA", "ERROR"},
           exitcode' \in {"SUCCESS", "SIGINT"}, pc' \in Places,
           pass' \in 0 .. (IF Threads > 2 THEN Threads ELSE 2),
           ranked' \subseteq Nat, todo' \subseteq Objects,
           result' \in {"none", "SUCCESS", "FAILED"}, asked' \in AskedRecords,
           reported' \in BOOLEAN, precommits' \in 0 .. 2,
           pc' \in {"ended", "returned"} \/ (clock' \in 1 .. TS_MAX /\ counter' >= 1),
           pc' = "merge" => pass' \in Workers
    PROVE  LoopInv'
BY DEF LoopInv, TypeOK, Stopped

\* exec_sync_get reads the time of a worker's record as it stands.
LEMMA MergeGet ==
    ASSUME NEW from \in WorkerRecords, ~SyncIsInvalid(from), ~SyncIsNever(from)
    PROVE  SyncGet(from) = from.step_to /\ from.step_to \in Nat
BY Constants, AbsoluteFacts DEF SyncGet, WorkerRecords

\* exec_sync_merge makes a valid record of two.
LEMMA MergeType ==
    ASSUME NEW to \in SyncRecords, to.step_to # 0,
           NEW from \in WorkerRecords, ~SyncMergeThrows(from)
    PROVE  SyncMerge(to, from) \in SyncRecords /\ SyncMerge(to, from).step_to # 0
<1>1. CASE SyncIsInvalid(from)
  BY <1>1, SyncSetFails DEF SyncMerge
<1>2. CASE ~SyncIsInvalid(from) /\ SyncIsNever(from)
  BY <1>2 DEF SyncMerge
<1>3. CASE ~SyncIsInvalid(from) /\ ~SyncIsNever(from)
  <2> DEFINE t == IF SyncIsHard(from) THEN SyncGet(from) ELSE -SyncGet(from)
  <2>1. t \in Int
    BY <1>3, MergeGet
  <2>2. ~SyncSetThrows(t) /\ SyncMerge(to, from) = SyncSet(to, t)
    BY <1>3 DEF SyncMerge, SyncMergeThrows
  <2> HIDE DEF t
  <2> QED BY <2>1, <2>2, SyncSetType
<1> QED BY <1>1, <1>2, <1>3

\* Every step keeps the types.
LEMMA TypeStep ==
    ASSUME LoopInv, [Next]_vars
    PROVE  LoopInv'
<1> USE Constants, LoopFacts
<1>1. CASE LoopEnds
  BY <1>1 DEF LoopEnds, LoopInv, TypeOK, Stopped, Places, lists, history
<1>2. CASE DeltaRefused
  <2>1. clock' \in -1 .. TS_MAX
    BY <1>2, NextClockFacts DEF DeltaRefused, Stopped, TS_INVALID
  <2> QED BY <1>2, <2>1 DEF DeltaRefused, LoopInv, TypeOK, Stopped, Places, lists
<1>3. CASE NegativeClock
  <2>1. clock' \in -1 .. TS_MAX
    BY <1>3, NextClockFacts DEF NegativeClock, Stopped, TS_INVALID
  <2>2. main' \in SyncRecords /\ main'.step_to # 0 /\ pc' = "ended"
    BY <1>3, ThrowFacts DEF NegativeClock
  <2>3. mode' \in {"EVENT", "DELTA"}
    BY <1>3 DEF NegativeClock, SetMode
  <2> QED BY <1>3, <2>1, <2>2, <2>3
          DEF NegativeClock, LoopInv, TypeOK, Stopped, Places, lists, history
<1>4. CASE BeginIteration
  BY <1>4, BeginType
<1>5. CASE Precommit
  <2>1. main' \in SyncRecords /\ main'.step_to # 0 /\ pc' \in {"ended", "lists"}
    BY <1>5, ThrowFacts DEF Precommit
  <2>2. precommits' \in 0 .. 2
    BY <1>5 DEF Precommit
  <2>3. reported' \in BOOLEAN
    BY <1>5 DEF Precommit
  <2> QED BY <1>5, <2>1, <2>2, <2>3 DEF Precommit, LoopInv, TypeOK, Stopped, Places
<1>6. CASE StartList
  <2>1. ranked' \subseteq Nat /\ todo' \subseteq Objects
    BY <1>6, MainLoopAssumption DEF StartList, RanksOf
  <2> QED BY <1>6, <2>1 DEF StartList, LoopInv, TypeOK, Stopped, Places, history
<1>7. ASSUME NEW o \in Objects, SyncObject(o) PROVE LoopInv'
  <2>1. clock \in 1 .. TS_MAX
    BY <1>7 DEF SyncObject, Stopped
  <2>2. PICK t \in ObjectAnswers(o) :
         /\ thread' = [thread EXCEPT ![Thread[o]] = ThreadPost(@, t)]
         /\ todo' = IF Threads = 1 /\ t = TS_INVALID THEN {} ELSE todo \ {o}
         /\ asked' = Ask(asked, t)
         /\ reported' = (reported \/ t \in {TS_INVALID, TS_ZERO})
    BY <1>7 DEF SyncObject
  <2>3. MayAnswer(t, clock) /\ t # -TS_NEVER
    BY <2>1, ObjectAnswersFacts
  <2>4. thread' \in [Workers -> WorkerRecords]
    <3>1. Thread[o] \in Workers
      BY MainLoopAssumption DEF Workers
    <3>2. ThreadPost(thread[Thread[o]], t) \in WorkerRecords
      BY <2>1, <2>3, <3>1, ThreadPostFacts
    <3> QED BY <2>2, <3>1, <3>2
  <2>5. asked' \in AskedRecords
    BY <2>1, <2>2, <2>3, AskFacts
  <2>6. todo' \subseteq Objects
    BY <2>2
  <2>7. reported' \in BOOLEAN
    BY <2>2
  <2> QED BY <1>7, <2>4, <2>5, <2>6, <2>7 DEF SyncObject, LoopInv, TypeOK, Stopped
<1>8. CASE EndList
  <2>1. main' \in SyncRecords /\ main'.step_to # 0 /\ pc' \in {"ended", "lists"}
    BY <1>8, ThrowFacts DEF EndList
  <2> QED BY <1>8, <2>1 DEF EndList, LoopInv, TypeOK, Stopped, Places, lists, history
<1>9. CASE EndPass
  <2>1. clock \in 1 .. TS_MAX
    BY <1>9 DEF EndPass, Stopped
  <2>2. PICK st \in Near(clock) \cup {TS_NEVER} \cup May("transform", TS_ZERO) :
         /\ main' = SyncSet(main, st)
         /\ asked' = Ask(asked, st)
         /\ reported' = (reported \/ st = TS_ZERO)
    BY <1>9 DEF EndPass
  <2>3. st \in Int /\ ~SyncSetThrows(st) /\ MayAnswer(st, clock)
    BY <2>1, NearFacts, AbsoluteFacts
       DEF May, SyncSetThrows, MayAnswer, NoTimes, HardTimes, Dates, TS_ZERO
  <2>4. main' \in SyncRecords /\ main'.step_to # 0
    BY <2>2, <2>3, SyncSetType
  <2>5. asked' \in AskedRecords
    BY <2>1, <2>2, <2>3, AskFacts
  <2>6. reported' \in BOOLEAN
    BY <2>2
  <2>7. /\ pass' \in 0 .. (IF Threads > 2 THEN Threads ELSE 2)
        /\ pc' \in {"lists", "merge"} /\ (pc' = "merge" => pass' \in Workers)
    <3>1. pass \in Int /\ pass >= 0
      BY DEF LoopInv, TypeOK
    <3> QED BY <1>9, <3>1 DEF EndPass, Workers
  <2> QED BY <1>9, <2>1, <2>4, <2>5, <2>6, <2>7 DEF EndPass, LoopInv, TypeOK, Stopped, Places
<1>10. CASE MergeThread
  <2>1. pass \in Workers
    BY <1>10 DEF MergeThread, LoopInv
  <2>2. /\ pass' \in 0 .. (IF Threads > 2 THEN Threads ELSE 2)
        /\ pc' = "merge" => pass' \in Workers
    BY <1>10, <2>1, ThrowFacts DEF MergeThread, Workers
  <2>3. main' \in SyncRecords /\ main'.step_to # 0 /\ pc' \in {"ended", "merge", "advance"}
    <3>1. CASE SyncMergeThrows(thread[pass])
      BY <1>10, <3>1, ThrowFacts DEF MergeThread
    <3>2. CASE ~SyncMergeThrows(thread[pass])
      BY <1>10, <2>1, <3>2, MergeType DEF MergeThread
    <3> QED BY <3>1, <3>2
  <2> QED BY <1>10, <2>2, <2>3 DEF MergeThread, LoopInv, TypeOK, Stopped, Places, history
<1>11. CASE Commit
  <2>1. clock \in 1 .. TS_MAX
    BY <1>11 DEF Commit, Stopped
  <2>2. PICK t \in Answers \cup CommitFaults :
         LET at == AbsoluteTimestamp(t)
         IN  /\ reported' = (reported \/ at <= clock)
             /\ IF at <= clock
                THEN Throw(main) /\ UNCHANGED <<counter, asked>>
                ELSE /\ main' = IF at < SyncGet(main) THEN SyncSet(main, t) ELSE main
                     /\ asked' = Ask(asked, t)
                     /\ counter' = IterationLimit
                     /\ pc' = "scripts"
    BY <1>11 DEF Commit
  <2>3. reported' \in BOOLEAN
    BY <2>2
  <2>4. CASE AbsoluteTimestamp(t) <= clock
    <3>1. main' \in SyncRecords /\ main'.step_to # 0 /\ pc' = "ended"
      BY <2>2, <2>4, ThrowFacts
    <3> QED BY <1>11, <2>2, <2>3, <2>4, <3>1
            DEF Commit, LoopInv, TypeOK, Stopped, Places, lists
  <2>5. CASE ~(AbsoluteTimestamp(t) <= clock)
    <3>1. t \in Answers
      BY <2>1, <2>5, MainLoopAssumption, AbsoluteFacts DEF TS_INVALID, TS_ZERO
    <3>2. MayAnswer(t, clock) /\ ~SyncSetThrows(t) /\ t \in Int
      BY <2>1, <3>1, AnswersFacts DEF MayAnswer
    <3>3. main' \in SyncRecords /\ main'.step_to # 0 /\ pc' = "scripts"
      BY <2>2, <2>5, <3>2, SyncSetType
    <3>4. asked' \in AskedRecords /\ counter' = IterationLimit
      BY <2>1, <2>2, <2>5, <3>2, AskFacts
    <3> QED BY <1>11, <2>1, <2>3, <3>3, <3>4
            DEF Commit, LoopInv, TypeOK, Stopped, Places, lists
  <2> QED BY <2>4, <2>5
<1>12. CASE Reiterate
  <2>1. /\ main' \in SyncRecords /\ main'.step_to # 0 /\ reported' \in BOOLEAN
        /\ pc' = "ended" \/ (pc' = "scripts" /\ counter' # 0)
    BY <1>12, ThrowFacts DEF Reiterate
  <2>2. counter' \in 0 .. IterationLimit /\ clock \in 1 .. TS_MAX
    BY <1>12 DEF Reiterate, IterationsLeft, Stopped
  <2> QED BY <1>12, <2>1, <2>2 DEF Reiterate, LoopInv, TypeOK, Stopped, Places, lists
<1>13. CASE SyncScripts
  <2>1. /\ main' \in SyncRecords /\ main'.step_to # 0 /\ reported' \in BOOLEAN
        /\ pc' \in {"ended", "delta"}
    BY <1>13, ThrowFacts DEF SyncScripts
  <2> QED BY <1>13, <2>1 DEF SyncScripts, LoopInv, TypeOK, Stopped, Places, lists
<1>14. CASE NoDelta
  BY <1>14 DEF NoDelta, LoopInv, TypeOK, Stopped, Places, lists, history
<1>15. CASE RunDelta
  <2>1. clock \in 1 .. TS_MAX
    BY <1>15 DEF RunDelta, Stopped
  <2>2. PICK n \in DeltaSeconds :
         IF n = DT_INVALID
         THEN mode' = "ERROR" /\ Throw(main) /\ reported' = TRUE
              /\ UNCHANGED asked
         ELSE /\ clock + n <= TS_MAX
              /\ mode' = "EVENT" /\ pc' = "top"
              /\ main' = SyncSet(main, clock + n)
              /\ asked' = Ask(asked, clock + n)
              /\ UNCHANGED reported
    BY <1>15 DEF RunDelta
  <2>3. CASE n = DT_INVALID
    <3>1. main' \in SyncRecords /\ main'.step_to # 0 /\ pc' = "ended"
      BY <2>2, <2>3, ThrowFacts
    <3> QED BY <1>15, <2>2, <2>3, <3>1
            DEF RunDelta, LoopInv, TypeOK, Stopped, Places, lists
  <2>4. CASE n # DT_INVALID
    <3>1. n \in Nat /\ clock + n \in 1 .. TS_MAX
      BY <2>1, <2>2, <2>4, MainLoopAssumption
    <3>2. ~SyncSetThrows(clock + n) /\ MayAnswer(clock + n, clock)
      BY <2>1, <3>1, AbsoluteFacts DEF SyncSetThrows, MayAnswer, HardTimes, Dates
    <3>3. main' \in SyncRecords /\ main'.step_to # 0
      BY <2>2, <2>4, <3>1, <3>2, SyncSetType
    <3>4. asked' \in AskedRecords
      BY <2>1, <2>2, <2>4, <3>2, AskFacts
    <3> QED BY <1>15, <2>1, <2>2, <2>4, <3>3, <3>4
            DEF RunDelta, LoopInv, TypeOK, Stopped, Places, lists
  <2> QED BY <2>3, <2>4
<1>16. CASE Return
  <2>1. result' \in {"SUCCESS", "FAILED"} /\ reported' \in BOOLEAN
    BY <1>16 DEF Return, SyncRecords
  <2> QED BY <1>16, <2>1 DEF Return, LoopInv, TypeOK, Stopped, Places, lists
<1>17. CASE Interrupt
  BY <1>17 DEF Interrupt, LoopInv, TypeOK, Stopped, Places, lists, history
<1>18. CASE UNCHANGED vars
  BY <1>18 DEF vars, LoopInv, TypeOK, Stopped, lists, history
<1> QED BY <1>1, <1>2, <1>3, <1>4, <1>5, <1>6, <1>7, <1>8, <1>9, <1>10, <1>11,
           <1>12, <1>13, <1>14, <1>15, <1>16, <1>17, <1>18
        DEF Next, LoopStep, Finished

\* The variables of the loop keep their types, whatever the parts of a run
\* answer: exec_start never steps the clock to the time zero, never runs an
\* iteration without iterations left, and merges the records of workers only.
THEOREM TypeCorrect == Spec => []TypeOK
<1>1. Init => LoopInv
  BY InitType
<1>2. LoopInv /\ [Next]_vars => LoopInv'
  BY TypeStep
<1>3. LoopInv => TypeOK
  BY DEF LoopInv
<1> QED BY <1>1, <1>2, <1>3, PTL DEF Spec

---------------------------------------------------------------------------
(* Events *)

\* The runs the theorems below are about: the clock is simulated and has a
\* stop time, and no transform of a loadshape fails.
Bounded == /\ StopTime # TS_NEVER /\ ~RealTime /\ StartTime <= StopTime
           /\ "loadshape_transform" \notin Faulty

\* the workers whose records are not merged yet
Pending == {w \in Workers : \/ pc \in {"precommit", "lists", "list"}
                            \/ pc = "merge" /\ w >= pass}

Due(t) == t < asked.any + MinimumTimestep

\* Whoever asked for the earliest time is known of, in the main event or in the
\* record of a worker that is still to be merged, or the run is about to fail.
Covered == \/ main.status = "FAILED" \/ Due(main.step_to)
           \/ \E w \in Pending : thread[w].status = "FAILED" \/ Due(thread[w].step_to)

\* Nothing that is posted is before the clock, and the stop time is posted as
\* a hard event: the main event always holds a date.
Ahead == /\ clock <= StopTime /\ asked.any <= asked.hard
         /\ ~Stopped => /\ main.step_to \in clock .. TS_MAX /\ main.hard_event
                        /\ clock <= asked.any
         /\ \A w \in Pending : thread[w].step_to >= clock

\* A run that is over has nothing hard left within the stop time, or failed.
Ended == /\ Stopped /\ Clean => asked.hard + MinimumTimestep > StopTime
         /\ pc = "returned" => result \in {main.status, "FAILED"}

EventInv == LoopInv /\ Ahead /\ Covered /\ Ended

\* The start time and the stop time are posted before the loop.
LEMMA EventInit ==
    ASSUME Bounded, Init
    PROVE  EventInv
<1> USE Constants
<1>1. LoopInv
  BY InitType
<1>2. SyncReset \in SyncRecords /\ SyncReset.step_to = TS_NEVER
  BY DEF SyncReset, SyncRecords
<1>3. StopTime \in 2 .. TS_MAX - 1 /\ StartTime \in 2 .. StopTime
  BY DEF Bounded, HardTimes, Dates
<1> DEFINE d == SyncSet(SyncReset, StartTime)
<1>4. d \in SyncRecords /\ d.step_to = StartTime /\ d.hard_event
  <2>1. d = [SyncReset EXCEPT !.step_to = Earlier(@, StartTime), !.hard_event = TRUE]
    BY <1>3 DEF SyncSet, TS_INVALID, TS_ZERO
  <2>2. Earlier(SyncReset.step_to, StartTime) = StartTime
    BY <1>2, <1>3 DEF Earlier
  <2>3. d = [step_to |-> StartTime, hard_event |-> TRUE, status |-> "SUCCESS"]
    BY <2>1, <2>2 DEF SyncReset
  <2> QED BY <1>3, <2>3 DEF SyncRecords
<1>5. main = SyncSet(d, StopTime + 1)
  BY <1>3 DEF Init
<1> HIDE DEF d
<1>6. main.step_to = StartTime /\ main.hard_event
  <2> DEFINE u == StopTime + 1
  <2>1. u \in 3 .. TS_MAX /\ u > StartTime /\ u # TS_NEVER
    BY <1>3
  <2>2. main = SyncSet(d, u)
    BY <1>5
  <2> HIDE DEF u
  <2>3. main = [d EXCEPT !.step_to = Earlier(@, u), !.hard_event = TRUE]
    BY <2>1, <2>2 DEF SyncSet, TS_INVALID, TS_ZERO
  <2>4. Earlier(d.step_to, u) = StartTime
    BY <1>4, <2>1 DEF Earlier
  <2> QED BY <1>4, <2>3, <2>4 DEF SyncRecords
<1>7. asked.any = StartTime /\ asked.hard = StartTime
  BY <1>3, AbsoluteFacts DEF Init, Ask, Nothing, Earlier, TS_INVALID, TS_ZERO
<1>8. clock = StartTime /\ pc = "top" /\ result = "none"
  BY DEF Init
<1>9. ~Stopped /\ Pending = {}
  BY <1>8 DEF Stopped, Pending
<1>10. Ahead
  BY <1>3, <1>6, <1>7, <1>8, <1>9 DEF Ahead
<1>11. Covered
  BY <1>3, <1>6, <1>7 DEF Covered, Due
<1>12. Ended
  BY <1>8, <1>9 DEF Ended
<1> QED BY <1>1, <1>10, <1>11, <1>12 DEF EventInv

\* The clock only moves to the time of the main event, when all is merged.
LEMMA ClockMoves ==
    ASSUME Bounded, EventInv, pc = "top", Continues, clock' \in NextClocks
    PROVE  \/ clock' = TS_INVALID
           \/ /\ clock' = main.step_to /\ clock' \in clock .. StopTime
              /\ clock' \in 1 .. TS_MAX /\ Due(clock')
<1> USE Constants
<1>1. ~Stopped /\ Pending = {}
  BY DEF Stopped, Pending
<1>2. /\ clock' = SyncGet(main) /\ clock' <= StopTime
      /\ clock' \in {TS_INVALID} \cup (1 .. TS_MAX)
  BY <1>1, NextClockFacts DEF EventInv, Bounded
<1>3. /\ main \in SyncRecords /\ main.step_to \in clock .. TS_MAX
      /\ clock \in 1 .. TS_MAX
  BY <1>1, LoopFacts DEF EventInv, Ahead
<1>4. CASE main.status = "FAILED"
  BY <1>2, <1>3, <1>4, SyncGetFacts
<1>5. CASE main.status # "FAILED"
  <2>1. clock' = main.step_to
    BY <1>2, <1>3, <1>5, SyncGetFacts
  <2> QED BY <1>1, <1>2, <1>3, <1>5, <2>1 DEF EventInv, Covered
<1> QED BY <1>4, <1>5

\* An exception ends the run with a failure.
LEMMA EventThrow ==
    ASSUME EventInv, Throw(main), UNCHANGED <<clock, asked>>
    PROVE  Ahead' /\ Covered' /\ Ended'
<1>1. main' \in SyncRecords /\ main'.status = "FAILED" /\ pc' = "ended"
  BY ThrowFacts, LoopFacts DEF EventInv
<1>2. Stopped' /\ ~Clean' /\ Pending' = {}
  BY <1>1 DEF Stopped, Clean, Pending
<1> QED BY <1>1, <1>2 DEF EventInv, Ahead, Covered, Ended

\* A step that posts nothing and leaves the same workers to be merged.
LEMMA EventStays ==
    ASSUME EventInv, ~Stopped, ~Stopped', Pending' = Pending,
           UNCHANGED <<clock, main, thread, asked>>
    PROVE  Ahead' /\ Covered' /\ Ended'
BY DEF EventInv, Ahead, Covered, Ended, Due, Stopped

\* A time that is posted in the main event at once.
LEMMA EventPosted ==
    ASSUME Bounded, EventInv, ~Stopped, NEW t, MayAnswer(t, clock), ~SyncSetThrows(t),
           main' = SyncSet(main, t), asked' = Ask(asked, t),
           UNCHANGED <<clock, thread>>, Pending' = Pending, ~Stopped'
    PROVE  Ahead' /\ Covered' /\ Ended'
<1> USE Constants
<1>1. /\ clock \in 1 .. TS_MAX /\ main \in SyncRecords /\ asked \in AskedRecords
      /\ thread \in [Workers -> WorkerRecords] /\ t \in Int
  BY LoopFacts DEF EventInv, MayAnswer
<1>2. /\ asked' \in AskedRecords
      /\ asked'.any <= asked.any
      /\ asked'.any = asked.any \/ (t \notin NoTimes /\ asked'.any = AbsoluteTimestamp(t))
      /\ asked'.any >= clock /\ asked'.any <= asked'.hard
  BY <1>1, AskFacts DEF EventInv, Ahead
<1>3. main.step_to \in 1 .. TS_MAX
  BY <1>1 DEF EventInv, Ahead
<1> DEFINE e == SyncSet(main, t)
<1>4. /\ e.step_to = main.step_to \/ e.step_to = AbsoluteTimestamp(t)
      /\ e.step_to \in 1 .. main.step_to
      /\ t = TS_NEVER \/ e.status = "FAILED" \/ e.step_to <= AbsoluteTimestamp(t)
      /\ main.status = "FAILED" => e.status = "FAILED"
      /\ main.hard_event => e.hard_event
  BY <1>1, <1>3, SyncSetPosts
<1> HIDE DEF e
<1>5. main' = e
  BY DEF e
<1>6. Ahead'
  <2>1. main'.step_to >= clock
    <3>1. t \in NoTimes => AbsoluteTimestamp(t) \in {1, 0, -TS_NEVER}
      BY AbsoluteFacts DEF NoTimes, TS_INVALID, TS_ZERO
    <3>2. CASE t \notin NoTimes
      BY <1>1, <1>4, <1>5, <3>2 DEF MayAnswer, EventInv, Ahead
    <3>3. CASE t \in {TS_INVALID, TS_ZERO}
      BY <1>1, <1>4, <1>5, <3>3 DEF SyncSet, Fail, SyncRecords, EventInv, Ahead, e, TS_INVALID, TS_ZERO
    <3>4. CASE t = -TS_NEVER
      BY <3>4 DEF SyncSetThrows, TS_INVALID
    <3> QED BY <3>2, <3>3, <3>4 DEF NoTimes
  <2> QED BY <1>1, <1>2, <1>4, <1>5, <2>1 DEF EventInv, Ahead
<1>7. Covered'
  <2>1. CASE asked'.any = asked.any
    <3>1. main'.status = "FAILED" \/ main'.step_to <= main.step_to
      BY <1>4, <1>5
    <3>2. Due(main.step_to) => Due(main.step_to)'
      BY <2>1, <1>1, <1>2, <1>3, <1>4, <1>5 DEF Due, AskedRecords, HardTimes, Dates
    <3>3. \A w \in Workers : Due(thread[w].step_to) => Due(thread[w].step_to)'
      BY <2>1 DEF Due
    <3>4. Pending \subseteq Workers
      BY DEF Pending
    <3>5. main.status = "FAILED" => main'.status = "FAILED"
      BY <1>4, <1>5
    <3> QED BY <3>2, <3>3, <3>4, <3>5 DEF EventInv, Covered
  <2>2. CASE t \notin NoTimes /\ asked'.any = AbsoluteTimestamp(t)
    <3>1. t = TS_NEVER => AbsoluteTimestamp(t) = TS_NEVER
      BY AbsoluteFacts
    <3>2. main'.status = "FAILED" \/ main'.step_to <= asked'.any
      BY <1>3, <1>4, <1>5, <2>2, <3>1
    <3>3. asked'.any \in Int /\ main'.step_to \in Int
      BY <1>2, <1>4, <1>5 DEF AskedRecords, HardTimes, Dates
    <3> QED BY <3>2, <3>3 DEF Covered, Due
  <2> QED BY <1>2, <2>1, <2>2
<1>8. Ended'
  BY DEF Ended, Stopped
<1> QED BY <1>6, <1>7, <1>8

\* The head of an iteration posts the stop time and the internal behaviours.
LEMMA EventBegin ==
    ASSUME Bounded, EventInv, BeginIteration
    PROVE  Ahead' /\ Covered' /\ Ended'
<1> USE Constants
<1>1. pc = "top" /\ Continues /\ clock' \in NextClocks /\ clock' >= 0
  BY DEF BeginIteration
<1>2. clock' \in 1 .. TS_MAX /\ clock' <= StopTime
  BY <1>1, ClockMoves DEF TS_INVALID
<1>3. PICK s \in Near(clock') \cup {TS_NEVER}, e \in Near(clock') \cup {TS_NEVER},
          x \in {TS_NEVER} \cup May("loadshape_transform", TS_ZERO),
          hard \in Near(clock') \cup {TS_NEVER} \cup May("instance", TS_INVALID) :
         LET it == SyncInternals(hard, s, x, e, clock')
             posted == PostStop(SyncReset, clock')
         IN  /\ asked' = Ask(Ask(Ask(Nothing, -s), -e), hard)
             /\ reported' = (reported \/ x = TS_ZERO \/ hard = TS_INVALID)
             /\ IF \/ it # TS_NEVER /\ AbsoluteTimestamp(it) < clock'
                   \/ SyncSetThrows(it)
                THEN Throw(posted)
                ELSE main' = SyncSet(posted, it) /\ pc' = "precommit"
  BY DEF BeginIteration
<1>4. x = TS_NEVER
  BY DEF May, Bounded
<1> DEFINE it == SyncInternals(hard, s, x, e, clock')
           posted == PostStop(SyncReset, clock')
<1>5. /\ posted \in SyncRecords /\ posted.status = "SUCCESS" /\ posted.hard_event
      /\ posted.step_to = StopTime + 1 /\ StopTime \in 1 .. TS_MAX - 1
  BY <1>2, PostStopFacts DEF Bounded, HardTimes, Dates
<1>6. /\ MayAnswer(-s, clock') /\ MayAnswer(-e, clock') /\ MayAnswer(hard, clock')
      /\ hard \in Near(clock') \cup {TS_NEVER, TS_INVALID}
  BY <1>2, BeginPosts
<1>7. /\ it \in Int
      /\ hard = TS_INVALID => it = TS_INVALID
      /\ hard # TS_INVALID => \A t \in {s, e, hard} :
            t = TS_NEVER \/ Magnitude(it) < t + MinimumTimestep
  BY <1>2, <1>4, <1>6, InternalsFacts
<1>8. /\ asked' \in AskedRecords
      /\ asked'.any >= clock' /\ asked'.any <= asked'.hard
      /\ asked'.any \in {TS_NEVER, s, e} \/ (hard # TS_INVALID /\ asked'.any = hard)
  <2> DEFINE a == Ask(Nothing, -s)  b == Ask(a, -e)
  <2>1. Nothing \in AskedRecords /\ Nothing.any = TS_NEVER /\ Nothing.hard = TS_NEVER
    BY DEF Nothing, AskedRecords, HardTimes
  <2>2. ASSUME NEW t \in Near(clock') \cup {TS_NEVER}
        PROVE  -t \in NoTimes \/ AbsoluteTimestamp(-t) = t
    BY <1>2, NearFacts, AbsoluteFacts DEF NoTimes
  <2>3. /\ a \in AskedRecords /\ a.any >= clock' /\ a.any <= a.hard
        /\ a.any \in {TS_NEVER, s}
    BY <1>2, <1>6, <2>1, <2>2, AskFacts
  <2> HIDE DEF a
  <2>4. /\ b \in AskedRecords /\ b.any >= clock' /\ b.any <= b.hard
        /\ b.any \in {TS_NEVER, s, e}
    BY <1>2, <1>6, <2>2, <2>3, AskFacts
  <2> HIDE DEF b
  <2>5. hard \notin NoTimes => AbsoluteTimestamp(hard) = hard /\ hard # TS_INVALID
    BY <1>2, <1>6, NearFacts, AbsoluteFacts DEF NoTimes
  <2>6. asked' = Ask(b, hard)
    BY <1>3 DEF a, b
  <2> QED BY <1>2, <1>6, <2>4, <2>5, <2>6, AskFacts
<1> HIDE DEF it, posted
<1>9. CASE Throw(posted)
  <2>1. main'.status = "FAILED" /\ Stopped' /\ ~Clean' /\ Pending' = {} /\ pc' = "ended"
    BY <1>5, <1>9, ThrowFacts DEF Stopped, Clean, Pending
  <2> QED BY <1>2, <1>8, <2>1 DEF Ahead, Covered, Ended
<1>10. CASE /\ it = TS_NEVER \/ AbsoluteTimestamp(it) >= clock'
            /\ ~SyncSetThrows(it)
            /\ main' = SyncSet(posted, it) /\ pc' = "precommit"
  <2> DEFINE m == SyncSet(posted, it)
  <2>1. /\ m.step_to = posted.step_to \/ m.step_to = AbsoluteTimestamp(it)
        /\ m.step_to \in 1 .. posted.step_to
        /\ it = TS_NEVER \/ m.status = "FAILED" \/ m.step_to <= AbsoluteTimestamp(it)
        /\ it \in {TS_INVALID, TS_ZERO} => m.status = "FAILED"
        /\ m.hard_event
    BY <1>5, <1>7, <1>10, SyncSetPosts
  <2>2. main' = m
    BY <1>10
  <2>8. it = TS_NEVER => m = posted
    BY DEF SyncSet, TS_INVALID, TS_ZERO
  <2> HIDE DEF m
  <2>3. main'.step_to \in clock' .. TS_MAX /\ main'.hard_event
    BY <1>2, <1>5, <1>10, <2>1, <2>2, <2>8
  <2>4. \A w \in Workers : thread'[w].step_to = TS_NEVER
    BY LoopFacts DEF BeginIteration, EventInv, WorkerRecords
  <2>5. Ahead'
    BY <1>2, <1>8, <2>3, <2>4 DEF Ahead, Pending
  <2>6. Covered'
    <3>1. CASE hard = TS_INVALID
      BY <1>7, <2>1, <2>2, <3>1 DEF Covered
    <3>2. CASE asked'.any = TS_NEVER
      BY <2>3, <3>2 DEF Covered, Due
    <3>3. CASE asked'.any # TS_NEVER /\ hard # TS_INVALID
      <4>1. Magnitude(it) < asked'.any + MinimumTimestep
        BY <1>7, <1>8, <3>3
      <4>2. it # TS_NEVER
        BY <1>8, <3>3, <4>1 DEF Magnitude, AskedRecords, HardTimes, Dates
      <4>3. AbsoluteTimestamp(it) <= Magnitude(it)
        BY <1>7 DEF Magnitude, AbsoluteTimestamp
      <4>4. main'.status = "FAILED" \/ main'.step_to <= Magnitude(it)
        BY <1>7, <2>1, <2>2, <2>3, <4>2, <4>3, AbsoluteFacts DEF Magnitude
      <4> QED BY <1>7, <1>8, <2>3, <4>1, <4>4
              DEF Covered, Due, Magnitude, AskedRecords, HardTimes, Dates
    <3> QED BY <3>1, <3>2, <3>3
  <2>7. Ended'
    BY <1>10 DEF Ended, Stopped
  <2> QED BY <2>5, <2>6, <2>7
<1>11. it # TS_NEVER => AbsoluteTimestamp(it) \in Int
  BY <1>7, AbsoluteFacts
<1>12. IF (it # TS_NEVER /\ AbsoluteTimestamp(it) < clock') \/ SyncSetThrows(it)
       THEN Throw(posted) ELSE main' = SyncSet(posted, it) /\ pc' = "precommit"
  BY <1>3 DEF it, posted
<1> QED BY <1>2, <1>9, <1>10, <1>11, <1>12

\* An object's answer is in the record of its worker.
LEMMA EventObject ==
    ASSUME Bounded, EventInv, NEW o \in Objects, SyncObject(o)
    PROVE  /\ Ahead' /\ Covered' /\ Ended'
           /\ asked'.any <= asked.any /\ asked'.hard <= asked.hard
<1> USE Constants
<1>1. /\ ~Stopped /\ ~Stopped' /\ Pending = Workers /\ Pending' = Workers
      /\ UNCHANGED <<clock, main>>
  BY DEF SyncObject, Stopped, Pending
<1>2. /\ clock \in 1 .. TS_MAX /\ asked \in AskedRecords
      /\ thread \in [Workers -> WorkerRecords]
  BY <1>1, LoopFacts DEF EventInv
<1>3. PICK t \in ObjectAnswers(o) :
         /\ thread' = [thread EXCEPT ![Thread[o]] = ThreadPost(@, t)]
         /\ asked' = Ask(asked, t)
  BY DEF SyncObject
<1>4. MayAnswer(t, clock) /\ t # -TS_NEVER
  BY <1>2, ObjectAnswersFacts
<1>5. /\ asked' \in AskedRecords
      /\ asked'.any <= asked.any /\ asked'.hard <= asked.hard
      /\ asked'.any = asked.any \/ (t \notin NoTimes /\ asked'.any = AbsoluteTimestamp(t))
      /\ asked'.any >= clock /\ asked'.any <= asked'.hard
  BY <1>1, <1>2, <1>3, <1>4, AskFacts DEF EventInv, Ahead
<1> DEFINE k == Thread[o]  e == ThreadPost(thread[k], t)
<1>6. k \in Workers
  BY MainLoopAssumption DEF Workers
<1>7. thread' = [thread EXCEPT ![k] = e]
  BY <1>3
<1>8. /\ e \in WorkerRecords
      /\ e.step_to <= thread[k].step_to
      /\ thread[k].step_to >= clock => e.step_to >= clock
      /\ thread[k].status = "FAILED" => e.status = "FAILED"
      /\ t \notin NoTimes => e.step_to < AbsoluteTimestamp(t) + MinimumTimestep
  BY <1>2, <1>4, <1>6, ThreadPostFacts
<1> HIDE DEF k, e
<1>9. \A w \in Workers : thread'[w] = IF w = k THEN e ELSE thread[w]
  BY <1>2, <1>6, <1>7
<1>10. Ahead'
  BY <1>1, <1>5, <1>8, <1>9 DEF EventInv, Ahead
<1>11. Covered'
  <2>1. CASE asked'.any = asked.any
    <3>1. \A u \in Int : Due(u)' = Due(u)
      BY <2>1 DEF Due
    <3>2. \A w \in Workers : /\ thread[w].status = "FAILED" => thread'[w].status = "FAILED"
                             /\ Due(thread[w].step_to) => Due(thread'[w].step_to)
      BY <1>2, <1>5, <1>6, <1>8, <1>9 DEF Due, WorkerRecords, AskedRecords, HardTimes, Dates
    <3>3. main'.status = main.status /\ main'.step_to = main.step_to
      BY <1>1
    <3>4. (Due(main.step_to))' <=> Due(main.step_to)
      BY <1>1, <2>1 DEF Due
    <3>5. \A w \in Workers : Due(thread'[w].step_to) => Due(thread[w].step_to)'
      BY <2>1 DEF Due
    <3> QED BY <1>1, <3>2, <3>3, <3>4, <3>5 DEF EventInv, Covered
  <2>2. CASE t \notin NoTimes /\ asked'.any = AbsoluteTimestamp(t)
    <3>1. (thread[k].step_to < asked.any + MinimumTimestep)'
            \/ (thread'[k].step_to < asked'.any + MinimumTimestep)
      BY <1>6, <1>8, <1>9, <2>2
    <3>2. k \in Pending' /\ k' = k
      BY <1>1, <1>6 DEF k
    <3>3. thread'[k].step_to < asked'.any + MinimumTimestep
      BY <1>6, <1>8, <1>9, <2>2
    <3> QED BY <3>2, <3>3 DEF Covered, Due
  <2> QED BY <1>5, <2>1, <2>2
<1>12. Ended'
  BY <1>1 DEF Ended, Stopped
<1> QED BY <1>5, <1>10, <1>11, <1>12

\* What a merged record holds is in the main event afterwards.
LEMMA EventMerge ==
    ASSUME Bounded, EventInv, MergeThread
    PROVE  Ahead' /\ Covered' /\ Ended'
<1> USE Constants
<1>1. pc = "merge" /\ ~Stopped /\ pass \in Workers /\ UNCHANGED <<clock, thread, asked>>
  BY DEF MergeThread, Stopped, EventInv, LoopInv, history
<1>2. CASE SyncMergeThrows(thread[pass])
  BY <1>1, <1>2, EventThrow DEF MergeThread
<1>3. CASE ~SyncMergeThrows(thread[pass])
  <2> DEFINE from == thread[pass]  m == SyncMerge(main, from)
  <2>1. /\ main' = m /\ ~Stopped'
        /\ Pending = {w \in Workers : w >= pass}
        /\ Pending' = {w \in Workers : w > pass}
    BY <1>1, <1>3 DEF MergeThread, Stopped, Pending, Workers
  <2>2. /\ from \in WorkerRecords /\ from.step_to >= clock
        /\ main \in SyncRecords /\ main.step_to \in clock .. TS_MAX
        /\ main.hard_event /\ clock \in 1 .. TS_MAX /\ asked \in AskedRecords
    BY <1>1, <2>1, LoopFacts DEF EventInv, Ahead, Workers
  <2>3. /\ m.step_to \in clock .. TS_MAX /\ m.hard_event
        /\ m.step_to <= main.step_to
        /\ main.status = "FAILED" => m.status = "FAILED"
        /\ from.status = "FAILED" => m.status = "FAILED"
        /\ from.step_to = TS_NEVER \/ m.status = "FAILED" \/ m.step_to <= from.step_to
    <3>1. CASE SyncIsInvalid(from)
      <4>1. m = Fail(main)
        BY <2>2, <3>1, SyncSetFails DEF SyncMerge
      <4>2. Fail(main).hard_event = main.hard_event
        BY <2>2 DEF Fail, SyncRecords
      <4>3. Fail(main).step_to = main.step_to /\ Fail(main).status = "FAILED"
        BY <2>2, SyncSetFails
      <4> HIDE DEF m, from
      <4> QED BY <2>2, <4>1, <4>2, <4>3
    <3>2. CASE ~SyncIsInvalid(from) /\ SyncIsNever(from)
      BY <2>2, <3>2 DEF SyncMerge, SyncIsInvalid, SyncIsNever
    <3>3. CASE ~SyncIsInvalid(from) /\ ~SyncIsNever(from)
      <4> DEFINE t == IF SyncIsHard(from) THEN SyncGet(from) ELSE -SyncGet(from)
      <4>1. SyncGet(from) = from.step_to /\ from.step_to \in Nat
        BY <2>2, <3>3, MergeGet
      <4>2. m = SyncSet(main, t) /\ ~SyncSetThrows(t) /\ t \in Int
        BY <1>3, <3>3, <4>1 DEF SyncMerge, SyncMergeThrows
      <4>3. from.step_to # TS_NEVER /\ from.status # "FAILED"
        BY <3>3 DEF SyncIsInvalid, SyncIsNever
      <4>4. t = from.step_to \/ t = -from.step_to
        BY <4>1
      <4> HIDE DEF t, from, m
      <4>5. from.step_to <= TS_MAX /\ AbsoluteTimestamp(t) = from.step_to /\ t # TS_NEVER
        BY <4>1, <4>2, <4>3, <4>4, <2>2, AbsoluteFacts DEF SyncSetThrows, TS_INVALID
      <4> QED BY <2>2, <4>1, <4>2, <4>3, <4>5, SyncSetPosts
    <3> QED BY <3>1, <3>2, <3>3
  <2> HIDE DEF m
  <2>4. Ahead'
    <3>1. \A w \in Pending' : w \in Pending
      BY <1>1, <2>1 DEF Workers
    <3> QED BY <1>1, <2>1, <2>3, <3>1 DEF EventInv, Ahead
  <2>5. Covered'
    <3>1. ASSUME NEW u \in Int, Due(u), m.step_to <= u PROVE Due(m.step_to)
      BY <2>2, <2>3, <3>1 DEF Due, AskedRecords, HardTimes, Dates
    <3>2. asked' = asked /\ \A w \in Workers : thread'[w] = thread[w]
      BY <1>1
    <3>3. CASE m.status = "FAILED" \/ Due(m.step_to)
      BY <2>1, <3>2, <3>3 DEF Covered, Due
    <3>4. CASE main.status = "FAILED" \/ Due(main.step_to)
      BY <2>2, <2>3, <3>1, <3>3, <3>4
    <3>5. CASE from.status = "FAILED" \/ Due(from.step_to)
      <4>1. CASE from.step_to = TS_NEVER /\ Due(from.step_to)
        BY <2>2, <2>3, <3>3, <4>1 DEF Due, AskedRecords, HardTimes, Dates
      <4>2. from.step_to \in Int
        BY <2>2 DEF WorkerRecords
      <4> QED BY <2>3, <3>1, <3>3, <3>5, <4>1, <4>2
    <3>6. ASSUME NEW w \in Pending, w # pass,
                 thread[w].status = "FAILED" \/ Due(thread[w].step_to)
          PROVE  Covered'
      <4>1. w \in Pending'
        BY <1>1, <2>1, <3>6 DEF Workers
      <4> QED BY <3>2, <3>6, <4>1 DEF Covered, Due, Pending
    <3> QED BY <3>4, <3>5, <3>6 DEF EventInv, Covered
  <2>6. Ended'
    BY <2>1 DEF Ended, Stopped
  <2> QED BY <2>4, <2>5, <2>6
<1> QED BY <1>2, <1>3

\* A commit posts its answer only when it is earlier than the main event.
LEMMA EventCommit ==
    ASSUME Bounded, EventInv, Commit
    PROVE  Ahead' /\ Covered' /\ Ended'
<1> USE Constants
<1>1. /\ pc = "advance" /\ ~Stopped /\ UNCHANGED <<clock, thread>> /\ Pending = {}
      /\ clock \in 1 .. TS_MAX /\ main \in SyncRecords
      /\ main.step_to \in clock .. TS_MAX
  BY LoopFacts DEF Commit, Stopped, Pending, EventInv, Ahead
<1>2. PICK t \in Answers \cup CommitFaults :
         LET at == AbsoluteTimestamp(t)
         IN  IF at <= clock
             THEN Throw(main) /\ UNCHANGED <<counter, asked>>
             ELSE /\ main' = IF at < SyncGet(main) THEN SyncSet(main, t) ELSE main
                  /\ asked' = Ask(asked, t)
                  /\ pc' = "scripts"
  BY DEF Commit
<1>3. CASE AbsoluteTimestamp(t) <= clock
  BY <1>1, <1>2, <1>3, EventThrow
<1>4. CASE ~(AbsoluteTimestamp(t) <= clock)
  <2>1. t \in Answers
    BY <1>1, <1>4, MainLoopAssumption, AbsoluteFacts DEF TS_INVALID, TS_ZERO
  <2>2. /\ MayAnswer(t, clock) /\ ~SyncSetThrows(t) /\ t \in Int /\ t \notin NoTimes
        /\ AbsoluteTimestamp(t) \in Int
    BY <1>1, <2>1, AnswersFacts, AbsoluteFacts DEF MayAnswer
  <2>3. ~Stopped' /\ Pending' = {}
    BY <1>2, <1>4 DEF Stopped, Pending
  <2>4. CASE AbsoluteTimestamp(t) < SyncGet(main)
    BY <1>1, <1>2, <1>4, <2>2, <2>3, <2>4, EventPosted
  <2>5. CASE ~(AbsoluteTimestamp(t) < SyncGet(main))
    <3>1. main' = main /\ asked' = Ask(asked, t)
      BY <1>2, <1>4, <2>5
    <3>2. /\ asked \in AskedRecords /\ asked' \in AskedRecords
          /\ asked'.any >= clock /\ asked'.any <= asked'.hard
          /\ asked'.any = asked.any \/ asked'.any = AbsoluteTimestamp(t)
      BY <1>1, <2>2, <3>1, AskFacts, LoopFacts DEF EventInv, Ahead
    <3>3. Ahead'
      BY <1>1, <2>3, <3>1, <3>2 DEF EventInv, Ahead
    <3>4. Covered'
      <4>1. CASE main.status = "FAILED"
        BY <3>1, <4>1 DEF Covered
      <4>2. CASE main.status # "FAILED"
        <5>1. main.step_to <= AbsoluteTimestamp(t)
          BY <1>1, <2>2, <2>5, <4>2, SyncGetFacts
        <5>2. Due(main.step_to)
          BY <1>1, <4>2 DEF EventInv, Covered
        <5> QED BY <1>1, <2>2, <3>1, <3>2, <5>1, <5>2 DEF Covered, Due
      <4> QED BY <4>1, <4>2
    <3>5. Ended'
      BY <2>3 DEF Ended, Stopped
    <3> QED BY <3>3, <3>4, <3>5
  <2> QED BY <2>4, <2>5
<1> QED BY <1>3, <1>4

\* The transforms at the end of a pass post in the main event.
LEMMA EventEndPass ==
    ASSUME Bounded, EventInv, EndPass
    PROVE  Ahead' /\ Covered' /\ Ended'
<1> USE Constants
<1>1. pc = "lists" /\ ~Stopped /\ UNCHANGED <<clock, thread>> /\ clock \in 1 .. TS_MAX
  BY LoopFacts DEF EndPass, Stopped, EventInv
<1>2. PICK st \in Near(clock) \cup {TS_NEVER} \cup May("transform", TS_ZERO) :
         main' = SyncSet(main, st) /\ asked' = Ask(asked, st)
  BY DEF EndPass
<1>3. ~SyncSetThrows(st) /\ MayAnswer(st, clock)
  BY <1>1, NearFacts, AbsoluteFacts
     DEF May, SyncSetThrows, MayAnswer, NoTimes, HardTimes, Dates, TS_ZERO
<1>4. ~Stopped' /\ Pending' = Pending
  BY <1>1 DEF EndPass, Stopped, Pending, Workers
<1> QED BY <1>1, <1>2, <1>3, <1>4, EventPosted

\* Delta mode posts the time it advanced to.
LEMMA EventDelta ==
    ASSUME Bounded, EventInv, RunDelta
    PROVE  Ahead' /\ Covered' /\ Ended'
<1> USE Constants
<1>1. pc = "delta" /\ ~Stopped /\ UNCHANGED <<clock, thread>> /\ clock \in 1 .. TS_MAX
  BY LoopFacts DEF RunDelta, Stopped, EventInv
<1>2. PICK n \in DeltaSeconds :
         IF n = DT_INVALID
         THEN Throw(main) /\ UNCHANGED asked
         ELSE /\ clock + n <= TS_MAX /\ pc' = "top"
              /\ main' = SyncSet(main, clock + n)
              /\ asked' = Ask(asked, clock + n)
  BY DEF RunDelta
<1>3. CASE n = DT_INVALID
  BY <1>1, <1>2, <1>3, EventThrow
<1>4. CASE n # DT_INVALID
  <2>1. n \in Nat /\ clock + n \in 1 .. TS_MAX
    BY <1>1, <1>2, <1>4, MainLoopAssumption
  <2>2. ~SyncSetThrows(clock + n) /\ MayAnswer(clock + n, clock)
    BY <1>1, <2>1, AbsoluteFacts DEF SyncSetThrows, MayAnswer, HardTimes, Dates
  <2>3. ~Stopped' /\ Pending' = Pending
    BY <1>1, <1>2, <1>4 DEF Stopped, Pending
  <2> QED BY <1>1, <1>2, <1>4, <2>2, <2>3, EventPosted
<1> QED BY <1>3, <1>4

\* When the loop ends without failure, the main event is past the stop time.
LEMMA EventLoopEnds ==
    ASSUME Bounded, EventInv, LoopEnds
    PROVE  /\ Ahead' /\ Covered' /\ Ended'
           /\ Clean => asked.hard + MinimumTimestep > StopTime
<1> USE Constants
<1>1. /\ pc = "top" /\ pc' = "ended" /\ ~Stopped /\ Stopped' /\ Pending = {} /\ Pending' = {}
      /\ UNCHANGED <<clock, thread, main, asked, exitcode, mode>>
  BY DEF LoopEnds, Stopped, Pending, history
<1>2. /\ clock \in 1 .. TS_MAX /\ counter >= 1 /\ main \in SyncRecords
      /\ main.step_to \in clock .. TS_MAX /\ main.hard_event /\ asked \in AskedRecords
      /\ counter \in 0 .. IterationLimit /\ asked.any <= asked.hard
  BY <1>1, LoopFacts DEF EventInv, Ahead
<1>3. ASSUME Clean PROVE asked.hard + MinimumTimestep > StopTime
  <2>1. main.status # "FAILED" /\ exitcode = "SUCCESS"
    BY <1>3 DEF Clean
  <2>2. ~SyncIsRunning(main, StopTime)
    BY <1>2, <2>1 DEF LoopEnds, Continues
  <2>3. SyncGet(main) = main.step_to
    BY <1>2, <2>1, SyncGetFacts
  <2>4. main.step_to > StopTime
    BY <1>2, <2>2, <2>3 DEF SyncIsRunning, SyncIsNever, SyncIsHard, Bounded, HardTimes, Dates
  <2>5. Due(main.step_to)
    BY <1>1, <2>1 DEF EventInv, Covered
  <2> QED BY <1>2, <2>4, <2>5 DEF Due, Bounded, HardTimes, Dates, AskedRecords
<1>4. Clean' = Clean
  BY <1>1 DEF Clean
<1>5. Ahead'
  BY <1>1, <1>2 DEF EventInv, Ahead
<1>6. Covered'
  BY <1>1 DEF EventInv, Covered, Due
<1>7. Ended'
  BY <1>1, <1>3, <1>4 DEF Ended
<1> QED BY <1>3, <1>5, <1>6, <1>7

\* The loop is left on a mode error, or because the next clock is negative.
LEMMA EventModeError ==
    ASSUME Bounded, EventInv, DeltaRefused \/ NegativeClock
    PROVE  Ahead' /\ Covered' /\ Ended' /\ Stopped' /\ ~Clean'
<1> USE Constants
<1>1. /\ pc = "top" /\ clock' \in NextClocks /\ Continues /\ pc' = "ended"
      /\ Stopped' /\ Pending = {} /\ Pending' = {} /\ UNCHANGED <<thread, asked>>
  BY DEF DeltaRefused, NegativeClock, Throw, Stopped, Pending, history
<1>2. clock' <= StopTime
  BY <1>1, ClockMoves DEF TS_INVALID, Bounded, HardTimes, Dates
<1>3. (DeltaRefused /\ mode' = "ERROR" /\ main' = main) \/ main'.status = "FAILED"
  BY ThrowFacts, LoopFacts DEF DeltaRefused, NegativeClock, EventInv
<1>4. ~Clean'
  BY <1>3 DEF Clean
<1>5. Ahead'
  BY <1>1, <1>2 DEF EventInv, Ahead
<1>6. Covered'
  BY <1>1, <1>3 DEF EventInv, Covered, Due
<1>7. Ended'
  BY <1>1, <1>4 DEF Ended
<1> QED BY <1>1, <1>4, <1>5, <1>6, <1>7

\* The steps that neither post nor ask for anything, nor leave the loop but by
\* an exception.
QuietStep == \/ Precommit \/ StartList \/ EndList \/ Reiterate \/ SyncScripts
             \/ NoDelta \/ Interrupt

\* Such a step either throws or changes nothing the invariant is about.
LEMMA QuietFacts ==
    ASSUME QuietStep
    PROVE  /\ ~Stopped /\ UNCHANGED <<clock, thread, asked>>
           /\ Throw(main) \/ (/\ UNCHANGED main /\ ~Stopped' /\ Pending' = Pending)
<1>1. CASE Precommit
  BY <1>1 DEF Precommit, Stopped, Pending
<1>2. CASE StartList
  BY <1>2 DEF StartList, Stopped, Pending, history
<1>3. CASE EndList
  BY <1>3 DEF EndList, Stopped, Pending, history
<1>4. CASE Reiterate
  BY <1>4 DEF Reiterate, Stopped, Pending
<1>5. CASE SyncScripts
  BY <1>5 DEF SyncScripts, Stopped, Pending
<1>6. CASE NoDelta
  BY <1>6 DEF NoDelta, Stopped, Pending, history
<1>7. CASE Interrupt
  BY <1>7 DEF Interrupt, Stopped, Pending, lists, history
<1> QED BY <1>1, <1>2, <1>3, <1>4, <1>5, <1>6, <1>7 DEF QuietStep

\* Such a step keeps the invariant.
LEMMA EventQuiet ==
    ASSUME EventInv, QuietStep
    PROVE  Ahead' /\ Covered' /\ Ended'
BY QuietFacts, EventThrow, EventStays

\* Once the loop is left, only the status is returned.
LEMMA EventReturn ==
    ASSUME EventInv, Return
    PROVE  Ahead' /\ Covered' /\ Ended'
<1>1. /\ Stopped /\ Stopped' /\ Pending = {} /\ Pending' = {} /\ pc' = "returned"
      /\ UNCHANGED <<clock, main, thread, asked, mode, exitcode>>
      /\ result' = main.status \/ result' = "FAILED"
  BY DEF Return, Stopped, Pending
<1>2. Clean' = Clean
  BY <1>1 DEF Clean
<1>3. Ahead' /\ Covered'
  BY <1>1 DEF EventInv, Ahead, Covered, Due
<1>4. Ended'
  BY <1>1, <1>2 DEF EventInv, Ended
<1> QED BY <1>3, <1>4

\* Nothing happens when nothing changes.
LEMMA EventStutters ==
    ASSUME EventInv, UNCHANGED vars
    PROVE  Ahead' /\ Covered' /\ Ended'
BY DEF EventInv, Ahead, Covered, Ended, Due, Stopped, Clean, Pending, vars

\* The cases of the proofs below.
LEMMA StepKinds ==
    ASSUME [Next]_vars
    PROVE  \/ LoopEnds \/ DeltaRefused \/ NegativeClock \/ BeginIteration
           \/ QuietStep \/ (\E o \in Objects : SyncObject(o)) \/ EndPass
           \/ MergeThread \/ Commit \/ RunDelta \/ Return \/ UNCHANGED vars
BY DEF Next, LoopStep, Finished, QuietStep

\* Every step keeps the invariant.
LEMMA EventStep ==
    ASSUME Bounded, EventInv, [Next]_vars
    PROVE  EventInv'
<1>1. LoopInv'
  BY TypeStep DEF EventInv
<1>2. Ahead' /\ Covered' /\ Ended'
  BY StepKinds, EventLoopEnds, EventModeError, EventBegin, EventQuiet,
     EventObject, EventEndPass, EventMerge, EventCommit, EventDelta,
     EventReturn, EventStutters
<1> QED BY <1>1, <1>2 DEF EventInv

\* The clock moves where an iteration begins, or where the loop is left on a
\* mode error, and nowhere else.
LEMMA ClockSteps ==
    ASSUME [Next]_vars, clock' # clock
    PROVE  pc = "top" /\ Continues /\ clock' \in NextClocks
BY StepKinds, QuietFacts
   DEF LoopEnds, DeltaRefused, NegativeClock, BeginIteration, SyncObject,
       EndPass, MergeThread, Commit, RunDelta, Return, vars

\* The invariant of the runs that have a stop time.
THEOREM EventsCorrect == ASSUME Bounded PROVE Spec => []EventInv
<1>1. Init => EventInv
  BY EventInit
<1>2. EventInv /\ [Next]_vars => EventInv'
  BY EventStep
<1> QED BY <1>1, <1>2, PTL DEF Spec

\* No event is skipped: for every number of objects, workers and iterations,
\* and every order of their answers, the clock never moves past the earliest
\* time that was asked for, up to the minimum timestep.
THEOREM EventsKept == ASSUME Bounded PROVE Spec => NoEventSkipped
<1>1. EventInv /\ [Next]_vars
        => [clock' # clock /\ clock' > 0 => clock' < asked.any + MinimumTimestep]_vars
  BY ClockSteps, ClockMoves DEF Due, TS_INVALID
<1> QED BY <1>1, EventsCorrect, PTL DEF Spec, NoEventSkipped

\* The clock never goes back, but to report a failure.
THEOREM ClockForward == ASSUME Bounded PROVE Spec => ClockMonotone
<1>1. EventInv /\ [Next]_vars => [clock' >= clock \/ clock' = TS_INVALID]_vars
  <2> SUFFICES ASSUME EventInv, [Next]_vars
               PROVE  clock' >= clock \/ clock' = TS_INVALID
    OBVIOUS
  <2>1. clock \in Int
    BY LoopFacts DEF EventInv
  <2>2. CASE clock' = clock
    BY <2>1, <2>2
  <2>3. CASE clock' # clock
    BY <2>1, <2>3, ClockSteps, ClockMoves, Constants DEF Bounded, HardTimes, Dates
  <2> QED BY <2>2, <2>3
<1> QED BY <1>1, EventsCorrect, PTL DEF Spec, ClockMonotone

\* No run goes on past its stop time, and one that ends with success has no
\* hard event left within it.
THEOREM StopTimeHolds == ASSUME Bounded PROVE Spec => []StopTimeKept
<1>1. EventInv => StopTimeKept
  <2> SUFFICES ASSUME EventInv PROVE StopTimeKept
    OBVIOUS
  <2>1. clock <= StopTime
    BY DEF EventInv, Ahead
  <2>2. ASSUME pc = "returned", result = "SUCCESS", exitcode = "SUCCESS", mode # "ERROR"
        PROVE  asked.hard + MinimumTimestep > StopTime
    BY <2>2 DEF EventInv, Ended, Stopped, Clean
  <2> QED BY <2>1, <2>2 DEF StopTimeKept
<1> QED BY <1>1, EventsCorrect, PTL

---------------------------------------------------------------------------
(* The clock of EventClock *)

\* Whatever asks for a time while the clock stands asks for it or a later one,
\* and nobody takes back what was asked.
LEMMA OnlyEarlier ==
    ASSUME EventInv, \/ \E o \in Objects : SyncObject(o)
                     \/ EndPass \/ MergeThread \/ Commit \/ RunDelta
    PROVE  /\ ~Stopped /\ clock' = clock
           /\ asked'.any <= asked.any /\ asked'.hard <= asked.hard
<1> USE Constants
<1>1. ~Stopped /\ clock' = clock /\ clock \in 1 .. TS_MAX /\ asked \in AskedRecords
  BY LoopFacts DEF SyncObject, EndPass, MergeThread, Commit, RunDelta, Stopped, EventInv
<1>2. ASSUME NEW t, MayAnswer(t, clock), asked' = Ask(asked, t)
      PROVE  asked'.any <= asked.any /\ asked'.hard <= asked.hard
  BY <1>1, <1>2, AskFacts
<1>3. ASSUME asked' = asked
      PROVE  asked'.any <= asked.any /\ asked'.hard <= asked.hard
  BY <1>1, <1>3 DEF AskedRecords, HardTimes, Dates
<1>4. ASSUME NEW o \in Objects, SyncObject(o)
      PROVE  asked'.any <= asked.any /\ asked'.hard <= asked.hard
  BY <1>1, <1>2, <1>4, ObjectAnswersFacts DEF SyncObject
<1>5. CASE EndPass
  <2>1. PICK st \in Near(clock) \cup {TS_NEVER} \cup May("transform", TS_ZERO) :
           asked' = Ask(asked, st)
    BY <1>5 DEF EndPass
  <2>2. MayAnswer(st, clock)
    BY <1>1, NearFacts, AbsoluteFacts DEF May, MayAnswer, NoTimes, HardTimes, Dates, TS_ZERO
  <2> QED BY <1>1, <1>2, <2>1, <2>2
<1>6. CASE MergeThread
  BY <1>1, <1>3, <1>6 DEF MergeThread, history
<1>7. CASE Commit
  <2>1. PICK t \in Answers \cup CommitFaults :
           IF AbsoluteTimestamp(t) <= clock THEN asked' = asked
                                            ELSE asked' = Ask(asked, t)
    BY <1>7 DEF Commit
  <2>2. CASE t \in CommitFaults
    <3>1. AbsoluteTimestamp(t) <= clock
      BY <1>1, <2>2, MainLoopAssumption, AbsoluteFacts DEF TS_INVALID, TS_ZERO
    <3> QED BY <1>1, <1>3, <2>1, <3>1
  <2>3. CASE t \in Answers
    BY <1>1, <1>2, <1>3, <2>1, <2>3, AnswersFacts
  <2> QED BY <2>2, <2>3
<1>8. CASE RunDelta
  <2>1. PICK n \in DeltaSeconds :
           IF n = DT_INVALID THEN asked' = asked
           ELSE clock + n <= TS_MAX /\ asked' = Ask(asked, clock + n)
    BY <1>8 DEF RunDelta
  <2>2. CASE n # DT_INVALID
    <3>1. n \in Nat /\ clock + n \in 1 .. TS_MAX /\ clock + n >= clock
      BY <1>1, <2>1, <2>2, MainLoopAssumption
    <3>2. MayAnswer(clock + n, clock)
      BY <3>1, AbsoluteFacts DEF MayAnswer, HardTimes, Dates
    <3> QED BY <1>1, <1>2, <2>1, <2>2, <3>2
  <2> QED BY <1>1, <1>3, <2>1, <2>2
<1> QED BY <1>1, <1>4, <1>5, <1>6, <1>7, <1>8

\* Every step of the loop is one of EventClock or leaves its clock as it is.
LEMMA AbstractStep ==
    ASSUME Bounded, EventInv, EventInv', [Next]_vars
    PROVE  [Abstract!Next]_(Abstract!clockVars)
<1> USE Constants
<1> DEFINE state == IF ~Stopped THEN "running" ELSE IF Clean THEN "done" ELSE "aborted"
<1>1. /\ clock \in Int /\ clock' \in Int /\ asked.any \in Int /\ asked.hard \in Int
      /\ asked'.any \in Int /\ asked'.hard \in Int
  <2>1. asked \in AskedRecords /\ asked' \in AskedRecords /\ clock \in Int /\ clock' \in Int
    BY DEF EventInv, LoopInv, TypeOK
  <2> QED BY <2>1 DEF AskedRecords, HardTimes, Dates
<1>2. ASSUME ~Stopped, ~Stopped', clock' = clock, asked'.any <= asked.any,
             asked'.hard <= asked.hard
      PROVE  Abstract!Next
  <2>1. clock <= asked'.any /\ asked'.any <= asked'.hard
    BY <1>2 DEF EventInv, Ahead
  <2>2. asked'.any \in clock .. asked.any /\ asked'.hard \in asked'.any .. asked.hard
    BY <1>1, <1>2, <2>1
  <2> QED BY <1>2, <2>2 DEF Abstract!Next, Abstract!Request
<1>3. ASSUME ~Stopped, Stopped', ~Clean'
      PROVE  Abstract!Next
  BY <1>3 DEF Abstract!Next, Abstract!Abort
<1>4. CASE LoopEnds
  <2>1. /\ ~Stopped /\ Stopped' /\ Clean' = Clean
        /\ UNCHANGED <<clock, asked>>
    BY <1>4 DEF LoopEnds, Stopped, Clean, history
  <2>2. CASE ~Clean
    BY <1>3, <2>1, <2>2
  <2>3. CASE Clean
    <3>1. asked.hard + MinimumTimestep > StopTime
      BY <1>4, <2>3, EventLoopEnds
    <3> QED BY <2>1, <2>3, <3>1 DEF Abstract!Next, Abstract!Done
  <2> QED BY <2>2, <2>3
<1>5. CASE DeltaRefused \/ NegativeClock
  <2>1. ~Stopped
    BY <1>5 DEF DeltaRefused, NegativeClock, Stopped
  <2> QED BY <1>3, <1>5, <2>1, EventModeError
<1>6. CASE BeginIteration
  <2>1. pc = "top" /\ Continues /\ clock' \in NextClocks /\ clock' >= 0 /\ ~Stopped
    BY <1>6 DEF BeginIteration, Stopped
  <2>2. clock' >= clock /\ clock' <= StopTime /\ Due(clock')
    BY <2>1, ClockMoves DEF TS_INVALID
  <2>3. CASE Stopped'
    <3>1. main'.status = "FAILED"
      <4>1. pc' = "ended"
        BY <1>6, <2>3 DEF BeginIteration, Stopped, Throw
      <4>2. clock' \in 1 .. TS_MAX
        BY <2>1, ClockMoves DEF TS_INVALID
      <4>3. PICK it : Throw(PostStop(SyncReset, clock'))
        BY <1>6, <4>1 DEF BeginIteration
      <4> QED BY <4>2, <4>3, PostStopFacts, ThrowFacts
    <3> QED BY <1>3, <2>1, <2>3, <3>1 DEF Clean
  <2>4. CASE ~Stopped'
    <3>1. clock' <= asked'.any /\ asked'.any <= asked'.hard
      BY <2>4 DEF EventInv, Ahead
    <3> QED BY <2>1, <2>2, <2>4, <3>1 DEF Abstract!Next, Abstract!Step, Due
  <2> QED BY <2>3, <2>4
<1>7. CASE QuietStep
  <2>1. /\ ~Stopped /\ UNCHANGED <<clock, asked>>
        /\ Throw(main) \/ ~Stopped'
    BY <1>7, QuietFacts
  <2>2. CASE Throw(main)
    BY <1>3, <2>1, <2>2, ThrowFacts, LoopFacts DEF Stopped, Clean, EventInv
  <2>3. CASE ~Stopped'
    BY <1>1, <1>2, <2>1, <2>3
  <2> QED BY <2>1, <2>2, <2>3
<1>8. CASE \/ \E o \in Objects : SyncObject(o)
           \/ EndPass \/ MergeThread \/ Commit \/ RunDelta
  <2>1. /\ ~Stopped /\ clock' = clock
        /\ asked'.any <= asked.any /\ asked'.hard <= asked.hard
    BY <1>8, OnlyEarlier
  <2>2. CASE ~Stopped'
    BY <1>2, <2>1, <2>2
  <2>3. CASE Stopped'
    <3>1. Throw(main)
      BY <1>8, <2>3 DEF SyncObject, EndPass, MergeThread, Commit, RunDelta, Stopped
    <3> QED BY <1>3, <2>1, <2>3, <3>1, ThrowFacts, LoopFacts DEF Clean, EventInv
  <2> QED BY <2>2, <2>3
<1>9. CASE Return
  BY <1>9 DEF Return, Stopped, Clean, Abstract!clockVars
<1>10. CASE UNCHANGED vars
  BY <1>10 DEF vars, Stopped, Clean, Abstract!clockVars
<1> QED BY StepKinds, <1>4, <1>5, <1>6, <1>7, <1>8, <1>9, <1>10

\* The main loop implements the clock of EventClock: every request made in an
\* iteration is honoured in time and no run is done with a hard one left.
THEOREM EventClockImplemented == ASSUME Bounded PROVE Spec => ImplementsEventClock
<1>1. Init => Abstract!Init
  BY Constants, AbsoluteFacts
     DEF Init, Abstract!Init, Stopped, Ask, Nothing, Earlier, TS_INVALID, TS_ZERO
<1>2. EventInv /\ EventInv' /\ [Next]_vars => [Abstract!Next]_(Abstract!clockVars)
  BY AbstractStep
<1> QED BY <1>1, <1>2, EventsCorrect, PTL DEF Spec, ImplementsEventClock, Abstract!Spec

---------------------------------------------------------------------------
(* Failures *)

\* A failure somebody reported is in the main event, in the record of a worker
\* that is still to be merged, or in the result.
ReportedInv ==
    reported => \/ main.status = "FAILED"
                \/ \E w \in Pending : thread[w].status = "FAILED"
                \/ pc = "returned" /\ result = "FAILED"
                \/ Stopped /\ LeftByBreak

\* A step that reports nothing and loses no failure.
LEMMA ReportedKept ==
    ASSUME ReportedInv, reported' = reported, ~Stopped,
           main.status = "FAILED" => main'.status = "FAILED",
           \A w \in Pending : thread[w].status = "FAILED" =>
              \/ main'.status = "FAILED"
              \/ w \in Pending' /\ thread'[w].status = "FAILED"
    PROVE  ReportedInv'
BY DEF ReportedInv, Stopped

\* An exception is a failure in the main event.
LEMMA ReportedThrow ==
    ASSUME EventInv, Throw(main)
    PROVE  ReportedInv'
BY ThrowFacts, LoopFacts DEF EventInv, ReportedInv

\* Every step keeps the failures that were reported.
LEMMA ReportedStep ==
    ASSUME Bounded, EventInv, EventInv', ReportedInv, [Next]_vars
    PROVE  ReportedInv'
<1> USE Constants
<1>1. CASE LoopEnds
  BY <1>1 DEF LoopEnds, ReportedInv, Pending, Stopped, history
<1>2. CASE DeltaRefused
  BY <1>2 DEF DeltaRefused, ReportedInv, Stopped, LeftByBreak
<1>3. CASE NegativeClock
  BY <1>3, ReportedThrow DEF NegativeClock
<1>4. CASE BeginIteration
  <2>1. pc = "top" /\ Continues /\ clock' \in NextClocks /\ clock' >= 0
    BY <1>4 DEF BeginIteration
  <2>2. clock' \in 1 .. TS_MAX /\ clock' = main.step_to
    BY <2>1, ClockMoves DEF TS_INVALID
  <2>3. main.status # "FAILED"
    <3>1. clock' = SyncGet(main)
      BY <2>1 DEF NextClocks, Bounded
    <3>2. main \in SyncRecords /\ main.step_to # 0 /\ main.step_to # TS_NEVER
      BY <2>2, LoopFacts DEF EventInv
    <3>3. main.status = "FAILED" => clock' = TS_INVALID
      BY <3>1, <3>2, SyncGetFacts
    <3> QED BY <2>2, <3>3 DEF TS_INVALID
  <2>4. ~reported
    BY <2>1, <2>3 DEF ReportedInv, Pending, Stopped
  <2>5. PICK s \in Near(clock') \cup {TS_NEVER}, e \in Near(clock') \cup {TS_NEVER},
            x \in {TS_NEVER} \cup May("loadshape_transform", TS_ZERO),
            hard \in Near(clock') \cup {TS_NEVER} \cup May("instance", TS_INVALID) :
           LET it == SyncInternals(hard, s, x, e, clock')
               posted == PostStop(SyncReset, clock')
           IN  /\ reported' = (reported \/ x = TS_ZERO \/ hard = TS_INVALID)
               /\ Throw(posted) \/ main' = SyncSet(posted, it)
    BY <1>4, ZenonT(60) DEF BeginIteration
  <2>6. x = TS_NEVER /\ hard \in Near(clock') \cup {TS_NEVER, TS_INVALID}
    BY DEF May, Bounded
  <2>7. CASE hard = TS_INVALID
    <3>1. SyncInternals(hard, s, x, e, clock') = TS_INVALID
      BY <2>2, <2>6, <2>7, InternalsFacts
    <3>2. PostStop(SyncReset, clock') \in SyncRecords
      BY <2>2, PostStopFacts
    <3>3. main'.status = "FAILED"
      BY <2>5, <3>1, <3>2, SyncSetFails, ThrowFacts
    <3> QED BY <3>3 DEF ReportedInv
  <2>8. CASE hard # TS_INVALID
    <3>1. x # TS_ZERO
      BY <2>6 DEF TS_ZERO
    <3>2. ~reported'
      BY <2>4, <2>5, <2>8, <3>1, Zenon
    <3> QED BY <3>2 DEF ReportedInv
  <2> QED BY <2>7, <2>8
<1>5. CASE QuietStep
  <2>1. CASE Throw(main)
    BY <2>1, ReportedThrow
  <2>2. CASE ~Throw(main)
    <3>1. reported' = reported
      BY <1>5, <2>2 DEF QuietStep, Precommit, StartList, EndList, Reiterate,
                        SyncScripts, NoDelta, Interrupt, history
    <3> QED BY <1>5, <2>2, <3>1, QuietFacts, ReportedKept
  <2> QED BY <2>1, <2>2
<1>6. ASSUME NEW o \in Objects, SyncObject(o) PROVE ReportedInv'
  <2>1. /\ clock \in 1 .. TS_MAX /\ main' = main /\ ~Stopped
        /\ Pending = Workers /\ Pending' = Workers
        /\ thread \in [Workers -> WorkerRecords]
    BY <1>6, LoopFacts DEF SyncObject, Stopped, Pending, EventInv
  <2>2. PICK t \in ObjectAnswers(o) :
         /\ thread' = [thread EXCEPT ![Thread[o]] = ThreadPost(@, t)]
         /\ reported' = (reported \/ t \in {TS_INVALID, TS_ZERO})
    BY <1>6 DEF SyncObject
  <2> DEFINE k == Thread[o]  e == ThreadPost(thread[k], t)
  <2>3. k \in Workers
    BY MainLoopAssumption DEF Workers
  <2>4. /\ thread[k].status = "FAILED" => e.status = "FAILED"
        /\ t \in {TS_INVALID, TS_ZERO} => e.status = "FAILED"
    BY <2>1, <2>3, ObjectAnswersFacts, ThreadPostFacts
  <2>5. \A w \in Workers : thread'[w] = IF w = k THEN e ELSE thread[w]
    BY <2>1, <2>2, <2>3
  <2> HIDE DEF k, e
  <2>6. CASE t \in {TS_INVALID, TS_ZERO}
    BY <2>1, <2>3, <2>4, <2>5, <2>6 DEF ReportedInv, k
  <2>7. CASE t \notin {TS_INVALID, TS_ZERO}
    <3>1. reported' = reported
      BY <2>2, <2>7 DEF EventInv, LoopInv, TypeOK
    <3> QED BY <2>1, <2>4, <2>5, <3>1, ReportedKept
  <2> QED BY <2>6, <2>7
<1>7. CASE EndPass
  <2>1. /\ clock \in 1 .. TS_MAX /\ ~Stopped /\ thread' = thread /\ Pending' = Pending
        /\ main \in SyncRecords
    BY <1>7, LoopFacts DEF EndPass, Stopped, Pending, Workers, EventInv
  <2>2. PICK st \in Near(clock) \cup {TS_NEVER} \cup May("transform", TS_ZERO) :
         main' = SyncSet(main, st) /\ reported' = (reported \/ st = TS_ZERO)
    BY <1>7 DEF EndPass
  <2>3. CASE st = TS_ZERO
    BY <2>1, <2>2, <2>3, SyncSetFails DEF SyncSet, ReportedInv, TS_ZERO, TS_INVALID
  <2>4. CASE st # TS_ZERO
    <3>1. ~SyncSetThrows(st) /\ st \in Int
      BY <2>1, <2>4, NearFacts DEF May, SyncSetThrows
    <3>2. main.step_to \in 1 .. TS_MAX
      BY <2>1 DEF EventInv, Ahead
    <3>3. main.status = "FAILED" => main'.status = "FAILED"
      BY <2>1, <2>2, <3>1, <3>2, SyncSetPosts
    <3>4. reported' = reported
      BY <2>2, <2>4 DEF EventInv, LoopInv, TypeOK
    <3> QED BY <2>1, <3>3, <3>4, ReportedKept
  <2> QED BY <2>3, <2>4
<1>8. CASE MergeThread
  <2>1. /\ ~Stopped /\ thread' = thread /\ reported' = reported /\ pc = "merge"
        /\ pass \in Workers /\ main \in SyncRecords
        /\ thread \in [Workers -> WorkerRecords]
        /\ Pending = {w \in Workers : w >= pass}
    BY <1>8, LoopFacts DEF MergeThread, Stopped, Pending, history, EventInv, LoopInv
  <2>2. CASE SyncMergeThrows(thread[pass])
    BY <1>8, <2>2, ReportedThrow DEF MergeThread
  <2>3. CASE ~SyncMergeThrows(thread[pass])
    <3> DEFINE from == thread[pass]
    <3>1. main' = SyncMerge(main, from) /\ Pending' = {w \in Workers : w > pass}
      BY <1>8, <2>1, <2>3 DEF MergeThread, Pending, Workers
    <3>2. from.status = "FAILED" => main'.status = "FAILED"
      BY <2>1, <3>1, SyncSetFails DEF SyncMerge, SyncIsInvalid
    <3>3. main.status = "FAILED" => main'.status = "FAILED"
      <4>1. ASSUME NEW t, t \in Int, ~SyncSetThrows(t), main.status = "FAILED"
            PROVE  SyncSet(main, t).status = "FAILED"
        <5>1. main.step_to \in 1 .. TS_MAX
          BY <2>1, LoopFacts DEF EventInv, Ahead
        <5> QED BY <2>1, <4>1, <5>1, SyncSetPosts
      <4>2. CASE SyncIsInvalid(from)
        BY <2>1, <3>1, <4>2, SyncSetFails DEF SyncMerge
      <4>3. CASE ~SyncIsInvalid(from) /\ SyncIsNever(from)
        BY <3>1, <4>3 DEF SyncMerge
      <4>4. CASE ~SyncIsInvalid(from) /\ ~SyncIsNever(from)
        <5>1. SyncGet(from) \in Int
          BY <2>1, <4>4, MergeGet
        <5> QED BY <2>3, <3>1, <4>1, <4>4, <5>1 DEF SyncMerge, SyncMergeThrows
      <4> QED BY <4>2, <4>3, <4>4
    <3>4. \A w \in Pending : w = pass \/ w \in Pending'
      BY <2>1, <3>1 DEF Workers
    <3> QED BY <2>1, <3>2, <3>3, <3>4, ReportedKept
  <2> QED BY <2>2, <2>3
<1>9. CASE Commit
  <2>1. /\ ~Stopped /\ Pending = {} /\ clock \in 1 .. TS_MAX /\ main \in SyncRecords
        /\ main.step_to \in 1 .. TS_MAX
    BY <1>9, LoopFacts DEF Commit, Stopped, Pending, EventInv, Ahead
  <2>2. CASE Throw(main)
    BY <2>2, ReportedThrow
  <2>3. CASE ~Throw(main)
    <3>1. PICK t \in Answers \cup CommitFaults :
             /\ AbsoluteTimestamp(t) > clock \/ ~(AbsoluteTimestamp(t) <= clock)
             /\ reported' = (reported \/ AbsoluteTimestamp(t) <= clock)
             /\ main' = main \/ main' = SyncSet(main, t)
      BY <1>9, <2>3 DEF Commit
    <3>2. t \in Answers /\ t \in Int
      BY <2>1, <3>1, MainLoopAssumption, AbsoluteFacts, AnswersFacts
         DEF TS_INVALID, TS_ZERO, MayAnswer
    <3>3. reported' = reported
      BY <2>1, <3>1, <3>2, AbsoluteFacts DEF EventInv, LoopInv, TypeOK
    <3>4. main.status = "FAILED" => main'.status = "FAILED"
      BY <2>1, <3>1, <3>2, AnswersFacts, SyncSetPosts
    <3> QED BY <2>1, <3>3, <3>4, ReportedKept
  <2> QED BY <2>2, <2>3
<1>10. CASE RunDelta
  <2>1. /\ ~Stopped /\ Pending = {} /\ clock \in 1 .. TS_MAX /\ main \in SyncRecords
        /\ main.step_to \in 1 .. TS_MAX
    BY <1>10, LoopFacts DEF RunDelta, Stopped, Pending, EventInv, Ahead
  <2>2. CASE Throw(main)
    BY <2>2, ReportedThrow
  <2>3. CASE ~Throw(main)
    <3>1. PICK n \in DeltaSeconds :
             /\ n # DT_INVALID /\ clock + n <= TS_MAX
             /\ main' = SyncSet(main, clock + n) /\ reported' = reported
      BY <1>10, <2>3 DEF RunDelta
    <3>2. n \in Nat /\ clock + n \in 1 .. TS_MAX
      BY <2>1, <3>1, MainLoopAssumption
    <3>3. ~SyncSetThrows(clock + n) /\ clock + n \in Int
      BY <3>2 DEF SyncSetThrows
    <3>4. main.status = "FAILED" => main'.status = "FAILED"
      BY <2>1, <3>1, <3>3, SyncSetPosts
    <3> QED BY <2>1, <3>1, <3>4, ReportedKept
  <2> QED BY <2>2, <2>3
<1>11. CASE Return
  <2>1. Pending = {} /\ pc # "returned" /\ main' = main /\ pc' = "returned"
        /\ (\/ result' = main.status /\ reported' = reported
            \/ result' = "FAILED")
    BY <1>11 DEF Return, Pending
  <2>2. mode' = mode /\ Stopped'
    BY <1>11 DEF Return, Stopped
  <2> QED BY <2>1, <2>2 DEF ReportedInv, LeftByBreak
<1>12. CASE UNCHANGED vars
  BY <1>12 DEF vars, ReportedInv, Pending, Stopped, LeftByBreak
<1> QED BY StepKinds, <1>1, <1>2, <1>3, <1>4, <1>5, <1>6, <1>7, <1>8, <1>9,
           <1>10, <1>11, <1>12

\* A run in which anything failed - an object, a transform, an instance, a
\* commit, a script, delta mode, the convergence - returns FAILED, unless the
\* loop was left by the break on a mode error.
THEOREM FailuresReported ==
    ASSUME Bounded PROVE Spec => []FailureReported
<1>1. Init => ReportedInv
  BY DEF Init, ReportedInv
<1>2. EventInv /\ EventInv' /\ ReportedInv /\ [Next]_vars => ReportedInv'
  BY ReportedStep
<1>3. EventInv /\ ReportedInv => FailureReported
  <2> SUFFICES ASSUME EventInv, ReportedInv, pc = "returned", reported, ~LeftByBreak
               PROVE  result = "FAILED"
    BY DEF FailureReported
  <2>1. Pending = {}
    BY DEF Pending
  <2>2. result \in {main.status, "FAILED"}
    BY DEF EventInv, Ended
  <2> QED BY <2>1, <2>2 DEF ReportedInv
<1> QED BY <1>1, <1>2, <1>3, EventsCorrect, PTL DEF Spec

---------------------------------------------------------------------------
(* Precommits *)

\* delta mode advances the clock by a second at least
DeltaAdvances == 0 \notin DeltaSeconds

\* Between the end of an iteration and the head of the next one, iterations
\* have been used up exactly when the next one is at the same clock.
Resumes == \/ main.status = "FAILED"
           \/ /\ counter = IterationLimit
              /\ main.step_to > clock \/ (pc = "top" /\ precommits = 0)
           \/ /\ counter < IterationLimit
              /\ main.step_to = clock /\ precommits = 1

PrecommitInv ==
    /\ pc \in {"top", "scripts", "delta"} => Resumes
    /\ pc = "precommit" => precommits = IF counter = IterationLimit THEN 0 ELSE 1
    /\ PrecommitFirst

\* Every step keeps the count of the precommits.
LEMMA PrecommitStep ==
    ASSUME Bounded, DeltaAdvances, EventInv, PrecommitInv, [Next]_vars
    PROVE  PrecommitInv'
<1> USE Constants
<1> USE DEF PrecommitInv, PrecommitFirst
<1>0. counter \in 0 .. IterationLimit /\ precommits \in 0 .. 2 /\ clock \in Int
  BY LoopFacts DEF EventInv
<1>1. ASSUME pc' \in {"ended", "returned"} PROVE PrecommitInv'
  BY <1>1
<1>2. CASE LoopEnds \/ DeltaRefused \/ NegativeClock \/ Return
  BY <1>1, <1>2 DEF LoopEnds, DeltaRefused, NegativeClock, Return, Throw
<1>3. CASE BeginIteration
  <2>1. /\ pc = "top" /\ Continues /\ clock' \in NextClocks /\ clock' >= 0
        /\ precommits' = (IF clock' = clock THEN precommits ELSE 0)
        /\ counter' = counter
        /\ pc' \in {"ended", "precommit"}
    BY <1>3 DEF BeginIteration, Throw
  <2>2. clock' = main.step_to /\ clock' \in 1 .. TS_MAX /\ clock' >= clock
    BY <2>1, ClockMoves, <1>0 DEF TS_INVALID, Bounded, HardTimes, Dates
  <2>3. main.status # "FAILED"
    <3>1. clock' = SyncGet(main)
      BY <2>1 DEF NextClocks, Bounded
    <3>2. main \in SyncRecords /\ main.step_to # 0 /\ main.step_to # TS_NEVER
      BY <2>2, LoopFacts DEF EventInv
    <3>3. main.status = "FAILED" => clock' = TS_INVALID
      BY <3>1, <3>2, SyncGetFacts
    <3> QED BY <2>2, <3>3 DEF TS_INVALID
  <2>4. CASE counter = IterationLimit
    BY <1>0, <2>1, <2>2, <2>3, <2>4 DEF Resumes
  <2>5. CASE counter # IterationLimit
    BY <1>0, <2>1, <2>2, <2>3, <2>5 DEF Resumes
  <2> QED BY <2>4, <2>5
<1>4. CASE Precommit
  BY <1>0, <1>4 DEF Precommit, FirstIteration, Throw
<1>5. CASE StartList
  BY <1>5 DEF StartList, history
<1>6. ASSUME NEW o \in Objects, SyncObject(o) PROVE PrecommitInv'
  BY <1>6 DEF SyncObject
<1>7. CASE EndList
  BY <1>7 DEF EndList, Throw, history
<1>8. CASE EndPass
  BY <1>8 DEF EndPass
<1>9. CASE MergeThread
  BY <1>9 DEF MergeThread, Throw, history
<1>10. CASE Commit
  <2>1. /\ clock \in 1 .. TS_MAX /\ main \in SyncRecords /\ clock' = clock
        /\ main.step_to \in clock .. TS_MAX /\ SyncGet(main) # clock /\ precommits' = precommits
    BY <1>10, LoopFacts DEF Commit, EventInv, Ahead, Stopped
  <2>2. CASE pc' = "ended"
    BY <1>1, <2>2
  <2>3. CASE pc' # "ended"
    <3>1. PICK t \in Answers \cup CommitFaults :
             /\ ~(AbsoluteTimestamp(t) <= clock) /\ pc' = "scripts"
             /\ counter' = IterationLimit
             /\ main' = main \/ main' = SyncSet(main, t)
      BY <1>10, <2>3 DEF Commit, Throw
    <3>2. t \in Answers
      BY <2>1, <3>1, MainLoopAssumption, AbsoluteFacts DEF TS_INVALID, TS_ZERO
    <3>3. ~SyncSetThrows(t) /\ t \in Int /\ AbsoluteTimestamp(t) > clock
      BY <2>1, <3>1, <3>2, AnswersFacts, AbsoluteFacts DEF MayAnswer
    <3>4. main.status = "FAILED" \/ main.step_to > clock
      BY <2>1, SyncGetFacts
    <3>5. main'.status = "FAILED" \/ main'.step_to > clock
      BY <2>1, <3>1, <3>3, <3>4, SyncSetPosts
    <3> QED BY <2>1, <3>1, <3>5 DEF Resumes
  <2> QED BY <2>2, <2>3
<1>11. CASE Reiterate
  <2>1. /\ clock' = clock /\ precommits' = precommits /\ precommits = 1
        /\ SyncGet(main) = clock /\ counter' = counter - 1
        /\ clock \in 1 .. TS_MAX /\ main \in SyncRecords /\ main.step_to \in clock .. TS_MAX
    BY <1>11, LoopFacts DEF Reiterate, IterationsLeft, EventInv, Ahead, Stopped
  <2>2. main.status = "FAILED" \/ main.step_to = clock
    BY <2>1, SyncGetFacts
  <2>3. CASE pc' = "ended"
    BY <1>1, <2>3
  <2>4. CASE pc' # "ended"
    <3>1. pc' = "scripts" /\ main' = main
      BY <1>11, <2>4 DEF Reiterate, Throw
    <3> QED BY <1>0, <2>1, <2>2, <3>1 DEF Resumes
  <2> QED BY <2>3, <2>4
<1>12. CASE SyncScripts
  BY <1>12 DEF SyncScripts, Throw, Resumes
<1>13. CASE NoDelta
  BY <1>13 DEF NoDelta, Resumes, history
<1>14. CASE RunDelta
  <2>1. /\ clock \in 1 .. TS_MAX /\ main \in SyncRecords /\ pc = "delta"
        /\ main.step_to \in clock .. TS_MAX
        /\ clock' = clock /\ precommits' = precommits /\ counter' = counter
    BY <1>14, LoopFacts DEF RunDelta, Stopped, EventInv, Ahead
  <2>2. CASE pc' = "ended"
    BY <1>1, <2>2
  <2>3. CASE pc' # "ended"
    <3>1. PICK n \in DeltaSeconds :
             /\ n # DT_INVALID /\ clock + n <= TS_MAX /\ pc' = "top"
             /\ main' = SyncSet(main, clock + n)
      BY <1>14, <2>3 DEF RunDelta, Throw
    <3>2. n \in Nat \ {0} /\ clock + n \in 1 .. TS_MAX /\ clock + n > clock
      BY <2>1, <3>1, MainLoopAssumption DEF DeltaAdvances
    <3>3. ~SyncSetThrows(clock + n) /\ AbsoluteTimestamp(clock + n) = clock + n
      BY <3>2, AbsoluteFacts DEF SyncSetThrows
    <3>4. /\ main'.step_to = main.step_to \/ main'.step_to = clock + n
          /\ main'.step_to <= main.step_to
          /\ main.status = "FAILED" => main'.status = "FAILED"
      BY <2>1, <3>1, <3>2, <3>3, SyncSetPosts
    <3>5. main'.step_to > clock <=> main.step_to > clock
      BY <2>1, <3>2, <3>4
    <3>6. main.step_to = clock => main'.step_to = clock
      BY <2>1, <3>2, <3>4
    <3> QED BY <1>0, <2>1, <3>1, <3>4, <3>5, <3>6 DEF Resumes
  <2> QED BY <2>2, <2>3
<1>15. CASE Interrupt
  BY <1>15 DEF Interrupt, Resumes, history
<1>16. CASE UNCHANGED vars
  BY <1>16 DEF vars, Resumes
<1> QED BY StepKinds, <1>2, <1>3, <1>4, <1>5, <1>6, <1>7, <1>8, <1>9, <1>10,
           <1>11, <1>12, <1>13, <1>14, <1>15, <1>16 DEF QuietStep

\* Every timestep is precommitted before its objects are synchronised, and
\* precommitted once however many iterations it takes.
THEOREM PrecommitsOnce ==
    ASSUME Bounded, DeltaAdvances PROVE Spec => []PrecommitFirst
<1>1. Init => PrecommitInv
  BY DEF Init, PrecommitInv, PrecommitFirst, Resumes
<1>2. EventInv /\ PrecommitInv /\ [Next]_vars => PrecommitInv'
  BY PrecommitStep
<1>3. PrecommitInv => PrecommitFirst
  BY DEF PrecommitInv
<1> QED BY <1>1, <1>2, <1>3, EventsCorrect, PTL DEF Spec

=============================================================================

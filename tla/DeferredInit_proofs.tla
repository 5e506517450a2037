-------------------------- MODULE DeferredInit_proofs --------------------------
(***************************************************************************)
(* For every number of objects, and every way in which they wait for each  *)
(* other: initialisation by deferral gives the right result as long as at  *)
(* most one round of retries is allowed (OneRetry).  From the second round *)
(* on the counter of deferred objects is what the rounds before left in    *)
(* it, and the result is not right any more.                               *)
(***************************************************************************)
EXTENDS DeferredInit, TLAPS

(* global_init_max_defer is 0 or 1.                                        *)
OneRetry == MaxDefers \subseteq {0, 1}

Types ==
  /\ waits \in Waitings /\ max_defer \in {0, 1}
  /\ pc \in {"first", "round", "retry", "returned"}
  /\ i \in Nat /\ def_ct \in Nat /\ ct \in Nat /\ tries \in {0, 1}
  /\ def_array \in [Index -> 0 .. N] /\ next_arr \in [Index -> 0 .. N]
  /\ space \in [def : Nat, next : Nat]
  /\ inited \subseteq Object /\ deferred \subseteq Object
  /\ rv \in {"SUCCESS", "FAILED"} /\ refused \in BOOLEAN
  /\ tries <= max_defer

(* The first n entries of an array are the objects of S, each once.        *)
Lists(array, n, S) ==
  /\ n <= N
  /\ {array[k] : k \in 0 .. n - 1} = S
  /\ \A j, k \in 0 .. n - 1 : array[j] = array[k] => j = k

(* The first pass over the objects has come to i.                          *)
FirstKept ==
  pc = "first" =>
    /\ tries = 0 /\ ct = 0 /\ rv = "SUCCESS"
    /\ i \in 1 .. N + 1 /\ def_ct <= i - 1
    /\ inited = (1 .. i - 1) \ deferred /\ deferred \subseteq 1 .. i - 1
    /\ Lists(def_array, def_ct, deferred)

(* Before a round of retries the array is what is left; nothing is counted *)
(* yet unless no further round is allowed.                                 *)
RoundKept ==
  pc = "round" =>
    /\ tries = 0 => def_ct > 0 /\ space.next >= def_ct
    /\ (tries = 0 /\ ct = 0) \/ tries = max_defer
    /\ deferred = Object \ inited
    /\ Lists(def_array, def_ct, deferred)

(* In the round of retries, the objects before i are initialised or among  *)
(* the first ct of the next array; when all of them are, nothing has been  *)
(* initialised since the round began, and none of them was ready.          *)
RetryKept ==
  pc = "retry" =>
    /\ tries = 0 /\ max_defer = 1
    /\ i <= def_ct /\ ct <= i /\ 0 < def_ct /\ def_ct <= space.next
    /\ deferred = Object \ inited
    /\ Lists(def_array, def_ct, {def_array[k] : k \in 0 .. def_ct - 1})
    /\ {def_array[k] : k \in 0 .. def_ct - 1} \subseteq Object
    /\ Lists(next_arr, ct, {next_arr[k] : k \in 0 .. ct - 1})
    /\ {next_arr[k] : k \in 0 .. ct - 1} \subseteq {def_array[k] : k \in 0 .. i - 1}
    /\ deferred = {def_array[k] : k \in i .. def_ct - 1} \cup {next_arr[k] : k \in 0 .. ct - 1}
    /\ ct = i => \A k \in 0 .. i - 1 : ~Ready(def_array[k])

IInv == Types /\ FirstKept /\ RoundKept /\ RetryKept /\ ResultRight

---------------------------------------------------------------------------
(* The steps *)

LEMMA InvInit == ASSUME OneRetry, Init PROVE IInv
<1>1. N \in Nat /\ max_defer \in {0, 1}
  BY DeferredInitAssumption DEF Init, OneRetry
<1>2. Types
  <2>1. space \in [def : Nat, next : Nat]
    BY <1>1 DEF Init
  <2>2. def_array \in [Index -> 0 .. N] /\ next_arr \in [Index -> 0 .. N]
    BY <1>1 DEF Init, NULL
  <2>3. /\ waits \in Waitings /\ pc = "first" /\ i = 1 /\ def_ct = 0 /\ ct = 0 /\ tries = 0
        /\ inited = {} /\ deferred = {} /\ rv = "SUCCESS"
    BY DEF Init
  <2>4. refused \in BOOLEAN
    BY DEF Init
  <2>5. tries <= max_defer
    BY <1>1, <2>3
  <2> QED BY <1>1, <2>1, <2>2, <2>3, <2>4, <2>5 DEF Types
<1>3. FirstKept
  BY <1>1 DEF Init, FirstKept, Lists
<1> QED BY <1>2, <1>3 DEF Init, IInv, RoundKept, RetryKept, ResultRight

LEMMA InvFirstInit == ASSUME IInv, FirstInit PROVE IInv'
<1> USE DEF IInv
<1>1. /\ pc = "first" /\ pc' = "first" /\ i <= N /\ i' = i + 1
      /\ inited' = inited \cup {i}
      /\ UNCHANGED <<waits, max_defer, def_array, next_arr, space, def_ct, ct, tries,
                     deferred, rv, refused>>
  BY DEF FirstInit, fixed, arrays, counters
<1>2. N \in Nat /\ i \in 1 .. N
  BY <1>1, DeferredInitAssumption DEF FirstKept
<1>3. Types'
  BY <1>1, <1>2 DEF Types, Object
<1>4. FirstKept'
  BY <1>1, <1>2 DEF FirstKept, Types, Lists
<1> QED BY <1>1, <1>3, <1>4 DEF RoundKept, RetryKept, ResultRight

\* The object is put behind those that were deferred before it.
LEMMA InvFirstDefer == ASSUME IInv, FirstDefer PROVE IInv'
<1> USE DEF IInv
<1>1. /\ pc = "first" /\ pc' = "first" /\ i <= N /\ i' = i + 1
      /\ def_array' = [def_array EXCEPT ![def_ct] = i] /\ def_ct' = def_ct + 1
      /\ deferred' = deferred \cup {i}
      /\ UNCHANGED <<waits, max_defer, next_arr, space, ct, tries, inited, rv, refused>>
  BY DEF FirstDefer, fixed
<1>2. N \in Nat /\ i \in 1 .. N /\ def_ct \in 0 .. N - 1 /\ def_ct <= i - 1
  BY <1>1, DeferredInitAssumption DEF FirstKept, Types
<1>3. /\ def_array' \in [Index -> 0 .. N] /\ def_array'[def_ct] = i
      /\ \A k \in 0 .. def_ct - 1 : def_array'[k] = def_array[k]
  BY <1>1, <1>2 DEF Types, Index
<1>4. Types'
  BY <1>1, <1>2, <1>3 DEF Types, Object
<1>5. Lists(def_array, def_ct, deferred) /\ deferred \subseteq 1 .. i - 1
  BY <1>1 DEF FirstKept
<1>6. \A k \in 0 .. def_ct - 1 : def_array[k] \in deferred
  BY <1>5 DEF Lists
<1>7. Lists(def_array', def_ct', deferred')
  <2>1. \A k \in 0 .. def_ct : k = def_ct \/ k \in 0 .. def_ct - 1
    BY <1>2
  <2>2. {def_array'[k] : k \in 0 .. def_ct} = deferred \cup {i}
    BY <1>2, <1>3, <1>5, <2>1 DEF Lists
  <2>3. \A j, k \in 0 .. def_ct : def_array'[j] = def_array'[k] => j = k
    BY <1>2, <1>3, <1>5, <1>6, <2>1 DEF Lists
  <2>4. def_ct + 1 - 1 = def_ct
    BY <1>2
  <2> QED BY <1>1, <1>2, <2>2, <2>3, <2>4 DEF Lists
<1>8. FirstKept'
  <2>1. inited = (1 .. i - 1) \ deferred
    BY <1>1 DEF FirstKept
  <2>2. inited' = (1 .. i' - 1) \ deferred' /\ deferred' \subseteq 1 .. i' - 1
    BY <1>1, <1>2, <1>5, <2>1
  <2> QED BY <1>1, <1>2, <1>7, <2>2 DEF FirstKept
<1> QED BY <1>1, <1>4, <1>8 DEF RoundKept, RetryKept, ResultRight

LEMMA InvFirstEnd == ASSUME IInv, FirstEnd PROVE IInv'
<1> USE DEF IInv
<1>1. /\ pc = "first" /\ i > N
      /\ UNCHANGED <<waits, max_defer, i, def_array, next_arr, def_ct, ct, tries, inited,
                     deferred, rv, refused>>
  BY DEF FirstEnd, fixed, counters
<1>2. /\ N \in Nat /\ i = N + 1 /\ tries = 0 /\ ct = 0 /\ rv = "SUCCESS"
      /\ deferred = Object \ inited /\ Lists(def_array, def_ct, deferred)
  <2>1. N \in Nat /\ i = N + 1 /\ i - 1 = N
    BY <1>1, DeferredInitAssumption DEF FirstKept, Types
  <2>2. inited = (1 .. N) \ deferred /\ deferred \subseteq 1 .. N
    BY <1>1, <2>1 DEF FirstKept
  <2>3. deferred = Object \ inited
    BY <2>2 DEF Object
  <2> QED BY <1>1, <2>1, <2>3 DEF FirstKept
<1>3. CASE def_ct > 0
  <2>1. pc' = "round" /\ space' = [space EXCEPT !.next = def_ct]
    BY <1>3 DEF FirstEnd
  <2>2. Types'
    BY <1>1, <2>1 DEF Types
  <2>3. space'.next = def_ct
    BY <2>1 DEF Types
  <2>4. RoundKept'
    BY <1>1, <1>2, <1>3, <2>1, <2>3 DEF RoundKept, Types
  <2> QED BY <2>1, <2>2, <2>4 DEF FirstKept, RetryKept, ResultRight
<1>4. CASE ~(def_ct > 0)
  <2>1. pc' = "returned" /\ space' = space
    BY <1>4 DEF FirstEnd
  <2>2. Types'
    BY <1>1, <2>1 DEF Types
  <2>3. def_ct = 0 /\ deferred = {}
    BY <1>2, <1>4 DEF Types, Lists
  <2>4. ResultRight'
    BY <1>1, <1>2, <2>1, <2>3 DEF ResultRight, Types
  <2> QED BY <2>1, <2>2, <2>4 DEF FirstKept, RoundKept, RetryKept
<1> QED BY <1>3, <1>4

LEMMA InvRound == ASSUME IInv, Round PROVE IInv'
<1> USE DEF IInv
<1>1. /\ pc = "round" /\ ~TriesSpent /\ pc' = "retry" /\ i' = 0
      /\ next_arr' = [k \in Index |-> IF k < def_ct THEN NULL ELSE next_arr[k]]
      /\ UNCHANGED <<waits, max_defer, def_array, space, def_ct, ct, tries, inited,
                     deferred, rv, refused>>
  BY DEF Round, fixed, counters
<1>2. /\ N \in Nat /\ tries = 0 /\ max_defer = 1 /\ ct = 0 /\ def_ct > 0
      /\ space.next >= def_ct /\ def_ct \in Nat /\ space.next \in Nat
      /\ deferred = Object \ inited /\ Lists(def_array, def_ct, deferred)
  BY <1>1, DeferredInitAssumption DEF RoundKept, Types, TriesSpent
<1>3. Types'
  BY <1>1, <1>2 DEF Types, NULL
<1>4. RetryKept'
  <2>1. Lists(next_arr', 0, {next_arr'[k] : k \in 0 .. 0 - 1})
    BY <1>2 DEF Lists
  <2>2. deferred = {def_array[k] : k \in 0 .. def_ct - 1}
    BY <1>2 DEF Lists
  <2>3. {next_arr'[k] : k \in 0 .. 0 - 1} = {}
    OBVIOUS
  <2>4. deferred \subseteq Object /\ Lists(def_array, def_ct, {def_array[k] : k \in 0 .. def_ct - 1})
    BY <1>2, <2>2
  <2>5. i' = 0 /\ ct' = 0 /\ def_ct' = def_ct /\ 0 <= def_ct /\ def_ct <= space'.next
    BY <1>1, <1>2
  <2>6. Lists(next_arr', ct', {next_arr'[k] : k \in 0 .. ct' - 1})
        /\ {next_arr'[k] : k \in 0 .. ct' - 1} = {}
    BY <2>1, <2>3, <2>5
  <2>7. deferred' = {def_array'[k] : k \in i' .. def_ct' - 1} \cup {next_arr'[k] : k \in 0 .. ct' - 1}
    BY <1>1, <2>2, <2>5, <2>6
  <2>8. \A k \in 0 .. i' - 1 : ~Ready(def_array[k])'
    BY <2>5
  <2>9. /\ Lists(def_array', def_ct', {def_array'[k] : k \in 0 .. def_ct' - 1})
        /\ {def_array'[k] : k \in 0 .. def_ct' - 1} \subseteq Object
    BY <1>1, <2>2, <2>4
  <2> QED BY <1>1, <1>2, <2>5, <2>6, <2>7, <2>8, <2>9 DEF RetryKept
<1> QED BY <1>1, <1>3, <1>4 DEF FirstKept, RoundKept, ResultRight

LEMMA InvExhausted == ASSUME IInv, Exhausted PROVE IInv'
<1> USE DEF IInv
<1>1. /\ pc = "round" /\ TriesSpent /\ pc' = "returned" /\ rv' = "FAILED"
      /\ UNCHANGED <<waits, max_defer, i, def_array, next_arr, space, def_ct, ct, tries,
                     inited, deferred, refused>>
  BY DEF Exhausted, fixed, counters, arrays
<1>2. Types'
  BY <1>1 DEF Types
<1>3. ResultRight'
  BY <1>1 DEF ResultRight, TriesSpent, Types
<1> QED BY <1>1, <1>2, <1>3 DEF FirstKept, RoundKept, RetryKept

\* The array has room for what is deferred again, and has no entry that was
\* never set, because as many are counted as have been tried.
LEMMA InvRetry == ASSUME IInv, Retry PROVE IInv'
<1> USE DEF IInv
<1>1. /\ pc = "retry" /\ i < def_ct /\ i' = i + 1
      /\ UNCHANGED <<waits, max_defer, def_array, space, def_ct, tries, rv, refused>>
  BY DEF Retry, fixed
<1> DEFINE o == def_array[i]
           Tried(n) == {def_array[k] : k \in 0 .. n - 1}
           Again(n) == {next_arr[k] : k \in 0 .. n - 1}
           ToTry(n) == {def_array[k] : k \in n .. def_ct - 1}
<1>2. /\ N \in Nat /\ i \in Nat /\ ct \in Nat /\ def_ct \in Nat /\ space.next \in Nat
      /\ tries = 0 /\ max_defer = 1 /\ ct <= i /\ def_ct <= space.next /\ def_ct <= N
      /\ deferred = Object \ inited /\ inited \subseteq Object
      /\ deferred = ToTry(i) \cup Again(ct) /\ Again(ct) \subseteq Tried(i)
      /\ Tried(def_ct) \subseteq Object
      /\ Lists(def_array, def_ct, Tried(def_ct)) /\ Lists(next_arr, ct, Again(ct))
      /\ ct = i => \A k \in 0 .. i - 1 : ~Ready(def_array[k])
  BY <1>1, DeferredInitAssumption DEF RetryKept, Types, Lists
<1>3. o \in Object /\ o # NULL /\ Trying = o
  <2>1. i \in 0 .. def_ct - 1
    BY <1>1, <1>2
  <2>2. o \in Tried(def_ct)
    BY <2>1
  <2> QED BY <1>2, <2>2 DEF Object, NULL, Trying
<1>4. \A j, k \in 0 .. def_ct - 1 : def_array[j] = def_array[k] => j = k
  BY <1>2 DEF Lists
<1>5. o \notin Tried(i) /\ o \notin ToTry(i + 1)
  BY <1>1, <1>2, <1>4
<1>6. ToTry(i) = ToTry(i + 1) \cup {o} /\ Tried(i + 1) = Tried(i) \cup {o}
  <2>1. \A k \in i .. def_ct - 1 : k = i \/ k \in i + 1 .. def_ct - 1
    BY <1>1, <1>2
  <2>2. \A k \in 0 .. i + 1 - 1 : k = i \/ k \in 0 .. i - 1
    BY <1>1, <1>2
  <2>3. /\ i \in i .. def_ct - 1 /\ i \in 0 .. i + 1 - 1 /\ 0 .. i - 1 \subseteq 0 .. i + 1 - 1
        /\ i + 1 .. def_ct - 1 \subseteq i .. def_ct - 1
    BY <1>1, <1>2
  <2>4. ToTry(i) = ToTry(i + 1) \cup {o}
    BY <2>1, <2>3
  <2>5. Tried(i + 1) = Tried(i) \cup {o}
    BY <2>2, <2>3
  <2> QED BY <2>4, <2>5
<1>7. CASE Ready(o)
  <2>1. /\ inited' = inited \cup {o} /\ deferred' = deferred \ {o}
        /\ pc' = pc /\ next_arr' = next_arr /\ ct' = ct
    BY <1>3, <1>7 DEF Retry
  <2>2. Types'
    BY <1>1, <1>2, <1>3, <2>1 DEF Types
  <2>3. deferred' = ToTry(i + 1) \cup Again(ct)
    BY <1>2, <1>5, <1>6, <2>1
  <2>4. deferred' = Object \ inited'
    BY <1>2, <2>1
  <2>5. Again(ct) \subseteq Tried(i + 1)
    BY <1>2, <1>6
  <2>6. RetryKept'
    <3>1. i' <= def_ct' /\ ct' <= i' /\ ct' # i'
      BY <1>1, <1>2, <2>1
    <3>2. /\ {next_arr'[k] : k \in 0 .. ct' - 1} = Again(ct)
          /\ {def_array'[k] : k \in 0 .. i' - 1} = Tried(i + 1)
          /\ {def_array'[k] : k \in i' .. def_ct' - 1} = ToTry(i + 1)
          /\ {def_array'[k] : k \in 0 .. def_ct' - 1} = Tried(def_ct)
      BY <1>1, <2>1
    <3> HIDE DEF o, Again, Tried, ToTry
    <3>3. Lists(def_array', def_ct', Tried(def_ct)) /\ Lists(next_arr', ct', Again(ct))
      BY <1>1, <1>2, <2>1
    <3> QED BY <1>1, <1>2, <2>1, <2>3, <2>4, <2>5, <3>1, <3>2, <3>3 DEF RetryKept
  <2> QED BY <1>1, <2>1, <2>2, <2>6 DEF FirstKept, RoundKept, ResultRight
<1>8. CASE ~Ready(o)
  <2>1. ct < space.next
    BY <1>1, <1>2
  <2>2. /\ next_arr' = [next_arr EXCEPT ![ct] = o] /\ ct' = ct + 1
        /\ inited' = inited /\ deferred' = deferred /\ pc' = pc
    BY <1>3, <1>8, <2>1 DEF Retry
  <2>3. /\ next_arr' \in [Index -> 0 .. N] /\ next_arr'[ct] = o
        /\ \A k \in 0 .. ct - 1 : next_arr'[k] = next_arr[k]
    <3>1. next_arr \in [Index -> 0 .. N] /\ ct \in Index
      BY <1>1, <1>2 DEF Types, Index
    <3>2. o \in 0 .. N /\ \A k \in 0 .. ct - 1 : k \in Index /\ k # ct
      BY <1>1, <1>2, <1>3 DEF Index, Object
    <3> QED BY <2>2, <3>1, <3>2
  <2>4. Types'
    BY <1>1, <1>2, <2>2, <2>3 DEF Types
  <2>5. \A k \in 0 .. ct' - 1 : k = ct \/ k \in 0 .. ct - 1
    BY <1>2, <2>2
  <2>6. ct \in 0 .. ct' - 1 /\ 0 .. ct - 1 \subseteq 0 .. ct' - 1
    BY <1>2, <2>2
  <2>7. {next_arr'[k] : k \in 0 .. ct' - 1} = Again(ct) \cup {o}
    BY <2>3, <2>5, <2>6
  <2>8. \A k \in 0 .. ct - 1 : next_arr[k] # o
    BY <1>2, <1>5
  <2>9. Lists(next_arr', ct', {next_arr'[k] : k \in 0 .. ct' - 1})
    <3>1. \A j, k \in 0 .. ct - 1 : next_arr[j] = next_arr[k] => j = k
      BY <1>2 DEF Lists
    <3>2. \A j, k \in 0 .. ct' - 1 : next_arr'[j] = next_arr'[k] => j = k
      BY <2>3, <2>5, <2>8, <3>1
    <3>3. ct' <= N
      BY <1>1, <1>2, <2>2
    <3> QED BY <3>2, <3>3 DEF Lists
  <2>10. Again(ct) \cup {o} \subseteq Tried(i + 1) /\ deferred = ToTry(i + 1) \cup (Again(ct) \cup {o})
    BY <1>2, <1>6
  <2>11. \A k \in 0 .. i : k = i \/ k \in 0 .. i - 1
    BY <1>2
  <2>12. ct = i => \A k \in 0 .. i : ~Ready(def_array[k])
    BY <1>2, <1>8, <2>11
  <2>13. RetryKept'
    <3>1. ct' <= i' /\ i' <= def_ct' /\ (ct' = i' <=> ct = i) /\ i' - 1 = i
      BY <1>1, <1>2, <2>2
    <3>2. \A k : Ready(k)' <=> Ready(k)
      BY <1>1, <2>2 DEF Ready
    <3>3. ct' = i' => \A k \in 0 .. i' - 1 : ~Ready(def_array[k])'
      BY <1>1, <2>12, <3>1, <3>2
    <3>4. /\ {def_array'[k] : k \in 0 .. i' - 1} = Tried(i + 1)
          /\ {def_array'[k] : k \in i' .. def_ct' - 1} = ToTry(i + 1)
          /\ {def_array'[k] : k \in 0 .. def_ct' - 1} = Tried(def_ct)
      BY <1>1
    <3> HIDE DEF o, Again, Tried, ToTry
    <3>5. Lists(def_array', def_ct', Tried(def_ct))
      BY <1>1, <1>2
    <3> QED BY <1>1, <1>2, <2>2, <2>7, <2>9, <2>10, <3>1, <3>3, <3>4, <3>5 DEF RetryKept
  <2> QED BY <1>1, <2>2, <2>4, <2>13 DEF FirstKept, RoundKept, ResultRight
<1> QED BY <1>7, <1>8

LEMMA InvFail == ASSUME IInv, Fail PROVE IInv'
<1> USE DEF IInv
<1>1. /\ pc' = "returned" /\ rv' = "FAILED" /\ refused' = TRUE
      /\ UNCHANGED <<waits, max_defer, i, def_array, next_arr, space, def_ct, ct, tries,
                     inited, deferred>>
  BY DEF Fail, fixed, counters, arrays
<1>2. Types'
  BY <1>1 DEF Types
<1>3. ResultRight'
  BY <1>1 DEF ResultRight
<1> QED BY <1>1, <1>2, <1>3 DEF FirstKept, RoundKept, RetryKept

\* When all were deferred again, each waits for another that is left.
LEMMA InvRoundEnds == ASSUME IInv, RoundEnds PROVE IInv'
<1> USE DEF IInv
<1>1. /\ pc = "retry" /\ i = def_ct /\ pc' = "returned"
      /\ rv' = IF AllDeferred THEN "FAILED" ELSE "SUCCESS"
      /\ AllDeferred \/ NoneDeferred
      /\ UNCHANGED <<waits, max_defer, i, def_array, next_arr, space, def_ct, ct, tries,
                     inited, deferred, refused>>
  BY DEF RoundEnds, fixed, counters, arrays
<1>2. Types'
  BY <1>1 DEF Types
<1> DEFINE Tried == {def_array[k] : k \in 0 .. def_ct - 1}
           Again == {next_arr[k] : k \in 0 .. ct - 1}
<1>3. /\ deferred = Object \ inited /\ 0 < def_ct /\ def_ct \in Nat /\ inited \subseteq Object
      /\ deferred = {def_array[k] : k \in def_ct .. def_ct - 1} \cup Again
      /\ Again \subseteq Tried
      /\ ct = def_ct => \A k \in 0 .. def_ct - 1 : ~Ready(def_array[k])
  BY <1>1 DEF RetryKept, Types
<1>4. def_ct .. def_ct - 1 = {}
  BY <1>3
<1>5. deferred = Again
  BY <1>3, <1>4
<1>6. CASE AllDeferred
  <2>1. \A o \in Object \ inited : ~Ready(o)
    BY <1>3, <1>5, <1>6 DEF AllDeferred
  <2>2. waits \in [1 .. N -> SUBSET (1 .. N)]
    BY DeferredInitAssumption DEF Types
  <2>3. \A o \in Object \ inited : waits[o] \cap (Object \ inited) # {}
    BY <2>1, <2>2 DEF Ready, Object
  <2>4. Object \ inited # {}
    <3>1. next_arr[0] \in Again
      BY <1>3, <1>6 DEF AllDeferred
    <3> QED BY <1>3, <1>5, <3>1
  <2>5. ResultRight'
    BY <1>1, <1>6, <2>3, <2>4 DEF ResultRight, Stuck
  <2> QED BY <1>1, <1>2, <2>5 DEF FirstKept, RoundKept, RetryKept
<1>7. CASE ~AllDeferred
  <2>1. ct = 0
    BY <1>1, <1>7 DEF NoneDeferred
  <2>2. deferred = {}
    BY <1>5, <2>1
  <2>3. inited = Object
    BY <1>3, <2>2
  <2>4. ResultRight'
    BY <1>1, <1>7, <2>2, <2>3 DEF ResultRight
  <2> QED BY <1>1, <1>2, <2>4 DEF FirstKept, RoundKept, RetryKept
<1> QED BY <1>6, <1>7

LEMMA InvSwap == ASSUME IInv, Swap PROVE IInv'
<1> USE DEF IInv
<1>1. /\ pc = "retry" /\ i = def_ct /\ pc' = "round"
      /\ def_array' = next_arr /\ next_arr' = def_array
      /\ space' = [def |-> space.next, next |-> space.def]
      /\ def_ct' = ct /\ tries' = tries + 1
      /\ UNCHANGED <<waits, max_defer, i, ct, inited, deferred, rv, refused>>
  BY DEF Swap, fixed
<1>2. /\ tries = 0 /\ max_defer = 1 /\ deferred = Object \ inited /\ def_ct \in Nat
      /\ deferred = {def_array[k] : k \in def_ct .. def_ct - 1}
                      \cup {next_arr[k] : k \in 0 .. ct - 1}
      /\ Lists(next_arr, ct, {next_arr[k] : k \in 0 .. ct - 1})
  BY <1>1 DEF RetryKept, Types
<1>3. Types'
  BY <1>1, <1>2 DEF Types
<1>4. def_ct .. def_ct - 1 = {}
  BY <1>2
<1>5. Lists(next_arr, ct, deferred)
  BY <1>2, <1>4
<1>6. RoundKept'
  BY <1>1, <1>2, <1>5 DEF RoundKept
<1> QED BY <1>1, <1>3, <1>6 DEF FirstKept, RetryKept, ResultRight

LEMMA InvStep == IInv /\ [Next]_vars => IInv'
<1> SUFFICES ASSUME IInv, [Next]_vars PROVE IInv'
  OBVIOUS
<1>1. CASE Next
  <2>1. CASE Over
    BY <2>1 DEF Over, vars, IInv, Types, FirstKept, RoundKept, RetryKept, ResultRight, Ready, Stuck
  <2> QED BY <1>1, <2>1, InvFirstInit, InvFirstDefer, InvFirstEnd, InvRound, InvExhausted,
             InvRetry, InvFail, InvRoundEnds, InvSwap DEF Next
<1>2. CASE UNCHANGED vars
  BY <1>2 DEF vars, IInv, Types, FirstKept, RoundKept, RetryKept, ResultRight, Ready, Stuck
<1> QED BY <1>1, <1>2

---------------------------------------------------------------------------
(* The theorems *)

\* The invariant of a single round of retries.
THEOREM DeferralCorrect == ASSUME OneRetry PROVE Spec => []IInv
<1>1. Init => IInv
  BY InvInit
<1>2. IInv /\ [Next]_vars => IInv'
  BY InvStep
<1> QED BY <1>1, <1>2, PTL DEF Spec

\* However many objects there are and whatever they wait for, initialisation
\* does not crash, it succeeds only when all are initialised, and fails only
\* for a reason: a failure, objects that wait for each other, or the limit.
THEOREM ResultsRight == ASSUME OneRetry PROVE Spec => []ResultRight
<1>1. IInv => ResultRight
  BY DEF IInv
<1> QED BY <1>1, DeferralCorrect, PTL

\* No object is tried more often than is allowed, and what is left to try is
\* what carries the flag of a deferred object.
THEOREM DeferralsKept == ASSUME OneRetry PROVE Spec => []DeferralKept
<1>1. IInv => DeferralKept
  <2> SUFFICES ASSUME IInv PROVE DeferralKept
    OBVIOUS
  <2>1. tries <= max_defer
    BY DEF IInv, Types, FirstKept
  <2> QED BY <2>1 DEF IInv, RoundKept, Lists, DeferralKept
<1> QED BY <1>1, DeferralCorrect, PTL
=============================================================================

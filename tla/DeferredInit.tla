----------------------------- MODULE DeferredInit -----------------------------
(***************************************************************************)
(* Deferred initialisation (core/exec.c, init_by_deferral and              *)
(* init_by_deferral_retry), the default way in which exec_start            *)
(* initialises the objects.  An object whose init asks to be deferred is   *)
(* put in an array and tried again, in rounds that swap two arrays: one    *)
(* for all objects, and one for the objects that were deferred at first.   *)
(*                                                                         *)
(* An object is deferred as long as one it waits for is not initialised,   *)
(* which is what the classes of the modules use deferral for.              *)
(***************************************************************************)
EXTENDS Naturals

CONSTANTS N,          \* the number of objects; they are created in order 1 .. N
          Waitings,   \* for each object those it waits for, one of these
          MaxDefers,  \* global_init_max_defer, one of these
          Failing     \* whether an object's init may fail

ASSUME DeferredInitAssumption ==
    /\ N \in Nat /\ Waitings \subseteq [1 .. N -> SUBSET (1 .. N)]
    /\ MaxDefers \subseteq Nat /\ Failing \in BOOLEAN

Object == 1 .. N
NULL   == 0

VARIABLES
    waits,      \* the objects each object waits for
    max_defer,  \* global_init_max_defer
    pc,         \* where the code stands
    i,          \* the object, or the index in def_array, that is next
    def_array,  \* the objects to try, at 0 .. def_ct - 1
    next_arr,   \* the objects deferred, at 0 .. ct - 1
    space,      \* the lengths of the arrays
    def_ct, ct, tries,
    inited,     \* objects with OF_INIT
    deferred,   \* objects with OF_DEFERRED
    rv,         \* the result
    refused     \* history: some init failed

vars == <<waits, max_defer, pc, i, def_array, next_arr, space, def_ct, ct, tries,
          inited, deferred, rv, refused>>

counters == <<def_ct, ct, tries>>
arrays   == <<def_array, next_arr, space>>
fixed    == <<waits, max_defer>>

Index == 0 .. 2 * N

Init ==
    /\ waits \in Waitings /\ max_defer \in MaxDefers
    /\ pc = "first" /\ i = 1
    /\ def_array = [k \in Index |-> NULL] /\ next_arr = [k \in Index |-> NULL]
    /\ space = [def |-> N, next |-> 0]
    /\ def_ct = 0 /\ ct = 0 /\ tries = 0
    /\ inited = {} /\ deferred = {} /\ rv = "SUCCESS" /\ refused = FALSE

\* what object_init answers: 1, or 2 to be deferred
Ready(o) == waits[o] \subseteq inited

---------------------------------------------------------------------------
(* init_by_deferral: every object is tried once, in the order of creation. *)

FirstInit ==
    /\ pc = "first" /\ i <= N /\ Ready(i)
    /\ inited' = inited \cup {i}
    /\ i' = i + 1
    /\ UNCHANGED <<fixed, pc, arrays, counters, deferred, rv, refused>>

FirstDefer ==
    /\ pc = "first" /\ i <= N /\ ~Ready(i)
    /\ def_array' = [def_array EXCEPT ![def_ct] = i]
    /\ def_ct' = def_ct + 1
    /\ deferred' = deferred \cup {i}
    /\ i' = i + 1
    /\ UNCHANGED <<fixed, pc, next_arr, space, ct, tries, inited, rv, refused>>

\* When objects are left, an array for as many is allocated.
FirstEnd ==
    /\ pc = "first" /\ i > N
    /\ IF def_ct > 0 THEN pc' = "round" /\ space' = [space EXCEPT !.next = def_ct]
                     ELSE pc' = "returned" /\ UNCHANGED space
    /\ UNCHANGED <<fixed, i, def_array, next_arr, counters, inited, deferred, rv,
                   refused>>

---------------------------------------------------------------------------
(* init_by_deferral_retry: the objects of def_array are tried again.       *)

\* mutant: one round more
TriesOver == max_defer < tries

TriesSpent == max_defer <= tries

\* The array of the next round is cleared, its counter is not.
Round ==
    /\ pc = "round" /\ ~TriesSpent
    /\ next_arr' = [k \in Index |-> IF k < def_ct THEN NULL ELSE next_arr[k]]
    /\ i' = 0 /\ pc' = "retry"
    /\ UNCHANGED <<fixed, def_array, space, counters, inited, deferred, rv, refused>>

Exhausted ==
    /\ pc = "round" /\ TriesSpent
    /\ rv' = "FAILED" /\ pc' = "returned"
    /\ UNCHANGED <<fixed, i, arrays, counters, inited, deferred, refused>>

Trying == def_array[i]

\* An entry that was cleared and never set is dereferenced by object_init, and
\* an object may be put after the end of the array.
Retry ==
    /\ pc = "retry" /\ i < def_ct
    /\ i' = i + 1
    /\ CASE Trying = NULL ->
              /\ pc' = "crashed"
              /\ UNCHANGED <<next_arr, ct, inited, deferred>>
         [] Trying # NULL /\ Ready(Trying) ->
              /\ inited' = inited \cup {Trying} /\ deferred' = deferred \ {Trying}
              /\ UNCHANGED <<pc, next_arr, ct>>
         [] OTHER ->
              /\ IF ct < space.next
                 THEN next_arr' = [next_arr EXCEPT ![ct] = Trying] /\ pc' = pc
                 ELSE pc' = "crashed" /\ UNCHANGED next_arr
              /\ ct' = ct + 1
              /\ UNCHANGED <<inited, deferred>>
    /\ UNCHANGED <<fixed, def_array, space, def_ct, tries, rv, refused>>

Fail ==
    /\ Failing
    /\ \/ pc = "first" /\ i <= N
       \/ pc = "retry" /\ i < def_ct /\ Trying # NULL
    /\ rv' = "FAILED" /\ refused' = TRUE /\ pc' = "returned"
    /\ UNCHANGED <<fixed, i, arrays, counters, inited, deferred>>

\* mutant: a round that makes progress is taken for the last
SomeDeferred == ct < def_ct

NoneDeferred == ct = 0

AllDeferred == ct = def_ct

RoundEnds ==
    /\ pc = "retry" /\ i = def_ct /\ (AllDeferred \/ NoneDeferred)
    /\ rv' = IF AllDeferred THEN "FAILED" ELSE "SUCCESS"
    /\ pc' = "returned"
    /\ UNCHANGED <<fixed, i, arrays, counters, inited, deferred, refused>>

\* the arrays are swapped for another round
Swap ==
    /\ pc = "retry" /\ i = def_ct /\ ~AllDeferred /\ ~NoneDeferred
    /\ def_array' = next_arr /\ next_arr' = def_array
    /\ space' = [def |-> space.next, next |-> space.def]
    /\ def_ct' = ct /\ tries' = tries + 1
    /\ pc' = "round"
    /\ UNCHANGED <<fixed, i, ct, inited, deferred, rv, refused>>

Over == pc \in {"returned", "crashed"} /\ UNCHANGED vars

Next == \/ FirstInit \/ FirstDefer \/ FirstEnd \/ Round \/ Exhausted \/ Retry
        \/ Fail \/ RoundEnds \/ Swap \/ Over

Spec == Init /\ [][Next]_vars

---------------------------------------------------------------------------
(* Properties *)

\* The objects of S wait for each other: none of them can ever be initialised.
Stuck(S) == S # {} /\ \A o \in S : waits[o] \cap S # {}

\* Initialisation fails only when an object refused, when the objects left wait
\* for each other, or when they were deferred as often as global_init_max_defer
\* allows; it succeeds only when every object is initialised and no object keeps
\* the flag of a deferred one; and it ends without a crash.
ResultRight ==
    /\ pc # "crashed"
    /\ pc = "returned" =>
          IF rv = "SUCCESS" THEN inited = Object /\ deferred = {}
          ELSE refused \/ Stuck(Object \ inited) \/ tries >= max_defer

\* No object is tried more often than global_init_max_defer allows, and those
\* that are left to try are exactly those that carry the flag.
DeferralKept ==
    /\ tries <= max_defer
    /\ pc = "round" => /\ deferred = Object \ inited
                       /\ {def_array[k] : k \in 0 .. def_ct - 1} = deferred
=============================================================================

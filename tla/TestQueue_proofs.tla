-------------------------- MODULE TestQueue_proofs --------------------------
(***************************************************************************)
(* However many threads and files there are, each file is run once, and no *)
(* error is counted that did not happen.                                   *)
(***************************************************************************)
EXTENDS TestQueue, FiniteSetTheorems, TLAPS

(* What the steps of the stack need of the types. *)
QueueTypes ==
  /\ kind \in Kinds /\ crew \subseteq Nat /\ crew # {}
  /\ stack \subseteq File /\ dirlock \in 0 .. Modulus - 1
  /\ pc \in [crew -> Step] /\ item \in [crew -> File \cup {None}]
  /\ times \in [File -> Nat]
  /\ exit \in {"none", "success", "failure", "exception"}

Inside(w) == pc[w] \in {"read", "next"}
Owns(w) == pc[w] \in {"run", "add", "load", "store", "unlock", "copyLock", "copyCounts",
                      "assignLock", "assignCounts"}
Leaving(w) == pc[w] \in {"tell", "loadPassed", "storePassed", "unlockPassed", "done"}

(* One thread at a time is at the stack, and the lock says whether. *)
LockKept ==
  /\ \A w, v \in crew : Inside(w) /\ Inside(v) => w = v
  /\ Taken(dirlock) <=> \E w \in crew : Inside(w)
  /\ \A w \in crew : pc[w] = "next" => item[w] = Top(stack)

(* A file is on the stack, or about to be run by the one thread that owns  *)
(* it, or has been run; threads leave when the stack is empty.             *)
FilesKept ==
  /\ \A f \in stack : times[f] = 0
  /\ \A w \in crew : Owns(w) => item[w] \in File \ stack
  /\ \A w \in crew : pc[w] = "run" => times[item[w]] = 0
  /\ \A w, v \in crew : Owns(w) /\ Owns(v) /\ item[w] = item[v] => w = v
  /\ \A f \in File \ stack : times[f] = 1 \/ \E w \in crew : pc[w] = "run" /\ item[w] = f
  /\ \A f \in File : times[f] <= 1
  /\ \A w \in crew : Leaving(w) => stack = {}
  /\ exit \in {"success", "failure"} => \A w \in crew : pc[w] = "done"

QueueInv == QueueTypes /\ LockKept /\ FilesKept

---------------------------------------------------------------------------
(* The helpers *)

\* Taking and releasing turn the low bit, also where the value wraps.
LEMMA BumpFacts ==
  ASSUME NEW v \in 0 .. Modulus - 1
  PROVE  Bump(v) \in 0 .. Modulus - 1 /\ (Taken(Bump(v)) <=> ~Taken(v))
<1>1. Modulus \in Nat \ {0} /\ Modulus % 2 = 0
  BY QueueAssumption
<1>2. CASE v + 1 < Modulus
  <2>1. Bump(v) = v + 1
    BY <1>1, <1>2, Z3 DEF Bump
  <2> QED BY <1>1, <1>2, <2>1, Z3 DEF Taken
<1>3. CASE v + 1 = Modulus
  <2>1. Bump(v) = 0
    BY <1>1, <1>3, Z3 DEF Bump
  <2> QED BY <1>1, <1>3, <2>1, Z3 DEF Taken
<1> QED BY <1>1, <1>2, <1>3

\* The top of a stack that is not empty is one of its files.
LEMMA TopFacts ==
  ASSUME NEW S \in SUBSET File
  PROVE  /\ S = {} => Top(S) = None /\ Rest(S) = {}
         /\ S # {} => Top(S) \in S
         /\ Top(S) \in File \cup {None} /\ None \notin File
         /\ Rest(S) \subseteq S
<1>1. None \notin File
  BY QueueAssumption DEF None, File
<1>2. S # {} => Top(S) \in S
  BY DEF Top
<1> QED BY <1>1, <1>2 DEF Top, Rest

---------------------------------------------------------------------------
(* Every step preserves the invariant *)

LEMMA QueueInit == Init => QueueInv
<1> SUFFICES ASSUME Init PROVE QueueInv
  OBVIOUS
<1>1. Cardinality(File) \in Nat \ {0}
  BY QueueAssumption, FS_CardinalityType, FS_EmptySet DEF File
<1>2. crew \subseteq Nat /\ crew # {} /\ kind \in Kinds
  <2>1. PICK n \in ThreadCounts :
          crew = 1 .. IF kind = "job" /\ n > Cardinality(File) THEN Cardinality(File)
                      ELSE IF kind = "validate" /\ n > Tested THEN Tested ELSE n
    BY DEF Init
  <2>2. n \in Nat \ {0} /\ Tested \in Nat \ {0}
    BY QueueAssumption
  <2>3. PICK k \in Nat \ {0} : crew = 1 .. k
    BY <1>1, <2>1, <2>2
  <2>4. crew \subseteq Nat /\ 1 \in crew
    BY <2>3
  <2> QED BY <2>4 DEF Init
<1>3. 0 \in 0 .. Modulus - 1 /\ ~Taken(0)
  BY QueueAssumption DEF Taken
<1> QED BY <1>2, <1>3 DEF Init, QueueInv, QueueTypes, LockKept, FilesKept, Inside, Owns, Leaving, Step

LEMMA QueueLock ==
  ASSUME QueueInv, NEW w \in crew, LockQueue(w)
  PROVE  QueueInv'
<1> USE DEF LockQueue, local
<1>1. Bump(dirlock) \in 0 .. Modulus - 1 /\ Taken(Bump(dirlock))
  BY BumpFacts DEF QueueInv, QueueTypes
<1>2. \A v \in crew : pc'[v] = IF v = w THEN "read" ELSE pc[v]
  BY DEF QueueInv, QueueTypes
<1>3. QueueTypes'
  BY <1>1 DEF QueueInv, QueueTypes, Step
<1>4. LockKept'
  BY <1>1, <1>2 DEF QueueInv, LockKept, Inside
<1>5. FilesKept'
  BY <1>2 DEF QueueInv, QueueTypes, FilesKept, Owns, Leaving
<1> QED BY <1>3, <1>4, <1>5 DEF QueueInv

LEMMA QueueRead ==
  ASSUME QueueInv, NEW w \in crew, ReadTop(w)
  PROVE  QueueInv'
<1> USE DEF ReadTop, queue
<1>1. \A v \in crew : /\ pc'[v] = IF v = w THEN "next" ELSE pc[v]
                      /\ item'[v] = IF v = w THEN Top(stack) ELSE item[v]
  BY DEF QueueInv, QueueTypes
<1>2. Top(stack) \in File \cup {None}
  BY TopFacts DEF QueueInv, QueueTypes
<1>3. QueueTypes'
  BY <1>2 DEF QueueInv, QueueTypes, Step
<1>4. LockKept'
  BY <1>1 DEF QueueInv, LockKept, Inside
<1>5. FilesKept'
  BY <1>1 DEF QueueInv, QueueTypes, FilesKept, Owns, Leaving
<1> QED BY <1>3, <1>4, <1>5 DEF QueueInv

LEMMA QueueTake ==
  ASSUME QueueInv, NEW w \in crew, TakeTop(w)
  PROVE  QueueInv'
<1> USE DEF TakeTop, local
<1> DEFINE goes == IF item[w] # None THEN "run"
                   ELSE IF kind = "validate" /\ passed[w] THEN "tell" ELSE "done"
<1>1. \A v \in crew : pc'[v] = IF v = w THEN goes ELSE pc[v]
  BY DEF QueueInv, QueueTypes
<1>2. /\ Inside(w) /\ item[w] = Top(stack) /\ Taken(dirlock)
      /\ \A v \in crew : Inside(v) => v = w
  BY DEF QueueInv, LockKept, Inside
<1>3. Bump(dirlock) \in 0 .. Modulus - 1 /\ ~Taken(Bump(dirlock))
  BY <1>2, BumpFacts DEF QueueInv, QueueTypes
<1>4. /\ stack = {} => item[w] = None /\ Rest(stack) = {}
      /\ stack # {} => item[w] \in stack
      /\ None \notin File /\ Rest(stack) \subseteq stack /\ stack \subseteq File
  BY <1>2, TopFacts DEF QueueInv, QueueTypes
<1>5. QueueTypes'
  BY <1>3, <1>4 DEF QueueInv, QueueTypes, Step
<1>6. goes \in {"run", "tell", "done"}
  OBVIOUS
<1>7. LockKept'
  <2>1. \A v \in crew : ~Inside(v)'
    BY <1>1, <1>2, <1>6 DEF Inside
  <2> QED BY <1>3, <2>1 DEF LockKept, Inside
<1>8. FilesKept'
  <2> USE DEF QueueInv, QueueTypes
  <2>1. CASE stack = {}
    <3>1. goes \in {"tell", "done"} /\ stack' = {}
      BY <1>4, <2>1
    <3> HIDE DEF goes
    <3> QED BY <1>1, <2>1, <3>1 DEF FilesKept, Owns, Leaving
  <2>2. CASE stack # {}
    <3>1. goes = "run" /\ item[w] \in stack /\ stack' = stack \ {item[w]}
      BY <1>2, <1>4, <2>2 DEF Rest
    <3> HIDE DEF goes
    <3>2. /\ \A f \in stack' : times'[f] = 0
          /\ \A v \in crew : Owns(v)' => item'[v] \in File \ stack'
          /\ \A v \in crew : pc'[v] = "run" => times'[item'[v]] = 0
          /\ \A f \in File : times'[f] <= 1
      BY <1>1, <1>4, <3>1 DEF FilesKept, Owns
    <3>3. \A u, v \in crew : Owns(u)' /\ Owns(v)' /\ item'[u] = item'[v] => u = v
      BY <1>1, <3>1 DEF FilesKept, Owns
    <3>4. \A f \in File \ stack' : times'[f] = 1 \/ \E v \in crew : pc'[v] = "run" /\ item'[v] = f
      <4> TAKE f \in File \ stack'
      <4>1. CASE f = item[w]
        BY <1>1, <3>1, <4>1
      <4>2. CASE f # item[w]
        BY <1>1, <3>1, <4>2 DEF FilesKept
      <4> QED BY <4>1, <4>2
    <3>5. \A v \in crew : ~Leaving(v)'
      BY <1>1, <2>2, <3>1 DEF FilesKept, Leaving
    <3>6. exit' \notin {"success", "failure"}
      OBVIOUS
    <3> QED BY <3>2, <3>3, <3>4, <3>5, <3>6 DEF FilesKept
  <2> QED BY <2>1, <2>2
<1> QED BY <1>5, <1>7, <1>8 DEF QueueInv

\* A test and a job do the same to the stack.
LEMMA QueueRun ==
  ASSUME QueueInv, NEW w \in crew, pc[w] = "run", exit = "none",
         UNCHANGED <<kind, crew, queue, item, exit>>,
         times' = [times EXCEPT ![item[w]] = @ + 1],
         NEW goes \in {"add", "take"}, pc' = [pc EXCEPT ![w] = goes]
  PROVE  QueueInv'
<1> USE DEF queue
<1>1. \A v \in crew : pc'[v] = IF v = w THEN goes ELSE pc[v]
  BY DEF QueueInv, QueueTypes
<1>2. item[w] \in File /\ item[w] \notin stack /\ times[item[w]] = 0
  BY DEF QueueInv, FilesKept, Owns
<1>3. \A f \in File : times'[f] = IF f = item[w] THEN 1 ELSE times[f]
  BY <1>2 DEF QueueInv, QueueTypes
<1>4. QueueTypes'
  BY <1>2 DEF QueueInv, QueueTypes, Step
<1>5. LockKept'
  BY <1>1 DEF QueueInv, LockKept, Inside
<1>6. FilesKept'
  <2>1. \A v \in crew : Owns(v)' => Owns(v)
    BY <1>1 DEF Owns
  <2>2. \A v \in crew : pc'[v] = "run" => pc[v] = "run" /\ item[v] # item[w]
    BY <1>1 DEF QueueInv, FilesKept, Owns
  <2>3. /\ \A f \in stack' : times'[f] = 0
        /\ \A f \in File : times'[f] <= 1
    BY <1>2, <1>3 DEF QueueInv, QueueTypes, FilesKept
  <2>4. /\ \A v \in crew : Owns(v)' => item'[v] \in File \ stack'
        /\ \A u, v \in crew : Owns(u)' /\ Owns(v)' /\ item'[u] = item'[v] => u = v
    BY <2>1 DEF QueueInv, FilesKept
  <2>5. \A v \in crew : pc'[v] = "run" => times'[item'[v]] = 0
    BY <1>3, <2>2, <2>4 DEF QueueInv, FilesKept, Owns
  <2>6. \A f \in File \ stack' : times'[f] = 1 \/ \E v \in crew : pc'[v] = "run" /\ item'[v] = f
    <3> TAKE f \in File \ stack'
    <3>1. CASE f = item[w]
      BY <1>3, <3>1
    <3>2. CASE f # item[w]
      <4>1. CASE times[f] = 1
        BY <1>3, <3>2, <4>1
      <4>2. CASE \E v \in crew : pc[v] = "run" /\ item[v] = f
        BY <1>1, <3>2, <4>2
      <4> QED BY <4>1, <4>2 DEF QueueInv, FilesKept
    <3> QED BY <3>1, <3>2
  <2>7. \A v \in crew : Leaving(v)' => stack' = {}
    BY <1>1 DEF QueueInv, FilesKept, Leaving
  <2> QED BY <2>3, <2>4, <2>5, <2>6, <2>7 DEF FilesKept
<1> QED BY <1>4, <1>5, <1>6 DEF QueueInv

(* Neither at the stack nor about to be. *)
Apart == Step \ {"read", "next", "run"}

\* The other steps of a thread leave the stack, its lock and the files alone.
LEMMA QueueApart ==
  ASSUME QueueInv, NEW w \in crew, exit = "none",
         UNCHANGED <<kind, crew, queue, exit, times>>,
         NEW goes \in Apart, pc' = [pc EXCEPT ![w] = goes], pc[w] \in Apart,
         \/ item' = item /\ (goes \in {"load", "store", "unlock", "copyLock", "copyCounts",
                                       "assignLock", "assignCounts"} => Owns(w))
            /\ (goes \in {"loadPassed", "storePassed", "unlockPassed", "done"} => Leaving(w))
            /\ goes \notin {"add", "tell"}
         \/ item' = [item EXCEPT ![w] = None] /\ goes = "take"
  PROVE  QueueInv'
<1> USE DEF queue
<1>1. \A v \in crew : pc'[v] = IF v = w THEN goes ELSE pc[v]
  BY DEF QueueInv, QueueTypes
<1>2. \A v \in crew : v # w => item'[v] = item[v]
  BY DEF QueueInv, QueueTypes
<1>3. QueueTypes'
  BY DEF QueueInv, QueueTypes, Apart
<1>4. LockKept'
  BY <1>1, <1>2 DEF QueueInv, LockKept, Inside, Apart
<1>5. FilesKept'
  <2>1. \A v \in crew : Owns(v)' => Owns(v) /\ item'[v] = item[v]
    BY <1>1, <1>2 DEF Owns, Apart, Step
  <2>2. \A v \in crew : pc'[v] = "run" <=> pc[v] = "run"
    BY <1>1 DEF Apart
  <2>3. \A v \in crew : Leaving(v)' => Leaving(v)
    BY <1>1 DEF Leaving, Apart, Step, Owns
  <2>4. \A v \in crew : pc[v] = "run" => item'[v] = item[v]
    BY <1>2 DEF Apart
  <2> QED BY <2>1, <2>2, <2>3, <2>4 DEF QueueInv, FilesKept
<1> QED BY <1>3, <1>4, <1>5 DEF QueueInv

LEMMA QueueStep == QueueInv /\ [Next]_vars => QueueInv'
<1> SUFFICES ASSUME QueueInv, [Next]_vars PROVE QueueInv'
  OBVIOUS
<1>1. CASE Return \/ ReportTimeOut
  BY <1>1 DEF Return, ReportTimeOut, Joined, QueueInv, QueueTypes, LockKept, FilesKept, Inside, Owns, Leaving, queue, local
<1>2. ASSUME NEW w \in crew, TimeOut(w) PROVE QueueInv'
  BY <1>2 DEF TimeOut, QueueInv, QueueTypes, LockKept, FilesKept, Inside, Owns, Leaving, queue, local
<1>3. ASSUME NEW w \in crew, LockQueue(w) PROVE QueueInv'
  BY <1>3, QueueLock
<1>4. ASSUME NEW w \in crew, ReadTop(w) PROVE QueueInv'
  BY <1>4, QueueRead
<1>5. ASSUME NEW w \in crew, TakeTop(w) PROVE QueueInv'
  BY <1>5, QueueTake
<1>6. ASSUME NEW w \in crew, RunTest(w) \/ RunJob(w) PROVE QueueInv'
  BY <1>6, QueueRun DEF RunTest, RunJob, local
<1>7. ASSUME NEW w \in crew, LockFinal(w) PROVE QueueInv'
  <2>1. \E goes \in {"load", "loadPassed"} :
          /\ pc' = [pc EXCEPT ![w] = goes]
          /\ goes = "load" => pc[w] = "add"
          /\ goes = "loadPassed" => pc[w] = "tell"
    BY <1>7 DEF LockFinal
  <2> QED BY <1>7, <2>1, QueueApart DEF LockFinal, Apart, Step, Owns, Leaving, local
<1>8. ASSUME NEW w \in crew, LoadCounts(w) PROVE QueueInv'
  <2>1. \E goes \in {"store", "storePassed"} :
          /\ pc' = [pc EXCEPT ![w] = goes]
          /\ goes = "store" => pc[w] = "load"
          /\ goes = "storePassed" => pc[w] = "loadPassed"
    BY <1>8 DEF LoadCounts
  <2> QED BY <1>8, <2>1, QueueApart DEF LoadCounts, Apart, Step, Owns, Leaving
<1>9. ASSUME NEW w \in crew, StoreCounts(w) PROVE QueueInv'
  <2>1. \E goes \in {"unlock", "unlockPassed"} :
          /\ pc' = [pc EXCEPT ![w] = goes]
          /\ goes = "unlock" => pc[w] = "store"
          /\ goes = "unlockPassed" => pc[w] = "storePassed"
    BY <1>9 DEF StoreCounts
  <2> QED BY <1>9, <2>1, QueueApart DEF StoreCounts, Apart, Step, Owns, Leaving, local
<1>10. ASSUME NEW w \in crew, UnlockFinal(w) PROVE QueueInv'
  <2>1. \E goes \in {"copyLock", "done"} :
          /\ pc' = [pc EXCEPT ![w] = goes]
          /\ goes = "copyLock" => pc[w] = "unlock"
          /\ goes = "done" => pc[w] = "unlockPassed"
    BY <1>10 DEF UnlockFinal
  <2> QED BY <1>10, <2>1, QueueApart DEF UnlockFinal, Apart, Step, Owns, Leaving, local
<1>11. ASSUME NEW w \in crew, CopyLock(w) PROVE QueueInv'
  BY <1>11, QueueApart DEF CopyLock, Apart, Step, Owns, Leaving
<1>12. ASSUME NEW w \in crew, CopyCounts(w) PROVE QueueInv'
  BY <1>12, QueueApart DEF CopyCounts, Apart, Step, Owns, Leaving
<1>13. ASSUME NEW w \in crew, AssignLock(w) PROVE QueueInv'
  BY <1>13, QueueApart DEF AssignLock, Apart, Step, Owns, Leaving, local
<1>14. ASSUME NEW w \in crew, AssignCounts(w) PROVE QueueInv'
  BY <1>14, QueueApart DEF AssignCounts, Forget, Apart, Step
<1>15. CASE UNCHANGED vars
  BY <1>15 DEF vars, QueueInv, QueueTypes, LockKept, FilesKept, Inside, Owns, Leaving, queue, local
<1> QED BY <1>1, <1>2, <1>3, <1>4, <1>5, <1>6, <1>7, <1>8, <1>9, <1>10, <1>11, <1>12, <1>13,
           <1>14, <1>15 DEF Next, ThreadStep

\* Every reachable state has the invariant of the stack.
THEOREM QueueCorrect == Spec => []QueueInv
BY QueueInit, QueueStep, PTL DEF Spec

\* popdir and popjob hand out each file once, for every number of threads
\* and files, and when the program ends by itself every file has been run.
THEOREM RunOnce == Spec => []EachRunOnce
<1>1. QueueInv => EachRunOnce
  <2> SUFFICES ASSUME QueueInv PROVE EachRunOnce
    OBVIOUS
  <2>1. ASSUME exit \in {"success", "failure"}, NEW f \in File PROVE times[f] = 1
    <3>1. PICK w \in crew : Leaving(w) /\ \A v \in crew : pc[v] = "done"
      BY <2>1 DEF QueueInv, QueueTypes, FilesKept, Leaving
    <3> QED BY <3>1 DEF QueueInv, FilesKept
  <2> QED BY <2>1 DEF QueueInv, FilesKept, EachRunOnce
<1> QED BY <1>1, QueueCorrect, PTL

---------------------------------------------------------------------------
(* The counters *)

(* The rest of the types. *)
CountTypes ==
  /\ passed \in [crew -> BOOLEAN] /\ result \in [crew -> Counts]
  /\ copy \in [crew -> [lock : 0 .. Modulus - 1, counts : Counts]]
  /\ lock \in 0 .. Modulus - 1 /\ counts \in Counts /\ flag \in BOOLEAN
  /\ ended \in [File -> Outcomes \cup {"not", "skipped", "success", "error"}]

(* A thread that is going to add an error, and the failures that have been *)
(* added at some time, whether or not they have been overwritten since.    *)
Adding(w) == pc[w] \in {"add", "load"} /\ result[w].errors # 0
Counted == {f \in Failed : \A w \in crew : Adding(w) => item[w] # f}

(* What final holds, and every copy of it, was once added up of different  *)
(* failures.                                                               *)
CountsKept ==
  /\ \A f \in File : times[f] = 0 => ended[f] = "not"
  /\ \A w \in crew : Adding(w) => item[w] \in Failed /\ result[w].errors = 1
  /\ counts.access = 0 /\ counts.errors <= Cardinality(Counted)
  /\ \A w \in crew : /\ copy[w].counts.access = 0
                     /\ copy[w].counts.errors <= Cardinality(Counted)
  /\ exit = "failure" => counts.errors > 0

CountInv == CountTypes /\ (kind = "validate" => CountsKept)

\* A test adds at most one error, and only when its end was unexpected.
LEMMA VerdictFacts ==
  ASSUME NEW marks, NEW o \in Outcomes
  PROVE  /\ Verdict(marks, o) \in Counts
         /\ Verdict(marks, o).errors \in {0, 1}
         /\ Verdict(marks, o).errors = 1 =>
              /\ ~Skipped(marks) /\ o \notin {"sigint", "denied"} /\ "opt" \notin marks
              /\ o # "success"
              /\ ~("err" \in marks /\ o \in {"error", "exception"})
              /\ ~("exc" \in marks /\ o \in {"exception", "signal"})
<1> DEFINE bad == IF \/ o \in {"success", "sigint"} \/ "opt" \in marks
                     \/ "exc" \in marks /\ o \in {"exception", "signal"}
                     \/ "err" \in marks /\ o \in {"error", "exception"}
                  THEN 0 ELSE 1
<1>1. CASE Skipped(marks)
  BY <1>1 DEF Verdict, Zero, Counts
<1>2. CASE ~Skipped(marks) /\ o = "denied"
  BY <1>2 DEF Verdict, Zero, Counts
<1>3. CASE ~Skipped(marks) /\ o # "denied"
  <2>1. Verdict(marks, o) = [files |-> 1, errors |-> bad, access |-> 0, passed |-> 0]
    BY <1>3 DEF Verdict, Zero
  <2> QED BY <1>3, <2>1 DEF Counts
<1> QED BY <1>1, <1>2, <1>3

\* The failures counted are finitely many.
LEMMA CountedFinite ==
  ASSUME NEW S \in SUBSET File
  PROVE  IsFiniteSet(S) /\ Cardinality(S) \in Nat
BY QueueAssumption, FS_Subset, FS_CardinalityType DEF File

LEMMA CountInit == Init => CountInv
<1> SUFFICES ASSUME Init PROVE CountInv
  OBVIOUS
<1>1. Zero \in Counts /\ NoCopy \in [lock : 0 .. Modulus - 1, counts : Counts]
  BY QueueAssumption DEF Zero, Counts, NoCopy
<1>2. CountTypes
  BY <1>1, QueueAssumption DEF Init, CountTypes
<1>3. Cardinality(Counted) \in Nat
  BY CountedFinite DEF Counted, Failed
<1>4. CountsKept
  BY <1>3 DEF Init, CountsKept, Adding, Zero, NoCopy
<1> QED BY <1>2, <1>4 DEF CountInv

LEMMA CountTypeStep == QueueInv /\ CountTypes /\ [Next]_vars => CountTypes'
<1> SUFFICES ASSUME QueueInv, CountTypes, [Next]_vars PROVE CountTypes'
  OBVIOUS
<1> USE DEF CountTypes
<1>1. CASE Return \/ ReportTimeOut \/ UNCHANGED vars
  <2>1. Bump(Bump(lock)) \in 0 .. Modulus - 1
    BY BumpFacts
  <2> QED BY <1>1, <2>1 DEF Return, ReportTimeOut, vars, local
<1>2. ASSUME NEW w \in crew, TimeOut(w) \/ LockQueue(w) \/ ReadTop(w) \/ TakeTop(w)
      PROVE  CountTypes'
  BY <1>2 DEF TimeOut, LockQueue, ReadTop, TakeTop, local
<1>3. ASSUME NEW w \in crew, RunTest(w) PROVE CountTypes'
  <2>1. PICK o \in Outcomes :
          /\ result' = [result EXCEPT ![w] = Verdict(Names[item[w]], o)]
          /\ passed' = [passed EXCEPT ![w] =
               @ /\ Verdict(Names[item[w]], o).errors + Verdict(Names[item[w]], o).access = 0]
          /\ ended' = [ended EXCEPT ![item[w]] =
               IF Skipped(Names[item[w]]) THEN "skipped" ELSE o]
    BY <1>3 DEF RunTest
  <2>2. result' \in [crew -> Counts]
    BY <1>3, <2>1, VerdictFacts DEF RunTest
  <2>3. passed' \in [crew -> BOOLEAN]
    BY <1>3, <2>1, Zenon DEF RunTest
  <2>4. ended' \in [File -> Outcomes \cup {"not", "skipped", "success", "error"}]
    BY <1>3, <2>1 DEF RunTest
  <2> QED BY <1>3, <2>2, <2>3, <2>4 DEF RunTest
<1>4. ASSUME NEW w \in crew, RunJob(w) PROVE CountTypes'
  BY <1>4 DEF RunJob, local
<1>5. ASSUME NEW w \in crew, LockFinal(w) \/ UnlockFinal(w) PROVE CountTypes'
  BY <1>5, BumpFacts DEF LockFinal, UnlockFinal, local
<1>6. ASSUME NEW w \in crew, LoadCounts(w) PROVE CountTypes'
  <2> DEFINE sum == IF pc[w] = "load" THEN Plus(counts, result[w]) ELSE Incremented(counts)
  <2>1. sum \in Counts
    <3>1. counts \in Counts /\ result[w] \in Counts
      OBVIOUS
    <3>2. ASSUME NEW c \in Counts, NEW r \in Counts PROVE Plus(c, r) \in Counts
      BY DEF Plus, Counts
    <3>3. Incremented(counts) \in Counts
      BY <3>1 DEF Incremented, Counts
    <3> QED BY <3>1, <3>2, <3>3
  <2>2. copy' = [copy EXCEPT ![w] = [@ EXCEPT !.counts = sum]]
    BY <1>6 DEF LoadCounts
  <2> HIDE DEF sum
  <2>3. copy' \in [crew -> [lock : 0 .. Modulus - 1, counts : Counts]]
    BY <2>1, <2>2
  <2> QED BY <1>6, <2>3 DEF LoadCounts
<1>7. ASSUME NEW w \in crew, StoreCounts(w) \/ AssignLock(w) PROVE CountTypes'
  BY <1>7 DEF StoreCounts, AssignLock, local
<1>8. ASSUME NEW w \in crew, AssignCounts(w) PROVE CountTypes'
  <2>1. Zero \in Counts /\ NoCopy \in [lock : 0 .. Modulus - 1, counts : Counts]
    BY QueueAssumption DEF Zero, Counts, NoCopy
  <2> QED BY <1>8, <2>1 DEF AssignCounts, Forget
<1>9. ASSUME NEW w \in crew, CopyLock(w) PROVE CountTypes'
  <2>1. copy' = [copy EXCEPT ![w] = [@ EXCEPT !.lock = lock]]
    BY <1>9 DEF CopyLock
  <2>2. copy' \in [crew -> [lock : 0 .. Modulus - 1, counts : Counts]]
    BY <2>1
  <2> QED BY <1>9, <2>2 DEF CopyLock
<1>10. ASSUME NEW w \in crew, CopyCounts(w) PROVE CountTypes'
  <2>1. copy' = [copy EXCEPT ![w] = [@ EXCEPT !.counts = counts]]
    BY <1>10 DEF CopyCounts, Copied
  <2>2. copy' \in [crew -> [lock : 0 .. Modulus - 1, counts : Counts]]
    BY <2>1
  <2> QED BY <1>10, <2>2 DEF CopyCounts
<1> QED BY <1>1, <1>2, <1>3, <1>4, <1>5, <1>6, <1>7, <1>8, <1>9, <1>10 DEF Next, ThreadStep

\* More failures counted leave room for what is held already.
LEMMA CountedGrows ==
  ASSUME QueueInv, CountTypes, CountsKept,
         Counted \subseteq Counted'
  PROVE  Cardinality(Counted) \in Nat /\ Cardinality(Counted') \in Nat
         /\ Cardinality(Counted) <= Cardinality(Counted')
<1>1. Counted \in SUBSET File /\ Counted' \in SUBSET File
  BY DEF Counted, Failed
<1> QED BY <1>1, CountedFinite, FS_Subset

\* A step that adds nothing to the counts and ends no test.
LEMMA CountsQuiet ==
  ASSUME QueueInv, CountTypes, CountsKept,
         UNCHANGED <<crew, counts, times, ended>>,
         \A w \in crew : Adding(w)' => Adding(w) /\ item'[w] = item[w] /\ result'[w] = result[w],
         \A w \in crew : copy'[w].counts \in {copy[w].counts, counts, Zero},
         exit' = "failure" => exit = "failure" \/ counts.errors > 0
  PROVE  CountsKept'
<1>1. Failed' = Failed
  BY DEF Failed, Unexpected
<1>2. Counted \subseteq Counted'
  BY <1>1 DEF Counted
<1>3. /\ Cardinality(Counted) \in Nat /\ Cardinality(Counted') \in Nat
      /\ Cardinality(Counted) <= Cardinality(Counted')
  BY <1>2, CountedGrows
<1>4. counts \in Counts /\ \A w \in crew : copy[w].counts \in Counts
  BY DEF CountTypes
<1>5. \A w \in crew : /\ copy'[w].counts.access = 0
                      /\ copy'[w].counts.errors <= Cardinality(Counted')
  <2> TAKE w \in crew
  <2>1. CASE copy'[w].counts = copy[w].counts
    BY <1>3, <1>4, <2>1 DEF CountsKept, Counts
  <2>2. CASE copy'[w].counts = counts
    BY <1>3, <1>4, <2>2 DEF CountsKept, Counts
  <2>3. CASE copy'[w].counts = Zero
    BY <1>3, <2>3 DEF Zero
  <2> QED BY <2>1, <2>2, <2>3
<1>6. counts'.access = 0 /\ counts'.errors <= Cardinality(Counted')
  BY <1>3, <1>4 DEF CountsKept, Counts
<1>7. \A w \in crew' : Adding(w)' => item'[w] \in Failed' /\ result'[w].errors = 1
  BY <1>1 DEF CountsKept
<1> QED BY <1>5, <1>6, <1>7 DEF CountsKept

\* The held copy becomes what is counted.
LEMMA CountsStored ==
  ASSUME QueueInv, CountTypes, CountsKept, NEW w \in crew,
         UNCHANGED <<crew, times, ended, exit>>, exit = "none",
         \A v \in crew : Adding(v)' => Adding(v) /\ item'[v] = item[v] /\ result'[v] = result[v],
         \A v \in crew : copy'[v].counts \in {copy[v].counts, Zero},
         counts' = copy[w].counts
  PROVE  CountsKept'
<1>1. Failed' = Failed
  BY DEF Failed, Unexpected
<1>2. Counted \subseteq Counted'
  BY <1>1 DEF Counted
<1>3. /\ Cardinality(Counted) \in Nat /\ Cardinality(Counted') \in Nat
      /\ Cardinality(Counted) <= Cardinality(Counted')
  BY <1>2, CountedGrows
<1>4. \A v \in crew : copy[v].counts \in Counts
  BY DEF CountTypes
<1>5. \A v \in crew : /\ copy'[v].counts.access = 0
                      /\ copy'[v].counts.errors <= Cardinality(Counted')
  <2> TAKE v \in crew
  <2>1. CASE copy'[v].counts = copy[v].counts
    BY <1>3, <1>4, <2>1 DEF CountsKept, Counts
  <2>2. CASE copy'[v].counts = Zero
    BY <1>3, <2>2 DEF Zero
  <2> QED BY <2>1, <2>2
<1>6. counts'.access = 0 /\ counts'.errors <= Cardinality(Counted')
  BY <1>3, <1>4 DEF CountsKept, Counts
<1>7. \A v \in crew' : Adding(v)' => item'[v] \in Failed' /\ result'[v].errors = 1
  BY <1>1 DEF CountsKept
<1> QED BY <1>5, <1>6, <1>7 DEF CountsKept

LEMMA CountsRun ==
  ASSUME QueueInv, CountTypes, CountsKept, NEW w \in crew, RunTest(w)
  PROVE  CountsKept'
<1>1. PICK o \in Outcomes :
        /\ result' = [result EXCEPT ![w] = Verdict(Names[item[w]], o)]
        /\ ended' = [ended EXCEPT ![item[w]] =
             IF Skipped(Names[item[w]]) THEN "skipped" ELSE o]
  BY DEF RunTest
<1> DEFINE f == item[w]
<1>2. f \in File /\ times[f] = 0 /\ ended[f] = "not" /\ pc[w] = "run"
  BY DEF RunTest, QueueInv, FilesKept, Owns, CountsKept
<1>3. /\ \A v \in crew : v # w => pc'[v] = pc[v] /\ result'[v] = result[v]
      /\ pc'[w] = "add" /\ result'[w] = Verdict(Names[f], o)
      /\ item' = item /\ copy' = copy /\ counts' = counts /\ exit' = exit /\ exit = "none"
      /\ crew' = crew
  BY <1>1 DEF RunTest, QueueInv, QueueTypes, CountTypes
<1>4. \A g \in File : /\ g # f => ended'[g] = ended[g] /\ times'[g] = times[g]
                      /\ times'[f] = times[f] + 1
                      /\ ended'[f] = IF Skipped(Names[f]) THEN "skipped" ELSE o
  BY <1>1, <1>2 DEF RunTest, QueueInv, QueueTypes, CountTypes
<1>5. /\ f \notin Failed
      /\ \A g \in File : g # f => (g \in Failed' <=> g \in Failed)
  BY <1>2, <1>4 DEF Failed, Unexpected
<1>6. \A v \in crew : v # w /\ Adding(v) => item[v] # f
  BY <1>2 DEF Adding, QueueInv, FilesKept, Owns
<1>7. Adding(w)' => f \in Failed' /\ result'[w].errors = 1
  <2> SUFFICES ASSUME Adding(w)' PROVE f \in Failed' /\ result'[w].errors = 1
    OBVIOUS
  <2>1. Verdict(Names[f], o).errors = 1
    BY <1>3, VerdictFacts DEF Adding
  <2>2. /\ ended'[f] = o /\ o \notin {"sigint", "denied"} /\ "opt" \notin Names[f]
        /\ o # "success"
        /\ ~("err" \in Names[f] /\ o \in {"error", "exception"})
        /\ ~("exc" \in Names[f] /\ o \in {"exception", "signal"})
    BY <1>2, <1>4, <2>1, VerdictFacts
  <2>3. o \notin {"not", "skipped"}
    BY QueueAssumption
  <2> QED BY <1>2, <1>3, <2>1, <2>2, <2>3 DEF Failed, Unexpected
<1>8. \A v \in crew : v # w => (Adding(v)' <=> Adding(v))
  BY <1>3 DEF Adding
<1>9. Counted \subseteq Counted'
  <2> SUFFICES ASSUME NEW g \in Counted PROVE g \in Counted'
    OBVIOUS
  <2>1. g \in Failed /\ g # f /\ g \in File
    BY <1>5 DEF Counted, Failed
  <2>2. \A v \in crew : Adding(v)' => item'[v] # g
    BY <1>3, <1>8, <2>1 DEF Counted
  <2> QED BY <1>3, <1>5, <2>1, <2>2 DEF Counted
<1>10. /\ Cardinality(Counted) \in Nat /\ Cardinality(Counted') \in Nat
       /\ Cardinality(Counted) <= Cardinality(Counted')
  BY <1>9, CountedGrows
<1>11. counts \in Counts /\ \A v \in crew : copy[v].counts \in Counts
  BY DEF CountTypes
<1>12. \A v \in crew : Adding(v)' => item'[v] \in Failed' /\ result'[v].errors = 1
  <2> TAKE v \in crew
  <2>1. CASE v = w
    BY <1>3, <1>7, <2>1
  <2>2. CASE v # w
    BY <1>3, <1>5, <1>6, <1>8, <2>2 DEF CountsKept, Failed
  <2> QED BY <2>1, <2>2
<1>13. \A g \in File : times'[g] = 0 => ended'[g] = "not"
  BY <1>2, <1>4 DEF CountsKept
<1>14. counts'.access = 0 /\ counts'.errors <= Cardinality(Counted')
  BY <1>3, <1>10, <1>11 DEF CountsKept, Counts
<1>15. \A v \in crew : /\ copy'[v].counts.access = 0
                       /\ copy'[v].counts.errors <= Cardinality(Counted')
  BY <1>3, <1>10, <1>11 DEF CountsKept, Counts
<1> QED BY <1>3, <1>12, <1>13, <1>14, <1>15 DEF CountsKept

LEMMA CountsLoad ==
  ASSUME QueueInv, CountTypes, CountsKept, NEW w \in crew, LoadCounts(w)
  PROVE  CountsKept'
<1> DEFINE sum == IF pc[w] = "load" THEN Plus(counts, result[w]) ELSE Incremented(counts)
<1>1. /\ UNCHANGED <<crew, item, result, counts, times, ended, exit>> /\ exit = "none"
      /\ copy'[w].counts = sum
      /\ \A v \in crew : v # w => copy'[v] = copy[v] /\ pc'[v] = pc[v]
      /\ pc'[w] \in {"store", "storePassed"} /\ pc[w] \in {"load", "loadPassed"}
  BY DEF LoadCounts, QueueInv, QueueTypes, CountTypes
<1>2. counts \in Counts /\ result[w] \in Counts /\ \A v \in crew : copy[v].counts \in Counts
  BY DEF CountTypes
<1>3. sum.access = counts.access
      /\ sum.errors = counts.errors + (IF pc[w] = "load" THEN result[w].errors ELSE 0)
  BY <1>2 DEF Plus, Incremented, Counts
<1> HIDE DEF sum
<1>4. Failed' = Failed
  BY <1>1 DEF Failed, Unexpected
<1>5. ~Adding(w)' /\ \A v \in crew : v # w => (Adding(v)' <=> Adding(v))
  BY <1>1 DEF Adding
<1>6. Counted \subseteq Counted'
  BY <1>1, <1>4, <1>5 DEF Counted
<1>7. /\ Cardinality(Counted) \in Nat /\ Cardinality(Counted') \in Nat
      /\ Cardinality(Counted) <= Cardinality(Counted')
  BY <1>6, CountedGrows
<1>8. sum.errors <= Cardinality(Counted')
  <2>1. CASE Adding(w)
    <3> DEFINE f == item[w]
    <3>1. f \in Failed /\ f \notin Counted /\ result[w].errors = 1
      BY <2>1 DEF CountsKept, Counted
    <3>2. \A v \in crew : v # w /\ Adding(v) => item[v] # f
      BY <2>1 DEF Adding, QueueInv, FilesKept, Owns
    <3>3. f \in Counted'
      BY <1>1, <1>4, <1>5, <3>1, <3>2 DEF Counted
    <3>4. IsFiniteSet(Counted) /\ IsFiniteSet(Counted')
      BY CountedFinite DEF Counted, Failed
    <3>5. Cardinality(Counted \cup {f}) = Cardinality(Counted) + 1
      BY <3>1, <3>4, FS_AddElement
    <3>6. Cardinality(Counted \cup {f}) <= Cardinality(Counted')
      BY <1>6, <3>3, <3>4, FS_Subset
    <3>7. pc[w] = "load"
      BY <1>1, <2>1 DEF Adding
    <3> QED BY <1>2, <1>3, <1>7, <3>1, <3>5, <3>6, <3>7 DEF CountsKept, Counts
  <2>2. CASE ~Adding(w)
    <3>1. sum.errors = counts.errors
      BY <1>2, <1>3, <2>2 DEF Adding, Counts
    <3> QED BY <1>2, <1>7, <3>1 DEF CountsKept, Counts
  <2> QED BY <2>1, <2>2
<1>9. counts'.access = 0 /\ counts'.errors <= Cardinality(Counted')
  BY <1>1, <1>2, <1>7 DEF CountsKept, Counts
<1>10. \A v \in crew : /\ copy'[v].counts.access = 0
                       /\ copy'[v].counts.errors <= Cardinality(Counted')
  <2> TAKE v \in crew
  <2>1. CASE v = w
    BY <1>1, <1>3, <1>8, <2>1 DEF CountsKept
  <2>2. CASE v # w
    BY <1>1, <1>2, <1>7, <2>2 DEF CountsKept, Counts
  <2> QED BY <2>1, <2>2
<1>11. \A v \in crew : Adding(v)' => item'[v] \in Failed' /\ result'[v].errors = 1
  BY <1>1, <1>4, <1>5 DEF CountsKept
<1> QED BY <1>1, <1>9, <1>10, <1>11 DEF CountsKept

LEMMA CountStep == QueueInv /\ CountInv /\ [Next]_vars => CountInv'
<1> SUFFICES ASSUME QueueInv, CountInv, [Next]_vars, kind' = "validate" PROVE CountsKept'
  BY CountTypeStep DEF CountInv
<1>1. kind = "validate"
  BY DEF Next, ThreadStep, Return, ReportTimeOut, TimeOut, LockQueue, ReadTop, TakeTop, RunTest, RunJob,
         LockFinal, LoadCounts, StoreCounts, UnlockFinal, CopyLock, CopyCounts, AssignLock,
         AssignCounts, vars
<1>2. CountTypes /\ CountsKept
  BY <1>1 DEF CountInv
<1>3. CASE UNCHANGED vars
  BY <1>2, <1>3, CountsQuiet DEF vars, local, Adding
<1>4. CASE Return
  <2>1. counts \in Counts
    BY <1>2 DEF CountTypes
  <2>2. exit' = "failure" => counts.errors > 0
    BY <1>1, <1>2, <1>4, <2>1 DEF Return, Errors, CountsKept, Counts
  <2> QED BY <1>2, <1>4, <2>2, CountsQuiet DEF Return, local, Adding
<1>19. CASE ReportTimeOut
  BY <1>2, <1>19, CountsQuiet DEF ReportTimeOut, local, Adding
<1>5. ASSUME NEW w \in crew, TimeOut(w) PROVE CountsKept'
  BY <1>2, <1>5, CountsQuiet DEF TimeOut, local, Adding
<1>6. ASSUME NEW w \in crew, LockQueue(w) PROVE CountsKept'
  <2>1. \A v \in crew : Adding(v)' => Adding(v)
    BY <1>6 DEF LockQueue, local, Adding, QueueInv, QueueTypes
  <2> QED BY <1>2, <1>6, <2>1, CountsQuiet DEF LockQueue, local
<1>7. ASSUME NEW w \in crew, ReadTop(w) PROVE CountsKept'
  <2>1. \A v \in crew : Adding(v)' => Adding(v) /\ item'[v] = item[v]
    BY <1>7 DEF ReadTop, Adding, QueueInv, QueueTypes
  <2> QED BY <1>2, <1>7, <2>1, CountsQuiet DEF ReadTop
<1>8. ASSUME NEW w \in crew, TakeTop(w) PROVE CountsKept'
  <2>1. \A v \in crew : Adding(v)' => Adding(v)
    BY <1>8 DEF TakeTop, local, Adding, QueueInv, QueueTypes
  <2> QED BY <1>2, <1>8, <2>1, CountsQuiet DEF TakeTop, local
<1>9. ASSUME NEW w \in crew, RunTest(w) PROVE CountsKept'
  BY <1>2, <1>9, CountsRun
<1>10. ASSUME NEW w \in crew, RunJob(w) PROVE CountsKept'
  BY <1>1, <1>10 DEF RunJob
<1>11. ASSUME NEW w \in crew, LockFinal(w) PROVE CountsKept'
  <2>1. \A v \in crew : Adding(v)' => Adding(v)
    BY <1>11 DEF LockFinal, local, Adding, QueueInv, QueueTypes
  <2> QED BY <1>2, <1>11, <2>1, CountsQuiet DEF LockFinal, local
<1>12. ASSUME NEW w \in crew, LoadCounts(w) PROVE CountsKept'
  BY <1>2, <1>12, CountsLoad
<1>13. ASSUME NEW w \in crew, StoreCounts(w) PROVE CountsKept'
  <2>1. \A v \in crew : Adding(v)' => Adding(v)
    BY <1>13 DEF StoreCounts, local, Adding, QueueInv, QueueTypes
  <2> QED BY <1>2, <1>13, <2>1, CountsStored DEF StoreCounts, local
<1>14. ASSUME NEW w \in crew, UnlockFinal(w) PROVE CountsKept'
  <2>1. \A v \in crew : Adding(v)' => Adding(v)
    BY <1>14 DEF UnlockFinal, local, Adding, QueueInv, QueueTypes
  <2> QED BY <1>2, <1>14, <2>1, CountsQuiet DEF UnlockFinal, local
<1>15. ASSUME NEW w \in crew, CopyLock(w) PROVE CountsKept'
  <2>1. \A v \in crew : Adding(v)' => Adding(v)
    BY <1>15 DEF CopyLock, Adding, QueueInv, QueueTypes
  <2>2. \A v \in crew : copy'[v].counts = copy[v].counts
    BY <1>2, <1>15 DEF CopyLock, CountTypes
  <2> QED BY <1>2, <1>15, <2>1, <2>2, CountsQuiet DEF CopyLock
<1>16. ASSUME NEW w \in crew, CopyCounts(w) PROVE CountsKept'
  <2>1. \A v \in crew : Adding(v)' => Adding(v)
    BY <1>16 DEF CopyCounts, Adding, QueueInv, QueueTypes
  <2>2. \A v \in crew : copy'[v].counts \in {copy[v].counts, counts}
    BY <1>2, <1>16 DEF CopyCounts, Copied, CountTypes
  <2> QED BY <1>2, <1>16, <2>1, <2>2, CountsQuiet DEF CopyCounts
<1>17. ASSUME NEW w \in crew, AssignLock(w) PROVE CountsKept'
  <2>1. \A v \in crew : Adding(v)' => Adding(v)
    BY <1>17 DEF AssignLock, local, Adding, QueueInv, QueueTypes
  <2> QED BY <1>2, <1>17, <2>1, CountsQuiet DEF AssignLock, local
<1>18. ASSUME NEW w \in crew, AssignCounts(w) PROVE CountsKept'
  <2>1. \A v \in crew : Adding(v)' => Adding(v) /\ item'[v] = item[v] /\ result'[v] = result[v]
    BY <1>2, <1>18 DEF AssignCounts, Forget, Adding, QueueInv, QueueTypes, CountTypes
  <2>2. \A v \in crew : copy'[v].counts \in {copy[v].counts, Zero}
    BY <1>2, <1>18 DEF AssignCounts, Forget, NoCopy, CountTypes
  <2> QED BY <1>2, <1>18, <2>1, <2>2, CountsStored DEF AssignCounts
<1> QED BY <1>3, <1>4, <1>5, <1>6, <1>7, <1>8, <1>9, <1>10, <1>11, <1>12, <1>13, <1>14, <1>15,
           <1>16, <1>17, <1>18, <1>19 DEF Next, ThreadStep

\* Every reachable state has both invariants.
THEOREM CountCorrect == Spec => [](QueueInv /\ CountInv)
BY QueueInit, QueueStep, CountInit, CountStep, PTL DEF Spec

\* Every variable of the tests and jobs keeps its type; locks their width.
THEOREM Typed == Spec => []TypeOK
<1>1. QueueInv /\ CountInv => TypeOK
  BY DEF QueueInv, CountInv, QueueTypes, CountTypes, TypeOK
<1> QED BY <1>1, CountCorrect, PTL

\* Though threads overwrite each other's sums, no error is counted that did
\* not happen, and the program reports a failure only when there was one.
THEOREM NoneFalse == Spec => []NoFalseAlarm
<1>1. QueueInv /\ CountInv => NoFalseAlarm
  <2> SUFFICES ASSUME QueueInv, CountInv, kind = "validate"
               PROVE  /\ counts.errors <= Cardinality(Failed)
                      /\ exit = "failure" => Failed # {}
    BY DEF NoFalseAlarm
  <2>1. CountsKept /\ counts \in Counts
    BY DEF CountInv, CountTypes
  <2>2. IsFiniteSet(Failed) /\ Cardinality(Failed) \in Nat /\ Cardinality(Counted) \in Nat
    BY CountedFinite DEF Failed, Counted
  <2>3. Cardinality(Counted) <= Cardinality(Failed)
    BY <2>2, FS_Subset DEF Counted
  <2>4. counts.errors \in Nat /\ counts.errors <= Cardinality(Failed)
    BY <2>1, <2>2, <2>3 DEF CountsKept, Counts
  <2>5. Failed = {} => Cardinality(Failed) = 0
    BY FS_EmptySet
  <2> QED BY <2>1, <2>2, <2>4, <2>5 DEF CountsKept
<1> QED BY <1>1, CountCorrect, PTL

---------------------------------------------------------------------------
(* What is not lost *)

(* Every test that has been run ended as it should not have.               *)
Bad == \A f \in File : ended[f] = "not" \/ (f \in Failed /\ ended[f] # "success")

Locked(w) == pc[w] \in {"load", "store", "unlock", "loadPassed", "storePassed", "unlockPassed"}
Holds(w) == pc[w] \in {"store", "storePassed", "assignLock", "assignCounts"}

(* Until a result is stored, the lock of the counters works, and whoever   *)
(* has run a test is about to store it.                                    *)
NoneStored ==
  /\ \A w, v \in crew : Locked(w) /\ Locked(v) => w = v
  /\ Taken(lock) <=> \E w \in crew : Locked(w)
  /\ \A w \in crew : pc[w] \notin {"unlock", "copyLock", "copyCounts", "assignLock", "assignCounts"}
  /\ \A f \in File : times[f] # 0 => \E w \in crew : pc[w] \in {"add", "load", "store"} /\ item[w] = f

(* From then on the counters, and every copy that may be assigned to them, *)
(* hold an error, whatever becomes of the lock.                            *)
SomeStored ==
  /\ counts.errors > 0
  /\ \A w \in crew : Holds(w) => copy[w].counts.errors > 0

BadKept ==
  /\ \A w \in crew : pc[w] \in {"add", "load"} => result[w].errors = 1
  /\ \A w \in crew : pc[w] = "store" => copy[w].counts.errors > 0
  /\ NoneStored \/ SomeStored
  /\ exit # "success"

ReportInv == kind = "validate" /\ Bad => BadKept

LEMMA ReportInit == Init => ReportInv
<1> SUFFICES ASSUME Init PROVE BadKept
  BY DEF ReportInv
<1>1. /\ \A w \in crew : pc[w] = "take"
      /\ \A f \in File : times[f] = 0
      /\ lock = 0 /\ exit = "none"
  BY DEF Init
<1>2. ~Taken(lock)
  BY <1>1, Z3 DEF Taken
<1>3. NoneStored
  BY <1>1, <1>2 DEF NoneStored, Locked
<1> QED BY <1>1, <1>3 DEF BadKept

\* A step outside of the sections of the counters: those inside stay there.
LEMMA ReportQuiet ==
  ASSUME BadKept,
         UNCHANGED <<crew, times, counts, lock, copy, result>>, exit' # "success",
         \A w \in crew : \/ pc'[w] = pc[w] /\ item'[w] = item[w]
                         \/ /\ pc[w] \in {"take", "read", "next"}
                            /\ pc'[w] \in {"take", "read", "next", "run", "tell", "done"}
  PROVE  BadKept'
<1>1. /\ \A w \in crew : Locked(w)' <=> Locked(w)
      /\ \A w \in crew : Holds(w)' <=> Holds(w)
  BY DEF Locked, Holds
<1>2. \A w \in crew : pc[w] \in {"add", "load", "store"} => pc'[w] = pc[w] /\ item'[w] = item[w]
  OBVIOUS
<1>3. NoneStored => NoneStored'
  <2> SUFFICES ASSUME NoneStored PROVE NoneStored'
    OBVIOUS
  <2>1. Taken(lock)' <=> Taken(lock)
    BY DEF Taken
  <2>2. \A f \in File : times'[f] # 0 =>
          \E w \in crew : pc'[w] \in {"add", "load", "store"} /\ item'[w] = f
    BY <1>2 DEF NoneStored
  <2>3. \A w \in crew : pc'[w] \notin {"unlock", "copyLock", "copyCounts", "assignLock", "assignCounts"}
    BY DEF NoneStored
  <2> QED BY <1>1, <2>1, <2>2, <2>3 DEF NoneStored
<1>4. SomeStored => SomeStored'
  BY <1>1 DEF SomeStored
<1> QED BY <1>3, <1>4 DEF BadKept

LEMMA ReportRun ==
  ASSUME QueueInv, CountTypes, CountsKept, ReportInv, kind = "validate",
         NEW w \in crew, RunTest(w), Bad'
  PROVE  BadKept'
<1>1. PICK o \in Outcomes :
        /\ result' = [result EXCEPT ![w] = Verdict(Names[item[w]], o)]
        /\ ended' = [ended EXCEPT ![item[w]] =
             IF Skipped(Names[item[w]]) THEN "skipped" ELSE o]
  BY DEF RunTest
<1> DEFINE f == item[w]
<1>2. f \in File /\ times[f] = 0 /\ ended[f] = "not" /\ pc[w] = "run"
  BY DEF RunTest, QueueInv, FilesKept, Owns, CountsKept
<1>3. /\ \A v \in crew \ {w} : pc'[v] = pc[v] /\ result'[v] = result[v]
      /\ pc'[w] = "add" /\ result'[w] = Verdict(Names[f], o)
      /\ UNCHANGED <<item, copy, counts, lock, exit, crew>>
      /\ exit = "none"
  BY <1>1 DEF RunTest, QueueInv, QueueTypes, CountTypes
<1>4. /\ \A g \in File \ {f} : ended'[g] = ended[g] /\ times'[g] = times[g]
      /\ ended'[f] = IF Skipped(Names[f]) THEN "skipped" ELSE o
  BY <1>1, <1>2 DEF RunTest, QueueInv, QueueTypes, CountTypes
<1>5. Bad
  BY <1>2, <1>4 DEF Bad, Failed, Unexpected
<1>6. BadKept
  BY <1>5 DEF ReportInv
<1>7. result'[w].errors = 1
  <2>1. ended'[f] # "not"
    BY <1>4, QueueAssumption
  <2>2. f \in Failed' /\ ended'[f] # "success"
    BY <1>2, <2>1 DEF Bad
  <2>3. /\ ended'[f] \notin {"not", "skipped", "sigint", "denied"} /\ "opt" \notin Names[f]
        /\ ~("err" \in Names[f] /\ ended'[f] \in {"error", "exception"})
        /\ ~("exc" \in Names[f] /\ ended'[f] \in {"exception", "signal"})
    BY <2>2 DEF Failed, Unexpected
  <2>4. ~Skipped(Names[f]) /\ ended'[f] = o
    BY <1>4, <2>3
  <2>5. Verdict(Names[f], o) = [Zero EXCEPT !.files = 1, !.errors = 1]
    BY <2>2, <2>3, <2>4 DEF Verdict
  <2> QED BY <1>3, <2>5 DEF Zero
<1>8. \A v \in crew : (Locked(v)' <=> Locked(v)) /\ (Holds(v)' <=> Holds(v))
  BY <1>2, <1>3 DEF Locked, Holds
<1>9. NoneStored => NoneStored'
  <2> SUFFICES ASSUME NoneStored PROVE NoneStored'
    OBVIOUS
  <2>1. Taken(lock)' <=> Taken(lock)
    BY <1>3 DEF Taken
  <2>2. ASSUME NEW g \in File, times'[g] # 0
        PROVE  \E v \in crew : pc'[v] \in {"add", "load", "store"} /\ item'[v] = g
    <3>1. CASE g = f
      BY <1>3, <3>1
    <3>2. CASE g # f
      <4>1. PICK v \in crew : pc[v] \in {"add", "load", "store"} /\ item[v] = g
        BY <1>4, <2>2, <3>2 DEF NoneStored
      <4> QED BY <1>2, <1>3, <4>1
    <3> QED BY <3>1, <3>2
  <2>3. \A v \in crew : pc'[v] \notin {"unlock", "copyLock", "copyCounts", "assignLock", "assignCounts"}
    BY <1>3 DEF NoneStored
  <2> QED BY <1>3, <1>8, <2>1, <2>2, <2>3 DEF NoneStored
<1>10. SomeStored => SomeStored'
  BY <1>3, <1>8 DEF SomeStored
<1>11. \A v \in crew : pc'[v] \in {"add", "load"} => result'[v].errors = 1
  BY <1>3, <1>6, <1>7 DEF BadKept
<1>12. \A v \in crew : pc'[v] = "store" => copy'[v].counts.errors > 0
  BY <1>3, <1>6 DEF BadKept
<1> QED BY <1>3, <1>6, <1>9, <1>10, <1>11, <1>12 DEF BadKept

\* Taking the lock of the counters and releasing it.
LEMMA ReportLock ==
  ASSUME QueueInv, CountTypes, BadKept, NEW w \in crew, LockFinal(w) \/ UnlockFinal(w)
  PROVE  BadKept'
<1>1. /\ UNCHANGED <<crew, times, counts, copy, result, item>> /\ exit' = exit
      /\ \A v \in crew \ {w} : pc'[v] = pc[v]
      /\ lock' = Bump(lock) /\ (Taken(lock') <=> ~Taken(lock))
  BY BumpFacts DEF LockFinal, UnlockFinal, local, QueueInv, QueueTypes, CountTypes
<1>2. \/ pc[w] = "add" /\ pc'[w] = "load" /\ ~Taken(lock)
      \/ pc[w] = "tell" /\ pc'[w] = "loadPassed" /\ ~Taken(lock)
      \/ pc[w] = "unlock" /\ pc'[w] = "copyLock"
      \/ pc[w] = "unlockPassed" /\ pc'[w] = "done"
  BY DEF LockFinal, UnlockFinal, QueueInv, QueueTypes
<1>3. NoneStored => NoneStored'
  <2> SUFFICES ASSUME NoneStored PROVE NoneStored'
    OBVIOUS
  <2>1. pc[w] # "unlock"
    BY DEF NoneStored
  <2>2. ASSUME NEW f \in File, times'[f] # 0
        PROVE  \E v \in crew : pc'[v] \in {"add", "load", "store"} /\ item'[v] = f
    <3>1. PICK v \in crew : pc[v] \in {"add", "load", "store"} /\ item[v] = f
      BY <1>1, <2>2 DEF NoneStored
    <3>2. pc'[v] \in {"add", "load", "store"}
      BY <1>1, <1>2, <3>1
    <3> QED BY <1>1, <3>1, <3>2
  <2>3. \A v \in crew : pc'[v] \notin {"unlock", "copyLock", "copyCounts", "assignLock", "assignCounts"}
    BY <1>1, <1>2, <2>1 DEF NoneStored
  <2>4. CASE ~Taken(lock)
    <3>1. \A v \in crew : ~Locked(v)
      BY <2>4 DEF NoneStored
    <3>2. pc'[w] \in {"load", "loadPassed"}
      BY <1>2, <2>1, <3>1 DEF Locked
    <3>3. Locked(w)' /\ \A v \in crew \ {w} : ~Locked(v)'
      BY <1>1, <3>1, <3>2 DEF Locked
    <3> QED BY <1>1, <2>2, <2>3, <2>4, <3>3 DEF NoneStored, Taken
  <2>5. CASE Taken(lock)
    <3>1. pc[w] = "unlockPassed" /\ pc'[w] = "done"
      BY <1>2, <2>1, <2>5
    <3>2. \A v \in crew : ~Locked(v)'
      BY <1>1, <3>1 DEF NoneStored, Locked
    <3> QED BY <1>1, <2>2, <2>3, <2>5, <3>2 DEF NoneStored, Taken
  <2> QED BY <2>4, <2>5
<1>4. SomeStored => SomeStored'
  BY <1>1, <1>2 DEF SomeStored, Holds
<1>5. \A v \in crew : pc'[v] \in {"add", "load"} => result'[v].errors = 1
  BY <1>1, <1>2 DEF BadKept
<1>6. \A v \in crew : pc'[v] = "store" => copy'[v].counts.errors > 0
  BY <1>1, <1>2 DEF BadKept
<1> QED BY <1>1, <1>3, <1>4, <1>5, <1>6 DEF BadKept

\* The sum is made in a copy.
LEMMA ReportLoad ==
  ASSUME QueueInv, CountTypes, BadKept, NEW w \in crew, LoadCounts(w)
  PROVE  BadKept'
<1> DEFINE sum == IF pc[w] = "load" THEN Plus(counts, result[w]) ELSE Incremented(counts)
<1>1. /\ UNCHANGED <<crew, item, result, counts, times, lock, exit>>
      /\ copy'[w].counts = sum
      /\ \A v \in crew \ {w} : copy'[v] = copy[v] /\ pc'[v] = pc[v]
      /\ \/ pc[w] = "load" /\ pc'[w] = "store"
         \/ pc[w] = "loadPassed" /\ pc'[w] = "storePassed"
  BY DEF LoadCounts, QueueInv, QueueTypes, CountTypes
<1>2. /\ counts.errors \in Nat
      /\ sum.errors = counts.errors + (IF pc[w] = "load" THEN result[w].errors ELSE 0)
  BY DEF Plus, Incremented, Counts, CountTypes
<1> HIDE DEF sum
<1>3. pc[w] = "load" => copy'[w].counts.errors > 0
  BY <1>1, <1>2 DEF BadKept
<1>4. \A v \in crew : Locked(v)' <=> Locked(v)
  BY <1>1 DEF Locked
<1>5. NoneStored => NoneStored'
  <2> SUFFICES ASSUME NoneStored PROVE NoneStored'
    OBVIOUS
  <2>1. \A f \in File : times'[f] # 0 =>
          \E v \in crew : pc'[v] \in {"add", "load", "store"} /\ item'[v] = f
    <3>1. \A v \in crew : pc[v] \in {"add", "load", "store"} => pc'[v] \in {"add", "load", "store"}
      BY <1>1
    <3> QED BY <1>1, <3>1 DEF NoneStored
  <2>2. Taken(lock)' <=> Taken(lock)
    BY <1>1 DEF Taken
  <2>3. \A v \in crew : pc'[v] \notin {"unlock", "copyLock", "copyCounts", "assignLock", "assignCounts"}
    BY <1>1 DEF NoneStored
  <2> QED BY <1>1, <1>4, <2>1, <2>2, <2>3 DEF NoneStored
<1>6. SomeStored => SomeStored'
  <2> SUFFICES ASSUME SomeStored PROVE SomeStored'
    OBVIOUS
  <2>1. copy'[w].counts.errors > 0
    BY <1>1, <1>2, <1>3 DEF SomeStored
  <2> QED BY <1>1, <2>1 DEF SomeStored, Holds
<1>7. \A v \in crew : pc'[v] \in {"add", "load"} => result'[v].errors = 1
  BY <1>1 DEF BadKept
<1>8. \A v \in crew : pc'[v] = "store" => copy'[v].counts.errors > 0
  BY <1>1, <1>3 DEF BadKept
<1> QED BY <1>1, <1>5, <1>6, <1>7, <1>8 DEF BadKept

\* The first result that is stored ends the time in which none is: the lock
\* still works, and no other thread holds a copy.
LEMMA ReportStore ==
  ASSUME QueueInv, CountTypes, BadKept, NEW w \in crew, StoreCounts(w)
  PROVE  BadKept'
<1>1. /\ UNCHANGED <<crew, times, item, result, copy, lock>> /\ exit' = exit
      /\ counts' = copy[w].counts
      /\ \A v \in crew \ {w} : pc'[v] = pc[v]
      /\ \/ pc[w] = "store" /\ pc'[w] = "unlock"
         \/ pc[w] = "storePassed" /\ pc'[w] = "unlockPassed"
  BY DEF StoreCounts, local, QueueInv, QueueTypes
<1>2. CASE SomeStored
  BY <1>1, <1>2 DEF SomeStored, Holds, BadKept
<1>3. CASE NoneStored /\ pc[w] = "store"
  <2>1. counts'.errors > 0
    BY <1>1, <1>3 DEF BadKept
  <2>2. \A v \in crew : ~Holds(v)'
    BY <1>1, <1>3 DEF NoneStored, Locked, Holds
  <2> QED BY <1>1, <2>1, <2>2 DEF BadKept, SomeStored
<1>4. CASE NoneStored /\ pc[w] = "storePassed"
  <2>1. \A v \in crew : Locked(v)' <=> Locked(v)
    BY <1>1, <1>4 DEF Locked
  <2>2. \A f \in File : times'[f] # 0 =>
          \E v \in crew : pc'[v] \in {"add", "load", "store"} /\ item'[v] = f
    <3>1. \A v \in crew : pc[v] \in {"add", "load", "store"} => pc'[v] = pc[v]
      BY <1>1, <1>4
    <3> QED BY <1>1, <1>4, <3>1 DEF NoneStored
  <2>3. \A v \in crew : pc'[v] \notin {"unlock", "copyLock", "copyCounts", "assignLock", "assignCounts"}
    BY <1>1, <1>4 DEF NoneStored
  <2>4. Taken(lock)' <=> Taken(lock)
    BY <1>1 DEF Taken
  <2>5. NoneStored'
    BY <1>1, <1>4, <2>1, <2>2, <2>3, <2>4 DEF NoneStored
  <2> QED BY <1>1, <1>4, <2>5 DEF BadKept
<1> QED BY <1>1, <1>2, <1>3, <1>4 DEF BadKept

\* The sum is copied and assigned back, the lock with it.
LEMMA ReportAssign ==
  ASSUME QueueInv, CountTypes, BadKept, NEW w \in crew,
         CopyLock(w) \/ CopyCounts(w) \/ AssignLock(w) \/ AssignCounts(w)
  PROVE  BadKept'
<1>1. pc[w] \in {"copyLock", "copyCounts", "assignLock", "assignCounts"}
  BY DEF CopyLock, CopyCounts, AssignLock, AssignCounts
<1>2. SomeStored
  BY <1>1 DEF BadKept, NoneStored
<1>3. /\ UNCHANGED <<crew, times, exit>>
      /\ \A v \in crew \ {w} : pc'[v] = pc[v] /\ copy'[v] = copy[v] /\ result'[v] = result[v]
  BY DEF CopyLock, CopyCounts, AssignLock, AssignCounts, Forget, local, QueueInv, QueueTypes,
         CountTypes
<1>4. CASE CopyLock(w)
  <2>1. counts' = counts /\ pc'[w] = "copyCounts"
    BY <1>4 DEF CopyLock, QueueInv, QueueTypes
  <2> QED BY <1>2, <1>3, <2>1 DEF SomeStored, Holds, BadKept
<1>5. CASE CopyCounts(w)
  <2>1. counts' = counts /\ pc'[w] = "assignLock" /\ copy'[w].counts = counts
    BY <1>5 DEF CopyCounts, Copied, QueueInv, QueueTypes, CountTypes
  <2> QED BY <1>2, <1>3, <2>1 DEF SomeStored, Holds, BadKept
<1>6. CASE AssignLock(w)
  <2>1. counts' = counts /\ pc[w] = "assignLock" /\ pc'[w] = "assignCounts" /\ copy' = copy
    BY <1>6 DEF AssignLock, local, QueueInv, QueueTypes
  <2> QED BY <1>2, <1>3, <2>1 DEF SomeStored, Holds, BadKept
<1>7. CASE AssignCounts(w)
  <2>1. counts' = copy[w].counts /\ pc[w] = "assignCounts" /\ pc'[w] = "take"
    BY <1>7 DEF AssignCounts, QueueInv, QueueTypes
  <2> QED BY <1>2, <1>3, <2>1 DEF SomeStored, Holds, BadKept
<1> QED BY <1>4, <1>5, <1>6, <1>7

\* The program ends by itself when all files have been run, and reports the
\* errors it has stored.
LEMMA ReportReturn ==
  ASSUME QueueInv, CountTypes, BadKept, Return, kind = "validate"
  PROVE  BadKept'
<1>1. /\ UNCHANGED <<crew, times, item, result, copy, counts, pc>>
      /\ \A w \in crew : pc[w] = "done"
      /\ exit' = IF Errors(counts) = 0 THEN "success" ELSE "failure"
  BY DEF Return, Joined, local
<1>2. ~NoneStored
  <2>1. PICK w \in crew : Leaving(w)
    BY <1>1 DEF QueueInv, QueueTypes, Leaving
  <2>2. PICK f \in File : TRUE
    BY QueueAssumption DEF File
  <2>3. times[f] = 1
    BY <1>1, <2>1 DEF QueueInv, FilesKept
  <2> QED BY <1>1, <2>3 DEF NoneStored
<1>3. SomeStored
  BY <1>2 DEF BadKept
<1>4. exit' # "success"
  BY <1>1, <1>3 DEF SomeStored, Errors, CountTypes, Counts
<1> QED BY <1>1, <1>3, <1>4 DEF BadKept, SomeStored, Holds

LEMMA ReportStep == QueueInv /\ CountInv /\ ReportInv /\ [Next]_vars => ReportInv'
<1> SUFFICES ASSUME QueueInv, CountInv, ReportInv, [Next]_vars, kind' = "validate", Bad'
             PROVE  BadKept'
  BY DEF ReportInv
<1>1. kind = "validate"
  BY DEF Next, ThreadStep, Return, ReportTimeOut, TimeOut, LockQueue, ReadTop, TakeTop, RunTest, RunJob,
         LockFinal, LoadCounts, StoreCounts, UnlockFinal, CopyLock, CopyCounts, AssignLock,
         AssignCounts, vars
<1>2. CountTypes /\ CountsKept
  BY <1>1 DEF CountInv
<1>3. ASSUME NEW w \in crew, RunTest(w) PROVE BadKept'
  BY <1>1, <1>2, <1>3, ReportRun
<1>4. ASSUME UNCHANGED ended PROVE BadKept
  <2>1. Failed' = Failed
    BY <1>4 DEF Failed, Unexpected
  <2>2. Bad
    BY <1>4, <2>1 DEF Bad
  <2> QED BY <1>1, <2>2 DEF ReportInv
<1>5. CASE UNCHANGED vars
  <2>1. BadKept
    BY <1>4, <1>5 DEF vars
  <2> QED BY <1>5, <2>1, ReportQuiet DEF vars, local, BadKept
<1>6. CASE Return
  <2>1. BadKept
    BY <1>4, <1>6 DEF Return
  <2> QED BY <1>1, <1>2, <1>6, <2>1, ReportReturn
<1>14. CASE ReportTimeOut
  <2>1. BadKept
    BY <1>4, <1>14 DEF ReportTimeOut
  <2> QED BY <1>14, <2>1, ReportQuiet DEF ReportTimeOut, local
<1>7. ASSUME NEW w \in crew, TimeOut(w) PROVE BadKept'
  <2>1. BadKept
    BY <1>4, <1>7 DEF TimeOut
  <2> QED BY <1>7, <2>1, ReportQuiet DEF TimeOut, local
<1>8. ASSUME NEW w \in crew, LockQueue(w) \/ ReadTop(w) \/ TakeTop(w) PROVE BadKept'
  <2>1. BadKept
    BY <1>4, <1>8 DEF LockQueue, ReadTop, TakeTop
  <2>2. UNCHANGED <<crew, times, counts, lock, copy, result>> /\ exit' # "success"
    BY <1>8 DEF LockQueue, ReadTop, TakeTop, local
  <2>3. \A v \in crew : \/ pc'[v] = pc[v] /\ item'[v] = item[v]
                        \/ /\ pc[v] \in {"take", "read", "next"}
                           /\ pc'[v] \in {"take", "read", "next", "run", "tell", "done"}
    BY <1>8 DEF LockQueue, ReadTop, TakeTop, local, QueueInv, QueueTypes
  <2> QED BY <2>1, <2>2, <2>3, ReportQuiet
<1>9. ASSUME NEW w \in crew, RunJob(w) PROVE BadKept'
  BY <1>1, <1>9 DEF RunJob
<1>10. ASSUME NEW w \in crew, LockFinal(w) \/ UnlockFinal(w) PROVE BadKept'
  <2>1. BadKept
    BY <1>4, <1>10 DEF LockFinal, UnlockFinal
  <2> QED BY <1>2, <1>10, <2>1, ReportLock
<1>11. ASSUME NEW w \in crew, LoadCounts(w) PROVE BadKept'
  <2>1. BadKept
    BY <1>4, <1>11 DEF LoadCounts
  <2> QED BY <1>2, <1>11, <2>1, ReportLoad
<1>12. ASSUME NEW w \in crew, StoreCounts(w) PROVE BadKept'
  <2>1. BadKept
    BY <1>4, <1>12 DEF StoreCounts
  <2> QED BY <1>2, <1>12, <2>1, ReportStore
<1>13. ASSUME NEW w \in crew, CopyLock(w) \/ CopyCounts(w) \/ AssignLock(w) \/ AssignCounts(w)
       PROVE  BadKept'
  <2>1. BadKept
    BY <1>4, <1>13 DEF CopyLock, CopyCounts, AssignLock, AssignCounts
  <2> QED BY <1>2, <1>13, <2>1, ReportAssign
<1> QED BY <1>3, <1>5, <1>6, <1>7, <1>8, <1>9, <1>10, <1>11, <1>12, <1>13, <1>14 DEF Next, ThreadStep

\* When every test fails, some failure is reported, whichever of the results
\* the threads lose to each other, and though their lock may be brought back.
THEOREM SomeReported == Spec => []AllFailReported
<1>1. QueueInv /\ CountInv /\ ReportInv => AllFailReported
  <2> SUFFICES ASSUME QueueInv, CountInv, ReportInv, kind = "validate", exit = "success",
                      \A f \in File : f \in Failed /\ ended[f] # "success"
               PROVE  FALSE
    BY DEF AllFailReported
  <2>1. Bad
    BY DEF Bad
  <2> QED BY <2>1 DEF ReportInv, BadKept
<1> QED BY <1>1, QueueInit, QueueStep, CountInit, CountStep, ReportInit, ReportStep, PTL DEF Spec

---------------------------------------------------------------------------
(* A thread that is alone *)

(* A failure that has to be reported.                                      *)
Missed == \E f \in Failed : ended[f] # "success"

(* The lock of the counters says where the thread is, and a failure is in  *)
(* its result, its copy or the counters, as far as it has come with it.    *)
AloneKept(w) ==
  /\ exit # "exception"
  /\ Taken(lock) <=> Locked(w)
  /\ pc[w] \in {"copyCounts", "assignLock"} => ~Taken(copy[w].lock)
  /\ Missed => CASE pc[w] \in {"add", "load"} -> counts.errors > 0 \/ result[w].errors > 0
                 [] Holds(w) -> copy[w].counts.errors > 0
                 [] OTHER -> counts.errors > 0
  /\ exit = "success" => ~Missed

AloneInv ==
  /\ IsFiniteSet(crew)
  /\ kind = "validate" /\ Cardinality(crew) = 1 => \A w \in crew : AloneKept(w)

LEMMA AloneInit == Init => AloneInv
<1> SUFFICES ASSUME Init PROVE IsFiniteSet(crew) /\ \A w \in crew : AloneKept(w)
  BY DEF AloneInv
<1>0. IsFiniteSet(crew)
  <2>1. Cardinality(File) \in Nat
    BY QueueAssumption, FS_CardinalityType DEF File
  <2>2. PICK n \in Nat : crew = 1 .. n
    BY <2>1, QueueAssumption DEF Init
  <2> QED BY <2>2, FS_Interval
<1> SUFFICES ASSUME NEW w \in crew PROVE AloneKept(w)
  BY <1>0
<1>1. pc[w] = "take" /\ lock = 0 /\ exit = "none" /\ \A f \in File : ended[f] = "not"
  BY DEF Init
<1>2. ~Taken(lock) /\ ~Locked(w) /\ ~Missed
  BY <1>1, Z3 DEF Taken, Locked, Missed, Failed, Unexpected
<1> QED BY <1>1, <1>2 DEF AloneKept

\* A step that ends no test, and neither stores nor holds anything new.
LEMMA AloneQuiet ==
  ASSUME NEW w, AloneKept(w), UNCHANGED <<ended, counts, lock, copy, result, exit>>,
         \/ pc'[w] = pc[w]
         \/ /\ pc[w] \in {"take", "read", "next"}
            /\ pc'[w] \in {"take", "read", "next", "run", "tell", "done"}
  PROVE  AloneKept(w)'
<1>1. Missed' <=> Missed
  BY DEF Missed, Failed, Unexpected
<1>2. Taken(lock)' <=> Taken(lock)
  BY DEF Taken
<1>3. (Locked(w)' <=> Locked(w)) /\ (Holds(w)' <=> Holds(w))
  BY DEF Locked, Holds
<1>4. pc[w] \in {"take", "read", "next"} => pc'[w] \notin {"add", "load", "copyCounts", "assignLock"}
  OBVIOUS
<1> QED BY <1>1, <1>2, <1>3, <1>4 DEF AloneKept, Holds

\* A failure that is new is in the result of the test.
LEMMA AloneRun ==
  ASSUME QueueInv, CountTypes, CountsKept, NEW w \in crew, AloneKept(w), RunTest(w)
  PROVE  AloneKept(w)'
<1>1. PICK o \in Outcomes :
        /\ result' = [result EXCEPT ![w] = Verdict(Names[item[w]], o)]
        /\ ended' = [ended EXCEPT ![item[w]] =
             IF Skipped(Names[item[w]]) THEN "skipped" ELSE o]
  BY DEF RunTest
<1> DEFINE f == item[w]
<1>2. f \in File /\ pc[w] = "run" /\ exit = "none"
  BY DEF RunTest, QueueInv, FilesKept, Owns
<1>3. /\ pc'[w] = "add" /\ result'[w] = Verdict(Names[f], o)
      /\ UNCHANGED <<counts, copy, lock, exit>>
  BY <1>1 DEF RunTest, QueueInv, QueueTypes, CountTypes
<1>4. /\ \A g \in File \ {f} : ended'[g] = ended[g]
      /\ ended'[f] = IF Skipped(Names[f]) THEN "skipped" ELSE o
  BY <1>1, <1>2 DEF CountTypes
<1>5. ASSUME Missed' PROVE Missed \/ result'[w].errors = 1
  <2>1. PICK g \in File : Unexpected(g)' /\ ended'[g] # "success"
    BY <1>5 DEF Missed, Failed
  <2>2. CASE g # f
    <3>1. ended'[g] = ended[g]
      BY <1>4, <2>2
    <3> QED BY <2>1, <3>1 DEF Missed, Failed, Unexpected
  <2>3. CASE g = f
    <3>1. /\ ended'[f] \notin {"not", "skipped", "sigint", "denied"} /\ "opt" \notin Names[f]
          /\ ~("err" \in Names[f] /\ ended'[f] \in {"error", "exception"})
          /\ ~("exc" \in Names[f] /\ ended'[f] \in {"exception", "signal"})
      BY <2>1, <2>3 DEF Unexpected
    <3>2. ~Skipped(Names[f]) /\ ended'[f] = o
      BY <1>4, <3>1
    <3>3. Verdict(Names[f], o) = [Zero EXCEPT !.files = 1, !.errors = 1]
      BY <2>1, <2>3, <3>1, <3>2 DEF Verdict
    <3> QED BY <1>3, <3>3 DEF Zero
  <2> QED BY <2>2, <2>3
<1>6. Missed => counts.errors > 0
  BY <1>2 DEF AloneKept, Holds
<1>7. ~Taken(lock') /\ ~Locked(w)'
  BY <1>2, <1>3 DEF AloneKept, Locked
<1>8. Missed' => counts'.errors > 0 \/ result'[w].errors > 0
  BY <1>3, <1>5, <1>6
<1>9. exit' = "none" /\ pc'[w] = "add"
  BY <1>2, <1>3
<1> HIDE DEF f
<1>10. ~Holds(w)'
  BY <1>9 DEF Holds
<1> QED BY <1>7, <1>8, <1>9, <1>10 DEF AloneKept

LEMMA AloneStep ==
  ASSUME QueueInv, CountTypes, CountsKept, NEW w, crew = {w}, kind = "validate", AloneKept(w),
         [Next]_vars
  PROVE  AloneKept(w)'
<1> USE DEF local, queue
<1>1. /\ pc \in [crew -> Step] /\ w \in crew
      /\ lock \in 0 .. Modulus - 1
      /\ counts \in Counts /\ result[w] \in Counts
      /\ copy \in [crew -> [lock : 0 .. Modulus - 1, counts : Counts]]
  BY DEF QueueInv, QueueTypes, CountTypes
<1>2. UNCHANGED ended => (Missed' <=> Missed)
  BY DEF Missed, Failed, Unexpected
<1>3. CASE UNCHANGED vars
  BY <1>3, AloneQuiet DEF vars
<1>4. CASE Return
  <2>1. pc[w] = "done" /\ UNCHANGED <<ended, counts, copy, result, pc>>
    BY <1>1, <1>4 DEF Return, Joined
  <2>2. Missed => counts.errors > 0
    BY <2>1 DEF AloneKept, Holds
  <2>3. exit' \in {"success", "failure"} /\ (exit' = "success" => Errors(counts) = 0)
    BY <1>4 DEF Return
  <2>4. exit' = "success" => ~Missed
    BY <1>1, <2>2, <2>3 DEF Errors, Counts
  <2>5. ~Taken(lock') /\ ~Locked(w)'
    <3>1. ~Taken(lock) /\ lock' = Bump(Bump(lock)) /\ Bump(lock) \in 0 .. Modulus - 1
      BY <1>1, <1>4, BumpFacts DEF Return
    <3> QED BY <1>1, <2>1, <3>1, BumpFacts DEF Locked
  <2> QED BY <1>2, <2>1, <2>2, <2>3, <2>4, <2>5 DEF AloneKept, Holds
<1>17. ~ReportTimeOut
  BY <1>1 DEF ReportTimeOut, Joined, AloneKept, Locked
<1>5. CASE TimeOut(w)
  <2>1. pc[w] = "take" => ~Taken(dirlock)
    BY DEF QueueInv, LockKept, Inside
  <2>2. pc[w] \in {"add", "tell"} => ~Taken(lock)
    BY DEF AloneKept, Locked
  <2> QED BY <1>5, <2>1, <2>2 DEF TimeOut, Waits
<1>6. CASE LockQueue(w) \/ ReadTop(w) \/ TakeTop(w)
  BY <1>1, <1>6, AloneQuiet DEF LockQueue, ReadTop, TakeTop
<1>7. CASE RunTest(w)
  BY <1>1, <1>7, AloneRun
<1>8. CASE LockFinal(w)
  <2>1. /\ pc[w] \in {"add", "tell"} /\ pc'[w] = IF pc[w] = "add" THEN "load" ELSE "loadPassed"
        /\ UNCHANGED <<ended, counts, copy, result, exit>>
        /\ ~Taken(lock) /\ lock' = Bump(lock)
    BY <1>1, <1>8 DEF LockFinal
  <2>2. Taken(lock') /\ Locked(w)'
    BY <1>1, <2>1, BumpFacts DEF Locked
  <2> QED BY <1>2, <2>1, <2>2 DEF AloneKept, Holds
<1>9. CASE LoadCounts(w)
  <2>1. /\ pc[w] \in {"load", "loadPassed"}
        /\ pc'[w] = IF pc[w] = "load" THEN "store" ELSE "storePassed"
        /\ UNCHANGED <<ended, counts, lock, result, exit>> /\ exit = "none"
    BY <1>1, <1>9 DEF LoadCounts
  <2>2. copy'[w].counts = IF pc[w] = "load" THEN Plus(counts, result[w]) ELSE Incremented(counts)
    BY <1>1, <1>9 DEF LoadCounts
  <2>3. copy'[w].counts.errors = counts.errors + (IF pc[w] = "load" THEN result[w].errors ELSE 0)
    BY <1>1, <2>2 DEF Plus, Incremented, Counts
  <2>4. Missed => counts.errors > 0 \/ (pc[w] = "load" /\ result[w].errors > 0)
    BY <2>1 DEF AloneKept, Holds
  <2>5. Missed => copy'[w].counts.errors > 0
    BY <1>1, <2>3, <2>4 DEF Counts
  <2>6. Taken(lock') /\ Locked(w)' /\ Holds(w)'
    BY <2>1 DEF AloneKept, Locked, Holds
  <2> QED BY <1>2, <2>1, <2>5, <2>6 DEF AloneKept
<1>10. CASE StoreCounts(w)
  <2>1. /\ pc[w] \in {"store", "storePassed"}
        /\ pc'[w] = IF pc[w] = "store" THEN "unlock" ELSE "unlockPassed"
        /\ UNCHANGED <<ended, lock, copy, result, exit>> /\ exit = "none"
        /\ counts' = copy[w].counts
    BY <1>1, <1>10 DEF StoreCounts
  <2>2. Missed => counts'.errors > 0
    BY <2>1 DEF AloneKept, Holds
  <2>3. Taken(lock') /\ Locked(w)' /\ ~Holds(w)'
    BY <2>1 DEF AloneKept, Locked, Holds
  <2> QED BY <1>2, <2>1, <2>2, <2>3 DEF AloneKept
<1>11. CASE UnlockFinal(w)
  <2>1. /\ pc[w] \in {"unlock", "unlockPassed"}
        /\ pc'[w] = IF pc[w] = "unlock" THEN "copyLock" ELSE "done"
        /\ UNCHANGED <<ended, counts, copy, result, exit>> /\ exit = "none"
        /\ lock' = Bump(lock)
    BY <1>1, <1>11 DEF UnlockFinal
  <2>2. Taken(lock) /\ (Missed => counts.errors > 0)
    BY <2>1 DEF AloneKept, Locked, Holds
  <2>3. ~Taken(lock') /\ ~Locked(w)' /\ ~Holds(w)'
    BY <1>1, <2>1, <2>2, BumpFacts DEF Locked, Holds
  <2> QED BY <1>2, <2>1, <2>2, <2>3 DEF AloneKept
<1>12. CASE CopyLock(w)
  <2>1. /\ pc[w] = "copyLock" /\ pc'[w] = "copyCounts" /\ copy'[w].lock = lock
        /\ UNCHANGED <<ended, counts, lock, result, exit>> /\ exit = "none"
    BY <1>1, <1>12 DEF CopyLock
  <2>2. ~Taken(lock) /\ (Missed => counts.errors > 0)
    BY <2>1 DEF AloneKept, Locked, Holds
  <2>3. ~Locked(w)' /\ ~Holds(w)'
    BY <2>1 DEF Locked, Holds
  <2> QED BY <1>2, <2>1, <2>2, <2>3 DEF AloneKept
<1>13. CASE CopyCounts(w)
  <2>1. /\ pc[w] = "copyCounts" /\ pc'[w] = "assignLock"
        /\ copy'[w].lock = copy[w].lock /\ copy'[w].counts = counts
        /\ UNCHANGED <<ended, counts, lock, result, exit>> /\ exit = "none"
    BY <1>1, <1>13 DEF CopyCounts, Copied
  <2>2. ~Taken(lock) /\ ~Taken(copy[w].lock) /\ (Missed => counts.errors > 0)
    BY <2>1 DEF AloneKept, Locked, Holds
  <2>3. ~Locked(w)' /\ Holds(w)'
    BY <2>1 DEF Locked, Holds
  <2> QED BY <1>2, <2>1, <2>2, <2>3 DEF AloneKept
<1>14. CASE AssignLock(w)
  <2>1. /\ pc[w] = "assignLock" /\ pc'[w] = "assignCounts" /\ lock' = copy[w].lock
        /\ UNCHANGED <<ended, counts, copy, result, exit>> /\ exit = "none"
    BY <1>1, <1>14 DEF AssignLock
  <2>2. ~Taken(copy[w].lock) /\ (Missed => copy[w].counts.errors > 0)
    BY <2>1 DEF AloneKept, Holds
  <2>3. ~Locked(w)' /\ Holds(w)'
    BY <2>1 DEF Locked, Holds
  <2> QED BY <1>2, <2>1, <2>2, <2>3 DEF AloneKept
<1>15. CASE AssignCounts(w)
  <2>1. /\ pc[w] = "assignCounts" /\ pc'[w] = "take" /\ counts' = copy[w].counts
        /\ UNCHANGED <<ended, lock, exit>> /\ exit = "none"
    BY <1>1, <1>15 DEF AssignCounts
  <2>2. ~Taken(lock) /\ (Missed => counts'.errors > 0)
    BY <2>1 DEF AloneKept, Locked, Holds
  <2>3. ~Locked(w)' /\ ~Holds(w)'
    BY <2>1 DEF Locked, Holds
  <2> QED BY <1>2, <2>1, <2>2, <2>3 DEF AloneKept
<1>16. ~RunJob(w)
  BY DEF RunJob
<1> QED BY <1>3, <1>4, <1>5, <1>6, <1>7, <1>8, <1>9, <1>10, <1>11, <1>12, <1>13, <1>14, <1>15,
           <1>16, <1>17 DEF Next, ThreadStep

LEMMA AloneInvStep == QueueInv /\ CountInv /\ AloneInv /\ [Next]_vars => AloneInv'
<1> SUFFICES ASSUME QueueInv, CountInv, AloneInv, [Next]_vars PROVE AloneInv'
  OBVIOUS
<1>1. UNCHANGED <<kind, crew>>
  BY DEF Next, ThreadStep, Return, ReportTimeOut, TimeOut, LockQueue, ReadTop, TakeTop, RunTest, RunJob,
         LockFinal, LoadCounts, StoreCounts, UnlockFinal, CopyLock, CopyCounts, AssignLock,
         AssignCounts, vars
<1> SUFFICES ASSUME (kind = "validate")', (Cardinality(crew) = 1)', NEW w \in crew'
             PROVE  AloneKept(w)'
  BY <1>1 DEF AloneInv
<1>2. kind = "validate" /\ Cardinality(crew) = 1 /\ w \in crew
  BY <1>1
<1>3. crew = {w}
  BY <1>2, FS_Singleton DEF AloneInv
<1>4. AloneKept(w) /\ CountTypes /\ CountsKept
  BY <1>2 DEF AloneInv, CountInv
<1> QED BY <1>2, <1>3, <1>4, AloneStep

\* A thread that is alone never waits for a lock for ever, and loses none of
\* the errors it is to count: the copy it assigns back is what it copied.
THEOREM AloneExact == Spec => []ExactAlone
<1>1. QueueInv /\ AloneInv => ExactAlone
  BY DEF QueueInv, QueueTypes, AloneInv, AloneKept, ExactAlone, Missed
<1> QED BY <1>1, QueueInit, QueueStep, CountInit, CountStep, AloneInit, AloneInvStep, PTL DEF Spec
=============================================================================

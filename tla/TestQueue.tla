----------------------------- MODULE TestQueue -----------------------------
(***************************************************************************)
(* The self tests (core/validate.cpp) and the job queue (core/job.cpp).    *)
(* The files to run are on a stack, from which threads take them under a   *)
(* lock of core/lock.cpp (METHOD0: a value that is odd while it is taken,  *)
(* and which each taking and releasing increments).  A job that fails      *)
(* clears a flag.  The results of a test are added to counters that have a *)
(* lock of their own; but the sum is then copied and assigned back, lock   *)
(* and all, by "*this = *this+a" without it.                               *)
(***************************************************************************)
EXTENDS Integers, FiniteSets

CONSTANTS Kinds,     \* which of {"validate", "job"} are tried
          ThreadCounts, \* what global_threadcount may be
          Names,     \* for each file the marks of its name, from {"err", "exc", "opt"}
          Options,   \* global_validateoptions, from {"err", "exc", "opt", "run"}
          Tested,    \* how many autotest directories were found
          Outcomes,  \* how a file may end
          Modulus    \* 2^32: locks are unsigned int

ASSUME QueueAssumption ==
  /\ Kinds \subseteq {"validate", "job"}
  /\ ThreadCounts \subseteq Nat \ {0}
  /\ DOMAIN Names \subseteq Nat /\ DOMAIN Names # {} /\ IsFiniteSet(DOMAIN Names)
  /\ Outcomes \subseteq {"success", "error", "exception", "signal", "sigint", "denied"}
  /\ Tested \in Nat \ {0}
  /\ Modulus \in Nat \ {0} /\ Modulus % 2 = 0

VARIABLES kind, crew,      \* the program and its threads, which do not change
          stack,           \* dirstack, jobstack: the files still to take
          dirlock,
          pc, item,        \* where each thread stands, what it took from the stack
          passed, result,  \* run_test_proc's flag and the result of its last test
          copy,            \* what operator+= holds to assign back
          lock, counts,    \* final
          flag,            \* final_result
          exit,            \* the exit code of the program, "none" until then
          times, ended     \* history: how often each file was run, how it ended

queue == <<stack, dirlock>>
local == <<item, passed, result, copy>>
vars == <<kind, crew, queue, pc, local, lock, counts, flag, exit, times, ended>>

File == DOMAIN Names
None == -1

Zero == [files |-> 0, errors |-> 0, access |-> 0, passed |-> 0]
NoCopy == [lock |-> 0, counts |-> Zero]

Init ==
  /\ kind \in Kinds
  /\ \E n \in ThreadCounts :
       crew = 1 .. IF kind = "job" /\ n > Cardinality(File) THEN Cardinality(File)
                   ELSE IF kind = "validate" /\ n > Tested THEN Tested ELSE n
  /\ stack = File /\ dirlock = 0
  /\ pc = [w \in crew |-> "take"] /\ item = [w \in crew |-> None]
  /\ passed = [w \in crew |-> TRUE]
  /\ result = [w \in crew |-> Zero]
  /\ copy = [w \in crew |-> NoCopy]
  /\ lock = 0 /\ counts = Zero /\ flag = TRUE /\ exit = "none"
  /\ times = [f \in File |-> 0] /\ ended = [f \in File |-> "not"]

-----------------------------------------------------------------------------
(* lock.cpp *)

Taken(value) == value % 2 = 1

Bump(value) == (value + 1) % Modulus

\* mutant: only a read lock runs out of patience
WaitsReading(w) == pc[w] = "take" /\ Taken(dirlock)

Waits(w) == (pc[w] = "take" /\ Taken(dirlock)) \/ (pc[w] \in {"add", "tell"} /\ Taken(lock))

(* After MAXSPIN rounds a lock throws, and nothing catches it. *)
TimeOut(w) ==
  /\ exit = "none" /\ Waits(w)
  /\ exit' = "exception"
  /\ UNCHANGED <<kind, crew, queue, pc, local, lock, counts, flag, times, ended>>

-----------------------------------------------------------------------------
(* popdir, popjob: the files that are left are a set, and the order in      *)
(* which they stand is one choice of a first file for each.                *)

Top(files) == IF files = {} THEN None ELSE CHOOSE f \in files : TRUE

\* mutant: the stack is read without its lock
LockAny(w) ==
  /\ exit = "none" /\ pc[w] = "take"
  /\ dirlock' = Bump(dirlock) /\ pc' = [pc EXCEPT ![w] = "read"]
  /\ UNCHANGED <<kind, crew, stack, local, lock, counts, flag, exit, times, ended>>

LockQueue(w) ==
  /\ exit = "none" /\ pc[w] = "take" /\ ~Taken(dirlock)
  /\ dirlock' = Bump(dirlock) /\ pc' = [pc EXCEPT ![w] = "read"]
  /\ UNCHANGED <<kind, crew, stack, local, lock, counts, flag, exit, times, ended>>

ReadTop(w) ==
  /\ exit = "none" /\ pc[w] = "read"
  /\ item' = [item EXCEPT ![w] = Top(stack)] /\ pc' = [pc EXCEPT ![w] = "next"]
  /\ UNCHANGED <<kind, crew, queue, passed, result, copy, lock, counts, flag, exit,
                 times, ended>>

Rest(files) == files \ {Top(files)}

TakeTop(w) ==
  /\ exit = "none" /\ pc[w] = "next"
  /\ stack' = Rest(stack) /\ dirlock' = Bump(dirlock)
  /\ pc' = [pc EXCEPT ![w] =
       IF item[w] # None THEN "run"
       ELSE IF kind = "validate" /\ passed[w] THEN "tell" ELSE "done"]
  /\ UNCHANGED <<kind, crew, local, lock, counts, flag, exit, times, ended>>

-----------------------------------------------------------------------------
(* run_test: what the program does with a file, and what it counts as. *)

Skipped(marks) ==
  \/ \E m \in {"err", "exc", "opt"} : m \in marks /\ m \notin Options
  \/ marks = {} /\ "run" \notin Options

Verdict(marks, o) ==
  CASE Skipped(marks) -> Zero
    [] ~Skipped(marks) /\ o = "denied" -> [Zero EXCEPT !.access = 1]
    [] ~Skipped(marks) /\ o # "denied" ->
         [Zero EXCEPT !.files = 1, !.errors =
            IF \/ o \in {"success", "sigint"} \/ "opt" \in marks
               \/ "exc" \in marks /\ o \in {"exception", "signal"}
               \/ "err" \in marks /\ o \in {"error", "exception"}
            THEN 0 ELSE 1]

RunTest(w) ==
  /\ exit = "none" /\ pc[w] = "run" /\ kind = "validate"
  /\ \E o \in Outcomes :
       /\ result' = [result EXCEPT ![w] = Verdict(Names[item[w]], o)]
       /\ passed' = [passed EXCEPT ![w] =
            @ /\ Verdict(Names[item[w]], o).errors + Verdict(Names[item[w]], o).access = 0]
       /\ ended' = [ended EXCEPT ![item[w]] = IF Skipped(Names[item[w]]) THEN "skipped" ELSE o]
  /\ times' = [times EXCEPT ![item[w]] = @ + 1]
  /\ pc' = [pc EXCEPT ![w] = "add"]
  /\ UNCHANGED <<kind, crew, queue, item, copy, lock, counts, flag, exit>>

(* run_job *)
RunJob(w) ==
  /\ exit = "none" /\ pc[w] = "run" /\ kind = "job"
  /\ \E ok \in BOOLEAN :
       /\ flag' = (flag /\ ok)
       /\ ended' = [ended EXCEPT ![item[w]] = IF ok THEN "success" ELSE "error"]
  /\ times' = [times EXCEPT ![item[w]] = @ + 1]
  /\ pc' = [pc EXCEPT ![w] = "take"]
  /\ UNCHANGED <<kind, crew, queue, local, lock, counts, exit>>

-----------------------------------------------------------------------------
(* counters::operator+= and inc_passed on the counters of all tests *)

LockFinal(w) ==
  /\ exit = "none" /\ pc[w] \in {"add", "tell"} /\ ~Taken(lock)
  /\ lock' = Bump(lock)
  /\ pc' = [pc EXCEPT ![w] = IF pc[w] = "add" THEN "load" ELSE "loadPassed"]
  /\ UNCHANGED <<kind, crew, queue, local, counts, flag, exit, times, ended>>

\* mutant: the errors of a test take the place of those before
PlusLast(c, r) == [files |-> c.files + r.files, errors |-> r.errors,
                   passed |-> c.passed + r.passed, access |-> c.access]

(* operator+ does not add the access failures. *)
Plus(c, r) == [files |-> c.files + r.files, errors |-> c.errors + r.errors,
               passed |-> c.passed + r.passed, access |-> c.access]

Incremented(c) == [c EXCEPT !.passed = @ + 1]

LoadCounts(w) ==
  /\ exit = "none" /\ pc[w] \in {"load", "loadPassed"}
  /\ copy' = [copy EXCEPT ![w].counts =
       IF pc[w] = "load" THEN Plus(counts, result[w]) ELSE Incremented(counts)]
  /\ pc' = [pc EXCEPT ![w] = IF pc[w] = "load" THEN "store" ELSE "storePassed"]
  /\ UNCHANGED <<kind, crew, queue, item, passed, result, lock, counts, flag, exit,
                 times, ended>>

StoreCounts(w) ==
  /\ exit = "none" /\ pc[w] \in {"store", "storePassed"}
  /\ counts' = copy[w].counts
  /\ pc' = [pc EXCEPT ![w] = IF pc[w] = "store" THEN "unlock" ELSE "unlockPassed"]
  /\ UNCHANGED <<kind, crew, queue, local, lock, flag, exit, times, ended>>

UnlockFinal(w) ==
  /\ exit = "none" /\ pc[w] \in {"unlock", "unlockPassed"}
  /\ lock' = Bump(lock)
  /\ pc' = [pc EXCEPT ![w] = IF pc[w] = "unlock" THEN "copyLock" ELSE "done"]
  /\ UNCHANGED <<kind, crew, queue, local, counts, flag, exit, times, ended>>

(* "return *this" and "*this = ...": four steps without the lock *)
CopyLock(w) ==
  /\ exit = "none" /\ pc[w] = "copyLock"
  /\ copy' = [copy EXCEPT ![w].lock = lock]
  /\ pc' = [pc EXCEPT ![w] = "copyCounts"]
  /\ UNCHANGED <<kind, crew, queue, item, passed, result, lock, counts, flag, exit,
                 times, ended>>

(* The end of the loop: item, result and the copies go out of scope. *)
Forget(w) ==
  /\ item' = [item EXCEPT ![w] = None] /\ result' = [result EXCEPT ![w] = Zero]
  /\ copy' = [copy EXCEPT ![w] = NoCopy]

\* mutant: the sum is added a second time
SumTwice(w) == Plus(counts, result[w])

Copied(w) == counts

CopyCounts(w) ==
  /\ exit = "none" /\ pc[w] = "copyCounts"
  /\ copy' = [copy EXCEPT ![w].counts = Copied(w)]
  /\ pc' = [pc EXCEPT ![w] = "assignLock"]
  /\ UNCHANGED <<kind, crew, queue, item, passed, result, lock, counts, flag, exit,
                 times, ended>>

AssignLock(w) ==
  /\ exit = "none" /\ pc[w] = "assignLock"
  /\ lock' = copy[w].lock
  /\ pc' = [pc EXCEPT ![w] = "assignCounts"]
  /\ UNCHANGED <<kind, crew, queue, local, counts, flag, exit, times, ended>>

AssignCounts(w) ==
  /\ exit = "none" /\ pc[w] = "assignCounts"
  /\ counts' = copy[w].counts
  /\ Forget(w)
  /\ pc' = [pc EXCEPT ![w] = "take"]
  /\ UNCHANGED <<kind, crew, queue, passed, lock, flag, exit, times, ended>>

-----------------------------------------------------------------------------
\* mutant: only the tests that ended are looked at
ErrorsEnded(c) == c.access

Errors(c) == c.errors + c.access

(* The main thread has joined all others.  The report of the tests takes    *)
(* the lock of the counters again, which may have been brought back taken.  *)
Joined == exit = "none" /\ \A w \in crew : pc[w] = "done"

Return ==
  /\ Joined
  /\ kind = "validate" => ~Taken(lock)
  /\ lock' = IF kind = "validate" THEN Bump(Bump(lock)) ELSE lock
  /\ exit' = IF IF kind = "validate" THEN Errors(counts) = 0 ELSE ~flag
             THEN "success" ELSE "failure"
  /\ UNCHANGED <<kind, crew, queue, pc, local, counts, flag, times, ended>>

ReportTimeOut ==
  /\ Joined /\ kind = "validate" /\ Taken(lock)
  /\ exit' = "exception"
  /\ UNCHANGED <<kind, crew, queue, pc, local, lock, counts, flag, times, ended>>

ThreadStep(w) ==
  \/ LockQueue(w) \/ ReadTop(w) \/ TakeTop(w) \/ RunTest(w) \/ RunJob(w)
  \/ LockFinal(w) \/ LoadCounts(w) \/ StoreCounts(w) \/ UnlockFinal(w)
  \/ CopyLock(w) \/ CopyCounts(w) \/ AssignLock(w) \/ AssignCounts(w)

Next == Return \/ ReportTimeOut \/ \E w \in crew : ThreadStep(w) \/ TimeOut(w)

(* Threads run, and one that waits for ever is thrown out of its wait. *)
Fairness ==
  /\ WF_vars(Return \/ ReportTimeOut)
  /\ \A w \in UNION {1 .. n : n \in ThreadCounts} :
       WF_vars(w \in crew /\ (ThreadStep(w) \/ TimeOut(w)))

Spec == Init /\ [][Next]_vars /\ Fairness

-----------------------------------------------------------------------------
Step == {"take", "read", "next", "run", "add", "load", "store", "unlock", "copyLock",
         "copyCounts", "assignLock", "assignCounts", "tell", "loadPassed", "storePassed",
         "unlockPassed", "done"}
Counts == [files : Nat, errors : Nat, access : Nat, passed : Nat]

TypeOK ==
  /\ kind \in Kinds /\ crew \subseteq Nat
  /\ stack \subseteq File /\ dirlock \in 0 .. Modulus - 1
  /\ pc \in [crew -> Step] /\ item \in [crew -> File \cup {None}]
  /\ passed \in [crew -> BOOLEAN] /\ result \in [crew -> Counts]
  /\ copy \in [crew -> [lock : 0 .. Modulus - 1, counts : Counts]]
  /\ lock \in 0 .. Modulus - 1 /\ counts \in Counts /\ flag \in BOOLEAN
  /\ exit \in {"none", "success", "failure", "exception"}
  /\ times \in [File -> Nat]
  /\ ended \in [File -> Outcomes \cup {"not", "skipped", "success", "error"}]

(* What the names mean: a test of an error or of an exception has to end   *)
(* with one, an optional test may end anyhow, any other has to succeed.    *)
Unexpected(f) ==
  /\ ended[f] \notin {"not", "skipped", "sigint", "denied"} /\ "opt" \notin Names[f]
  /\ ~(Names[f] = {} /\ ended[f] = "success")
  /\ ~("err" \in Names[f] /\ ended[f] \in {"error", "exception"})
  /\ ~("exc" \in Names[f] /\ ended[f] \in {"exception", "signal"})

Failed == {f \in File : Unexpected(f)}

(* No file is run twice, and when the program ends by itself each has been *)
(* run: the steps of popdir and popjob exclude each other by the lock.     *)
EachRunOnce ==
  /\ \A f \in File : times[f] <= 1
  /\ exit \in {"success", "failure"} => \A f \in File : times[f] = 1

(* However the copies overwrite each other, no error is counted that did   *)
(* not happen: a run in which all went as expected is a success.           *)
NoFalseAlarm ==
  kind = "validate" =>
    /\ counts.errors <= Cardinality(Failed)
    /\ exit = "failure" => Failed # {}

(* A single thread never finds the lock of the counters taken, not even     *)
(* when the report is printed, and loses no failure of an earlier test to a *)
(* later one.  No number of threads counts a test of an error that succeeds *)
(* or one that could not be started, which is not among Failed.             *)
ExactAlone ==
  kind = "validate" /\ Cardinality(crew) = 1 =>
    /\ exit # "exception"
    /\ exit = "success" => \A f \in Failed : ended[f] = "success"

(* When everything fails some of it is reported, whichever results are     *)
(* lost to other threads.                                                  *)
AllFailReported ==
  kind = "validate" /\ exit = "success" => \E f \in File : f \notin Failed \/ ended[f] = "success"

(* The program ends. *)
Ends == <>(exit # "none")
=============================================================================

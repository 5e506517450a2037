# Verification of the GridLAB-D core

GridLAB-D is a simulator of distribution grids. A model is a set of objects;
the *core* (`src/core`) advances one global clock from event to event and, at
each clock, calls every object until nobody asks for anything more at that
clock. This directory holds TLA+ modules of that core and of the market whose
auctions run on it (`src/market`), the configurations that TLC checks, and
theorems with proofs that TLAPS checks.

- [The system](#the-system): components, state, operations, interactions
- [The modules](#the-modules): what models what
- [The runs](#the-runs): what TLC checks, with which bounds
- [Divergences](#divergences): where the code does not do what it says
- [Fairness](#fairness)
- [The proofs](#the-proofs)
- [What is left out](#what-is-left-out), [The plan](#the-plan)

## The system

### Components, their state and their operations

| component | source | state | operations |
|---|---|---|---|
| Sync events | `exec.c` 1459-1620, `timestamp.c` | a record `{step_to, hard_event, status}`; `main_sync` and one per worker | reset, set, merge, get, ishard, isnever, isinvalid, isrunning |
| Main loop | `exec.c` `exec_start` 1628-2432 | `global_clock`, `main_sync`, `iteration_counter`, `global_simulation_mode`, `exit_code` | one iteration: delta mode question, internal syncs, precommit, three passes over the rank lists, merge, commit, scripts, delta update |
| Rank list pool | `exec.c` `obj_syncproc` 1307-1349, 2049-2117 | per rank list: `next_t1` + `start[]` condition, `donecount[]` + `done[]` condition, two mutexes; per worker `t0` | divide, create, start, await; worker: await start, synchronise the share, count down |
| Commit and iterator | `exec.c` 917-1119, `threadpool.c` 73-308 | two object lists, an iterator each (`MTI`): processes, input, output, start and stop counts | `commit_init`, `commit_all`, `commit_all_st`; `mti_init`, `mti_run`, `iterator_proc` |
| Initialisation | `exec.c` 563-835, `object_init` | arrays of deferred objects, `OF_INIT`, `OF_DEFERRED` | by creation, by deferral with retries |
| Object model, ranks | `object.c`, `index.c`, `exec.c` 245-329 | objects, parents, ranks, flags; an index of ranks per pass | `object_set_parent`, `object_set_dependent`, `object_set_rank`, `set_rank`; `setup_ranks`, `index_insert`, the walk of a pass |
| Delta mode | `deltamode.c` | `global_deltaclock`, modules and objects with an update | `delta_modedesired`, `delta_update`, pre-, inter- and postupdate |
| Main loop control | `exec.c` 1349-1459 | `global_mainloopstate`, `global_mainlooppauseat`, a mutex and a condition | suspend, resume, statewait, done |
| Internal behaviours | `schedule.c`, `loadshape.c`, `enduse.c`, `transform.c` | lists of each kind, a thread pool each with its start condition, done count and earliest answer | create, sync |
| Spin locks | `lock.cpp` | one integer per lock, odd while taken | rlock, wlock, runlock, wunlock |
| Self tests | `validate.cpp` | a stack of files, counters with a lock of their own | push, pop, run, count, report |
| Job queue | `job.cpp` | a stack of files, a result flag | push, pop, run, join |
| Auction | `market/auction.cpp`, `curve.cpp`, `bid.cpp` | bids of both sides with totals, keys, a ring of frames, a ring of prices | submit, resubmit, clear, deliver, statistics |
| Multi-run instances | `instance*.c` | messages, cached buffers, signals | master init, wait, sync; slave wait, run, done |
| Server, GUI, realtime | `server.c`, `gui.c`, `realtime.c` | sockets, a list of realtime events | serve, schedule |
| Loaders and registry | `load*.c*`, `module.c`, `class.c`, `property.c`, `globals.c` | tables | parse, register, look up |
| Modules | `powerflow/`, `generators/`, `residential/`, `tape/`, ... | the objects of a simulation | `sync`, `precommit`, `commit`, `update`, ... |

### How they interact

`exec_start` calls everything. It initialises the objects, builds the rank
lists (an object's rank is above those of its children) and enters the loop. In
an iteration every part of the run *posts* the next time at which it has to be
called in the sync event: a positive time is a *hard* event, a negative one a
*soft* event, `TS_INVALID` and `TS_ZERO` are failures. Objects of one rank are
synchronised at the same time, by the workers of their list; each worker posts
in a record of its own and the records are merged at the end. If the answer is
the clock itself the iteration is repeated (at most `iteration_limit` times);
if it is later, `commit_all` commits the timestep, and the next iteration
starts at that time. The loop ends when the answer is past the stop time, when
only soft events are left, on a failure, or on a signal.

Before the passes of an iteration, `syncall_internals` synchronises schedules,
load shapes and end uses, each by a pool of threads of its own. An auction is an
object like others: bidders submit to it when they are synchronised, it clears
when its `presync` is called at the end of its period, and asks to be called at
the end of the next. The self tests and the job queue are front ends: threads
take files off a stack and run the whole program on each.

### What is hard

*Order.* Which of many times survives in the sync event must not depend on who
posts first. *Threads.* A pool per rank list that is started by a counter, an
iterator that is started by a change of its input, three more pools that answer
a time, a stack under a spin lock, and counters that are copied without theirs.
*Failure.* A failure may come up in any worker, transform, script, commit or
module, and there are five ways out of the loop. *Rounds.* Reiterations, delta
updates and retried initialisations reuse counters, arrays and flags of the
round before. *Numbers.* Signs carry meaning, minus one is special, rounding
may pass the last date; an auction is decided by comparisons of equal prices and
equal quantities. *Stale state.* Keys of a market that is over, answers given
again, rings that wrap. `PROJECT.json` lists these hazards at their lines.

### What makes each part correct

- Sync events and main loop: no event is skipped; the clock does not go back or
  past the stop time; a run ends only when nothing hard is left; failures are
  reported; precommit comes first and once; runs end.
- Rank pool: each object of a list once per visit, no two lists at a time, no
  lost wake-up.
- Commit: each object once, observers last, no answer lost, calls return.
- Initialisation: success exactly when all objects can be initialised.
- Ranks: a parent ranks above its children, no rank passes the number of
  objects, each pass visits every object, on the right side of its relatives.
- Internal behaviours: what is due is synchronised, and the answer of a pool is
  the earliest time any item is due next.
- Self tests and jobs: each file is run once; failures are not invented, and
  those of a single thread not lost; the program ends.
- Auction: as much is traded as any price allows, at a price that goes with it;
  a key reaches only its owner's bid of its market; results come into force in
  order and on time; statistics are those of the right markets.

## The modules

| module | models | kind |
|---|---|---|
| `SyncData` | the sync API and the timestamps | operators |
| `MainLoop` | the loop of `exec_start` | component; EXTENDS `SyncData` |
| `EventClock` | what the loop promises | abstract specification |
| `RankPool` | workers and main thread of the rank lists | component |
| `RankBarrier` | what the pool promises | abstract specification |
| `CommitAll` | `commit_all` and the iterator of `threadpool.c` | component |
| `DeferredInit` | initialisation by deferral | component |
| `ObjectRank` | parents, dependents and ranks of objects | component |
| `RankIndex` | the index of the ranks and the walk of the passes | component; EXTENDS `ObjectRank` |
| `SyncPool` | the pools of schedules, load shapes and end uses | component |
| `TestQueue` | self tests and job queue, with their locks | component |
| `BidCurve`, `Clearing` | one side of an auction; price and quantity of a clearing | operators |
| `Auction` | bids, keys, clearing, frames, statistics | component; EXTENDS `Clearing` |
| `MainLoop_proofs`, `RankPool_proofs`, `RankIndex_proofs`, `Auction_proofs`, `TestQueue_proofs`, `SyncPool_proofs`, `CommitAll_proofs`, `DeferredInit_proofs` | theorems about the module of that name | proofs |
| `MCMainLoop`, `MCRankPool`, `MCCommitAll`, `MCDeferredInit`, `MCRankIndex`, `MCSyncPool`, `MCTestQueue`, `MCAuction` | the constants of the runs | instances |

### SyncData

One operator per function of the API; a record is a value and an operator
returns the new one. The count of hard events is a Boolean, because the code
only asks whether it is positive. `EarliestTimestamp` takes a sequence and
stops reading at the first `TS_ZERO` after the first argument, which is what
the C variadic function does. An exception thrown by `exec_sync_set` is a
predicate (`SyncSetThrows`) that the caller tests.

### MainLoop

`pc` says where the loop stands; an action is the code from one such point to
the next:

| `pc` | action | code |
|---|---|---|
| top | `LoopEnds`, `DeltaRefused`, `NegativeClock`, `BeginIteration` | the condition of the `while`, clock, delta question, reset, stop time, `syncall_internals` |
| precommit | `Precommit` | on the first iteration at a clock |
| lists | `StartList`, `EndPass` | `PASSINIT`/`PASSINC`, the transforms after a pass |
| list | `SyncObject`, `EndList` | `ss_do_object_sync` for one object, then the test for failed workers |
| merge | `MergeThread` | `exec_sync_merge` of one record |
| advance | `Commit`, `Reiterate` | a new time, or the same one again |
| scripts, delta | `SyncScripts`, `NoDelta`, `RunDelta` | sync scripts, `delta_update` |
| ended | `Return` | term scripts, status |

`Interrupt` (a signal) is possible at every point of the loop. Objects, internal
behaviours, modules and scripts are the environment: they answer any time up to
`Reach` after the clock, hard or soft, or none, and fail where the instance
allows it. An object's `Thread` is the record its worker posts in; workers run
in any order (`SyncObject` picks any object of the list).

Three variables are history and nothing in the code: `asked` is the earliest
time anybody asked for in this iteration and the earliest hard one, `reported`
whether any part failed, `precommits` the number of precommits at this clock.

### RankPool

The program counters of the main thread and of every worker, with the mutexes
and conditions as the code uses them; `next_t1` is read without its lock in
`SyncShare`, as in the code. `Slice` is the division of a list (round up twice).
The main thread visits the lists for ever; visits of one list in different
passes and iterations are the same to the pool.

### CommitAll

Two lists, an iterator each, the main thread, and the threads of both
iterators. The critical sections under `start.lock` and `stop.lock` are steps of
their own, since no thread waits inside one except at its end. The constant
`EarlyThreads` says whether a new thread may run before its creator continues;
the runs exclude it (see [Divergences](#divergences), 5), while the safety
theorems hold with it. Lists are of any size; an object is its list and its
place in it, and `Share` divides the places the way `mti_init` does.

### DeferredInit

Objects wait for others; `object_init` defers an object while one it waits for
is not initialised. Arrays, counters and the swap are the code's.

### ObjectRank and RankIndex

`set_rank` calls itself on the parent; the activations are the objects in
`open`, of which only the innermost does anything before it returns, so that
`at`, `want` and `first` are its arguments alone. `Ascend` is the code of one
activation up to the call, `Return` the returns of all of them (each clears its
flag), `Refuse` the three tests that answer -1. `object_set_parent` compares
that answer with `FAILED`, which is 0 (`object.c` 822), and the loader ignores
it, so a refused call leaves parent, ranks and flags as they are; `failed`
records that it happened. Objects may be created, given parents, dependents and
ranks, or lose their parent, in any order.

When no call is active, `SetupRanks` may start. `Insert` puts an object in the
list at its rank, growing the index by doubling until the rank fits; `Visit` is
one step of the loop from `PASSINIT` while `PASSCMP` by `PASSINC`. Shuffling
(`index_shuffle`) permutes a list of one rank and does not show here.

### SyncPool

One module for three copies of the same code; `pool.kind` says which. Schedules
tell a call from the one before by its time alone, load shapes and end uses also
by a counter (`Counting`). Schedules and load shapes answer again what they
answered while it is ahead (`Cached`); a schedule of which any is interpolated
does not. Mutexes are guards: `CountDown` waits while the main thread holds
`donelock` (`armed`), and the answer is merged in the step that counts down. The
time a schedule is due next is the environment's choice, except that one that
has not come to its next change keeps it (`ScheduleTimes`). A load shape adds a
number of hours to the clock that `loadshape.c` 398 cuts to an integer, and which
may be none or less, and an end use is due when its shape is (`enduse.c` 201):
both may be due at the clock or before it (`ShapeTimes`, `EnduseTimes`), and
`AnswerRight` asks of them only that they were synchronised to the clock
(`synced`). The main loop fails at a time that is past.

### TestQueue

The stack of files is popped in three steps, so that exclusion is the lock's
doing: a lock is one number, and taking it is the step that finds it even and
makes it odd. The counters are added to under their lock, then copied by `return
*this` and assigned back by `*this = *this+a` without it, the number of the lock
included; each of these is a step. A thread that waits may at any time run out
of its `MAXSPIN` rounds, and the exception ends the program; so may the main
thread at its report (`ReportTimeOut`). The three counters of unexpected results
are one number, `errors`: each of them keeps what is said of their sum. What the program
does with a file is any of `Outcomes`; `Verdict` is how `run_test` counts it by
the marks in its name. Jobs share the stack's design and clear one flag.

### BidCurve, Clearing and Auction

`BidCurve` keeps the bids of a side and its running totals; `Clearing` computes
type, price and quantity from sorted lists, one round of the loop at a time
(`MatchStep`), then the split when both sides meet at equal quantities
(`SplitType`, `SplitPrice`), the failures and the marginal bids. Prices are
whole numbers of `bid_offset`. Where the code reads behind the end of a list,
`stale` is whatever was left there. The merge sort is modelled by its result
(`Sorted`): a bid's place is the number of bids that come before it, by price
and, at the same price, by the order of arrival, which the code reverses for
offers. Sums (`SumTo`) and the rounds of the matching (`Match`) are recursive
functions over numbers, like the loops.

`Auction` submits (`SubmitNew`), resubmits with a key (`SubmitAgain`), clears
(`ClearMarket`, all of `clear_market` with the frame it pushes and pops) and
opens the next market. A key is `[market, side, bid]`; the packing of it in 64
bits is not modelled, see [What is left out](#what-is-left-out). Bidders are the environment, and the clock never passes
the time the auction asks for, which is what the main loop promises
(`NoEventSkipped`). A market with one fixed bidder, and one whose capacity
reference cannot be read, do not clear: `ClearThrows` is the exception that ends
the run ([Divergences](#divergences) 18).

## The runs

| run | module | expects | shows |
|---|---|---|---|
| `loop_stop` | MainLoop | pass | two objects (a child and its parent), two workers, a stop time, delta updates of one or two seconds, signals; objects, commits, instances, transforms after a pass, precommit, the scripts, `delta_modedesired` and `delta_update` may fail: `StopTimeKept`, `FailureReported`, `PrecommitFirst`, `NoEventSkipped`, `ClockMonotone`, `ImplementsEventClock` |
| `loop_service` | MainLoop | pass | one worker, minimum timestep 2, objects that enter and leave service, dates close to the last one: `TypeOK`, `Terminates` |
| `pool_lists` | RankPool | pass | lists of five objects and of one, three threads: `PoolInv`, `OneListAtATime`, `SyncedOnce`, `ImplementsBarrier`, `EveryListVisited` |
| `commit` | CommitAll | pass | models of 5+0, 1+1 and 2+2 objects, the last with threads for both lists: `EachCommitted`, `ObserversLast`, `AnswerKept`, `Returns` |
| `commit_observers` | CommitAll | violation of `EachCommitted` | observers that are never committed |
| `init_once` | DeferredInit | pass | four objects that wait for each other in each of the 4096 ways, at most one retry: `ResultRight`, `DeferralKept` |
| `init_chain` | DeferredInit | violation of `ResultRight` | a chain that needs two retries |
| `rank_order` | RankIndex | pass | three objects, every order of calls, refused ones included: `RankOrder`, `FlagsCleared`, `RankBounded`, `TreeOrder`, `AllVisited` |
| `auction_clear` | Auction | pass | one clearing of any bids in each mode that clears, with and without a capacity reference, and the exception of the others: `MostTraded`, `PriceServes`, `ResponsivePrice` |
| `auction_keys` | Auction | pass | four markets with a latency of two periods, of bidders that are on or off: `KeysApart`, `TotalsRight`, `CurrentOnTime`, `MeansRight`, `MarketsInOrder` |
| `sync_answers` | SyncPool | pass | pools with one item, five schedules, three shapes: `AnswerRight`, `Returns` |
| `tests` | TestQueue | pass | three files, one or two threads, tests and jobs: `EachRunOnce`, `NoFalseAlarm`, `ExactAlone`, `AllFailReported`, `Ends` |

### Bounds, and why they are enough

- *MainLoop.* Dates end at 6 or 7 in the passing runs, and `TS_NEVER` is 20, so
  that rounding past the last date is a time of its own. `Reach` 2 makes an
  answer now, next, or after somebody else's. Two objects of two ranks, one of
  which takes part in passes 0 and 1, give two rank lists in one pass, a pass
  with one list and a pass with none. Two records are the least for which merge
  order matters. An iteration limit of 2 allows one reiteration and then
  failure. The stop time is one second (or three) after the start: the loop
  steps to it, past it, or ends before it.
- *RankPool.* A list of five objects with three threads gives shares of 2, 2
  and 1; a list of one gives a single worker. `Modulus` 2 is the smallest width
  of the start counter, for which wrap-around is every second visit; the
  theorems say the same of every width above 1. `Spurious` is a budget of
  wake-ups without a broadcast.
- *CommitAll.* `MinItems` is 1 instead of 8, so that five objects with two
  threads wanted make three processes of shares 2, 2 and 1, two objects of each
  kind give both lists two threads, and one of each kind none; times end at 3,
  so that a list may be run at one time, rejected at the next and run again; one
  object enters service late, all leave it before the last time.
- *DeferredInit.* All ways for four objects to wait for each other, any of
  which may fail. `MaxDefers` 0 and 1 in the passing run: the second retry is
  what `init_chain` is about.

- *RankIndex.* Three objects are a chain, a fork and every loop; `LastOrdinal`
  is 1 instead of 10, so that ranks of 2 and 3 make the index grow, once and
  twice. Ranks up to 3 are asked for, which is refused. One object leaves out
  the second pass.
- *Auction.* `auction_clear`: up to two bids a side, of two quantities (so that
  sums meet, pass and fall short), at five prices: the cap, its negative, zero,
  and two that are an average and an offset apart. One market suffices, since a
  clearing reads nothing an earlier one left but `load` and `stale`, which are
  chosen. Three references: none, one that only tells the load, and one that
  bids as well. `auction_keys`: four markets fill the ring's four places, so its
  back wraps while results wait, and wrap the history's three prices; one price
  and two quantities, since the prices only have to differ between markets; two
  states, so that a changed bid may move between totals; a key per bidder.
- *SyncPool.* One item (the main thread alone), three shapes and five schedules
  with two threads wanted, which the rounding of the code makes three; `MinItems`
  is 1 instead of 4; times up to `MaxTime`, calls at the clock of the last one
  included, for interpolated schedules too; a counter of runs of one bit.
- *TestQueue.* Three files are one more than there are threads. `Modulus` 2: a
  lock's parity is all the code looks at, and the theorems say the same of every
  even modulus. The order of the stack is one fixed choice.

Deadlock is checked except in `rank_order`, `auction_clear`, `auction_keys`,
`sync_answers` and `tests`: there the modelled part ends (the passes are swept,
the program has exited) or the bounded one does (the last market, the last
time).

## Divergences

Two runs show a disagreement between the code and what it says of itself; each
is a finding in `PROJECT.json` with the quotation.

1. When the ordinary objects have threads and the observers are too few for
   them, `mti_run` refuses the second list and nobody commits it
   (`commit_observers`).
2. `init_by_deferral_retry` does not reset `ct` between rounds (`init_chain`).

Others were met while modelling. The models do what the code does; the constants
of the passing runs, and the assumptions of the theorems, keep them out:

3. `exec_sync_set` stores the first soft event of an empty record with its sign
   (`exec.c` 1544); every later comparison `t < step_to` is then false and
   earlier events are lost. A stop time, which is posted first, hides this.
   `StopTime = TS_NEVER` with two workers shows it.
4. `syncall_internals` passes its answers to a variadic function whose list ends
   at `TS_ZERO`, which is also how a transform says that it failed (`exec.c`
   1262, `transform.c` 195): the failure, and the times after it, are dropped.
5. A new iterator thread tests `enabled` before its creator sets it
   (`threadpool.c` 241), ends, and is awaited for ever by the next commit.
   `EarlyThreads = TRUE` shows it.
6. The time at which a module wants delta mode is posted in `main_sync`, which
   is reset a few lines later (`exec.c` 1957).
7. In realtime mode the condition of the loop does not look at the status
   (`exec.c` 1852), and the next iteration resets it: a run in which something
   failed returns success.
8. Schedules of which one is interpolated are synchronised at every call, but
   their threads tell one call from the next by its time only (`schedule.c`
   1088; `loadshape.c` 900 and `enduse.c` 228 also count): a second iteration at
   one clock waits for ever. The model does too (`Forgotten` in the proofs);
   `Again` exempts that call from `Returns`, and TLC finds `Returns` violated
   without it.
9. A parent loop is created, though `object.c` 1191-1194 says that `set_rank`
   prevents it: the parent is set before, and the answer -1 is not looked at.
   Flags of a refused climb stay. `RankOrder`, `FlagsCleared` and `TreeOrder`
   are about models in which no call was refused; `RankBounded` and
   `AllVisited` hold of all.
10. `object_set_rank` with r makes the rank r+1.
11. `counters::operator+` does not add access failures, so that a test whose
    directory cannot be used never makes the program fail; and assigning the
    sum back loses what other threads added, and may bring back a lock that is
    taken by nobody (`validate.cpp` 45): the next thread spins `MAXSPIN` rounds
    and the program ends by an exception (`TimeOut`); or, if that was the last
    thread, the main thread does, whose report takes the lock once more
    (`validate.cpp` 804 and 100, `ReportTimeOut`). `ExactAlone` is about one
    thread and the failures that are counted, `NoFalseAlarm`, `AllFailReported`
    and `Ends` about any number of threads.
12. A test of an error that ends with success counts as expected: the branch
    for unexpected success is never reached (`validate.cpp` 504).
13. The exit code of the job queue is inverted (`job.cpp` 372, 392). The model
    returns it as the code does; no property is about it.
14. With a last buyer at the cap the price is just off the next buyer, or that
    of the last seller if the next buyer is no better (`auction.cpp` 1207; 1209
    is the same of sellers), while the comment at 1205 promises one that
    triggers no other bid. There need not be a next buyer, and 1207 reads behind
    the list; a next buyer just at the last seller's price meets it; and when
    only bids at the cap and its negative are matched the price is 0, whoever
    would meet that (1265-1269, which also overrides what 1215 computes from an
    index of offers and the number of asks). These are the exceptions of
    `ResponsivePrice` (`NextAskApart`, `NextOfferApart`, `OnlyLoads` and
    `OnlySources`); TLC finds it violated without any one of them.
15. When all asks are matched and sellers are left, the sellers are marginal at
    the buyer's price (`AsksExhausted` exempts this from `PriceServes`).
16. A key of a bid holds 16 or 19 bits of its index (`bid.cpp` 36-47): a market of
    more bids than that mixes its keys up. The model's bids are few.
17. `auction.cpp` 1205 says of a price between bids that it "needs to be just off
    such that it does not trigger any other bids", but 1225-1228 compare the
    average with the next bids strictly: a last buyer at 10, a last seller at 2
    and a next buyer at 6 clear at 6, which that buyer meets. `PricesApart`
    keeps such prices out of `ResponsivePrice`. The same condition keeps out
    prices closer than the offset, between which there is no room, and an
    average that is rounded down to a price here and not in the code.
18. In the two modes with one fixed bidder, `clear_market` submits its bid with
    `submit` (`auction.cpp` 1039 and 1047), which takes the lock of the auction
    (1446). The core has taken it for the length of the call, since the class
    asks for that (79, `object.c` 1391), and it is a spin lock that does not know
    its owner: after `MAXSPIN` rounds (`lock.cpp` 170-183) the exception ends the
    run. The modes have no keyword (97-99) but can be set by number. A capacity
    reference that cannot be read or converted ends the run as well (863-877,
    912-923). In both cases the step is `ClearThrows`.

And, about paths between components:

- `delta_modedesired` failing, or delta mode wanted with a minimum timestep
  above one second, leaves the loop by `break` with nothing posted, so that
  `exec_start` returns `SUCCESS` in mode `SM_ERROR` (`exec.c` 1940). The step
  is in the model (`DeltaRefused`) and fires in both runs: in `loop_stop` for
  the failure, in `loop_service` for the timestep. `FailureReported` names it as
  its exception (`LeftByBreak`); `StopTimeKept` and `EventClock` treat it as an
  abort.
- A delta update that ends at its first step advances the clock by zero
  seconds; the next iteration is a first one again, precommit happens twice at
  one clock, and the iteration limit does not count it. `DeltaSeconds` excludes
  0 in the passing runs.
- In realtime mode the clock moves on although the iteration at the old clock
  asked for a reiteration, so that the next clock has no precommit (`exec.c`
  1885). No passing run is in realtime mode.
- `commit_call` of the threads tests service times and calls the class's
  commit itself, while `commit_all_st` calls `object_commit`, which turns an
  old-style answer of 1 into "no event". With threads that 1 is a time before
  every clock and ends the run. `CommitAll` models both.
- With two lists that both have threads, the observers' answer replaces that of
  the ordinary objects instead of being compared with it (`exec.c` 1096). The
  run `commit` has two such lists: `EachCommitted`, `ObserversLast` and `Returns`
  hold of them, and `AnswerKept`, which does not, exempts them.
- When only the observers have threads (one ordinary object and many
  observers), `commit_all_st` commits both lists at the visit of the first, and
  the threads commit the observers again at the visit of the second (`exec.c`
  1095-1101). The condition `OneWay` of the theorems excludes both.
- An iterator starts when its input differs from the last one: a second commit
  at the same clock would wait for ever. The loop commits at increasing clocks
  unless a delta update advances by zero.
- After an odd number of swaps the deferral code frees its caller's array
  (`exec.c` 682), which is freed again there.

## Fairness

- `MainLoop`, `FairSpec`: weak fairness of `LoopStep`. The loop is one thread of
  the process and at each of its points some step is possible. The answers are
  the environment's, so no answer is required ever to come up. `Terminates`
  follows from the iteration limit and from the stop time alone.
- `RankPool`, `FairSpec`: weak fairness of the main thread and of each worker,
  that is, the system schedules every runnable thread. The mutexes need no
  strong fairness here: each is contended for a bounded number of steps per
  visit. Spurious wake-ups are bounded by `Spurious`, since a thread that is
  woken for no reason for ever makes no progress under any scheduler.
- `CommitAll`, `Spec`: weak fairness of the main thread inside a call, and of the
  iterators' threads together, which is less than the system gives each of them:
  a thread runs only so far before it waits or ends, so all come to that.
  Nothing makes a call come.
- `SyncPool`, `Spec`: the same for a call that is active and for the pool's
  threads.
- `TestQueue`, `Spec`: each thread runs, and so does the main thread after all
  have ended (`Return \/ ReportTimeOut`). A thread whose step is waiting for a lock either gets it or times
  out, which is the same fairness (`ThreadStep \/ TimeOut`); nothing says that
  it ever gets it.

## The proofs

Each component has its proofs in a module of their own, and each of them goes the
same way: an invariant that is inductive, one lemma for each action, a theorem
that the specification keeps it, and from it the properties the runs check. The
assumptions are those of the component's module (`ASSUME`), and those a section
names where the code does something else without them.

### The main loop

`MainLoop_proofs` assumes `MainLoopAssumption` and, for all but the first
theorem, `Bounded`: a simulated clock, a stop time not before the start time,
and no failing loadshape transform. Each part of `Bounded` excludes a run in
which the code really does otherwise: without a stop time a soft event is posted
with its sign, the error of a loadshape transform is lost together with the
times compared after it, and a realtime run goes on after a failure
([Divergences](#divergences) 3, 4, 7). Objects, ranks, passes, threads, limits, faults and the
answers of the environment are arbitrary.

| theorem | states | further assumption |
|---|---|---|
| `TypeCorrect` | `Spec => []TypeOK` | not even `Bounded` |
| `EventsCorrect` | `Spec => []EventInv`, the invariant the others use | |
| `EventsKept` | `Spec => NoEventSkipped` | |
| `ClockForward` | `Spec => ClockMonotone` | |
| `StopTimeHolds` | `Spec => []StopTimeKept` | |
| `EventClockImplemented` | `Spec => ImplementsEventClock` | |
| `FailuresReported` | `Spec => []FailureReported` | |
| `PrecommitsOnce` | `Spec => []PrecommitFirst` | `DeltaAdvances`: `delta_update` does not answer zero |

*The invariant.* `asked.any` is lowered at once when somebody answers, the main
event only when the answer is posted or the worker's record merged, and
rounding may post a later time than was asked for. `EventInv` is `LoopInv`
(types; no event is posted for the time zero; iterations are left while the loop
runs) and

- `Covered`: the earliest time asked for is, up to the minimum timestep, in the
  main event or in the record of a worker *pending*, that is, not merged yet; or
  one of these has failed;
- `Ahead`: nothing in the main event or in a pending record is before the clock;
  the main event is hard and holds a date, because the stop time is posted first
  in every iteration - this is what rules out the signed soft event;
- `Ended`: a run that was left with success has no hard event left within the
  stop time, and the result is the status or `FAILED`.

At the head of an iteration nobody is pending, so `Covered` speaks of the main
event alone, and the clock moves to its time.

*The argument.* The lemmas about `SyncSet`, `SyncMerge`, `EarliestTimestamp`,
`RoundUp` and `ThreadPost` say of each what it does to the time and the status
of a record; `InternalsFacts` composes them for `syncall_internals`
(`AskFacts` does the same for the history). `TypeStep` and the `Event...` lemmas
take the actions one by one; those that post nothing are one case (`QuietStep`).
`ReportedInv` (a reported failure is in the main event, in a pending record or
in the result, or the loop was left by the break) and `PrecommitInv` (iterations are used up exactly when the next
one is at the same clock) are inductive together with `EventInv`.

### The rank list thread pool

`RankPool_proofs` proves, for every number of threads, lists and objects and
every width of the start counter (assumption `RankPoolAssumption`: more than one
thread, at least one list, no empty list, modulus at least 2):

| theorem | states |
|---|---|
| `TypeCorrect` | `Spec => []TypeOK` |
| `CountCorrect` | `Spec => []PoolInv` |
| `NoOverlap` | `Spec => []OneListAtATime` |
| `NoneTwice` | `Spec => SyncedOnce` |
| `PoolIsBarrier` | `Spec => ImplementsBarrier` |

*The invariant.* What has to be shown is that the main thread leaves a list only
when its last object is synchronised. `donecount = 0` says this only together
with what the counter counts, so the invariant is `TypeOK /\ PoolInv` with

- `CountKept`: while a list is handed to its workers, `donecount` is the number
  of workers that still *owe* their share (start condition not yet copied, or
  copied and not counted down yet);
- `SharesKept`: the shares of those that copied the start condition are
  synchronised, the others' are untouched;
- `WorkersKept`: a worker that is synchronising owes its share, one that counts
  down has copied the start condition, and no worker of another list, or outside
  a visit, owes anything.

The last is what makes the unlocked read in `SyncShare` harmless: the start
condition of a list changes only when no worker of it owes anything. It is also
why one bit of counter is enough.

*The argument.* Each step of the main thread (`MainStepInv`), of a worker
(`WorkerStepInv`) and each spurious wake-up (`WakeInv`) preserves the invariant;
the cardinality of the owing workers goes down by one with `CountDone` and is
the number of workers when the list starts (`CrewSize`). From
`donecount = 0` no worker owes, hence every share is synchronised, and by
`SlicesCover` the shares are the whole list; by `SlicesDisjoint` no object is in
two of them. The lemmas about the division by rounding up (`DivFacts`,
`DivBound`, `DivExact`, `NThreadsBound`, `SliceNotEmpty`) are what a reader of
`exec.c` 2053-2064 has to convince himself of. `PoolIsBarrier` maps `synced` to
the empty set outside of a visit: a worker's share is a step of `RankBarrier`,
`Leave` is the step to the next list, everything else stutters.

### Ranks and their index

`RankIndex_proofs`, for every finite set of objects, every assignment of passes
and every initial size of the index:

| theorem | states |
|---|---|
| `Typed` | `Spec => []TypeOK` |
| `RanksOrdered` | `Spec => []RankOrder` |
| `FlagsReturned` | `Spec => []FlagsCleared` |
| `RanksBounded` | `Spec => []RankBounded` |
| `TreeOrdered` | `Spec => []TreeOrder` |
| `SweepComplete` | `Spec => []AllVisited` |

*The invariant.* `RankOrder` is not true during a climb. `RankInv` says that the
only edges out of order then are those to the object that is entered next, and
that the rank passed to it puts them right; an activation repairs these and may
only disturb the edge above. `IndexInv` says that what has been inserted stands
at its rank, within the size and between the first and the last ordinal used,
which growing keeps because the entries copied are all there are. `SweepInv`
says that what is synchronised is exactly what the position has passed, from
which both `AllVisited` and, with `RankOrder` kept since the model was finished,
`TreeOrder` follow. `RanksBounded` needs only that a rank is raised to at most
one more than what `Refused` lets through.

### Self tests

`TestQueue_proofs`, for all files, any number of threads, every even modulus:

| theorem | states |
|---|---|
| `QueueCorrect` | `Spec => []QueueInv` |
| `RunOnce` | `Spec => []EachRunOnce` |
| `CountCorrect` | `Spec => [](QueueInv /\ CountInv)` |
| `Typed` | `Spec => []TypeOK` |
| `NoneFalse` | `Spec => []NoFalseAlarm` |
| `SomeReported` | `Spec => []AllFailReported` |
| `AloneExact` | `Spec => []ExactAlone` |

*The invariant.* `LockKept`: the stack's lock is odd exactly while some thread
is inside, and then one is. `FilesKept`: a file is on the stack and not run, or
owned by one thread, or run once; a thread leaves only when the stack is empty.
`CountsKept` is about the counters, which no lock protects in the end: the
counters and every copy hold at most as many errors as there are failed tests
that are not waiting to be added by the thread that ran them; a thread that adds
moves its one test from "waiting" to the counters, and copying an old value can
only lower them. So errors get lost, but none is invented.

That they are not all lost when every test fails (`ReportInv`) is an argument in
two stages. Until a first result is stored (`NoneStored`) the counters' lock
has only been used as it should, and whoever has run a test is about to store
its error. From then on (`SomeStored`) the counters hold an error, and so does
every copy of them that may still be assigned, whatever becomes of the lock:
each was taken of counters with an error, or has its own test added before it is
assigned.

A thread that is alone (`AloneInv`) finds the counters' lock taken exactly while
it holds it itself, so it never waits, and what it copies and assigns back is
what was there: a failed test (`Missed`) is in its result, in its copy or in the
counters, and so it is reported, and the report at the end does not wait either. What the copies do to the number of the lock
does not matter, because both are of the same parity when it assigns.

### The pools of schedules, load shapes and end uses

`SyncPool_proofs`, for every set of pools, any number of threads and every
modulus of at least 2:

| theorem | states |
|---|---|
| `PoolCorrect` | `Spec => []IInv`, the invariant the others use |
| `Typed` | `Spec => []TypeOK` |
| `AnswersRight` | `Spec => []AnswerRight` |
| `QuietPool` | `Spec => []QuietBetweenCalls` |
| `OnlyPlansForget` | `Spec => [](Forgotten => pool.interpolated /\ pool.kind = "schedule")` |

*The invariant.* `SharesKept`: a thread's own earliest time is that of the items
of its share it has been through. `ThreadsKept`: during a call `donecount` is
the number of threads that are `Owing`, those that have not seen the call
(`Stale`) and those that have not counted down, and the answer merged so far is
the earliest time of the shares of all others (`Counted`); between calls every
thread is `Fresh`. `ClockKept`: a call that wakes threads is told from the one
before, or it is one of interpolated schedules. For schedules, which have no
counter, this holds because a second call at the same clock would be answered
from the last one: the answer is then ahead of the clock, which the same conjunct
says, since each item is `Settled`, and a schedule that has been synchronised is
due later (`AnswersLater`). The call that cannot be told from the last one
(`Forgotten`) is the only one in which `donecount` counts nobody; it is of
interpolated schedules ([Divergences](#divergences) 8).

*The argument.* The shares are apart and cover the items (`DivFacts`,
`WantedBound` and the lemmas after them are about the division, which rounds the
shares down and gives what is left to threads of its own). `CountDown` takes one thread from
`Owing` and adds its share to `Counted`; when the count is zero `Counted` is
every item, so the merged answer is that of the call.

### The commit

`CommitAll_proofs`, for lists of any size, any number of threads, any commit and
service times, and threads that run before their creator goes on:

| theorem | states | further assumption |
|---|---|---|
| `CommitCorrect` | `Spec => []IInv`, the invariant the others use | |
| `Typed` | `Spec => []TypeOK` | |
| `ObserversAfter` | `Spec => []ObserversLast` | |
| `EachOnce` | `Spec => []EachCommitted` | `OneWay` |
| `AnswersGiven` | `Spec => []AnswerKept` | `OneWay` |

`OneWay`: one of the two lists is empty, or neither is shared by threads. In
each of the other cases the code does otherwise: it leaves the observers out
([Divergences](#divergences) 1), commits them twice, or loses the answer of the
ordinary objects.

*The invariant.* `IteratorKept` says which lists have an iterator, `ClockKept`
that a list that was not visited in this call has an older input - so the
threads, which tell one run from the next by the input alone, see this one.
`ThreadsKept`: while a list is run, its stop count is the number of threads that
are `Owing`, those that have not copied the input and those that have not counted
down; at any other time every thread has copied it. `OrderKept` says for each
place in the call what has been committed: of a list that is run, exactly what
the threads have `Passed`. `AnswersKept`: the earliest answer, and a failure, are
in the output or with a thread that has not given its answer yet (`Held`).
`OutputKept`: between two runs the output is no later than anybody asked for in
the last one, which is what makes it right to reject the list by it.

*The argument.* One lemma per action. When the stop count is zero nobody owes,
hence everybody has passed the whole share, and every object is in one
(`OwnShare`, from the lemmas about rounding down: `WantedBound`,
`ProcessesBound`, `IntervalSize`). A thread that commits its next object changes
what is passed by that object alone (`ShareIndex`, `IndexType`). `StopThread`
takes one thread from `Owing` and moves its answer to the output.

### Deferred initialisation

`DeferredInit_proofs`, for every number of objects, whatever they wait for and
whichever fails, under `OneRetry` (`MaxDefers` is at most 1; the second retry is
[Divergences](#divergences) 2):

| theorem | states |
|---|---|
| `DeferralCorrect` | `Spec => []IInv`, the invariant the others use |
| `ResultsRight` | `Spec => []ResultRight` |
| `DeferralsKept` | `Spec => []DeferralKept` |

*The invariant.* What is left to try stands in the array, each object once
(`Lists`), at first and before a round (`FirstKept`, `RoundKept`); during a round
it is what the round has not come to together with what it has deferred again
(`RetryKept`). As long as all tried were deferred again, nothing has been
initialised since the round began, so that none of them is `Ready`: this is why
a round that defers everything may end in failure.

### The auction

`Auction_proofs`, for every number of bidders, markets, bids and keys, every
period and latency, any finite set of statistics, any prices and quantities, in
every mode (of which some never clear, [Divergences](#divergences) 18):

| theorem | states |
|---|---|
| `KeysStayApart` | `Spec => []KeysApart` |
| `TotalsAdd` | `Spec => []TotalsRight` |
| `RingHolds` | `Spec => []FrameInv`, the invariant of the next two |
| `InTime` | `Spec => []CurrentOnTime` |
| `InOrder` | `Spec => MarketsInOrder` |
| `MeansAreRight` | `Spec => []MeansRight` |
| `TradesMost` | `Spec => MostTraded` |
| `PriceIsRight` | `Spec => PriceServes` |
| `PriceTriggersNone` | `Spec => ResponsivePrice` |

The assumptions are that prices are whole numbers (of the offset), the cap is
positive, the period is, and that a market's fixed quantity is not negative,
which `auction::init` makes sure of (363).

*Keys and results.* `KeyInv` adds to `KeysApart` that no key is of a market to
come, so that a market opens with no keys. `FrameInv` counts: `Delay` is the
latency in periods, rounded up, and `Pending` the markets between the result in
force and the one that is open. `RingKept`: the ring holds just the pending
results, in order, with starts a period apart, and there are at most `Delay`;
`CurrentKept`: once a result is in force there are exactly `Delay`. The front of
the ring is due when `Delay` results wait and not before (`DueFacts`), so each
clearing from then on takes one out and puts one in. The ring has more than
`Delay` places (`DelayFacts`), one of them the cost of telling full from empty;
the branch of `push_market_frame` that finds it full is never taken. `RingFacts`
is the arithmetic of the places, `FrameLater` the step.

*Totals.* `TotalsInv` is `TotalsRight` of both sides. A submission appends one
value to three sums; a resubmission changes one value of each, whatever states
the old and the new bid have (`SumChange`).

*Means.* `LogKept`: the k-th place of the ring of prices before the index holds
the price of the k-th market before the present one, or the initial price. From
it `FramesKept`: the mean in each frame is that of the markets before its own,
because a window reads the ring in the same places modulo its size
(`WindowRight`), whether it wraps or not.

*The clearing.* These are properties of one step, and need of the state only
that the books are lists of bids with the right totals (`BidsInv`). The lists
that are matched are sorted (`SortOrder`: with a linear order everything has a
place) and have the quantities of the books at every set of prices (`SumOrder`:
sums do not depend on the order). `Matching` is the loop's invariant: both sides
are matched up to their next bids, what is matched is the larger of the two
quantities, the next bid of the side that is behind reaches beyond it, and the
last prices matched are those of the bids just passed, or, while one bid is
partly matched, of that bid. Each round gets one bid further (`MatchingStep`),
so after as many rounds as there are bids the matching has ended (`MatchFacts`).
Then no price lets more change hands than was matched (`MatchMost`): above the
last buyer's the asks, at or below it the offers, are no more than that.

`PriceIsRight` follows the ways in which the matching may end, a buyer left, a
seller left, or both sides met (`MatchedServes`); one-sided markets are
`SellersGood` and `BuyersGood`. The conditions under which `PriceServes` holds
came out of this proof: a price below the negative of the cap is not cut off when
it is bid but when the market has cleared (`NoneBelow`); a changed bid may be one
of nothing, and then the marginal ones get nothing (`NoneEmpty`); and
`AsksExhausted`, [Divergences](#divergences) 15. Those of `ResponsivePrice` are
[Divergences](#divergences) 14 and 17: different prices are further apart than
the offset, and the average of two is not the price of a third
(`RoomBetween`); and where all that one side has matched does not respond, there
is a next bid of that side, away from the last one of the other (`LoadsApart`,
`SourcesApart`, from which `EndsAreApart`). `RoomPrice` is the case distinction
on where the average lies, `EdgePrice` that on where the next bid does when a
side is at the cap.

### Induction

Sums, the rounds of the matching and the order of a sort need induction. The
library's induction theorems have a predicate as a parameter, which no backend
instantiates; but that the numbers are well-founded is stated there about a set
(`NatLessThanWellFounded`, `WFMin`). `LeastNumber` and `AllNumbers` say it in
the form the proofs use: a set of numbers that has 0 and with each number the
next has all of them.

*Only model-checked:* liveness (`EveryListVisited`, `Terminates`, `Returns`,
`Ends`), which is beyond the proof system; the runs of `MainLoop` outside
`Bounded`; deferral with more than one retry, where the property fails. Every
safety property of the passing runs is a theorem, under the assumptions named
above.

## What is left out

- The debugger and the slave's pause inside the loop, thread creation that
  fails (the code counts such a thread, and waits for it), allocation that
  fails, profiling and messages.
- *Main loop control* (`exec.c` 1349-1459). Its waits end by signals from
  outside of the core. Two of its conditions do not say what their comments do:
  a pause ends only when the clock is before the time to pause at (1404), and
  the mask of states is combined with "or" (1449), so that a wait for a state
  never waits.
- *Multi-run instances.* The master waits for `mls_inst_signal`, which nothing in
  the repository signals; there is no complete run to model.
- *Delta mode's inner loop.* Its steps are real times and its answers the
  modules'; `RunDelta` is what the main loop sees of it.
- *Auction.* Standard deviations, the forecast, files, the controllers that bid,
  and the packing of keys. Markets whose latency is not a multiple of the period
  get their results late (`CurrentOnTime` is about the others).
- The numerical content of modules, schedules, load shapes and end uses: they
  are the environment of the loop.
- Text (loaders, conversion, units, output), the registry, the GUI and the
  server: no protocol the run depends on.
- Front ends, build files, example models and vendored libraries.

`PROJECT.json` lists every component with its status and reason.

## The plan

What would come next, with its theorems:

1. That each bidder's share in a clearing is right, summed over the bids: the
   quantity of a clearing is what the bids at better prices and the marginal
   ones get together.
2. Liveness arguments by hand for the pools, as invariants that some thread can
   go on (the part of them that is a state predicate).
3. `DeltaMode`: the inner loop of `delta_update` as a refinement of `RunDelta`.
4. The bidders of `market/controller.cpp` in place of the auction's environment.

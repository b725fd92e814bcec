# A verification project for OMP-WHIP

OMP-WHIP profiles OpenMP programs. A library loaded into the program listens to
the OMPT events of the LLVM OpenMP runtime and builds a *dynamic program
structure tree* (DPST); an analyzer reads the tree and the work measured for
its leaves and computes the parallelism of the program, the part each call site
has on the critical path, and what would happen if a region ran faster
(what-if analysis). This directory models the program in TLA+, checks the
models with TLC on small instances and proves what matters most with TLAPS.
Paths below are relative to the repository; `offline`, `online` and `analyzer`
are `src/ompproflib_offline`, `src/ompproflib_online` and `src/analyzer`.

## 1. Inventory

### The tree
Internal nodes are FINISH and ASYNC; leaves are STEPs, runs of code between two
events, with the work measured by a hardware counter. A child is ordered before
its right siblings, except that what is under an ASYNC child may run in
parallel with its right siblings. Every node has an id from one atomic counter
(`node_ctr`), and the analyzer orders siblings by id, so *the order in which ids
are taken is the order of the tree*.

### Components, state, operations

| component | state | operations |
|---|---|---|
| off-line `OpenmpProfiler` (`offline/openmp_profiler.cpp`) | `last_nodes[tid]` (stack of open nodes), `node_ctr`, `num_threads`, `barrierCount[tid]`, `pendingFinish`, `implEndCount`, `taskMap`, `callSiteMap`, `callSitesToRemove`, `firstDispatch[tid]`; tree files | one handler per OMPT event: parallel, implicit task, barrier, task, taskwait, single, master, loop, dispatch |
| off-line `PerfProfiler` (`offline/perf_profiler.cpp`) | per thread: `step_work_list` (1024 entries), `last_allocated`, `perf_fds`; shared `regionMap`; step files | stop the counter and log a step at every event that ends a step; start it at every event that begins one; causal regions; `finishProfile` |
| OMPT glue (`offline/ompt-tool.cpp`) | none | calls the two profilers in an order that depends on the event |
| on-line `OpenmpProfiler`, `PerfProfiler` (`online/`) | open nodes with running summaries (work, critical work, call-site maps), two mutexes | the same events; `pushNode`, `popNode` fold a completed node into its parent and free it |
| analyzer (`analyzer/profileReader.cpp`) | `internalNodesMap`, `dpstTree`, per node work, critical work, exclusive work, `ssList`; call-site maps; task dependences | read files, build the tree, bottom-up passes for work and critical path, call-site attribution, what-if passes, lock profile |
| LLVM OpenMP runtime (`openmp/`, vendored) | teams, barriers, task queues | raises the events; the environment of all of the above |

### How they interact
The runtime calls the glue on the thread that meets the construct. For an event
that ends a step the glue first lets `PerfProfiler` log a step whose parent is
`getCurrentParent(tid)`, the top of the thread's stack, and then lets
`OpenmpProfiler` change the stack; for an event that begins a step the order is
reversed. Threads share `node_ctr` (atomic), `taskMap` and the call-site maps
(one mutex), and `barrierCount`/`pendingFinish` (`bar_mutex`) and `implEndCount`
(`par_mutex`). The stack of a worker is written by the master in
`captureParallelBegin`, before the worker is released. The analyzer runs after
the program and knows only the files.

### What is hard, and what correct means
* **Barriers without waiting** (`openmp_profiler.cpp:540-601`). The profiler never
  blocks a thread. Which FINISH node a thread gets at a barrier is decided by
  counters, while other threads are a barrier ahead or behind. Correct: the
  phases of the tree are the phases of the runtime.
* **The end of a region** (`:208-229`, `:513-538`). The join barrier only
  gathers; a worker's last handlers race with the master, which spins on a
  counter. Correct: nothing of a region happens after it, and the spin ends.
* **Reuse**. Counters and nodes of one region are still there when the next one
  starts with another team.
* **Explicit tasks** (`:442-476`, `:647-729`). The FINISH node of the tasks of a
  context is opened lazily and closed by whichever handler comes next; tasks
  move between threads. Correct: each step is under its own task's node, and
  the tree orders what the program orders.
* **Events of work-sharing constructs** arrive in a surprising order when a
  dynamic loop runs out of chunks (`loop_end` before the last dispatch).
* **A bounded buffer** with flush (`perf_profiler.cpp`), and an access one past
  its end at exactly full.
* **Summaries computed while the tree grows** (on-line), with nodes freed.
* **Maxima kept with a witness** (analyzer): the critical path and the list of
  call sites on it are updated by different statements.

`PROJECT.json` lists every hazard at its line, with the properties that would
catch it.

## 2. Plan

Done, in this order:

1. `OpenmpRegions`: the fork-join core, and `OpenmpRegionsProofs`.
2. `OpenmpTasks` (extends 1): explicit tasks, taskwait and work-sharing
   constructs on the same stacks, with the counter of `PerfProfiler`.
3. `StepLog` (abstract) and `StepBuffer` (refines it): the log of a thread and
   the rows that implement it, with critical sections and what-if regions;
   `StepLogProofs`, `StepBufferProofs`.
4. `BulkSynchronous`: what a region is without stacks and counters;
   `OpenmpRegions` implements it, and `PhasesProofs` proves so.
5. `OnlineProfiler` (extends 2): the on-line handlers on the same events, with the
   summaries that `pushNode` and `popNode` compute while the tree is built.
6. `Analyzer`: `BuildTree`, work and critical path with and without task
   dependences, call sites and what-if, over every tree within a bound.
7. `WorkIsMeasured` proved for programs without undeferred tasks, in `TaskStacksProofs`.
8. The tree of a region, in `PhasesProofs`.
9. `TaskStacksProofs`: the stacks of `OpenmpTasks` and what follows from them.
10. `TaskTreeProofs` (extends 9): the tree of `OpenmpTasks`.
11. `OnlineNodesProofs` (extends 5 and 9), what the on-line handlers do to nodes and
    stacks, and `OnlineProofs` (extends it), that both modes agree.

Not done: that no node is freed too early, proved and not only model-checked, from the
stacks of 11; what-if regions and critical sections in `OnlineProfiler`, and `updateLoc`
there.

## 3. Modules

### OpenmpRegions
Models `captureParallelBegin/End`, `captureImplicitTaskBegin/End` and
`captureBarrierBegin` with the steps logged by `PerfProfiler` at the same
events, called by the threads of one team.

| model | code |
|---|---|
| `last_nodes[t]`, a sequence of `[id, type, parent, finish_flag]` | `last_nodes[tid]`, a vector of `TreeNode` |
| `tree`, `steps` | the rows written to the tree and step files |
| `node_ctr`, `num_threads`, `barrierCount`, `pendingFinish`, `implEndCount` | the variables of the same name |
| `abort` | the assertion that has stopped the program, "no" if none |
| `pc`, `released`, `team`, `barriers`, `arrived`, `region` | where the runtime and each thread are (`kmp_runtime.cpp`, `kmp_barrier.cpp`) |
| `region_nodes` | history: the two FINISH nodes of the region |

A handler is one action where it only touches the thread's own stack and the
atomic counter, and is split where it takes a lock that other threads contend
for: `BarrierBegin` and `BarrierFirst`/`BarrierOther` are the parts of
`captureBarrierBegin` before and under `bar_mutex`; `ImplicitTaskEnd` and
`CountImplicitEnd` those of `captureImplicitTaskEnd` before and under
`par_mutex`. An action takes its ids together; in the code another thread may
take one in between, which only moves ids of nodes that are not siblings, or
whose order nothing depends on. The runtime's part: a plain barrier lets a thread
go when the team has arrived (`BarrierEnd`), the join barrier only gathers, so a
worker ends its implicit task as soon as it has arrived and the master when all
have (`MayEnd`). The spin of `captureParallelEnd` is the guard of `ParallelEnd`.

`omp_get_thread_num()` (used by `PerfProfiler`) and `ompt_get_thread_id() - 1`
(used by `OpenmpProfiler`) are one number in the model: they agree as long as
regions are not nested and all threads come from one team. Nested parallelism
is outside the model.

### OpenmpTasks
Extends `OpenmpRegions`. Its `TP...` actions are the actions of
`OpenmpRegions` conjoined with what the same events do to the counter
(`counting[t]` is `perf_fds[t] # 0`) and to the history; then come the handlers of
task_alloc, task_begin, task_end, taskwait, single, master, loop and dispatch.

* `taskMap` and `firstDispatch` are the variables of the code. The FINISH node of a
  context's tasks is opened in `TaskAlloc` unless it is on top of the stack
  (`finish_flag`), and removed by `Cleanup` in `AfterTaskwait`, `Closed` and
  `ImplicitTaskEnd`.
* `tasks` and `frames` are what the runtime and the program are doing. `frames[t]` is
  the stack of contexts (serial code, implicit task, explicit tasks) on thread
  `t`: a task runs on top of the one that waits. `MayRun` says where the runtime
  runs a pending task: in a taskwait if the task descends from the waiting one
  (the constraint in `__kmp_remove_my_task`), in a barrier that has not been
  released, or on a worker that has ended its implicit task and idles.
  A barrier is released when all have arrived and all tasks are done. With
  `Undeferred`, or in a team of one, a task may run inside its task_alloc.
* `log` is history: for every step its path in the tree and the steps the *program*
  orders before it, by forks, joins, barriers, task creation, taskwait and the
  sequence within a task. `past` is computed from what the program does and never
  from the tree, so the two properties below compare two independent accounts.
  Chunks of a loop are not ordered, and the end of an undeferred task is not an
  order (the program may not rely on it). Chunks of one thread are logged in the
  order they are taken.
* `LoopDrained` is the pair of events at the end of a dynamic loop: the runtime
  raises loop_end (`OMPT_LOOP_END` in `kmp_dispatch.cpp`) *before* the dispatch
  event without a chunk, so that loop_end pops the chunk and the dispatch event
  the loop.
* `Waits` names the places a program reaches only after a taskwait when it has
  tasks outstanding. It is a restriction of the program, not of the profiler:
  each run says which programs it is about, and section 7 says what happens
  outside.

Not in the module: explicit tasks outside a region, constructs inside explicit
tasks, a taskwait with nothing to wait for (it logs a step and changes nothing
else), untied tasks, taskgroup, task dependences, call sites.

### BulkSynchronous
What `OpenmpRegions` has to record: the members of a region are in numbered phases;
a thread advances only when none is behind it, so no two are more than one phase
apart; the thread that is first opens the phase; nobody leaves but from the
last; the region is over when all have left. `PhasesOfRegion` in `OpenmpRegions` is
the refinement mapping. The phase of a thread is read off its *stack* (`PhaseOf`:
the FINISH node below its ASYNC node), the number of phases off `pendingFinish`,
so the mapping depends on the profiler's data and not on its counters alone.
Left out is a thread in the middle of `captureBarrierBegin`, which has no phase
node for a moment and counts as still in the one it closed.

### OnlineProfiler
Extends `OpenmpTasks` and runs the on-line handlers on the same events next to the
off-line ones, so that the two modes can be compared. (No program loads both;
neither has an effect on the other.)

| model | code |
|---|---|
| `open[t]`, a sequence of ids | `last_nodes[tid]`, a vector of pointers |
| `node`, a function on the ids of the nodes in memory | the `TreeNode`s allocated and not deleted |
| `allCallSites`, `loopInstances` | the variables of the same name |
| `reading[t]` | the local copy of a task's parent in the middle of `pushNode` |
| `sited`, `pushed`, `torn`, `measured` | history |

`PopNode` is `popNode` with its parts in the code's order: the last thread out of
a phase (`LastOut`), the path settled (`Settled`), its own part (`OwnPart`), the
call site credited unless nested in itself (`Outermost`, `Credited`), the parent's
fields updated under its lock (`Folded`), the node freed. A handler is one action
as in `OpenmpTasks`, except that `captureTaskBegin` is two (`OnTaskRead`,
`OnTaskBegin`): `pushNode` reads the parent's counters one by one without its
lock while the creator goes on. What a step weighs is a function of its id
(`Weight`), so that different steps have different weights.

Ids are those of the off-line handler of the same event. That is sound as nothing
on-line reads an id.

### Analyzer
State is the rows of the files and the profile. Rows are chosen one at a time, in
the preorder of a walk (`Parents`), so every tree is built once; `Write` keeps room
for a child under every node. Then come the passes over the tree: `Analyze` for the
profile (`ComputeAllWork`) and a `WhatIf` for every question `FullCausalProfile` asks,
`PAR_INC_COUNT` speedups for the region and again for all regions together. Passes
share the nodes (`ssList` of each), `allCallSites` and `loopInstances`: a `Pass` takes what
the one before has left and drops what the code drops (`Emptied`, `Cleared`). A
node's children are folded left to right (`NodeWork`) with the record of the local
variables of `ComputeNodeWork` (`NoChild`); `TakeAsync`, `TakeFinish` and `TakeStep`
are the branches of its loop. `ComputeNodeWorkTaskDep` and
`FullComputeNodeWorkCausal` repeat that text with one change each, so they are the
same operator (`NodeWork`) with `deps` true or with other weights (`Faster`). `stale` is history: a
step has taken the path back from an ASYNC child, and the list has stayed.
Restrictions on the rows: one parallel region (so one entry of `loopInstances` for
a loop), one what-if region, all dependences on one address, tasks under one node that
all have dependences or none (those under another may differ), and, unless `Mixed`, tasks of one location that all call
`__WHATIF_LOC__` or none. `TreeIsReadable` of `OpenmpTasks` is what links the two: the
trees written have unique ids, known parents and no childless node, as assumed
here.

### StepLog, StepBuffer
`StepLog` is what `PerfProfiler` promises: an event that ends a step appends to the
thread's log a step with a fresh id, what was measured, the lock it released and
the region it ended; the last step of the program is the master's.
`StepBuffer` is how it keeps the promise: `step_work_list[t][i]` (`NumEntries`
entries), `last_allocated[t]` (how many are used), `perf_report[t]` (the file). All
handlers that end a step share their text, so one action, `Record`, has three
forms: `RecordStep`, `ReleaseCritical` (sets `lockId`), `CausalEnd` (adds to
`region_work` and `regionMap`). A full row is written by the *next* event; work is
added (`+=`) to an entry that must have been cleaned before. `FinishProfile`
writes all rows and then the last step with the region work of
`step_work_list[0][last_allocated[0]]`, which is outside the row when it is full:
the rows are one array, so the build reads the first entry of the next thread
(`SlotAfter`). The parent of a step is not modelled here; it is assigned in every
handler together with the id. `regionMap` is updated in one step; the code has no
lock around it (a data race on a `std::map`, listed as a hazard).

## 4. Properties and runs

`OpenmpRegions`
* `NoAssertFails`: none of the five assertions in the handlers fails.
* `PhasesAgree`: threads that have passed equally many barriers work under the same
  FINISH node, and later phases have nodes with larger ids.
* `RegionTreeComplete`: the tree of a finished region has one node per phase, one
  ASYNC per thread in each, one step under each.
* `ClosedPhaseStaysClosed`: no step is logged in a phase that other threads have
  closed and left behind.
* `SerialAfterRegion`: "par end i > every imp end i": nothing of a region is left or
  happens when the master is back in serial code.
* `RegionEnds`: a region that is entered is left.
* `ImplementsPhases`: the handlers implement `BulkSynchronous`.

`OpenmpTasks`
* `OrderedStepsAreSerial`: what the program orders, the tree orders. A violation is
  parallelism the analyzer reports and the program does not have.
* `SerialStepsAreOrdered`: what the tree orders, the program orders, for programs
  that leave no scope with tasks outstanding. A violation is parallelism missed.
  The step at the very end of an implicit task is exempt: a worker logs it after
  the join barrier and it holds no work of the program.
* `WorkIsMeasured`: a counter runs exactly while its thread runs program code.
* `SerialCodeHasNoTasks`: after a region no task, map entry or open node is left.
* `TreeIsReadable`: unique ids, no dangling parent, no childless node.
* `NoAssertFails` again, now also for taskMap and empty stacks.

`OnlineProfiler`
* `ParentsAreLive`: no node is freed while another still points to it.
* `WorkIsConserved`: at every moment the work in the nodes is what has been measured.
* `CriticalPathIsExact`: the root's critical work is the heaviest chain in the tree
  where a task starts after what its parent had done when the task *began*, and is
  never less than the heaviest chain of the program.
* `PartsMakeCriticalPath`: the call sites' parts and the exclusive work add up to it
  (exceeding it only after a torn read).
* `ModesAgree`: whenever a thread runs program code, on-line and off-line stacks end
  in the same node.
* `SitesAreConsistent`: work, critical work and part of the path of a call site. The part
  is within the critical work, except for a loop that is executed more than once (in the
  run a loop is executed once; `Analyzer` has the general case).

`Analyzer`
* `CriticalPathIsHeaviestChain`: for every node, against chains of steps.
* `DependentPathIsCovered`: with task dependences, between the heaviest chain the
  dependences allow and all work. (It is an upper bound and not exact: see 6.)
* `PartsMakeCriticalPath`, `SitesAreConsistent`: as above, in every pass; the first except
  where a step has left the list behind. Of a loop executed again in a region, the part of
  the path is within that of as many executions as can follow one another (`MostInSeries`),
  each as long as the longest.
* `WhatIfIsHeaviestChain`: `CriticalPathIsHeaviestChain` in the what-if passes, with the
  steps of a region made faster.
* `PassesAreIndependent`: a what-if pass finds what it would find in a tree just read.
* `SitesAreKnown`: no lookup throws.

`StepBuffer`
* `ImplementsLog`: the buffer refines `StepLog`.
* `BufferInv`: types, and the next entry of a row that is not full is clean.
* `IdsStayInOrder`: ids grow along a log and are never in two logs.
* `RegionWorkIsOwn`: region work is that of its own step, with the one exception the
  code has.

| run | instance | shows |
|---|---|---|
| `regions_team` | 3 threads, 1 region, up to 1 explicit barrier | three threads racing through a barrier and the join barrier: one can be ahead, one behind, one in the lock |
| `regions_reuse` | 2 threads, 2 regions, teams of 1 and 2, up to 1 barrier, fair | a region after another of another size; the inductive invariant of the proofs; the spin ends |
| `regions_fewer` | expects 2 threads, runtime forks 1 | *violated*: the master spins for ever |
| `tasks_deferral` | 2 tasks, 1 loop (static, or of 1 chunk), 1 barrier, teams of 1 and 2, tasks also run at once; at most 2 of these together; a taskwait only before a loop, the end of a chunk and a barrier | nested and sibling tasks without taskwaits, stolen or run in place, also in a chunk; what is written can be read |
| `tasks_unmeasured` | 1 task run at once | *violated*: work goes unmeasured |
| `tasks_unwaited` | 1 task, no waits | *violated*: the assertion at a barrier |
| `online` | 2 threads, 2 tasks and a master construct, at most 2 of these together, or a loop of up to 2 chunks; all waits | both modes on programs that wait for their tasks; also `NoAssertFails`, `WorkIsMeasured` and `SerialStepsAreOrdered` for them |
| `online_freed` | 1 task, 1 single, no wait before its end | *violated*: a task adds to a freed node |
| `analyzer` | every tree of up to 7 rows; for those of up to 6, two speedups for the region and for all regions | all of the analyzer, the what-if passes each after the others |
| `analyzer_parts` | 5 rows | *violated*: the list of call sites is not that of the path |
| `analyzer_sites` | 5 rows, `Mixed` | *violated*: a lookup throws |
| `step_buffer` | 2 threads, 2 entries, 5 ids | rows that are flushed once and twice, all kinds of events, every fill at the end |

Bounds. `MaxRegions`, `MaxBarriers`, `MaxTasks`, `MaxBlocks`,
`MaxChunks` (of one loop), `MaxTogether` (tasks, constructs and barriers together),
`Alone` (the kinds of construct that are not in one run with a task: the loop, in
`online` only), `MaxIds`, `MaxRows` and `MaxWhatIfRows` bound the program. Two regions show reuse, since a region meets only what the one before
left. Two threads and two tasks give a task on its creator's thread or another's,
nested or a sibling, inside a wait or past the end of an implicit task. Three
threads at a barrier are the first at which "first" and "other" meet a thread a
whole barrier behind; the proofs hold for every number. With two entries per row,
five ids give a flush and a second use of every entry. Seven rows hold two ASYNC
siblings with steps around them, a task with two predecessors, a call site nested
in itself and a FINISH between ASYNC nodes. Six hold a loop executed twice, with steps in
and outside the region; the four what-if passes use the largest speedup before the
smallest as well as after it. In `online`, `Period` 5 makes step
weights repeat, so equal paths occur too.

Deadlock is checked in every run but `regions_fewer`, whose master waits for ever
(in the model it has no step), and `step_buffer`, which stops at its bound; in the
task runs this is also "everyone waits on everyone".

Fairness. `FairSpec` has weak fairness for each thread's handlers and for the
master's return from its spin loop. Threads of the program are scheduled by the
operating system; no handler waits for anything but a mutex, which is held for a
few statements, and the spin loop tests a counter that no thread decreases while
it spins, so weak fairness is enough and no more is assumed. In particular
nothing is assumed about the order of threads at a barrier.

## 5. Proofs

All theorems hold for every value of the constants that the `ASSUME`s allow.

`OpenmpRegionsProofs`: `TypeCorrect`, `RegionInvariant`, `NoAssertionFails`,
`SerialCodeIsClean`, `PhasesStayInStep`. That assertions hold and phases agree is not
inductive. `RegionInv` adds: the *shape* of each stack as a function of where the
thread is (`StackShape`: region FINISH, phase FINISH of its barrier count, ASYNC),
that the counter of a thread is the number of barriers it has reached and never
exceeds the FINISH nodes made, one thread having reached it (`PhaseInv`), order and
parents of those nodes (`NodeInv`), who can be where (`ControlInv`) and that
`implEndCount` is the number of threads that have counted themselves (`CountInv`,
which is why the master's spin is a barrier). The proof has one lemma per action
and conjunct. Assumed: `DefaultTeam <= NumProcs <= NumThreads` and clauses at most
`NumThreads`, which the constructor and an assertion of the code check, and
`OMP_NUM_THREADS` not above the number of processors.

`StepLogProofs`: `LogIdsInOrder`, from the invariant that no logged id exceeds
`node_ctr`.

`StepBufferProofs`: `EntriesAreClean` (`BufferInv`, which is inductive),
`BufferImplementsLog` (the refinement), `IdsKeepOrder` (the abstract theorem carried
over by it) and `RegionWorkBelongs`. The heart is `RecordAppends`: with a clean next
entry an event appends exactly its step to file-plus-row, whether the row was full
(the file grows by the row, the row becomes one entry) or not. For rows of any
size and any number of threads above one (with one there is no next row).

`PhasesProofs`: `LagInvariant`, `ClosedPhasesStayClosed`, `PhasesImplemented`. `RegionInv`
says which nodes are on a stack but not how far threads can be apart, nor which
nodes have been written; two further invariants are inductive with it. `LagInv`: the
barriers a thread has arrived at are its barrier count outside the lock, two
threads differ by at most one, and a thread that works is not ahead of any other.
(The join barrier is the last of `BarriersDue`.) `TreeInv`: ids in the tree are
unique and at most `node_ctr`, the phases are in it, and the ASYNC node of a thread
in a phase is a child of that phase. A step logged by a working thread then lies in
the phase of its barrier count, which by `LagInv` no thread is two barriers past;
that is `ClosedPhaseStaysClosed`. For the refinement there is one lemma per action:
the fork maps to `Fork`, the two barrier actions under the lock to `Advance`, the
end of an implicit task to `Leave`, the return from the spin to `Join`, all else to
a stutter; that the phase read off the stack is the barrier count plus one comes
from `StackShape`.

Also `BranchInvariant`, `RegionTreesAreComplete`. `RegionTreeComplete`
speaks of the tree of a region that is over; what builds it is a count that holds at
every moment. `BranchInv`, inductive with `RegionInv`, `LagInv` and `TreeInv`: the k-th
phase has as many ASYNC children as threads have begun it (`Entered`), the node of a
thread that is still in the phase has no step, every other one has exactly one, and no two
threads share a node. That an id handed out is above all ids in the tree (parents
included) makes every new node and step a child of one node only. At the end all
threads have reached all barriers (`LagInv`), so `Entered` is the team in each phase.

`TaskStacksProofs`, first part: `WorkMeasured`, under `AllDeferred`: no task is run inside its own
allocation, that is `Undeferred` is FALSE and no team has one thread. Without it the
property is false (`tasks_unmeasured`), so the theorem also says that this is, in the model, the only
way work goes unmeasured. The property speaks of the context on top of a thread's
stack of contexts, and is not inductive because a handler stops the counter without
looking at what comes to the top when a task ends. `MeasuredInv` adds what makes that
sound (`StackOK`): no context under the top is one that could run at the thread's
control point, because tasks start only on top of a context in a taskwait, at a
barrier or past its end (`MayRun`); the serial code is at the bottom and only on the
master, the implicit task directly above it and only inside a region; and a team of
one has no task and no implicit context yet (`NoTeamYet`, vacuous once a region has
been forked). `OneThread` reduces a step to the stack of the thread that takes it;
`CodeGoesOn` covers the handlers that leave the stack's height alone.

`TaskStacksProofs`, second part: `StacksInvariant`, `NoAssertFailsWithTasks`, `TasksTypeCorrect`,
`SerialCodeIsWithoutTasks`, under `WaitsAreThere`: the program reaches a barrier, and the
end of a chunk, only after a taskwait when it has tasks outstanding. (Without it the
assertion at a barrier fails, `tasks_unwaited`, and the end of a chunk pops the wrong
node; nothing is assumed about the other places of `Waits`, nor about `Undeferred`.)
What makes the handlers right is that each pops exactly what the same context
pushed, on whichever thread, with whatever other contexts below. `StacksInv` says so: the
stack of a thread is the nodes of the contexts suspended on it, one after the other
(`Matches`); a context has its own nodes (`OwnNodes`: the root; the ASYNC node of a task;
the three nodes of an implicit task, which `OpenmpRegionsProofs` gives, as a `Ground` that
is only the region's node between the two parts of a barrier), and per level the nodes of
the construct and, iff it has tasks outstanding, one FINISH node with `finish_flag`
(`LevelNodes`); each node is the child of the one below it. Beside it: where which
contexts can be (`FramesOK`), that a running task is a context of one thread and a
pending one is in `taskMap` (`RunningInv`, `RecordsInv`), and that the master leaves its
implicit task only when nothing is left to run (`JoinInv`). The parts of `RegionInv` that
do not speak of stacks (`TeamInv`) hold here too; `OpenmpRegionsProofs` proves them action by
action, in lemmas both proofs use. Section by section the proof has: what the shape says
of the top of a stack; what pushing, popping and changing the topmost context do to
`Matches` (`StackReplaced` and its relatives, which know nothing of the handlers); one lemma per
action. The theorems read off the shape: at the places where a handler
asserts something the context has just its own nodes, and in serial code the only
context is the master's.

`TaskTreeProofs`: `TreeStaysReadable`, under `WaitsAreThere` too. `TreeIsReadable` speaks of
the files of a finished run; the handlers that make it true are far apart: one opens a
node, another, perhaps on another thread, closes it and must have put something under
it. `ReadableInv`, inductive with `StacksInv`, is that only an open node, one on a stack or in
`taskMap`, can be without a child (`LeavesInv`), that what is open or left in
`pendingFinish` has been written (`OpenInv`), that parents have been written
(`ParentsInv`) and that ids are given once, to nodes and steps together (`IdsInv`). What keeps
`LeavesInv` is not that a handler logs a step, but where: it logs it under the top of the
stack it is about to shorten, and when it takes off two or three nodes at once, each below
is the parent of the one above (`StacksInv`: a stack is a path of the tree). At the end
every stack is empty but for the root, which has the last step of the serial code.

`OnlineNodesProofs`: `SameEvents`, every run of `OnlineProfiler` is one of `OpenmpTasks` (a task that
reads its parent has been started by the runtime, `ReadingInv`), so what is proved of the
events holds while the on-line handlers run.

`OnlineProofs`: `OnlineInvariant`, `StacksAgree`, under `WaitsAreThere`. `ModesAgree` compares the tops
of two stacks that are changed by different code: off-line a node is popped by the handler,
on-line `popNode` and `cleanupFinishNode` look at nodes in memory, which other threads
change; the FINISH node of tasks is closed before a taskwait off-line and after it on-line;
and off-line the phase of a barrier is gone while a thread waits, on-line the region's nodes
may still be below. The tops alone are therefore not inductive. `OnlineInv` is: `OnlineStack(t)` says
that the contexts of the thread (those of `StacksInv`) have, in their order, the same ids on
both stacks, and a context in a taskwait one more on-line (`Twins`, `Parts`, `Extra`), above the
region's nodes that no context has yet or any more (`OverSize`). What `cleanupFinishNode` reads is
`finish_flag` of the node on top, so the flags of the nodes agree as well; and since `popNode`
frees nodes, those that are no region or phase (`Private`) must be in memory, on one stack at
one place (`OnceInv`) and, for a task that has not begun, on none (`MapInv`). Of shared nodes
nothing is needed but that nobody takes one for a private one (`PendingInv`). `OnlineNodesProofs`
has what does not depend on the handlers: `Drawn` is a handler at work, which has drawn ids
above those its stack had, and `DrawnAppend`, `DrawnPop` and their relatives say what pushing and popping on
both sides make of it. `OnlineProofs` has one lemma per action; `StacksAgree` reads the top off
the topmost context.

Only model-checked, because they need induction over data: the order of steps
(`OrderedStepsAreSerial`, `SerialStepsAreOrdered`; it goes through the path of a step in the tree),
`WorkIsConserved`, `CriticalPathIsExact`, `PartsMakeCriticalPath` and `SitesAreConsistent` of `OnlineProfiler`
(sums over the nodes in memory and over call sites, and chains of steps) and all of
`Analyzer` (its operators are recursive in the tree). `RegionEnds` is liveness, out of the
prover's reach. `ParentsAreLive` needs, beyond `OnlineInv`, how many threads of a team have left
the phase (`child_count`) and the tasks that are still under a FINISH node; it is checked by
`online`, and its violation in programs that leave tasks behind by `online_freed`.

## 6. Disagreements found

1. `regions_fewer`: without a `num_threads` clause the profiler expects
   `omp_get_num_procs()` threads. If the runtime forks fewer (`OMP_NUM_THREADS`), the
   loop at `openmp_profiler.cpp:216` never ends.
2. `tasks_unmeasured`: `CaptureTaskEnd` stops the counter and nothing starts it again
   when a task has run inside its task_alloc (full queue, `if` clause, `final`, team
   of one). The rest of the creator, up to its next event, is lost.
3. `tasks_unwaited`: unlike the handlers that end a task, a construct or an implicit
   task, `captureBarrierBegin` does not remove the FINISH node of tasks, and its
   assertion fails when an implicit task with tasks of its own meets a barrier
   without a taskwait.
4. Stated inside `RegionWorkIsOwn`: `finishProfile` reads past the row of the master
   when it is full and may log another thread's region work with the last step.
5. `online_freed`: `popNode` frees the FINISH node of tasks when the scope that
   opened it ends, also when a task under it has not. OpenMP allows such programs
   (tasks left to a barrier after `single` are the common pattern): the task ends in
   freed memory and its work is lost.
6. `analyzer_parts`: a step that takes the critical path back from an ASYNC child
   leaves the list of that child, so percentages of call sites can add up to more
   than 100. On-line, `popNode` settles both.
7. `analyzer_sites`: `updateLoc` removes a location that other tasks still use.

Smaller observations, part of what the properties say rather than violations:
the on-line critical path puts a task after all its parent has done when the task
begins, so it depends on scheduling (`CriticalPathIsExact`); the critical work of a
loop is that of its longest execution per region, in both modes; `dep_c_work` ignores
where the predecessor starts, so with dependences the critical path is an upper
bound (`DependentPathIsCovered`); what-if passes ignore dependences.

## 7. What is not modelled

* Programs outside `Waits`: a taskwait inside a construct removes only the FINISH
  node of that level, so tasks allocated before the construct stay unordered in
  the tree; a loop chunk that leaves tasks behind shifts the stack by one at the
  next chunk. Both are listed as hazards.
* Nested parallel regions, untied tasks, taskgroups, tasks in serial code.
* Data races inside `std::map` (`regionMap`, `callSiteMap`, `l_ssList` read in `pushNode`):
  the lookups are taken to succeed.
* On-line: `updateLoc`, what-if regions (`updateParentRegionStep`) and critical
  sections, which only end steps.
* `LockProfile` and `MayHappenInParallel`: the driver passes mode 0 and never runs
  them.
* The splitting of text lines, the wording of reports, the performance counter
  itself, command lines, build scripts.
* The vendored LLVM runtime (about nine tenths of the source lines), beyond the
  order of its events, what its barriers wait for and where it runs tasks. Its
  locks, affinity, atomics, settings and the offload library have no influence on
  the profiler, so a model of them would say nothing about OMP-WHIP.

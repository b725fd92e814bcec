---------------------------- MODULE OpenmpTasks ----------------------------
(***************************************************************************)
(* Explicit tasks, taskwait and the work-sharing constructs, on top of the *)
(* regions of OpenmpRegions and on the same stacks of open nodes           *)
(* (src/ompproflib_offline/openmp_profiler.cpp and perf_profiler.cpp).     *)
(*                                                                         *)
(* The first task a context allocates opens a FINISH node, marked by       *)
(* finish_flag, that stays on the stack of the allocating thread until     *)
(* some later handler of the same context finds it there and removes it    *)
(* (cleanupFinishNode).  The task itself may begin on any thread, on top   *)
(* of whatever that thread has on its stack.                               *)
(*                                                                         *)
(* The module also keeps what the PROGRAM is doing, as a history: the      *)
(* contexts suspended on each thread and, for every step, the steps the    *)
(* program orders before it.  The order is that of forks, joins, barriers, *)
(* task creation, taskwait and the sequence within a task; the chunks of a *)
(* loop are not ordered, nor is the end of an undeferred task.             *)
(***************************************************************************)
EXTENDS OpenmpRegions, FiniteSetsExt, Functions, TLC

CONSTANTS
  MaxTasks,    \* bound: explicit tasks of a run
  MaxBlocks,   \* bound: constructs entered in a run
  MaxChunks,   \* bound: chunks a thread takes of a loop
  MaxTogether, \* bound: tasks, constructs and barriers together
  Kinds,       \* the constructs the program has: of "single", "master", "loop"
  Alone,       \* bound: the kinds that are not in one run with a task
  Undeferred,  \* TRUE if a team of several threads may run a task at once
  Waits        \* the places the program reaches only after a taskwait, when it
               \* has allocated tasks: of "task" (its end), "block" (the end of
               \* a construct), "chunk", "entry" (of a construct), "barrier"

ASSUME TaskAssumption ==
  /\ MaxTasks \in Nat /\ MaxBlocks \in Nat /\ MaxChunks \in Nat /\ MaxTogether \in Nat
  /\ Kinds \subseteq {"single", "master", "loop"} /\ Alone \subseteq Kinds
  /\ Undeferred \in BOOLEAN
  /\ Waits \subseteq {"task", "block", "chunk", "entry", "barrier"}

VARIABLES
  taskMap,       \* the ASYNC nodes of the tasks allocated and not begun
  firstDispatch, \* firstDispatch[t]: no chunk of the loop has been taken
  counting,      \* perf_fds[t] # 0: the thread's work is being measured
  tasks,         \* the explicit tasks so far
  frames,        \* frames[t]: the contexts on thread t, the running one last
  release,       \* node_ctr when each barrier of the region was released
  blocks,        \* the kinds of the constructs so far
  log            \* history: what the program orders before each step

taskVars == <<taskMap, firstDispatch, counting, tasks, frames, release, blocks, log>>
allVars  == <<vars, taskVars>>

(* A context: the serial code, an explicit task, an implicit task.         *)
SerialCode  == 0
Implicit(t) == MaxTasks + t
IsTask(c)   == c \in 1..MaxTasks

(* A level of a context: its body or a construct it is in.  unwaited: it   *)
(* has allocated tasks since the last taskwait.  entry, all: for a loop,   *)
(* the steps before its chunks and those of its chunks; chunks: how many.  *)
Level(kind) ==
  [kind |-> kind, unwaited |-> FALSE, entry |-> {}, all |-> {}, chunks |-> 0]
Frame(c, past) ==
  [ctx |-> c, past |-> past, waiting |-> FALSE, levels |-> <<Level("body")>>]

Last(s) == s[Len(s)]
Cur(t)  == Last(frames[t])
Here(t) == Last(Cur(t).levels)
AtBody(t) == Len(Cur(t).levels) = 1

(* The thread runs code of the program, not of the runtime.                *)
InUserCode(t) ==
  /\ frames[t] # <<>>
  /\ ~Cur(t).waiting
  /\ \/ IsTask(Cur(t).ctx)
     \/ Cur(t).ctx = SerialCode /\ pc[t] = "idle"
     \/ Cur(t).ctx = Implicit(t) /\ pc[t] = "work"

InRegionCode(t) == abort = "no" /\ InUserCode(t) /\ Cur(t).ctx # SerialCode
InImplicitBody(t) == InRegionCode(t) /\ Cur(t).ctx = Implicit(t) /\ AtBody(t)

Waited(place, t) == place \in Waits => ~Here(t).unwaited
Fits == Len(tasks) + Len(blocks) + barriers < MaxTogether
TasksDone == \A k \in DOMAIN tasks : tasks[k].state = "done"

TasksInit ==
  /\ Init
  /\ taskMap = <<>>
  /\ firstDispatch = [t \in Threads |-> FALSE]
  /\ counting = [t \in Threads |-> t = Master]
  /\ tasks = <<>>
  /\ frames = [t \in Threads |-> IF t = Master THEN <<Frame(SerialCode, {})>> ELSE <<>>]
  /\ release = <<>>
  /\ blocks = <<>>
  /\ log = {}

(* The nodes from the root of the tree to the node with id i.              *)
PathTo(i) ==
  LET path[j \in Nat] ==
        IF j = 0 THEN <<>>
        ELSE LET n == CHOOSE m \in tree : m.id = j IN
             Append(path[n.parent], [id |-> j, type |-> n.type])
  IN path[i]

(* What is remembered of a step: its place in the tree, with the node that *)
(* is on top of stack s as its parent, and the steps before it in the      *)
(* program.  The step at the end of an implicit task is logged past the    *)
(* join barrier, which does not hold the workers: it is closing, and no    *)
(* work of the program lies there.                                         *)
Entry(i, s, t, past) ==
  [id |-> i, past |-> past,
   path |-> Append(PathTo(NewStep(i, s).parent), [id |-> i, type |-> "STEP"]),
   closing |-> pc[t] = "join" /\ Cur(t).ctx = Implicit(t)]
Log(t) == log' = log \union {Entry(node_ctr + 1, last_nodes[t], t, Cur(t).past)}

(* The running frame of t becomes f, or is followed by f, or goes away.    *)
SetFrame(t, f)  == frames' = [frames EXCEPT ![t][Len(frames[t])] = f]
WithStep(t)     == [Cur(t) EXCEPT !.past = @ \union {node_ctr + 1}]
SetLevel(f, l)  == [f EXCEPT !.levels[Len(f.levels)] = l]
LeaveLevel(f)   == [f EXCEPT !.levels = SubSeq(@, 1, Len(@) - 1)]
Count(t, b)     == counting' = [counting EXCEPT ![t] = b]

----------------------------------------------------------------------------
(* The handlers of OpenmpRegions, with the counter and the history         *)

(* A step of the region handlers outside the constructs of this module.    *)
Untouched == UNCHANGED <<taskMap, firstDispatch, tasks, blocks>>

TPParallelBegin(req, b) ==
  /\ ParallelBegin(req, b)
  /\ Log(Master)
  /\ SetFrame(Master, WithStep(Master))
  /\ Count(Master, FALSE)
  /\ release' = <<>>
  /\ Untouched

TPImplicitTaskBegin(t) ==
  /\ ImplicitTaskBegin(t)
  /\ frames[t] = IF t = Master THEN <<frames[Master][1]>> ELSE <<>>
  /\ frames' = [frames EXCEPT ![t] = Append(@, Frame(Implicit(t), frames[Master][1].past))]
  /\ Count(t, TRUE)
  /\ UNCHANGED <<release, log>> /\ Untouched

TPBarrierBegin(t) ==
  /\ InImplicitBody(t)
  /\ Waited("barrier", t)
  /\ BarrierBegin(t)
  /\ Log(t)
  /\ SetFrame(t, WithStep(t))
  /\ Count(t, FALSE)
  /\ UNCHANGED release /\ Untouched

TPBarrierArrive(t) ==
  /\ BarrierFirst(t) \/ BarrierOther(t)
  /\ UNCHANGED <<counting, frames, release, log>> /\ Untouched

(* The barrier is released when all have arrived and all tasks are done;   *)
(* whatever has been logged by then is before what follows it.             *)
TPBarrierEnd(t) ==
  /\ BarrierEnd(t)
  /\ frames[t] # <<>> /\ Cur(t).ctx = Implicit(t)
  /\ \/ arrived[t] \in DOMAIN release /\ UNCHANGED release
     \/ arrived[t] \notin DOMAIN release /\ TasksDone /\ release' = Append(release, node_ctr)
  /\ SetFrame(t, [Cur(t) EXCEPT
       !.past = {l.id : l \in {m \in log : m.id <= release'[arrived[t]]}} \union @])
  /\ Count(t, TRUE)
  /\ UNCHANGED log /\ Untouched

TPImplicitTaskEnd(t) ==
  /\ frames[t] # <<>> /\ Cur(t).ctx = Implicit(t) /\ AtBody(t) /\ ~Cur(t).waiting
  /\ t = Master => TasksDone
  /\ ImplicitTaskEnd(t)
  /\ Log(t)
  /\ frames' = [frames EXCEPT ![t] = Pop(@)]
  /\ Count(t, FALSE)
  /\ UNCHANGED release /\ Untouched

TPCountImplicitEnd(t) ==
  CountImplicitEnd(t) /\ UNCHANGED <<counting, frames, release, log>> /\ Untouched

TPParallelEnd ==
  /\ ParallelEnd
  /\ frames' = [frames EXCEPT ![Master][1].past = {l.id : l \in log}]
  /\ Count(Master, TRUE)
  /\ UNCHANGED <<release, log>> /\ Untouched

TPFinishProfile ==
  /\ FinishProfile
  /\ Log(Master)
  /\ SetFrame(Master, WithStep(Master))
  /\ Count(Master, FALSE)
  /\ UNCHANGED release /\ Untouched

----------------------------------------------------------------------------
(* Explicit tasks                                                          *)

profilerRest == <<num_threads, barrierCount, pendingFinish, implEndCount>>

(* What a handler of this section does to the profiler: a step under the   *)
(* top of the stack, n further ids, new nodes, the new stack.              *)
Handle(t, n, nodes, stack) ==
  /\ steps' = steps \union {NewStep(node_ctr + 1, last_nodes[t])}
  /\ node_ctr' = node_ctr + 1 + n
  /\ tree' = tree \union nodes
  /\ last_nodes' = [last_nodes EXCEPT ![t] = stack]
  /\ UNCHANGED <<profilerRest, runtime>>

(* captureTaskAlloc: the FINISH node for tasks is opened unless it is the  *)
(* open node already.  An undeferred task begins at once on the same       *)
(* thread; in a team of one all are.                                       *)
TaskAlloc(t, now) ==
  LET s == last_nodes[t]
      k == Len(tasks) + 1
      opened == Top(s).finish_flag
      f == IF opened THEN Top(s)
           ELSE [NewNode(node_ctr + 2, "FINISH", Top(s)) EXCEPT !.finish_flag = TRUE]
      a == NewNode(IF opened THEN node_ctr + 2 ELSE node_ctr + 3, "ASYNC", f)
      s1 == IF opened THEN s ELSE Append(s, f)
      creator == SetLevel(WithStep(t), [Here(t) EXCEPT !.unwaited = TRUE])
  IN
  /\ InRegionCode(t)
  /\ k <= MaxTasks /\ Fits
  /\ \A i \in DOMAIN blocks : blocks[i] \notin Alone
  /\ now \in IF team = 1 THEN {TRUE} ELSE {FALSE, Undeferred}
  /\ Handle(t, IF opened THEN 1 ELSE 2, {f, a}, IF now THEN Append(s1, a) ELSE s1)
  /\ taskMap' = IF now THEN taskMap
                ELSE [j \in DOMAIN taskMap \union {k} |-> IF j = k THEN a ELSE taskMap[j]]
  /\ tasks' = Append(tasks,
       [state |-> IF now THEN "running" ELSE "pending",
        waited |-> FALSE, creator |-> Cur(t).ctx,
        kin |-> {Cur(t).ctx} \union
                IF IsTask(Cur(t).ctx) THEN tasks[Cur(t).ctx].kin ELSE {},
        past |-> creator.past])
  /\ frames' = [frames EXCEPT ![t] =
       Append(Pop(@), creator) \o IF now THEN <<Frame(k, creator.past)>> ELSE <<>>]
  /\ Log(t)
  /\ Count(t, TRUE)
  /\ UNCHANGED <<abort, firstDispatch, release, blocks>>

(* Where the runtime runs a pending task: in a taskwait, if it descends    *)
(* from the waiting one; in a barrier not yet released; in the fork        *)
(* barrier, when the thread has ended its implicit task (and the master    *)
(* will wait for the tasks of the team).                                   *)
MayRun(t, k) ==
  \/ /\ frames[t] # <<>> /\ Cur(t).waiting
     /\ Cur(t).ctx \in tasks[k].kin
  \/ /\ frames[t] # <<>> /\ Cur(t).ctx = Implicit(t)
     /\ \/ pc[t] = "barrier" /\ arrived[t] \notin DOMAIN release
        \/ pc[t] = "join"
  \/ /\ t \in Team \ released /\ frames[t] = <<>>
     /\ pc[t] = "idle"

(* Mutant: the node stays in the map.                                      *)
NotErased(k) == taskMap

Erased(k) == Restrict(taskMap, DOMAIN taskMap \ {k})

(* captureTaskBegin.                                                       *)
TaskBegin(t, k) ==
  /\ abort = "no"
  /\ tasks[k].state = "pending"
  /\ MayRun(t, k)
  /\ Require(k \in DOMAIN taskMap, "no_task_node")
  /\ last_nodes' = [last_nodes EXCEPT ![t] = Append(@, taskMap[k])]
  /\ taskMap' = Erased(k)
  /\ tasks' = [tasks EXCEPT ![k].state = "running"]
  /\ frames' = [frames EXCEPT ![t] = Append(@, Frame(k, tasks[k].past))]
  /\ Count(t, TRUE)
  /\ UNCHANGED <<node_ctr, tree, steps, profilerRest, runtime, firstDispatch,
                 release, blocks, log>>

(* What task_end, single_end, master_end and loop_end leave on the stack.  *)
Closed(s) == Pop(Cleanup(s))

(* captureTaskEnd.                                                         *)
TaskEnd(t) ==
  /\ InRegionCode(t)
  /\ IsTask(Cur(t).ctx)
  /\ Waited("task", t)
  /\ Require(last_nodes[t] # <<>>, "empty_stack")
  /\ Handle(t, 0, {}, Closed(last_nodes[t]))
  /\ tasks' = [tasks EXCEPT ![Cur(t).ctx].state = "done",
                            ![Cur(t).ctx].past = WithStep(t).past]
  /\ frames' = [frames EXCEPT ![t] = Pop(@)]
  /\ Log(t)
  /\ Count(t, FALSE)
  /\ UNCHANGED <<taskMap, firstDispatch, release, blocks>>

(* Mutant: taskwait leaves the FINISH node open.                           *)
StillOpen(s) == s

AfterTaskwait(s) == Cleanup(s)

(* captureTaskwaitBegin.  A taskwait with nothing to wait for is left out. *)
TaskwaitBegin(t) ==
  /\ InRegionCode(t)
  /\ Here(t).unwaited
  /\ Require(last_nodes[t] # <<>>, "empty_stack")
  /\ Handle(t, 0, {}, AfterTaskwait(last_nodes[t]))
  /\ SetFrame(t, [SetLevel(WithStep(t), [Here(t) EXCEPT !.unwaited = FALSE])
                    EXCEPT !.waiting = TRUE])
  /\ Log(t)
  /\ Count(t, FALSE)
  /\ UNCHANGED <<taskMap, firstDispatch, tasks, release, blocks>>

(* Mutant: the counter stays off.                                          *)
StaysOff(t) == UNCHANGED counting

(* The counter is started when a taskwait is over (CaptureTaskWaitEnd).    *)
Resume(t) == Count(t, TRUE)

TaskwaitEnd(t) ==
  LET children == {k \in DOMAIN tasks : tasks[k].creator = Cur(t).ctx /\ ~tasks[k].waited} IN
  /\ abort = "no"
  /\ frames[t] # <<>> /\ Cur(t).waiting
  /\ \A k \in children : tasks[k].state = "done"
  /\ SetFrame(t, [Cur(t) EXCEPT !.waiting = FALSE,
                                !.past = @ \union UNION {tasks[k].past : k \in children}])
  /\ tasks' = [k \in DOMAIN tasks |->
       IF k \in children THEN [tasks[k] EXCEPT !.waited = TRUE] ELSE tasks[k]]
  /\ Resume(t)
  /\ UNCHANGED <<profiler, runtime, taskMap, firstDispatch, release, blocks, log>>

----------------------------------------------------------------------------
(* Constructs: single, master and loops, in the body of an implicit task   *)

(* captureSingleBegin, captureMasterBegin, captureLoopBegin.               *)
BlockBegin(t, kind) ==
  LET f == NewNode(node_ctr + 2, "FINISH", Top(last_nodes[t])) IN
  /\ InImplicitBody(t)
  /\ kind = "master" => t = Master
  /\ Waited("entry", t)
  /\ Len(blocks) < MaxBlocks /\ Fits
  /\ kind \in Alone => tasks = <<>>
  /\ blocks' = Append(blocks, kind)
  /\ Handle(t, 1, {f}, Append(last_nodes[t], f))
  /\ firstDispatch' = [firstDispatch EXCEPT ![t] = @ \/ kind = "loop"]
  /\ SetFrame(t, [WithStep(t) EXCEPT !.levels = Append(@, Level(kind))])
  /\ Log(t)
  /\ Count(t, TRUE)
  /\ UNCHANGED <<abort, taskMap, tasks, release>>

(* captureSingleEnd, captureMasterEnd, captureLoopEnd of a static loop.    *)
BlockEnd(t) ==
  /\ InRegionCode(t)
  /\ Here(t).kind \in {"single", "master", "loop"}
  /\ Waited("block", t)
  /\ Require(last_nodes[t] # <<>>, "empty_stack")
  /\ Handle(t, 0, {}, Closed(last_nodes[t]))
  /\ SetFrame(t, LeaveLevel(WithStep(t)))
  /\ Log(t)
  /\ Count(t, TRUE)
  /\ UNCHANGED <<taskMap, firstDispatch, tasks, release, blocks>>

(* Mutant: the chunk before stays open.                                    *)
KeepChunk(t, s) == s

(* captureLoopChunk: the chunk before is closed, unless there is none.     *)
CloseChunk(t, s) == IF firstDispatch[t] THEN s ELSE Pop(s)

(* captureLoopChunk with a chunk to run.                                   *)
LoopChunk(t) ==
  LET s == CloseChunk(t, last_nodes[t])
      a == NewNode(node_ctr + 2, "ASYNC", Top(s))
      l == Here(t)
      past == WithStep(t).past
  IN
  /\ InRegionCode(t)
  /\ l.kind \in {"loop", "chunk"}
  /\ Waited("chunk", t)
  /\ l.chunks < MaxChunks
  /\ Handle(t, 1, {a}, Append(s, a))
  /\ firstDispatch' = [firstDispatch EXCEPT ![t] = FALSE]
  /\ LET entry == IF l.kind = "loop" THEN past ELSE l.entry IN
     SetFrame(t, SetLevel([Cur(t) EXCEPT !.past = entry],
       [l EXCEPT !.kind = "chunk", !.entry = entry, !.all = @ \union past,
                 !.chunks = @ + 1]))
  /\ Log(t)
  /\ Count(t, TRUE)
  /\ UNCHANGED <<abort, taskMap, tasks, release, blocks>>

(* No chunk is left: the runtime raises loop_end (captureLoopEnd), which   *)
(* closes the chunk, and then the dispatch event without a chunk, which    *)
(* closes the loop; if the thread got no chunk, loop_end closes the loop.  *)
LoopDrained(t) ==
  LET s == last_nodes[t]
      s1 == Closed(s)
      l == Here(t)
      x == node_ctr + 1
      between == IF l.kind = "loop" THEN WithStep(t).past ELSE l.entry
  IN
  /\ InRegionCode(t)
  /\ l.kind \in {"loop", "chunk"}
  /\ Waited("chunk", t)
  /\ Require(s # <<>>, "empty_stack")
  /\ steps' = steps \union {NewStep(x, s), NewStep(x + 1, s1)}
  /\ node_ctr' = x + 1
  /\ last_nodes' = [last_nodes EXCEPT ![t] = CloseChunk(t, s1)]
  /\ firstDispatch' = [firstDispatch EXCEPT ![t] = FALSE]
  /\ SetFrame(t, LeaveLevel([Cur(t) EXCEPT !.past = @ \union l.all \union {x, x + 1}]))
  /\ log' = log \union {Entry(x, s, t, Cur(t).past), Entry(x + 1, s1, t, between)}
  /\ Count(t, TRUE)
  /\ UNCHANGED <<tree, profilerRest, runtime, taskMap, tasks, release, blocks>>

----------------------------------------------------------------------------
TaskThreadStep(t) ==
  \/ TPImplicitTaskBegin(t)
  \/ TPBarrierBegin(t)
  \/ TPBarrierArrive(t)
  \/ TPBarrierEnd(t)
  \/ TPImplicitTaskEnd(t)
  \/ TPCountImplicitEnd(t)
  \/ \E now \in BOOLEAN : TaskAlloc(t, now)
  \/ \E k \in DOMAIN tasks : TaskBegin(t, k)
  \/ TaskEnd(t)
  \/ TaskwaitBegin(t)
  \/ TaskwaitEnd(t)
  \/ \E kind \in Kinds : BlockBegin(t, kind)
  \/ BlockEnd(t)
  \/ LoopChunk(t)
  \/ LoopDrained(t)

TasksNext ==
  \/ \E req \in Requests, b \in 0..MaxBarriers : TPParallelBegin(req, b)
  \/ \E t \in Threads : TaskThreadStep(t)
  \/ TPParallelEnd
  \/ TPFinishProfile
  \/ Finished /\ UNCHANGED taskVars

TasksSpec == TasksInit /\ [][TasksNext]_allVars

----------------------------------------------------------------------------
(* What the tree says of two steps: a child is before its right siblings,  *)
(* the children of a node being laid out by id, unless it is an ASYNC node.*)
SerialInTree(x, y) ==
  LET j == Min({i \in DOMAIN x.path \cap DOMAIN y.path : x.path[i] # y.path[i]})
  IN x.path[j].id < y.path[j].id /\ x.path[j].type # "ASYNC"

----------------------------------------------------------------------------
(* Properties                                                              *)

Contexts == 0..(MaxTasks + NumThreads)

TasksTypeOK ==
  /\ DOMAIN taskMap = {k \in DOMAIN tasks : tasks[k].state = "pending"}
  /\ \A k \in DOMAIN taskMap : taskMap[k] \in [type : {"ASYNC"}, finish_flag : {FALSE},
                                              id : Nat, parent : Nat]
  /\ firstDispatch \in [Threads -> BOOLEAN]
  /\ counting \in [Threads -> BOOLEAN]
  /\ Len(tasks) <= MaxTasks /\ Len(blocks) <= MaxBlocks
  /\ \A k \in DOMAIN tasks : /\ tasks[k].state \in {"pending", "running", "done"}
                             /\ tasks[k].creator \in tasks[k].kin
                             /\ tasks[k].kin \subseteq Contexts
  /\ \A t \in Threads : \A i \in DOMAIN frames[t] : frames[t][i].ctx \in Contexts
  /\ {l.id : l \in log} = {s.id : s \in steps}

(* What the program orders, the tree orders: when a step is logged, every  *)
(* step the program puts before it (through forks, barriers, task creation *)
(* and taskwaits) comes before it in the tree too, so the analyzer never   *)
(* reports parallelism the program does not have.  The FINISH nodes that   *)
(* captureTaskAlloc opens, and the handlers that close them, make it so.   *)
OrderedStepsAreSerial ==
  [][\A y \in log' \ log : \A x \in log' :
       x.id \in y.past => SerialInTree(x, y)]_allVars

(* What the tree orders, the program orders, when every construct is left  *)
(* with no task outstanding: the analyzer misses no parallelism.           *)
SerialStepsAreOrdered ==
  [][\A y \in log' \ log : \A x \in log : ~y.closing /\ ~x.closing =>
       /\ SerialInTree(x, y) => x.id \in y.past
       /\ ~SerialInTree(y, x)]_allVars

(* The counter of a thread runs exactly while it runs code of the program: *)
(* no work goes unmeasured and no waiting is measured as work, although    *)
(* one handler stops the counter and another starts it.                    *)
WorkIsMeasured == \A t \in Threads : abort = "no" => (counting[t] <=> InUserCode(t))

(* When the master is back in serial code every task has run and its nodes *)
(* are gone from taskMap and from the stacks of all threads, whichever     *)
(* threads began them.                                                     *)
SerialCodeHasNoTasks ==
  pc[Master] \in {"idle", "done"} =>
    /\ TasksDone
    /\ taskMap = <<>>
    /\ last_nodes = [t \in Threads |-> IF t = Master THEN <<Root>> ELSE <<>>]

(* The analyzer can read what has been written: ids are unique, the parent *)
(* of every row but the root's is a node of the tree, and no node is       *)
(* without a child (ComputeNodeWork, profileReader.cpp:534, follows a null *)
(* pointer for one that is), whichever threads ran the tasks.              *)
TreeIsReadable ==
  pc[Master] = "done" =>
    LET row == {[id |-> n.id, parent |-> n.parent] : n \in tree} \union steps
        ids == {n.id : n \in tree}
    IN /\ Cardinality({r.id : r \in row}) = Cardinality(tree) + Cardinality(steps)
       /\ {r.parent : r \in row} = ids \union {0}
       /\ \A r \in row : r.parent = 0 <=> r.id = 1

=============================================================================

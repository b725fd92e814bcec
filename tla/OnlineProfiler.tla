--------------------------- MODULE OnlineProfiler ---------------------------
(***************************************************************************)
(* The on-line profiler (src/ompproflib_online): no tree is written; each  *)
(* node carries the work and the critical path of what has ended below it  *)
(* and hands them to its parent when it is popped (popNode), so that the   *)
(* profile is ready when the program ends.                                 *)
(*                                                                         *)
(* The module runs the on-line handlers on the events of OpenmpTasks, next *)
(* to the off-line ones, so that both can be compared: no program loads    *)
(* both, and neither has any effect on the other.  A node has the id that  *)
(* the off-line handler of the same event gives it (on-line an id is only  *)
(* printed).                                                               *)
(*                                                                         *)
(* What threads share is the work of a node, in atomic counters, and what  *)
(* popNode does under the lock of the parent.  captureTaskBegin reads two  *)
(* counters of the parent one after the other and without its lock, while  *)
(* the creator of the task goes on: the two reads are two actions.         *)
(***************************************************************************)
EXTENDS OpenmpTasks

SE == INSTANCE SequencesExt

CONSTANT Period  \* the counter's readings repeat with the ids of the steps

ASSUME OnlineAssumption == Period \in Nat \ {0}

VARIABLES
  open,          \* last_nodes: the nodes open on each thread, as ids
  node,          \* the TreeNodes in memory
  allCallSites,  \* work and critical work of each call site
  loopInstances, \* the largest critical work of the loop in each region
  reading,       \* the first of the two reads of a task that begins
  sited,         \* history: the call site of every node there has been
  pushed,        \* history: node_ctr when the parent of a task was read
  torn,          \* history: two reads of a parent have not agreed
  measured       \* history: the steps taken with a counter running

onlineVars ==
  <<open, node, allCallSites, loopInstances, reading, sited, pushed, torn, measured>>
bothVars   == <<allVars, onlineVars>>

(* Call sites: the source lines of the constructs, one of each kind.  A    *)
(* single construct, a phase and an implicit task have none.               *)
NoSite == "none"
Sites  == {"region", "master", "loop", "task"}
SiteOf(kind) == IF kind = "single" THEN NoSite ELSE kind

NoWork == [s \in Sites |-> 0]
Plus(l1, l2) == [s \in Sites |-> l1[s] + l2[s]]

Fresh(ty, site) ==
  [parent |-> 0, type |-> ty, callSiteId |-> site, parallel_id |-> region,
   finish_flag |-> FALSE, is_barrier_finish |-> FALSE, child_count |-> 0,
   work |-> 0, left_step_work |-> 0, left_finish_c_work |-> 0,
   left_finish_e_work |-> 0, p_left_sibling_work |-> 0,
   p_left_sibling_e_work |-> 0, c_work |-> 0, e_work |-> 0,
   ssList |-> NoWork, p_ssList |-> NoWork, l_ssList |-> NoWork]

NotReading == [task |-> 0, left |-> 0]

(* Function f, with x for the new argument i.                              *)
With(f, i, x) == [j \in DOMAIN f \union {i} |-> IF j = i THEN x ELSE f[j]]

OnlineInit ==
  /\ TasksInit
  /\ open = [t \in Threads |-> IF t = Master THEN <<Root.id>> ELSE <<>>]
  /\ node = [i \in {Root.id} |-> Fresh("FINISH", NoSite)]
  /\ allCallSites = [s \in Sites |-> [work |-> 0, cWork |-> 0]]
  /\ loopInstances = [r \in 1..MaxRegions |-> 0]
  /\ reading = [t \in Threads |-> NotReading]
  /\ sited = [i \in {Root.id} |-> NoSite]
  /\ pushed = <<>>
  /\ torn = FALSE
  /\ measured = {}

----------------------------------------------------------------------------
(* Work: updateParent, popNode and pushNode                                *)

(* What the counter says of step i, if it runs.                            *)
Weight(i) == 1 + ((i * i) % Period)

(* What a handler of thread t sees and changes.                            *)
View(t) == [nodes |-> node, sites |-> allCallSites, loops |-> loopInstances,
            stack |-> open[t], sited |-> sited]

Shows(t, v) ==
  /\ node' = v.nodes
  /\ allCallSites' = v.sites
  /\ loopInstances' = v.loops
  /\ open' = [open EXCEPT ![t] = v.stack]
  /\ sited' = v.sited

(* updateParent: step i is added to the node on top.                       *)
WithStepWork(n, w) == [n EXCEPT !.left_step_work = @ + w, !.work = @ + w]

Added(v, i, counts) ==
  LET w == IF counts THEN Weight(i) ELSE 0 IN
  [v EXCEPT !.nodes[Last(v.stack)] = WithStepWork(@, w)]

(* The view after PerfProfiler has had the event: step node_ctr + 1.       *)
Stepped(t) == Added(View(t), node_ctr + 1, counting[t])
Measure(t) == measured' = measured \union {i \in {node_ctr + 1} : counting[t]}

LeftWork(p)  == p.left_step_work + p.left_finish_c_work
LeftEWork(p) == p.left_step_work + p.left_finish_e_work

(* Mutant: the node starts at once, whatever its parent has done.          *)
SizedAtOnce(n, p, left) == n

(* pushNode: where in its parent the node starts.                          *)
Sized(n, p, left) ==
  [n EXCEPT !.p_left_sibling_work = left, !.p_left_sibling_e_work = LeftEWork(p),
            !.p_ssList = Plus(@, p.l_ssList)]

PushNode(v, i, n) ==
  LET p == Last(v.stack) IN
  [v EXCEPT !.nodes = With(@, i, Sized([n EXCEPT !.parent = p], v.nodes[p],
                                       LeftWork(v.nodes[p]))),
            !.stack = Append(@, i),
            !.sited = With(@, i, n.callSiteId)]

(* Mutant: the list of the longest ASYNC child is kept.                    *)
SettledButList(n) ==
  LET serial == n.c_work < LeftWork(n) IN
  [n EXCEPT !.c_work = IF serial THEN LeftWork(n) ELSE @,
            !.e_work = IF serial THEN LeftEWork(n) ELSE @]

(* popNode: the critical path is the serial one if that is longer.         *)
Settled(n) ==
  IF n.c_work < LeftWork(n)
    THEN [n EXCEPT !.c_work = LeftWork(n), !.e_work = LeftEWork(n), !.ssList = n.l_ssList]
    ELSE n

(* UpdateSSList with the node's own part of the path.                      *)
OwnPart(n) ==
  IF n.callSiteId = NoSite THEN n ELSE [n EXCEPT !.ssList[n.callSiteId] = @ + n.e_work]

(* Mutant: an ASYNC node that is not the longest is dropped with its work. *)
FoldedIfLongest(p, n) ==
  LET own == IF n.callSiteId = NoSite THEN n.e_work ELSE 0 IN
  IF n.type = "FINISH"
    THEN [p EXCEPT !.left_finish_e_work = @ + own, !.left_finish_c_work = @ + n.c_work,
                   !.work = @ + n.work, !.l_ssList = Plus(@, n.ssList)]
  ELSE IF n.p_left_sibling_work + n.c_work > p.c_work
    THEN [p EXCEPT !.c_work = n.p_left_sibling_work + n.c_work,
                   !.e_work = n.p_left_sibling_e_work + own,
                   !.work = @ + n.work, !.ssList = Plus(n.p_ssList, n.ssList)]
  ELSE p

(* popNode: what the parent takes over from a node that ends.              *)
Folded(p, n) ==
  LET own == IF n.callSiteId = NoSite THEN n.e_work ELSE 0 IN
  IF n.type = "FINISH"
    THEN [p EXCEPT !.left_finish_e_work = @ + own,
                   !.left_finish_c_work = @ + n.c_work,
                   !.work = @ + n.work,
                   !.l_ssList = Plus(@, n.ssList)]
  ELSE IF n.p_left_sibling_work + n.c_work > p.c_work
    THEN [p EXCEPT !.c_work = n.p_left_sibling_work + n.c_work,
                   !.e_work = n.p_left_sibling_e_work + own,
                   !.work = @ + n.work,
                   !.ssList = Plus(n.p_ssList, n.ssList)]
  ELSE [p EXCEPT !.work = @ + n.work]

(* The call sites of the node with id i and of the nodes above it.         *)
SitesFrom(nodes, i) ==
  LET above[j \in Nat] ==
        IF j = 0 THEN {} ELSE {nodes[j].callSiteId} \union above[nodes[j].parent]
  IN above[i]

(* Mutant: a site within the same site counts again.                       *)
AlwaysOutermost(v, n) == n.callSiteId # NoSite

Outermost(v, n) ==
  n.callSiteId # NoSite /\ n.callSiteId \notin SitesFrom(v.nodes, n.parent)

(* popNode: the outermost node of a call site is added to the site.        *)
Credited(v, n) ==
  IF ~Outermost(v, n) THEN v
  ELSE IF n.callSiteId = "loop"
    THEN [v EXCEPT !.sites["loop"].work = @ + n.work,
                   !.loops[n.parallel_id] = Max({@, n.c_work})]
    ELSE [v EXCEPT !.sites[n.callSiteId].work = @ + n.work,
                   !.sites[n.callSiteId].cWork = @ + n.c_work]

(* The FINISH node of a phase is shared: the last thread to leave it frees *)
(* it.                                                                     *)
LastOut(n) == n.is_barrier_finish => n.child_count + 1 = num_threads

(* popNode: a node is settled, handed to its parent and freed; that of a   *)
(* phase by the last thread of the team that leaves it.                    *)
PopNode(v) ==
  LET i == Last(v.stack)
      n == OwnPart(Settled(v.nodes[i]))
      w == Credited(v, n)
      handed == [w.nodes EXCEPT ![n.parent] = Folded(@, n)]
  IN IF LastOut(v.nodes[i])
       THEN [w EXCEPT !.nodes = Restrict(handed, DOMAIN handed \ {i}), !.stack = Pop(@)]
       ELSE [v EXCEPT !.nodes[i].child_count = @ + 1, !.stack = Pop(@)]

CleanupFinishNode(v) == IF v.nodes[Last(v.stack)].finish_flag THEN PopNode(v) ELSE v

PhaseFinish == [Fresh("FINISH", NoSite) EXCEPT !.is_barrier_finish = TRUE]
TaskFinish  == [Fresh("FINISH", NoSite) EXCEPT !.finish_flag = TRUE]

----------------------------------------------------------------------------
(* The handlers                                                            *)

(* The region's FINISH nodes stay open on the master's stack; those of the *)
(* workers are replaced.                                                   *)
OnParallelBegin(req, b) ==
  LET v == PushNode(PushNode(Stepped(Master), node_ctr + 2, Fresh("FINISH", "region")),
                    node_ctr + 3, PhaseFinish)
  IN
  /\ TPParallelBegin(req, b)
  /\ node' = v.nodes
  /\ open' = [t \in Threads |->
       IF t = Master THEN v.stack
       ELSE IF t <= num_threads' THEN <<node_ctr + 2, node_ctr + 3>> ELSE open[t]]
  /\ sited' = v.sited
  /\ Measure(Master)
  /\ UNCHANGED <<allCallSites, loopInstances, reading, pushed, torn>>

OnImplicitTaskBegin(t) ==
  /\ TPImplicitTaskBegin(t)
  /\ Shows(t, PushNode(View(t), node_ctr', Fresh("ASYNC", NoSite)))
  /\ UNCHANGED <<reading, pushed, torn, measured>>

OnBarrierBegin(t) ==
  /\ TPBarrierBegin(t)
  /\ Shows(t, PopNode(PopNode(Stepped(t))))
  /\ Measure(t)
  /\ UNCHANGED <<reading, pushed, torn>>

(* Under bar_mutex: the first thread pushes the FINISH node of the next    *)
(* phase, the others take it from pendingFinish.                           *)
OnBarrierArrive(t) ==
  LET k == barrierCount'[t]
      v == IF IsFirst(t) THEN PushNode(View(t), node_ctr + 1, PhaseFinish)
           ELSE [View(t) EXCEPT !.stack = Append(@, pendingFinish[k].id)]
  IN
  /\ TPBarrierArrive(t)
  /\ Shows(t, PushNode(v, node_ctr', Fresh("ASYNC", NoSite)))
  /\ UNCHANGED <<reading, pushed, torn, measured>>

OnImplicitTaskEnd(t) ==
  /\ TPImplicitTaskEnd(t)
  /\ Shows(t, PopNode(PopNode(CleanupFinishNode(Stepped(t)))))
  /\ Measure(t)
  /\ UNCHANGED <<reading, pushed, torn>>

OnParallelEnd ==
  /\ TPParallelEnd
  /\ Shows(Master, PopNode(View(Master)))
  /\ UNCHANGED <<reading, pushed, torn, measured>>

(* GenerateProfile: the root is settled and stays; the critical work of a  *)
(* loop is the sum over the regions.                                       *)
OnFinishProfile ==
  LET v == Stepped(Master)
      loop == MapThenSumSet(LAMBDA r : loopInstances[r], DOMAIN loopInstances)
  IN
  /\ TPFinishProfile
  /\ Shows(Master, [v EXCEPT !.nodes[Root.id] = Settled(@), !.sites["loop"].cWork = loop])
  /\ Measure(Master)
  /\ UNCHANGED <<reading, pushed, torn>>

(* captureTaskAlloc, and captureTaskBegin at once for an undeferred task.  *)
OnTaskAlloc(t, now) ==
  LET s == Stepped(t)
      v == IF s.nodes[Last(s.stack)].finish_flag THEN s
           ELSE PushNode(s, node_ctr' - 1, TaskFinish)
      a == [Fresh("ASYNC", "task") EXCEPT !.parent = Last(v.stack)]
  IN
  /\ TaskAlloc(t, now)
  /\ Shows(t, IF now THEN PushNode(v, node_ctr', a)
              ELSE [v EXCEPT !.nodes = With(@, node_ctr', a),
                             !.sited = With(@, node_ctr', a.callSiteId)])
  /\ Measure(t)
  /\ UNCHANGED <<reading, pushed, torn>>

(* captureTaskBegin takes the task from taskMap, and pushNode reads how    *)
(* far the parent is...                                                    *)
OnTaskRead(t, k) ==
  LET i == taskMap[k].id IN
  /\ abort = "no"
  /\ tasks[k].state = "pending" /\ MayRun(t, k)
  /\ \A u \in Threads : reading[u].task # k
  /\ reading' = [reading EXCEPT ![t] = [task |-> k, left |-> LeftWork(node[node[i].parent])]]
  /\ pushed' = With(pushed, i, node_ctr)
  /\ UNCHANGED <<allVars, open, node, allCallSites, loopInstances, sited, torn, measured>>

(* ... and reads it again for what is exclusive to the parent.             *)
OnTaskBegin(t) ==
  LET k == reading[t].task
      i == taskMap[k].id
  IN
  /\ k # 0
  /\ TaskBegin(t, k)
  /\ node' = [node EXCEPT ![i] = Sized(@, node[@.parent], reading[t].left)]
  /\ open' = [open EXCEPT ![t] = Append(@, i)]
  /\ reading' = [reading EXCEPT ![t] = NotReading]
  /\ torn' = (torn \/ LeftWork(node[node[i].parent]) # reading[t].left)
  /\ UNCHANGED <<allCallSites, loopInstances, sited, pushed, measured>>

OnTaskEnd(t) ==
  /\ TaskEnd(t)
  /\ Shows(t, PopNode(CleanupFinishNode(Stepped(t))))
  /\ Measure(t)
  /\ UNCHANGED <<reading, pushed, torn>>

(* Mutant: the node for tasks is closed before they are waited for, as the *)
(* off-line captureTaskwaitBegin does.                                     *)
ClosedAtOnce(v) == CleanupFinishNode(v)

BeforeWait(v) == v

OnTaskwaitBegin(t) ==
  /\ TaskwaitBegin(t)
  /\ Shows(t, BeforeWait(Stepped(t)))
  /\ Measure(t)
  /\ UNCHANGED <<reading, pushed, torn>>

(* Mutant: the node stays open, as captureTaskwaitBegin leaves it.         *)
NothingAfterTaskwait(v) == v

AfterWait(v) == CleanupFinishNode(v)

OnTaskwaitEnd(t) ==
  /\ TaskwaitEnd(t)
  /\ Shows(t, AfterWait(View(t)))
  /\ UNCHANGED <<reading, pushed, torn, measured>>

OnBlockBegin(t, kind) ==
  /\ BlockBegin(t, kind)
  /\ Shows(t, PushNode(Stepped(t), node_ctr', Fresh("FINISH", SiteOf(kind))))
  /\ Measure(t)
  /\ UNCHANGED <<reading, pushed, torn>>

OnBlockEnd(t) ==
  /\ BlockEnd(t)
  /\ Shows(t, PopNode(CleanupFinishNode(Stepped(t))))
  /\ Measure(t)
  /\ UNCHANGED <<reading, pushed, torn>>

ChunkClosed(t, v) == IF firstDispatch[t] THEN v ELSE PopNode(v)

OnLoopChunk(t) ==
  /\ LoopChunk(t)
  /\ Shows(t, PushNode(ChunkClosed(t, Stepped(t)), node_ctr', Fresh("ASYNC", "loop")))
  /\ Measure(t)
  /\ UNCHANGED <<reading, pushed, torn>>

(* captureLoopEnd and the dispatch event without a chunk: two steps, the   *)
(* second with the counter that the first has started again.               *)
OnLoopDrained(t) ==
  LET ended == PopNode(CleanupFinishNode(Stepped(t))) IN
  /\ LoopDrained(t)
  /\ Shows(t, ChunkClosed(t, Added(ended, node_ctr', TRUE)))
  /\ measured' = measured \union {i \in {node_ctr + 1} : counting[t]} \union {node_ctr'}
  /\ UNCHANGED <<reading, pushed, torn>>

(* Events in which the on-line profiler does nothing.                      *)
OnNothing(t) ==
  /\ TPBarrierEnd(t) \/ TPCountImplicitEnd(t)
  /\ UNCHANGED onlineVars

OnlineThreadStep(t) ==
  \/ OnImplicitTaskBegin(t)
  \/ OnBarrierBegin(t)
  \/ OnBarrierArrive(t)
  \/ OnImplicitTaskEnd(t)
  \/ \E now \in BOOLEAN : OnTaskAlloc(t, now)
  \/ \E k \in DOMAIN tasks : OnTaskRead(t, k)
  \/ OnTaskEnd(t)
  \/ OnTaskwaitBegin(t)
  \/ OnTaskwaitEnd(t)
  \/ \E kind \in Kinds : OnBlockBegin(t, kind)
  \/ OnBlockEnd(t)
  \/ OnLoopChunk(t)
  \/ OnLoopDrained(t)
  \/ OnNothing(t)

OnlineNext ==
  \/ \E req \in Requests, b \in 0..MaxBarriers : OnParallelBegin(req, b)
  \/ \E t \in Threads : reading[t] = NotReading /\ OnlineThreadStep(t)
  \/ \E t \in Threads : OnTaskBegin(t)
  \/ OnParallelEnd
  \/ OnFinishProfile
  \/ Finished /\ UNCHANGED taskVars /\ UNCHANGED onlineVars

OnlineSpec == OnlineInit /\ [][OnlineNext]_bothVars

----------------------------------------------------------------------------
(* What the profile is compared with                                       *)

Measured(i) == IF i \in measured THEN Weight(i) ELSE 0
Sum(S)      == MapThenSumSet(Measured, S)

(* Where a node starts among its siblings: where it was created, and a     *)
(* task where its parent was read.                                         *)
Start(i) == IF i \in DOMAIN pushed THEN pushed[i] ELSE i

SerialOnline(x, y) ==
  LET j == Min({i \in DOMAIN x.path \cap DOMAIN y.path : x.path[i] # y.path[i]})
  IN /\ x.path[j].type # "ASYNC"
     /\ x.path[j].id <= Start(y.path[j].id)

InProgram(x, y) == x.id \in y.past

(* The heaviest chain of steps that are before one another: step by step,  *)
(* a step after those that are before it, which are fewer than before it.  *)
HeaviestChain(Before(_, _)) ==
  LET placed == {[id |-> y.id, after |-> {x.id : x \in {z \in log \ {y} : Before(z, y)}}]
                   : y \in log}
      upTo   == SE!FoldLeft(LAMBDA best, n :
                  best @@ [i \in {p.id : p \in {q \in placed : Cardinality(q.after) = n}} |->
                             LET p == CHOOSE q \in placed : q.id = i IN
                             Measured(i) + Max({0} \union {best[j] : j \in p.after})],
                  <<>>, [n \in 1..Cardinality(log) |-> n - 1])
  IN Max({upTo[l.id] : l \in log})

(* The executions of the loop: the outermost nodes of its call site.       *)
Executions == {n \in UNION {SE!ToSet(x.path) : x \in log} :
                 n.type = "FINISH" /\ sited[n.id] = "loop"}

ListSum(n) == MapThenSumSet(LAMBDA s : n.ssList[s], Sites)

----------------------------------------------------------------------------
(* Properties                                                              *)

(* The parent of a node in memory is in memory: nothing is added to a      *)
(* node that popNode has freed, whatever threads end the tasks under it    *)
(* and in whatever order.                                                  *)
ParentsAreLive ==
  \A i \in DOMAIN node \ {Root.id} : node[i].parent \in DOMAIN node

(* All the work measured so far is in some node, and in one only, although *)
(* threads hand nodes up side by side.                                     *)
WorkIsConserved == MapThenSumSet(LAMBDA i : node[i].work, DOMAIN node) = Sum(measured)

(* The critical path of the program is the heaviest chain of steps in the  *)
(* tree where a task starts after what its parent had done when the task   *)
(* BEGAN; that is never less than the heaviest chain of the program, where *)
(* it starts when it was created.                                          *)
CriticalPathIsExact ==
  pc[Master] = "done" =>
    /\ node[Root.id].c_work = HeaviestChain(SerialOnline)
    /\ node[Root.id].c_work >= HeaviestChain(InProgram)

(* The parts of the critical path, by call site and the root's own, make   *)
(* it up: none is lost or left over when one path takes the place of       *)
(* another.  They exceed it only if the two reads of a task that began did *)
(* not agree.                                                              *)
PartsMakeCriticalPath ==
  pc[Master] = "done" =>
    LET r == node[Root.id]
        parts == ListSum(r) + r.e_work
    IN parts >= r.c_work /\ (~torn => parts = r.c_work)

(* When a thread runs code of the program both profilers have the same     *)
(* node on top of its stack, to which the next step and the next node go,  *)
(* although they close nodes in different handlers.                        *)
ModesAgree ==
  \A t \in Threads : abort = "no" /\ InUserCode(t) /\ reading[t] = NotReading =>
    Last(open[t]) = Top(last_nodes[t]).id

(* What the profile says of a call site is consistent: its work is that of *)
(* the steps under its nodes, each counted once when they are nested; its  *)
(* critical work is within its work and its part of the critical path      *)
(* within its critical work.  (Not of a loop that is executed more than    *)
(* once: its critical work is that of its longest execution in a region,   *)
(* its part of the path that of all of them.)                              *)
SitesAreConsistent ==
  pc[Master] = "done" => \A s \in Sites :
    LET site == allCallSites[s]
        under == {y.id : y \in {x \in log : \E i \in 1..(Len(x.path) - 1) :
                                             sited[x.path[i].id] = s}}
    IN /\ site.work = Sum(under)
       /\ site.cWork <= site.work
       /\ ~torn /\ (s = "loop" => Cardinality(Executions) <= 1)
            => node[Root.id].ssList[s] <= site.cWork

=============================================================================

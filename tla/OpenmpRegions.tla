--------------------------- MODULE OpenmpRegions ---------------------------
(***************************************************************************)
(* The fork-join part of the off-line OpenmpProfiler                       *)
(* (src/ompproflib_offline/openmp_profiler.cpp): how the handlers of       *)
(* parallel_begin, implicit_task_begin, barrier_begin, implicit_task_end   *)
(* and parallel_end, called by the threads of a team, build one dynamic    *)
(* program structure tree (DPST) although every thread keeps its own stack *)
(* of open nodes, last_nodes[tid].                                         *)
(*                                                                         *)
(* The OpenMP runtime that raises the events is the environment.  A plain  *)
(* barrier releases a thread when the whole team has arrived; the barrier  *)
(* that joins a region only gathers, so a worker leaves it at once and may *)
(* still be inside its last handlers when the master has gone on.          *)
(*                                                                         *)
(* An event is first seen by PerfProfiler, which logs a step (the work     *)
(* since the previous event) whose parent is the top of the thread's       *)
(* stack, and then by OpenmpProfiler.  Both touch only the thread's own    *)
(* stack and the atomic counter, so one action stands for both; the parts  *)
(* of a handler on either side of a lock are separate actions.             *)
(***************************************************************************)
EXTENDS Naturals, Sequences, FiniteSets

CONSTANTS
  NumThreads,    \* NUM_THREADS in globals.h: the tids the arrays have room for
  NumProcs,      \* omp_get_num_procs()
  DefaultTeam,   \* the team the runtime forks when no num_threads clause is given
  Requests,      \* the values of num_threads clauses in the program, 0 for none
  MaxRegions,    \* bound: parallel regions of a run
  MaxBarriers    \* bound: explicit barriers of a region

(* The constructor exits when the machine has more processors than         *)
(* NUM_THREADS, captureParallelBegin asserts requested <= NUM_THREADS, and *)
(* OMP_NUM_THREADS is taken not to exceed the processors.                  *)
ASSUME RegionAssumption ==
  /\ NumThreads \in Nat \ {0}
  /\ NumProcs \in 1..NumThreads
  /\ DefaultTeam \in 1..NumProcs
  /\ Requests \subseteq 0..NumThreads
  /\ MaxRegions \in Nat
  /\ MaxBarriers \in Nat

VARIABLES
  last_nodes,    \* last_nodes[t]: the nodes open on thread t, top last
  node_ctr,      \* the last id handed out (++node_ctr, shared by nodes and steps)
  tree,          \* the nodes written to the tree files
  steps,         \* the steps written to the step files
  num_threads,   \* the team size the profiler assumes
  barrierCount,  \* barriers each thread has reached in this region
  pendingFinish, \* the FINISH nodes of the barriers of this region
  implEndCount,  \* implicit tasks of this region that have ended
  abort,         \* "no", or the assertion that stopped the program
  pc,            \* where each thread is, see Control
  released,      \* threads the runtime has forked and that have not begun
  team,          \* the number of threads the runtime forked
  barriers,      \* explicit barriers in the code of this region
  arrived,       \* barriers at which each thread has arrived in the runtime
  region,        \* regions forked so far
  region_nodes   \* history: the two FINISH nodes of the current region

profiler == <<last_nodes, node_ctr, tree, steps, num_threads, barrierCount,
              pendingFinish, implEndCount, abort>>
runtime  == <<pc, released, team, barriers, arrived, region, region_nodes>>
vars     == <<profiler, runtime>>

Threads == 1..NumThreads
Master  == 1

(* idle: outside any region.  forked: the master between parallel_begin    *)
(* and implicit_task_begin.  work: in the implicit task.  locking: in      *)
(* captureBarrierBegin, waiting for bar_mutex.  barrier, join: at the      *)
(* runtime's barrier.  ended: in captureImplicitTaskEnd, waiting for       *)
(* par_mutex.  spin: the master in captureParallelEnd.  done: the profile  *)
(* is written.                                                             *)
Control == {"idle", "forked", "work", "locking", "barrier", "join", "ended",
            "spin", "done"}

----------------------------------------------------------------------------
(* Tree nodes and stacks                                                   *)

NodeRecord == [id : Nat, type : {"ASYNC", "FINISH"}, parent : Nat,
               finish_flag : BOOLEAN]

(* back() of an empty vector is undefined; no node has id 0.               *)
NoNode == [id |-> 0, type |-> "FINISH", parent |-> 0, finish_flag |-> FALSE]

NewNode(i, ty, par) ==
  [id |-> i, type |-> ty, parent |-> par.id, finish_flag |-> FALSE]

Top(s) == IF s = <<>> THEN NoNode ELSE s[Len(s)]
Pop(s) == SubSeq(s, 1, Len(s) - 1)

(* cleanupFinishNode: drop the FINISH node opened for explicit tasks.      *)
Cleanup(s) == IF Top(s).finish_flag THEN Pop(s) ELSE s

(* Mutant: the step is logged after the open node has been popped.         *)
NewStepAfterPop(i, s) == [id |-> i, parent |-> Top(Pop(s)).id]

NewStep(i, s) == [id |-> i, parent |-> Top(s).id]

(* An assert of the code: the program stops when the condition is false    *)
(* (abort disables every action; what else the step did no longer matters).*)
Require(cond, name) == abort' = IF cond THEN abort ELSE name

----------------------------------------------------------------------------
Root == [id |-> 1, type |-> "FINISH", parent |-> 0, finish_flag |-> FALSE]

Init ==
  /\ last_nodes = [t \in Threads |-> IF t = Master THEN <<Root>> ELSE <<>>]
  /\ node_ctr = 1
  /\ tree = {Root}
  /\ steps = {}
  /\ num_threads = NumProcs
  /\ barrierCount = [t \in Threads |-> 0]
  /\ pendingFinish = <<>>
  /\ implEndCount = 0
  /\ abort = "no"
  /\ pc = [t \in Threads |-> "idle"]
  /\ released = {}
  /\ team = 1
  /\ barriers = 0
  /\ arrived = [t \in Threads |-> 0]
  /\ region = 0
  /\ region_nodes = <<Root, Root>>

Team == 1..team

(* Barriers a thread reaches in the region: the explicit ones and, when    *)
(* the region is not serialized, the join barrier.                         *)
BarriersDue == IF team > 1 THEN barriers + 1 ELSE barriers

(* Mutant: the clause is taken as it is, 0 when there is none.             *)
ExpectedTeamNoDefault(req) == req

(* The team the profiler expects, and the one the runtime forks, for a     *)
(* num_threads clause req (0 when there is none).                          *)
ExpectedTeam(req) == IF req > 0 THEN req ELSE NumProcs
ForkedTeam(req)   == IF req > 0 THEN req ELSE DefaultTeam

(* Mutants: the FINISH nodes of the region before are kept; the counts of  *)
(* the workers are kept.                                                   *)
ForgetCountsOnly(n) ==
  /\ barrierCount' = [t \in Threads |-> IF t \in 1..n THEN 0 ELSE barrierCount[t]]
  /\ UNCHANGED pendingFinish
ForgetMasterOnly(n) ==
  /\ barrierCount' = [barrierCount EXCEPT ![Master] = 0]
  /\ pendingFinish' = <<>>

(* A new region forgets the barriers of the region before.                 *)
ForgetBarriers(n) ==
  /\ barrierCount' = [t \in Threads |-> IF t \in 1..n THEN 0 ELSE barrierCount[t]]
  /\ pendingFinish' = <<>>

(* captureParallelBegin pushes two FINISH nodes, forgets the barriers of   *)
(* the region before and gives both nodes to every other thread it expects *)
(* in the team.  req is the num_threads clause, b the number of barriers   *)
(* in the region's code.                                                   *)
ParallelBegin(req, b) ==
  LET n  == ExpectedTeam(req)
      m  == ForkedTeam(req)
      f1 == NewNode(node_ctr + 2, "FINISH", Top(last_nodes[Master]))
      f2 == NewNode(node_ctr + 3, "FINISH", f1)
  IN
  /\ abort = "no"
  /\ pc[Master] = "idle"
  /\ region < MaxRegions
  /\ Require(\A t \in (1..n) \ {Master} : last_nodes[t] = <<>>, "stack_not_empty")
  /\ steps' = steps \union {NewStep(node_ctr + 1, last_nodes[Master])}
  /\ tree' = tree \union {f1, f2}
  /\ node_ctr' = node_ctr + 3
  /\ last_nodes' = [t \in Threads |->
       IF t \in 1..n THEN last_nodes[t] \o <<f1, f2>> ELSE last_nodes[t]]
  /\ num_threads' = n
  /\ ForgetBarriers(n)
  /\ pc' = [pc EXCEPT ![Master] = "forked"]
  /\ released' = released \union 1..m
  /\ team' = m
  /\ barriers' = b
  /\ arrived' = [t \in Threads |-> 0]
  /\ region' = region + 1
  /\ region_nodes' = <<f1, f2>>
  /\ UNCHANGED implEndCount

(* captureImplicitTaskBegin opens the ASYNC node of the implicit task.     *)
ImplicitTaskBegin(t) ==
  LET a == NewNode(node_ctr + 1, "ASYNC", Top(last_nodes[t])) IN
  /\ abort = "no"
  /\ t \in released
  /\ pc[t] = IF t = Master THEN "forked" ELSE "idle"
  /\ released' = released \ {t}
  /\ pc' = [pc EXCEPT ![t] = "work"]
  /\ last_nodes' = [last_nodes EXCEPT ![t] = Append(@, a)]
  /\ tree' = tree \union {a}
  /\ node_ctr' = node_ctr + 1
  /\ UNCHANGED <<steps, num_threads, barrierCount, pendingFinish, implEndCount,
                 abort, team, barriers, arrived, region, region_nodes>>

(* captureBarrierBegin up to bar_mutex: the step before the barrier is     *)
(* logged, the ASYNC node and the FINISH node of the ended phase popped.   *)
BarrierBegin(t) ==
  LET s == last_nodes[t] IN
  /\ abort = "no"
  /\ pc[t] = "work"
  /\ arrived[t] < BarriersDue
  /\ Require(Top(s).type = "ASYNC" /\ Top(Pop(s)).type = "FINISH",
             "barrier_stack")
  /\ steps' = steps \union {NewStep(node_ctr + 1, s)}
  /\ node_ctr' = node_ctr + 1
  /\ last_nodes' = [last_nodes EXCEPT ![t] = Pop(Pop(@))]
  /\ pc' = [pc EXCEPT ![t] = "locking"]
  /\ UNCHANGED <<tree, num_threads, barrierCount, pendingFinish, implEndCount,
                 released, team, barriers, arrived, region, region_nodes>>

(* The thread that reaches a barrier before all others, by the counts.     *)
IsFirst(t) ==
  \A u \in (1..num_threads) \ {t} : barrierCount[u] < barrierCount[t] + 1

Arrive(t) ==
  /\ arrived' = [arrived EXCEPT ![t] = @ + 1]
  /\ pc' = [pc EXCEPT ![t] =
              IF team > 1 /\ arrived[t] + 1 = BarriersDue THEN "join" ELSE "barrier"]

(* captureBarrierBegin under bar_mutex, the first thread: it creates the   *)
(* FINISH node of the next phase and leaves it for the others.             *)
BarrierFirst(t) ==
  LET k == barrierCount[t] + 1
      f == NewNode(node_ctr + 1, "FINISH", Top(last_nodes[t]))
      a == NewNode(node_ctr + 2, "ASYNC", f)
  IN
  /\ abort = "no"
  /\ pc[t] = "locking"
  /\ IsFirst(t)
  /\ Require(Len(pendingFinish) + 1 = k, "first_pending")
  /\ barrierCount' = [barrierCount EXCEPT ![t] = k]
  /\ last_nodes' = [last_nodes EXCEPT ![t] = @ \o <<f, a>>]
  /\ pendingFinish' = Append(pendingFinish, f)
  /\ tree' = tree \union {f, a}
  /\ node_ctr' = node_ctr + 2
  /\ Arrive(t)
  /\ UNCHANGED <<steps, num_threads, implEndCount, released, team, barriers,
                 region, region_nodes>>

(* Mutant: every barrier of the region takes the first barrier's node.     *)
FirstLeftNode(k) == IF pendingFinish # <<>> THEN pendingFinish[1] ELSE NoNode

(* The FINISH node the first thread left for the k-th barrier.             *)
LeftNode(k) == IF k \in DOMAIN pendingFinish THEN pendingFinish[k] ELSE NoNode

(* captureBarrierBegin under bar_mutex, the other threads: they take the   *)
(* FINISH node the first thread left for this barrier.                     *)
BarrierOther(t) ==
  LET k == barrierCount[t] + 1
      f == LeftNode(k)
      a == NewNode(node_ctr + 1, "ASYNC", f)
  IN
  /\ abort = "no"
  /\ pc[t] = "locking"
  /\ ~IsFirst(t)
  /\ Require(Len(pendingFinish) >= k, "other_pending")
  /\ barrierCount' = [barrierCount EXCEPT ![t] = k]
  /\ last_nodes' = [last_nodes EXCEPT ![t] = @ \o <<f, a>>]
  /\ tree' = tree \union {a}
  /\ node_ctr' = node_ctr + 1
  /\ Arrive(t)
  /\ UNCHANGED <<steps, num_threads, pendingFinish, implEndCount, released, team,
                 barriers, region, region_nodes>>

(* Mutant: a thread passes a barrier without waiting.                      *)
NoneAwaited(t) == TRUE

AllArrived(t) == \A u \in Team : arrived[u] >= arrived[t]

(* A plain barrier of the runtime lets a thread go when all have arrived.  *)
BarrierEnd(t) ==
  /\ abort = "no"
  /\ pc[t] = "barrier"
  /\ AllArrived(t)
  /\ pc' = [pc EXCEPT ![t] = "work"]
  /\ UNCHANGED <<profiler, released, team, barriers, arrived, region, region_nodes>>

(* The implicit task of t may end: a serialized region has no join barrier *)
(* and the join barrier of a team only gathers, so that the master waits   *)
(* for all and a worker goes on once it has signalled its arrival.         *)
MayEnd(t) ==
  \/ team = 1 /\ pc[t] = "work" /\ arrived[t] = BarriersDue
  \/ /\ pc[t] = "join"
     /\ t = Master => \A u \in Team : arrived[u] = BarriersDue

(* captureImplicitTaskEnd up to par_mutex: the last step is logged and the *)
(* thread's ASYNC, phase FINISH and region FINISH nodes are popped.        *)
ImplicitTaskEnd(t) ==
  LET s == last_nodes[t] IN
  /\ abort = "no"
  /\ MayEnd(t)
  /\ Require(Pop(Pop(Cleanup(s))) # <<>>, "no_region_node")
  /\ steps' = steps \union {NewStep(node_ctr + 1, s)}
  /\ node_ctr' = node_ctr + 1
  /\ last_nodes' = [last_nodes EXCEPT ![t] = Pop(Pop(Pop(Cleanup(@))))]
  /\ pc' = [pc EXCEPT ![t] = "ended"]
  /\ UNCHANGED <<tree, num_threads, barrierCount, pendingFinish, implEndCount,
                 released, team, barriers, arrived, region, region_nodes>>

(* captureImplicitTaskEnd under par_mutex.                                 *)
CountImplicitEnd(t) ==
  /\ abort = "no"
  /\ pc[t] = "ended"
  /\ implEndCount' = implEndCount + 1
  /\ pc' = [pc EXCEPT ![t] = IF t = Master THEN "spin" ELSE "idle"]
  /\ UNCHANGED <<last_nodes, node_ctr, tree, steps, num_threads, barrierCount,
                 pendingFinish, abort, released, team, barriers, arrived, region,
                 region_nodes>>

(* Mutants: the master does not wait; it waits for one end too many.       *)
EndsNotAwaited == TRUE
OneEndTooMany  == implEndCount > num_threads

EndsCounted == implEndCount >= num_threads

(* captureParallelEnd: the master spins until every implicit task it       *)
(* expects has been counted.                                               *)
ParallelEnd ==
  /\ abort = "no"
  /\ pc[Master] = "spin"
  /\ EndsCounted
  /\ implEndCount' = 0
  /\ pc' = [pc EXCEPT ![Master] = "idle"]
  /\ UNCHANGED <<last_nodes, node_ctr, tree, steps, num_threads, barrierCount,
                 pendingFinish, abort, released, team, barriers, arrived, region,
                 region_nodes>>

(* PerfProfiler::finishProfile logs the last step of the master.           *)
FinishProfile ==
  /\ abort = "no"
  /\ pc[Master] = "idle"
  /\ steps' = steps \union {NewStep(node_ctr + 1, last_nodes[Master])}
  /\ node_ctr' = node_ctr + 1
  /\ pc' = [pc EXCEPT ![Master] = "done"]
  /\ UNCHANGED <<last_nodes, tree, num_threads, barrierCount, pendingFinish,
                 implEndCount, abort, released, team, barriers, arrived, region,
                 region_nodes>>

Finished == pc[Master] = "done" /\ UNCHANGED vars

ThreadStep(t) ==
  \/ ImplicitTaskBegin(t)
  \/ BarrierBegin(t)
  \/ BarrierFirst(t)
  \/ BarrierOther(t)
  \/ BarrierEnd(t)
  \/ ImplicitTaskEnd(t)
  \/ CountImplicitEnd(t)

Next ==
  \/ \E req \in Requests, b \in 0..MaxBarriers : ParallelBegin(req, b)
  \/ \E t \in Threads : ThreadStep(t)
  \/ ParallelEnd
  \/ FinishProfile
  \/ Finished

Spec == Init /\ [][Next]_vars

(* Every thread of the program keeps running: each is weakly fair, and so  *)
(* is the master in its spin loop.                                         *)
Fairness ==
  /\ \A t \in Threads : WF_vars(ThreadStep(t))
  /\ WF_vars(ParallelEnd)

FairSpec == Spec /\ Fairness

----------------------------------------------------------------------------
(* Properties                                                              *)

TypeOK ==
  /\ last_nodes \in [Threads -> Seq(NodeRecord)]
  /\ node_ctr \in Nat
  /\ tree \subseteq NodeRecord
  /\ steps \subseteq [id : Nat, parent : Nat]
  /\ num_threads \in Threads
  /\ barrierCount \in [Threads -> Nat]
  /\ pendingFinish \in Seq(NodeRecord)
  /\ implEndCount \in Nat
  /\ abort \in {"no", "stack_not_empty", "barrier_stack", "first_pending",
                "other_pending", "no_region_node"}
  /\ pc \in [Threads -> Control]
  /\ released \subseteq Threads
  /\ team \in Threads
  /\ barriers \in 0..MaxBarriers
  /\ arrived \in [Threads -> Nat]
  /\ region \in 0..MaxRegions
  /\ region_nodes \in NodeRecord \X NodeRecord

(* No assertion of the region handlers fails: a forked thread's stack is   *)
(* empty (openmp_profiler.cpp:193), a barrier finds an ASYNC over a FINISH *)
(* (554, 556), the first thread at a barrier finds one FINISH node per     *)
(* earlier barrier (570), the others find theirs (585), and the end of an  *)
(* implicit task finds the region's node (532).                            *)
NoAssertFails == abort = "no"

InPhase(t)   == pc[t] \in {"work", "barrier", "join"}
Enclosing(t) == last_nodes[t][Len(last_nodes[t]) - 1]

(* Two threads that have passed the same number of barriers work under the *)
(* same FINISH node, a thread that has passed more works under a node with *)
(* a larger id (the order in which the analyzer lays out the children of   *)
(* the region), and all under the region's own node: the barriers of the   *)
(* runtime and the phases of the tree stay in step although the profiler   *)
(* only compares counters.                                                 *)
PhasesAgree ==
  \A t, u \in Threads : InPhase(t) /\ InPhase(u) =>
    /\ arrived[t] = arrived[u] => Enclosing(t) = Enclosing(u)
    /\ arrived[t] < arrived[u] => Enclosing(t).id < Enclosing(u).id
    /\ Enclosing(t).parent = Enclosing(u).parent

(* "Par end i > every imp end i" (openmp_profiler.cpp:531): when the       *)
(* master is back in serial code, no worker is inside a handler of the     *)
(* region, every stack but the master's is empty, the master's holds the   *)
(* root alone, and the counter is ready for the next region.               *)
SerialAfterRegion ==
  pc[Master] \in {"idle", "done"} =>
    /\ \A t \in Threads \ {Master} : pc[t] = "idle" /\ last_nodes[t] = <<>>
    /\ last_nodes[Master] = <<Root>>
    /\ released = {}
    /\ implEndCount = 0

Children(n) == {c \in tree : c.parent = n.id}

(* When a region has ended its tree is complete: one FINISH node for each  *)
(* phase between barriers, in each phase one ASYNC node for each thread of *)
(* the team, and under each ASYNC node exactly one step: no phase is split *)
(* in two by threads racing to a barrier and no thread's work is lost or   *)
(* counted twice.                                                          *)
RegionTreeComplete ==
  pc[Master] = "idle" /\ region > 0 =>
    LET phases == Children(region_nodes[1]) IN
    /\ Cardinality(phases) = BarriersDue + 1
    /\ \A f \in phases :
         /\ f.type = "FINISH"
         /\ Cardinality(Children(f)) = team
         /\ \A a \in Children(f) :
              /\ a.type = "ASYNC"
              /\ Cardinality({s \in steps : s.parent = a.id}) = 1

Phases == <<region_nodes[2]>> \o pendingFinish

(* A step is logged in the last phase that has been opened or in the one   *)
(* before it: what a thread did before a barrier is logged before any      *)
(* thread is past the next one, so a closed phase stays closed although    *)
(* nothing in the profiler makes a thread wait.                            *)
ClosedPhaseStaysClosed ==
  [][\A s \in steps' \ steps : \A a \in tree : \A k \in DOMAIN Phases :
       s.parent = a.id /\ a.parent = Phases[k].id => k + 1 >= Len(Phases)]_vars

(* A region that is entered is left: the master's wait in                  *)
(* captureParallelEnd ends because every implicit task ends and is         *)
(* counted.                                                                *)
RegionEnds == pc[Master] = "forked" ~> pc[Master] = "idle"

----------------------------------------------------------------------------
(* The inductive invariant                                                 *)

Active == pc[Master] \notin {"idle", "done"}

(* The FINISH node of the phase that follows k barriers.                   *)
PhaseNode(k) == IF k = 0 THEN region_nodes[2] ELSE pendingFinish[k]

(* Nodes that lie under those of the region: the master's root.            *)
Depth(t) == IF t = Master THEN 1 ELSE 0

(* A thread the profiler counts in the team and the runtime did not fork.  *)
Orphan(t) == Active /\ t \in (team + 1)..num_threads

(* What a thread's stack holds above them, by where the thread is.         *)
StackShape(t) ==
  LET s == last_nodes[t]
      d == Depth(t)
  IN
  /\ t = Master => Len(s) >= 1 /\ s[1] = Root
  /\ t \in released => /\ Len(s) = d + 2
                       /\ s[d + 1] = region_nodes[1]
                       /\ s[d + 2] = region_nodes[2]
  /\ InPhase(t) => /\ Len(s) = d + 3
                   /\ s[d + 1] = region_nodes[1]
                   /\ s[d + 2] = PhaseNode(barrierCount[t])
                   /\ s[d + 3].type = "ASYNC"
                   /\ ~s[d + 3].finish_flag
  /\ pc[t] = "locking" => /\ Len(s) = d + 1
                          /\ s[d + 1] = region_nodes[1]
  /\ t \notin released /\ ~Orphan(t) /\ pc[t] \in {"idle", "ended", "spin", "done"}
       => Len(s) = d

(* Who may be where.  A worker is outside the team, forked, or in the      *)
(* region; the master is in serial code only when nobody is in a region.   *)
ControlInv ==
  /\ team <= num_threads
  /\ \A t \in Threads :
       /\ t \notin Team => t \notin released /\ pc[t] = "idle"
       /\ t # Master => pc[t] \notin {"forked", "spin", "done"}
       /\ t # Master /\ t \in released => pc[t] = "idle"
  /\ Master \in released <=> pc[Master] = "forked"
  /\ ~Active => /\ released = {}
                /\ \A t \in Threads \ {Master} : pc[t] = "idle"
                /\ implEndCount = 0

(* The members of the team whose implicit task has been counted.           *)
Counted == {t \in Team : /\ t \notin released
                         /\ pc[t] = IF t = Master THEN "spin" ELSE "idle"}

CountInv == Active => implEndCount = Cardinality(Counted)

(* The counters of the threads against the FINISH nodes of the barriers.   *)
PhaseInv ==
  /\ \A t \in 1..num_threads : barrierCount[t] <= Len(pendingFinish)
  /\ \/ Len(pendingFinish) = 0
     \/ \E t \in 1..num_threads : barrierCount[t] = Len(pendingFinish)
  /\ \A t \in released : barrierCount[t] = 0 /\ arrived[t] = 0
  /\ \A t \in Threads : InPhase(t) \/ pc[t] = "locking" => barrierCount[t] = arrived[t]

(* The FINISH nodes of the region: their order and their parent.           *)
NodeInv ==
  /\ \A i \in 1..2 : /\ region_nodes[i].type = "FINISH"
                     /\ ~region_nodes[i].finish_flag
                     /\ region_nodes[i].id <= node_ctr
  /\ region > 0 => region_nodes[2].parent = region_nodes[1].id
  /\ Active => region > 0
  /\ \A k \in 1..Len(pendingFinish) :
       /\ pendingFinish[k].type = "FINISH"
       /\ ~pendingFinish[k].finish_flag
       /\ pendingFinish[k].parent = region_nodes[1].id
       /\ region_nodes[2].id < pendingFinish[k].id
       /\ pendingFinish[k].id <= node_ctr
       /\ \A j \in 1..(k - 1) : pendingFinish[j].id < pendingFinish[k].id

RegionInv ==
  /\ TypeOK
  /\ abort = "no"
  /\ \A t \in Threads : StackShape(t)
  /\ ControlInv
  /\ CountInv
  /\ PhaseInv
  /\ NodeInv

(* The threads of the team whose implicit task has ended.                  *)
Gone == {t \in Team : t \notin released /\ pc[t] \in {"ended", "spin", "idle"}}

(* How far threads are apart, which ClosedPhaseStaysClosed and             *)
(* ImplementsPhases rest on: the counts follow the barriers of the runtime,*)
(* and no thread of the team is more than one barrier ahead of another.    *)
LagInv ==
  /\ \A t \in Threads : arrived[t] \in 0..BarriersDue
  /\ \A t \in Team : barrierCount[t] = arrived[t]
  /\ \A t \in (team + 1)..num_threads : barrierCount[t] = 0
  /\ \A t \in Threads : pc[t] = "locking" => arrived[t] < BarriersDue
  /\ \A t \in Team : pc[t] = "join" \/ t \in Gone => arrived[t] = BarriersDue
  /\ \A t, u \in Team :
       /\ arrived[t] <= arrived[u] + 1
       /\ pc[t] \in {"work", "locking"} => arrived[t] <= arrived[u]

(* The nodes that have been written, by id; the node of an implicit task   *)
(* is a child of the phase below it on the stack.                          *)
TreeInv ==
  /\ \A a \in tree : a.id \in 1..node_ctr
  /\ \A a, b \in tree : a.id = b.id => a = b
  /\ Root \in tree
  /\ \A k \in DOMAIN Phases : Phases[k] \in tree
  /\ \A t \in Threads : InPhase(t) =>
       /\ last_nodes[t][Depth(t) + 3] \in tree
       /\ last_nodes[t][Depth(t) + 3].parent = PhaseNode(barrierCount[t]).id

(* The node of the implicit task of t in its present phase, the members of *)
(* the team that have begun the k-th phase, and the steps under a node.    *)
TaskNode(t) == last_nodes[t][Depth(t) + 3]
Entered(k)  == {t \in Team \ released : barrierCount[t] + 1 >= k}
StepsOf(a)  == {s \in steps : s.parent = a.id}

(* The k-th phase has one ASYNC node for each thread that has begun it,    *)
(* without a step while its thread is in the phase, with one afterwards.   *)
BranchOf(k) ==
  /\ IsFiniteSet(Children(Phases[k]))
  /\ Cardinality(Children(Phases[k])) = Cardinality(Entered(k))
  /\ \A a \in Children(Phases[k]) :
       /\ a.type = "ASYNC"
       /\ IF \E t \in Threads : InPhase(t) /\ a = TaskNode(t)
            THEN StepsOf(a) = {}
            ELSE \E s \in steps : StepsOf(a) = {s}

(* The tree of the region while it is built, on which RegionTreeComplete   *)
(* rests.                                                                  *)
BranchInv ==
  /\ \A a \in tree : a.parent < a.id
  /\ \A s \in steps : s.parent <= node_ctr
  /\ \A t, u \in Threads :
       InPhase(t) /\ InPhase(u) /\ t # u => TaskNode(t) # TaskNode(u)
  /\ region > 0 =>
       /\ Children(region_nodes[1]) = {Phases[k] : k \in DOMAIN Phases}
       /\ \A k \in DOMAIN Phases : BranchOf(k)

----------------------------------------------------------------------------
(* What the profiler implements                                            *)

(* The phase whose FINISH node is on the stack of t.  In the middle of     *)
(* captureBarrierBegin there is none, and t is still in the phase before.  *)
PhaseOf(t) ==
  IF ~Active \/ t \notin Team \ Gone THEN 0
  ELSE IF pc[t] = "locking" THEN barrierCount[t] + 1
  ELSE CHOOSE k \in DOMAIN Phases : Phases[k] = last_nodes[t][Depth(t) + 2]

Members     == IF Active THEN Team ELSE {}
Opened      == IF Active THEN Len(Phases) ELSE 0
PhaseOfEach == [t \in Threads |-> PhaseOf(t)]
Left        == IF Active THEN Gone ELSE {}

PhasesOfRegion == INSTANCE BulkSynchronous WITH
  Workers <- Threads, members <- Members, phases <- Opened, at <- PhaseOfEach,
  left <- Left

(* The nodes on the stacks, which the profiler changes by comparing its    *)
(* own counters, are those of a bulk synchronous program: the phases of    *)
(* the tree are the intervals between the barriers of the team, through    *)
(* any race to a barrier and any number of regions.                        *)
ImplementsPhases == PhasesOfRegion!PhaseSpec

=============================================================================

------------------------------ MODULE Analyzer ------------------------------
(***************************************************************************)
(* The analyzer (src/analyzer/profileReader.cpp): from the rows that the   *)
(* off-line profilers have written it builds the tree, computes the work   *)
(* and the critical path of every node, puts them down to call sites and   *)
(* repeats the computation for what-if questions and for task dependences. *)
(*                                                                         *)
(* Its input is any tree the profilers can write for a program with one    *)
(* parallel region: an ASYNC node always under a FINISH node, and at least *)
(* one child under every node.  The rows are chosen one by one in the      *)
(* order of a walk through the tree, as BuildTree sorts the children of a  *)
(* node and nothing else depends on the ids, and then analyzed: one pass   *)
(* over the tree for the profile, and one for every what-if question, each *)
(* in the nodes as the pass before has left them.                          *)
(* A call site stands for its location: callSiteMap gives each location    *)
(* one id.  The root stands for that of a program or for any FINISH node   *)
(* in one.  The dependences of tasks are on one address; with more of them *)
(* fewer tasks depend on one another.  Steps are inside or outside one     *)
(* what-if region.  The what-if passes do not look at dependences, whatever*)
(* the program has.                                                        *)
(***************************************************************************)
EXTENDS Naturals, Sequences, FiniteSets, FiniteSetsExt

SE == INSTANCE SequencesExt

CONSTANTS
  MaxRows,   \* bound: nodes and steps of a program
  Works,     \* the counts a step may have
  RegionWorks, \* the counts a step of a what-if region may have
  PAR_INC_COUNT,   \* speedups asked about,
  PAR_INC_INIT,    \* the first of them
  PAR_INC_FACTOR,  \* and the factor from one to the next
  MaxWhatIfRows,   \* bound: nodes and steps of a program with what-if passes
  Mixed      \* TRUE if tasks of one location may differ in whether they call
             \* __WHATIF_LOC__ (updateLoc)

ASSUME AnalyzerAssumption ==
  /\ MaxRows \in Nat /\ MaxWhatIfRows \in Nat
  /\ Works \subseteq Nat
  /\ RegionWorks \subseteq Nat
  /\ PAR_INC_COUNT \in Nat
  /\ {PAR_INC_INIT, PAR_INC_FACTOR} \subseteq Nat \ {0}
  /\ Mixed \in BOOLEAN

VARIABLES
  rows,     \* tree_*.csv, rev_tree_*.csv, step_work_*.csv, task_dep_*.csv: by id
  profile   \* what each pass of the analyzer has computed

analyzerVars == <<rows, profile>>

NoLoc == "none"
Locs  == {"loop", "task", "renamed"}  \* locations in the source
NotYet == [state |-> "not yet"]
Thrown == [state |-> "thrown"]

Row(ty, p) ==
  [type |-> ty, parent |-> p, loc |-> NoLoc, revised |-> NoLoc, work |-> 0,
   inRegion |-> FALSE, dep |-> "none"]

AnalyzerInit ==
  /\ rows = <<Row("FINISH", 0)>>
  /\ profile = NotYet

Ids == DOMAIN rows
Internal == {i \in Ids : rows[i].type # "STEP"}
StepIds  == {i \in Ids : rows[i].type = "STEP"}

----------------------------------------------------------------------------
(* The rows                                                                *)

Childless(rs) ==
  {i \in DOMAIN rs : rs[i].type # "STEP" /\ \A j \in DOMAIN rs : rs[j].parent # i}

(* A walk goes on below the last node or one above it, and leaves no node  *)
(* without a child.                                                        *)
Upwards(i) ==
  LET up[j \in Nat] == IF j = 0 THEN {} ELSE {j} \union up[rows[j].parent] IN up[i]

Parents == {p \in Upwards(Len(rows)) \cap Internal : Childless(rows) \subseteq {p}}

Write(r) ==
  /\ profile = NotYet
  /\ Len(rows) + 1 + Cardinality(Childless(Append(rows, r))) <= MaxRows
  /\ rows' = Append(rows, r)
  /\ UNCHANGED profile

WriteStep(p, w, region) ==
  Write([Row("STEP", p) EXCEPT !.work = w, !.inRegion = region])

(* A FINISH node of a region, a phase, a loop, a construct or tasks.       *)
WriteFinish(p, loc) == Write([Row("FINISH", p) EXCEPT !.loc = loc])

Tasks == {i \in Ids : rows[i].loc = "task"}

(* An implicit task or, under the node of a loop, a chunk.                 *)
WriteAsync(p) ==
  /\ rows[p].type = "FINISH"
  /\ \A t \in Tasks : rows[t].parent # p
  /\ Write([Row("ASYNC", p) EXCEPT !.loc = rows[p].loc])

(* An explicit task, under a FINISH node of its own kind: captureTaskAlloc,*)
(* captureTaskDependences and updateLoc.                                   *)
WriteTask(p, dep, renamed) ==
  /\ rows[p].type = "FINISH" /\ rows[p].loc = NoLoc
  /\ \A i \in Ids : rows[i].type = "ASYNC" /\ rows[i].parent = p => i \in Tasks
  /\ \A t \in Tasks :
       /\ rows[t].parent = p => ((dep = "none") <=> (rows[t].dep = "none"))
       /\ ~Mixed => (renamed <=> rows[t].revised # NoLoc)
  /\ Write([Row("ASYNC", p) EXCEPT !.loc = "task", !.dep = dep,
                                   !.revised = IF renamed THEN "renamed" ELSE NoLoc])

----------------------------------------------------------------------------
(* Reading them                                                            *)

(* ReadInternalNodes: a revised row replaces the call site.                *)
SiteOf(i) == IF rows[i].revised # NoLoc THEN rows[i].revised ELSE rows[i].loc

(* Mutant: updateLoc enters no new location in callSiteMap.                *)
SitesOfRows == {rows[i].loc : i \in {j \in Ids : rows[j].revised = NoLoc}} \ {NoLoc}

(* The locations in callsite.csv: those that some row has used, without    *)
(* those that updateLoc has marked in callSitesToRemove.                   *)
KnownSites ==
  LET used    == {rows[i].loc : i \in Ids} \union {rows[i].revised : i \in Ids}
      removed == {rows[i].loc : i \in {j \in Ids : rows[j].revised # NoLoc}}
  IN used \ (removed \union {NoLoc})

(* Mutant: the rows are taken from the last to the first.                  *)
ChildrenReversed(i) == SE!Reverse(SelectSeq([j \in Ids |-> j], LAMBDA j : rows[j].parent = i))

(* BuildTree: the children of a node, by id.                               *)
Children(i) == SelectSeq([j \in Ids |-> j], LAMBDA j : rows[j].parent = i)

(* Of two steps the left one runs first, unless an ASYNC node that the     *)
(* other is not under sets it apart.                                       *)
Serial(x, y) ==
  LET j == Min(Upwards(x) \ Upwards(y))
      k == Min(Upwards(y) \ Upwards(x))
  IN j < k /\ rows[j].type # "ASYNC"

----------------------------------------------------------------------------
(* Work and critical path                                                  *)

NoWork == [s \in Locs |-> 0]
Plus(l1, l2) == [s \in Locs |-> l1[s] + l2[s]]
ListSum(l) == MapThenSumSet(LAMBDA s : l[s], Locs)

(* What ComputeNodeWork has of a node when it comes to its first child.    *)
(* nodeList: node->ssList.  left: its ASYNC children so far.  stale: a     *)
(* step has made the serial path the longest after an ASYNC child had been.*)
NoChild ==
  [stepWork |-> 0, finishcWork |-> 0, finisheWork |-> 0, totalWork |-> 0,
   criticalWork |-> 0, exclusiveWork |-> 0, ssList |-> NoWork, nodeList |-> NoWork,
   from |-> "none", left |-> <<>>, stale |-> FALSE]

SerialWork(a)  == a.finishcWork + a.stepWork
SerialEWork(a) == a.finisheWork + a.stepWork

(* Mutant: the dependences are looked up in the wrong direction.           *)
DependentOnReaders(n, s) == rows[n].dep # "none" /\ rows[s].dep = "in"

(* AreDependent: on one address, of two tasks one of which writes.         *)
AreDependent(n, s) == rows[n].dep # "none" /\ "out" \in {rows[n].dep, rows[s].dep}

(* ProcessNodeDependencies: the longest chain of left siblings that child  *)
(* i depends on, with their call sites.                                    *)
Dependences(a, i) ==
  LET before == {p \in SE!ToSet(a.left) : AreDependent(i, p.id)}
      longest == Max({0} \union {p.dep_c_work + p.cWork : p \in before})
  IN IF longest = 0 THEN [dep_c_work |-> 0, list |-> NoWork]
     ELSE LET p == CHOOSE q \in before :
                     /\ q.dep_c_work + q.cWork = longest
                     /\ \A r \in before : r.dep_c_work + r.cWork = longest => q.id <= r.id
          IN [dep_c_work |-> longest, list |-> p.list]

(* process_task_dep: the tasks of the program have depend clauses.         *)
depends == \E i \in Ids : rows[i].dep # "none"

(* Mutant: the exclusive work of a child with a call site counts twice.    *)
AlwaysOwn(i, c) == c.eWork

(* What a child adds to the exclusive work of its parent.                  *)
OwnWork(i, c) == IF SiteOf(i) = NoLoc THEN c.eWork ELSE 0

TakeAsync(a, i, c, deps) ==
  LET d == IF deps THEN Dependences(a, i) ELSE [dep_c_work |-> 0, list |-> NoWork]
      path == SerialWork(a) + d.dep_c_work + c.cWork
      list == Plus(c.ssList, d.list)
      b == [a EXCEPT !.left = Append(@, [id |-> i, cWork |-> c.cWork, list |-> list,
                                         dep_c_work |-> d.dep_c_work])]
  IN IF path > a.criticalWork
       THEN [b EXCEPT !.criticalWork = path,
                      !.exclusiveWork = SerialEWork(a) + OwnWork(i, c),
                      !.nodeList = Plus(list, a.ssList),
                      !.from = "async", !.stale = FALSE]
       ELSE b

TakeFinish(a, i, c) ==
  LET b == [a EXCEPT !.finishcWork = @ + c.cWork,
                     !.finisheWork = @ + OwnWork(i, c),
                     !.ssList = Plus(@, c.ssList)]
  IN IF SerialWork(b) > a.criticalWork
       THEN [b EXCEPT !.criticalWork = SerialWork(b), !.exclusiveWork = SerialEWork(b),
                      !.nodeList = b.ssList, !.from = "serial", !.stale = FALSE]
       ELSE b

(* A step leaves node->ssList as it is.                                    *)
TakeStep(a, w) ==
  LET b == [a EXCEPT !.stepWork = @ + w] IN
  IF SerialWork(b) > a.criticalWork
    THEN [b EXCEPT !.criticalWork = SerialWork(b), !.exclusiveWork = SerialEWork(b),
                   !.stale = @ \/ a.from = "async"]
    ELSE b

(* What a node holds before the first pass.                                *)
Unread == [work |-> 0, cWork |-> 0, eWork |-> 0, stale |-> FALSE, ssList |-> NoWork]

(* Mutant: the list of the pass before stays with the node.                *)
ListKept(old) == [NoChild EXCEPT !.nodeList = old.ssList, !.from = "before"]

(* A pass drops the list that the pass before has left in the node.        *)
Emptied(old) == NoChild

(* ComputeNodeWork for every node, where step i counts as weight[i] on the *)
(* path: the longest of the paths that end in one of the children, which   *)
(* are taken in turn.  old[i] is what the node holds.                      *)
NodeWork(weight, deps, old) ==
  LET take(a, i, c) ==
        LET b == CASE rows[i].type = "ASYNC"  -> TakeAsync(a, i, c, deps)
                   [] rows[i].type = "FINISH" -> TakeFinish(a, i, c)
                   [] OTHER -> TakeStep(a, weight[i])
        IN [b EXCEPT !.totalWork = @ + c.work]
      done(i, a) ==
        LET list == IF a.from = "none" THEN a.ssList ELSE a.nodeList IN
        [work |-> a.totalWork, cWork |-> a.criticalWork, eWork |-> a.exclusiveWork,
         stale |-> a.stale,
         ssList |-> IF SiteOf(i) = NoLoc THEN list
                    ELSE [list EXCEPT ![SiteOf(i)] = @ + a.exclusiveWork]]
      node[i \in Ids] ==
        IF rows[i].type = "STEP"
          THEN [work |-> rows[i].work, cWork |-> rows[i].work, eWork |-> rows[i].work,
                stale |-> FALSE, ssList |-> NoWork]
          ELSE done(i, SE!FoldLeft(LAMBDA a, j : take(a, j, node[j]), Emptied(old[i]), Children(i)))
  IN node

----------------------------------------------------------------------------
(* Call sites                                                              *)

(* CallSiteDFS: the nodes of a call site that have none of it above them.  *)
Outermost(s) ==
  {i \in Internal : SiteOf(i) = s /\ \A j \in Upwards(i) \ {i} : SiteOf(j) # s}

(* Mutant: the loop's last execution takes the place of the others.        *)
LastExecution(before, node) ==
  IF Outermost("loop") = {} THEN before ELSE node[Max(Outermost("loop"))].cWork

(* loopInstances has one entry for a loop of the region: the critical work *)
(* of its longest execution.                                               *)
Longest(before, node) == Max({before} \union {node[i].cWork : i \in Outermost("loop")})

(* What the passes work on: the nodes, allCallSites and loopInstances.     *)
NoSites == [s \in KnownSites |-> [work |-> 0, cWork |-> 0]]
AsRead  == [node |-> [i \in Ids |-> Unread], sites |-> NoSites, loop |-> 0]

(* loopInstances.clear() and the first loop of ComputeCallSiteWorkCausal.  *)
Cleared(m) == [m EXCEPT !.sites = NoSites, !.loop = 0]

(* ComputeCallSiteWork and ComputeCallSiteWorkCausal.                      *)
CallSiteWork(m) ==
  LET loop == Longest(m.loop, m.node) IN
  [m EXCEPT !.loop = loop,
            !.sites = [s \in KnownSites |->
     [work  |-> @[s].work + MapThenSumSet(LAMBDA i : m.node[i].work, Outermost(s)),
      cWork |-> IF s = "loop" THEN loop
                ELSE @[s].cWork + MapThenSumSet(LAMBDA i : m.node[i].cWork, Outermost(s))]]]

(* One pass over the tree, in what the pass before has left.               *)
Pass(weight, deps, m) ==
  CallSiteWork([Cleared(m) EXCEPT !.node = NodeWork(weight, deps, m.node)])

(* .at throws where the site of a node is not in callsite.csv.             *)
UnknownSites == {SiteOf(i) : i \in Internal} \ (KnownSites \union {NoLoc})

----------------------------------------------------------------------------
(* What if                                                                 *)

Measured == [i \in StepIds |-> rows[i].work]

(* Mutant: the work itself is divided.                                     *)
WorkLost(s) ==
  [i \in StepIds |-> IF rows[i].inRegion THEN rows[i].work - (rows[i].work \div s)
                     ELSE rows[i].work]

(* FullComputeNodeWorkCausal: what a step of a what-if region counts.      *)
Faster(s) ==
  [i \in StepIds |->
     IF rows[i].inRegion THEN rows[i].work - (rows[i].work - (rows[i].work \div s))
     ELSE rows[i].work]

(* ComputeAllWork: the pass for the profile.                               *)
Analyze ==
  /\ profile = NotYet
  /\ Childless(rows) = {}
  /\ profile' = IF UnknownSites # {} THEN Thrown
                ELSE [state |-> "analyzed", passes |-> <<Pass(Measured, depends, AsRead)>>]
  /\ UNCHANGED rows

Analyzed == profile.state = "analyzed"
Passes   == Len(profile.passes)

(* FullCausalProfile asks about every region and then about all together.  *)
Questions ==
  IF Len(rows) <= MaxWhatIfRows /\ \E i \in StepIds : rows[i].inRegion
    THEN 2 * PAR_INC_COUNT ELSE 0
Speedup(q) == PAR_INC_INIT * PAR_INC_FACTOR ^ ((q - 1) % PAR_INC_COUNT)

(* FullCausalProfile: the pass for the next question.                      *)
WhatIf ==
  /\ Analyzed /\ Passes <= Questions
  /\ profile' = [profile EXCEPT !.passes =
                   Append(@, Pass(Faster(Speedup(Passes)), FALSE, SE!Last(@)))]
  /\ UNCHANGED rows

AnalyzerDone ==
  /\ profile = Thrown \/ (Analyzed /\ Passes > Questions)
  /\ UNCHANGED analyzerVars

AnalyzerNext ==
  \/ \E p \in Parents :
       \/ \E w \in Works : WriteStep(p, w, FALSE)
       \/ \E w \in RegionWorks : WriteStep(p, w, TRUE)
       \/ \E loc \in {NoLoc, "loop"} : WriteFinish(p, loc)
       \/ WriteAsync(p)
       \/ \E dep \in {"none", "in", "out"}, renamed \in BOOLEAN : WriteTask(p, dep, renamed)
  \/ Analyze
  \/ WhatIf
  \/ AnalyzerDone

AnalyzerSpec == AnalyzerInit /\ [][AnalyzerNext]_analyzerVars

----------------------------------------------------------------------------
(* Properties                                                              *)

ThisPass == profile.passes[Passes]
Below(i) == {j \in Ids : i \in Upwards(j)}

(* For every node the heaviest chain of steps below it that run one after  *)
(* the other, by the order of the tree or because before(x, y) says so.    *)
HeaviestChain(weight, before(_, _)) ==
  LET order == {<<x, y>> \in StepIds \X StepIds : x # y /\ (Serial(x, y) \/ before(x, y))}
      heaviest(S) ==
        LET end[y \in S] == weight[y] + Max({0} \union {end[x] : x \in {z \in S :
                                                               <<z, y>> \in order}})
        IN Max({0} \union {end[y] : y \in S})
  IN [i \in Internal |-> heaviest(Below(i) \cap StepIds)]

Never(x, y) == FALSE

(* Step x is of an older sibling of the task of step y, and both tasks     *)
(* have a dependence on one address.                                       *)
ByDependence(x, y) ==
  \E t \in Upwards(x) \cap Tasks, u \in Upwards(y) \cap Tasks :
    /\ t < u /\ rows[t].parent = rows[u].parent
    /\ "out" \in {rows[t].dep, rows[u].dep}

(* Two executions of a loop one of which is over before the other starts,  *)
(* or which dependences of tasks may set in an order.                      *)
InSeries(i, j) == Serial(i, j) \/ Serial(j, i) \/ depends

MostInSeries(s) ==
  Max({1} \union {Cardinality(S) : S \in {T \in SUBSET Outermost(s) :
                                          \A i, j \in T : i # j => InSeries(i, j)}})

(* Without task dependences the critical work that ComputeNodeWork finds   *)
(* for a node is the weight of the heaviest chain of steps below it that   *)
(* the tree orders.                                                        *)
CriticalPathIsHeaviestChain ==
  Analyzed /\ Passes = 1 /\ ~depends =>
    HeaviestChain(Measured, Never) = [i \in Internal |-> ThisPass.node[i].cWork]

(* With task dependences the critical work is no less than the heaviest    *)
(* chain that the dependences and the tree allow, and no more than all work.*)
DependentPathIsCovered ==
  Analyzed /\ Passes = 1 =>
    LET heaviest == HeaviestChain(Measured, ByDependence) IN
    \A i \in Internal :
      /\ heaviest[i] <= ThisPass.node[i].cWork
      /\ ThisPass.node[i].cWork <= ThisPass.node[i].work

PartsOf(i) ==
  ListSum(ThisPass.node[i].ssList) + (IF SiteOf(i) = NoLoc THEN ThisPass.node[i].eWork ELSE 0)

(* In every pass the shares of the call sites in the critical path and its *)
(* exclusive work add up to it, for every node in which no step has taken  *)
(* the path back from an ASYNC child.                                      *)
PartsMakeCriticalPath ==
  Analyzed =>
    \A i \in Internal :
      (\A j \in Below(i) : ~ThisPass.node[j].stale) => PartsOf(i) = ThisPass.node[i].cWork

(* The same for every node: "sum(node.ssList.c_work)  == node.c_work".     *)
PartsAlwaysMakeCriticalPath ==
  Analyzed => \A i \in Internal : PartsOf(i) = ThisPass.node[i].cWork

(* A what-if pass gives each node the heaviest chain of steps where the    *)
(* steps of the region take a speedup-th of their work, rounded down, and  *)
(* leaves its work as it is.                                               *)
WhatIfIsHeaviestChain ==
  Analyzed /\ Passes > 1 =>
    LET s     == Speedup(Passes - 1)
        quick == [j \in StepIds |-> IF rows[j].inRegion THEN rows[j].work \div s
                                    ELSE rows[j].work]
        heaviest == HeaviestChain(quick, Never)
    IN \A i \in Internal :
         /\ ThisPass.node[i].cWork = heaviest[i]
         /\ ThisPass.node[i].work = profile.passes[1].node[i].work

(* A what-if pass finds in the nodes and call sites that the passes before *)
(* have used what it would find in a tree that has just been read: the     *)
(* answer to a question does not depend on the questions before it.        *)
PassesAreIndependent ==
  Analyzed /\ Passes > 1 => ThisPass = Pass(Faster(Speedup(Passes - 1)), FALSE, AsRead)

(* The site of every node is in callsite.csv: no lookup throws.            *)
SitesAreKnown == profile # Thrown

(* In every pass, of a call site: its work is that of the steps under its  *)
(* nodes, each counted once when the site is recursive; its critical work  *)
(* is within its work, and its share of the critical path within its       *)
(* critical work, or where a loop is executed again in the region, within  *)
(* that of as many executions as can follow one another.                   *)
SitesAreConsistent ==
  Analyzed =>
    \A s \in DOMAIN ThisPass.sites :
      LET site  == ThisPass.sites[s]
          under == {x \in StepIds : \E i \in Upwards(x) : SiteOf(i) = s}
          times == IF s = "loop" THEN MostInSeries(s) ELSE 1
      IN /\ site.work = MapThenSumSet(LAMBDA x : rows[x].work, under)
         /\ site.cWork <= site.work
         /\ (\A j \in Internal : ~ThisPass.node[j].stale)
              => ThisPass.node[1].ssList[s] <= times * site.cWork

=============================================================================

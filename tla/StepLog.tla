------------------------------ MODULE StepLog ------------------------------
(***************************************************************************)
(* What the off-line PerfProfiler promises: every thread has a log of      *)
(* steps, and an event that ends a step appends it, with a fresh id, the   *)
(* work that was measured, the lock it released and the region it ended.   *)
(***************************************************************************)
EXTENDS Naturals, Sequences

CONSTANTS
  Threads,   \* the threads that log steps
  Master,    \* the thread that ends the program
  Works,     \* what a counter may have measured
  Locks,     \* ids of critical sections, not 0
  Regions    \* regions marked for what-if profiling

VARIABLES
  log,       \* log[t]: the steps of t
  node_ctr,  \* the last id handed out
  finished   \* the program has ended

logVars == <<log, node_ctr, finished>>

(* Work of a region: a map from regions to work, empty for most steps.     *)
NoRegion        == [r \in {} |-> 0]
OneRegion(r, w) == [x \in {r} |-> w]
RegionWork == {NoRegion} \union {OneRegion(r, w) : r \in Regions, w \in Works}

Step(i, w, l, rw) == [incrId |-> i, work |-> w, lockId |-> l, region_work |-> rw]
StepRecord == [incrId : Nat, work : Nat, lockId : Nat, region_work : RegionWork]

LogInit ==
  /\ log = [t \in Threads |-> <<>>]
  /\ node_ctr = 0
  /\ finished = FALSE

AppendStep(t, w, l, rw) ==
  /\ log' = [log EXCEPT ![t] = Append(@, Step(node_ctr + 1, w, l, rw))]
  /\ node_ctr' = node_ctr + 1

LogStep(t) ==
  /\ ~finished
  /\ \E w \in Works :
       \/ AppendStep(t, w, 0, NoRegion)
       \/ \E l \in Locks : AppendStep(t, w, l, NoRegion)
       \/ \E r \in Regions : AppendStep(t, w, 0, OneRegion(r, w))
  /\ UNCHANGED finished

(* The other profiler takes an id for a node of the tree.                  *)
LogNode ==
  /\ ~finished
  /\ node_ctr' = node_ctr + 1
  /\ UNCHANGED <<log, finished>>

(* The last step of the program; no region is promised to be absent.       *)
LogFinish ==
  /\ ~finished
  /\ \E w \in Works, rw \in RegionWork : AppendStep(Master, w, 0, rw)
  /\ finished' = TRUE

LogNext == (\E t \in Threads : LogStep(t)) \/ LogNode \/ LogFinish

LogSpec == LogInit /\ [][LogNext]_logVars

----------------------------------------------------------------------------
(* A log is in the order of its ids, and no two steps have the same id,    *)
(* whatever threads logged them: the analyzer finds the parent and the     *)
(* place of a step by its id alone.                                        *)
IdsInOrder ==
  /\ \A t \in Threads : \A i, j \in 1..Len(log[t]) :
       i < j => log[t][i].incrId < log[t][j].incrId
  /\ \A t, u \in Threads : \A i \in 1..Len(log[t]), j \in 1..Len(log[u]) :
       log[t][i].incrId = log[u][j].incrId => t = u

(* What makes it inductive: no id in a log is larger than the last one     *)
(* handed out.                                                             *)
LogRecord == [incrId : Nat, work : Works, lockId : Locks \union {0},
              region_work : RegionWork]

LogInv ==
  /\ node_ctr \in Nat
  /\ log \in [Threads -> Seq(LogRecord)]
  /\ \A t \in Threads : \A i \in 1..Len(log[t]) : log[t][i].incrId <= node_ctr
  /\ IdsInOrder

=============================================================================

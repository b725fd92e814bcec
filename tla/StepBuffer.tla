----------------------------- MODULE StepBuffer ----------------------------
(***************************************************************************)
(* How the off-line PerfProfiler keeps its log                             *)
(* (src/ompproflib_offline/perf_profiler.cpp): a row of NUM_ENTRIES        *)
(* entries for each thread, written to the thread's file when the row is   *)
(* full at the NEXT event.  A handler adds to the work of the entry it     *)
(* fills (+=), so an entry must be clean before it is used; it is cleaned  *)
(* by the handler that fills the entry before it.                          *)
(*                                                                         *)
(* The rows are one array: the entry after the last of a row is the first  *)
(* of the next.                                                            *)
(***************************************************************************)
EXTENDS Naturals, Sequences

CONSTANTS
  NumThreads,   \* NUM_THREADS, more than one
  NumEntries,   \* NUM_ENTRIES
  Works, Locks, Regions,
  MaxIds        \* bound: ids handed out in a run

ASSUME BufferAssumption ==
  /\ NumThreads \in Nat \ {0, 1}
  /\ NumEntries \in Nat \ {0}
  /\ Works \subseteq Nat
  /\ Locks \subseteq Nat \ {0}
  /\ MaxIds \in Nat

VARIABLES
  step_work_list,  \* step_work_list[t][i]
  last_allocated,  \* last_allocated[t]: how many entries of the row are used
  perf_report,     \* perf_report[t]: the steps in the file of t
  node_ctr,        \* the last id handed out
  regionMap,       \* the regions whose place in the source is known
  finished         \* finishProfile has run

bufferVars == <<step_work_list, last_allocated, perf_report, node_ctr, regionMap, finished>>

Threads == 1..NumThreads
Master  == 1
Entries == 1..NumEntries

NoRegion        == [r \in {} |-> 0]
OneRegion(r, w) == [x \in {r} |-> w]
RegionWork == {NoRegion} \union {OneRegion(r, w) : r \in Regions, w \in Works}

Step(i, w, l, rw) == [incrId |-> i, work |-> w, lockId |-> l, region_work |-> rw]
StepRecord == [incrId : Nat, work : Nat, lockId : Nat, region_work : RegionWork]

BufferInit ==
  /\ step_work_list = [t \in Threads |-> [i \in Entries |-> Step(0, 0, 0, NoRegion)]]
  /\ last_allocated = [t \in Threads |-> 0]
  /\ perf_report = [t \in Threads |-> <<>>]
  /\ node_ctr = 0
  /\ regionMap = {}
  /\ finished = FALSE

(* Mutants: the work, the lock or the region work is left as it is.        *)
CleanedButWork(e)   == Step(e.incrId, e.work, 0, NoRegion)
CleanedButLock(e)   == Step(e.incrId, 0, e.lockId, NoRegion)
CleanedButRegion(e) == Step(e.incrId, 0, 0, e.region_work)

(* What ClearStepWorkListEntry leaves of an entry.                         *)
Cleaned(e) == Step(e.incrId, 0, 0, NoRegion)

(* The work w of region r is added to a map of region work.                *)
AddRegion(m, r, w) ==
  [x \in DOMAIN m \union {r} |->
     IF x # r THEN m[x] ELSE IF r \in DOMAIN m THEN m[r] + w ELSE w]

(* The used part of a row, and all that has been logged for a thread.      *)
Used(t)   == [i \in 1..last_allocated[t] |-> step_work_list[t][i]]
Logged(t) == perf_report[t] \o Used(t)

(* Mutant: the row is written with one entry left.                         *)
OneEntryLeft(t) == last_allocated[t] + 1 = NumEntries

Full(t) == last_allocated[t] = NumEntries

(* The entry that the next event fills; a full row starts again.           *)
NextIndex(t) == IF Full(t) THEN 1 ELSE last_allocated[t] + 1
NextEntry(t) == IF Full(t) THEN Cleaned(step_work_list[t][1])
                ELSE step_work_list[t][NextIndex(t)]

(* The entry with the id and the work of the step that has ended.          *)
Measured(t, w) ==
  LET e == NextEntry(t) IN Step(node_ctr + 1, e.work + w, e.lockId, e.region_work)

(* An event that ends a step of t: a full row is written to the file, the  *)
(* next entry becomes e and the one after it is cleaned, if there is one   *)
(* (ClearStepWorkListEntry).                                               *)
Record(t, e) ==
  /\ ~finished
  /\ node_ctr < MaxIds
  /\ node_ctr' = node_ctr + 1
  /\ perf_report' =
       IF Full(t) THEN [perf_report EXCEPT ![t] = @ \o step_work_list[t]] ELSE perf_report
  /\ step_work_list' = [step_work_list EXCEPT ![t] =
       [i \in Entries |-> IF i = NextIndex(t) THEN e
                          ELSE IF i = NextIndex(t) + 1 THEN Cleaned(@[i]) ELSE @[i]]]
  /\ last_allocated' = [last_allocated EXCEPT ![t] = NextIndex(t)]
  /\ UNCHANGED finished

(* CaptureParallelBegin, MasterBegin/End, SingleBegin/EndEnter, TaskEnd,   *)
(* ImplicitTaskEnd, TaskWaitBegin, BarrierBegin, TaskAllocEnter,           *)
(* CausalBegin, WaitCritical, LoopBegin/End/ChunkEnter.                    *)
RecordStep(t, w) == Record(t, Measured(t, w)) /\ UNCHANGED regionMap

(* CaptureReleaseCritical.                                                 *)
ReleaseCritical(t, w, l) ==
  Record(t, [Measured(t, w) EXCEPT !.lockId = l]) /\ UNCHANGED regionMap

(* CaptureCausalEnd.                                                       *)
CausalEnd(t, w, r) ==
  /\ Record(t, [Measured(t, w) EXCEPT !.region_work = AddRegion(@, r, w)])
  /\ regionMap' = regionMap \union {r}

(* OpenmpProfiler takes an id for a node of the tree.                      *)
TakeId ==
  /\ ~finished
  /\ node_ctr < MaxIds
  /\ node_ctr' = node_ctr + 1
  /\ UNCHANGED <<step_work_list, last_allocated, perf_report, regionMap, finished>>

(* step_work_list[0][last_allocated[0]], which is the first entry of the   *)
(* next row when the row of the master is full.                            *)
SlotAfter ==
  IF last_allocated[Master] < NumEntries
  THEN step_work_list[Master][last_allocated[Master] + 1]
  ELSE step_work_list[Master + 1][1]

(* finishProfile: all rows are written, then the master's last step, with  *)
(* the region work found in the entry after its last one.                  *)
FinishProfile(w) ==
  LET last == Step(node_ctr + 1, w, 0, SlotAfter.region_work) IN
  /\ ~finished
  /\ node_ctr' = node_ctr + 1
  /\ perf_report' = [t \in Threads |->
       IF t = Master THEN Append(Logged(t), last) ELSE Logged(t)]
  /\ finished' = TRUE
  /\ UNCHANGED <<step_work_list, last_allocated, regionMap>>

BufferNext ==
  \/ \E t \in Threads, w \in Works :
       \/ RecordStep(t, w)
       \/ \E l \in Locks : ReleaseCritical(t, w, l)
       \/ \E r \in Regions : CausalEnd(t, w, r)
  \/ TakeId
  \/ \E w \in Works : FinishProfile(w)

BufferSpec == BufferInit /\ [][BufferNext]_bufferVars

----------------------------------------------------------------------------
(* The buffer implements the log: the log of a thread is its file followed *)
(* by the used part of its row, until the rows are written for good.       *)
LogOf(t) == IF finished THEN perf_report[t] ELSE Logged(t)

L == INSTANCE StepLog WITH log <- [t \in Threads |-> LogOf(t)]

(* Every step is logged once, with the work that was measured for it and   *)
(* nothing left over from the entry's earlier use, through any number of   *)
(* flushes (all handlers of perf_profiler.cpp that stop the counter).      *)
ImplementsLog == L!LogSpec

(* Ids stay unique and ordered in the files.                               *)
IdsStayInOrder == L!IdsInOrder

BufferTypeOK ==
  /\ step_work_list \in [Threads -> [Entries -> StepRecord]]
  /\ last_allocated \in [Threads -> 0..NumEntries]
  /\ perf_report \in [Threads -> Seq(StepRecord)]
  /\ node_ctr \in Nat
  /\ regionMap \subseteq Regions
  /\ finished \in BOOLEAN

(* The entry that the next event fills is clean, unless the row is full    *)
(* (the guard of ClearStepWorkListEntry, perf_profiler.cpp:6).             *)
NextEntryClean ==
  \A t \in Threads : last_allocated[t] < NumEntries =>
    LET e == step_work_list[t][last_allocated[t] + 1] IN
    e.work = 0 /\ e.lockId = 0 /\ e.region_work = NoRegion

BufferInv == BufferTypeOK /\ NextEntryClean

(* Region work in the log is the work of a CausalEnd of the same thread:   *)
(* it equals the work of its step, and the region is described in          *)
(* regionMap.  The one exception is the last step of a program that ends   *)
(* when the master's row is full: finishProfile then reads past the row    *)
(* (perf_profiler.cpp:959) and gives it the region work of another thread. *)
RegionWorkIsOwn ==
  \A t \in Threads : \A i \in 1..Len(LogOf(t)) :
    LET e == LogOf(t)[i] IN
    \/ finished /\ Full(Master) /\ t = Master /\ i = Len(LogOf(t))
    \/ \A r \in DOMAIN e.region_work : r \in regionMap /\ e.region_work[r] = e.work

=============================================================================

-------------------------- MODULE StepBufferProofs -------------------------
(***************************************************************************)
(* The rows of entries of the off-line PerfProfiler keep the log they      *)
(* promise, for every number of threads and every size of the rows.        *)
(***************************************************************************)
EXTENDS StepBuffer, SequenceTheorems, TLAPS

----------------------------------------------------------------------------
(* Entries and steps                                                       *)

LEMMA NoRegionType == NoRegion \in RegionWork
  BY DEF RegionWork

LEMMA StepType ==
  ASSUME NEW i \in Nat, NEW w \in Nat, NEW l \in Nat, NEW rw \in RegionWork
  PROVE  Step(i, w, l, rw) \in StepRecord
  BY DEF Step, StepRecord

LEMMA CleanedType ==
  ASSUME NEW e \in StepRecord
  PROVE  /\ Cleaned(e) \in StepRecord
         /\ Cleaned(e).work = 0 /\ Cleaned(e).lockId = 0
         /\ Cleaned(e).region_work = NoRegion
  <1>1. e.incrId \in Nat
    BY DEF StepRecord
  <1>2. Step(e.incrId, 0, 0, NoRegion) \in StepRecord
    BY <1>1, NoRegionType, StepType
  <1>3. QED
    BY <1>2 DEF Cleaned, Step

(* The entry the next event fills exists and is clean.                     *)
LEMMA NextEntryIsClean ==
  ASSUME BufferInv, NEW t \in Threads
  PROVE  /\ NextIndex(t) \in Entries
         /\ \E i \in Nat : NextEntry(t) = Step(i, 0, 0, NoRegion)
  <1>1. /\ last_allocated[t] \in 0..NumEntries
        /\ NumEntries \in Nat \ {0}
        /\ \A i \in Entries : step_work_list[t][i] \in StepRecord
    BY BufferAssumption DEF BufferInv, BufferTypeOK
  <1>2. CASE Full(t)
    <2>1. 1 \in Entries
      BY <1>1 DEF Entries
    <2>2. step_work_list[t][1].incrId \in Nat
      BY <1>1, <2>1 DEF StepRecord
    <2>3. QED
      BY <1>1, <1>2, <2>1, <2>2 DEF NextIndex, NextEntry, Cleaned
  <1>3. CASE ~Full(t)
    <2>1. last_allocated[t] < NumEntries /\ last_allocated[t] + 1 \in Entries
      BY <1>1, <1>3 DEF Full, Entries
    <2> DEFINE e == step_work_list[t][last_allocated[t] + 1]
    <2>2. e \in StepRecord
      BY <1>1, <2>1
    <2>3. e.work = 0 /\ e.lockId = 0 /\ e.region_work = NoRegion
      BY <2>1 DEF BufferInv, NextEntryClean
    <2>4. e = Step(e.incrId, 0, 0, NoRegion) /\ e.incrId \in Nat
      BY <2>2, <2>3 DEF Step, StepRecord
    <2>5. NextEntry(t) = e /\ NextIndex(t) \in Entries
      BY <1>3, <2>1 DEF NextEntry, NextIndex
    <2>6. QED
      BY <2>4, <2>5
  <1>4. QED
    BY <1>2, <1>3

(* What a handler measures is logged as it is: nothing is left in the      *)
(* entry from its earlier use.                                             *)
LEMMA MeasuredIsStep ==
  ASSUME BufferInv, NEW t \in Threads, NEW w \in Works
  PROVE  Measured(t, w) = Step(node_ctr + 1, w, 0, NoRegion)
  <1>1. PICK i \in Nat : NextEntry(t) = Step(i, 0, 0, NoRegion)
    BY NextEntryIsClean
  <1>2. w \in Nat
    BY BufferAssumption
  <1>3. 0 + w = w
    BY <1>2
  <1>4. QED
    BY <1>1, <1>3 DEF Measured, Step

LEMMA FirstRegion ==
  ASSUME NEW r, NEW w
  PROVE  AddRegion(NoRegion, r, w) = OneRegion(r, w)
  BY DEF AddRegion, NoRegion, OneRegion

----------------------------------------------------------------------------
(* Recording a step                                                        *)

(* The used part of a row is a sequence, the whole row when it is full.    *)
LEMMA UsedType ==
  ASSUME BufferTypeOK, NEW t \in Threads
  PROVE  /\ Used(t) \in Seq(StepRecord)
         /\ Len(Used(t)) = last_allocated[t]
         /\ Logged(t) \in Seq(StepRecord)
         /\ LogOf(t) \in Seq(StepRecord)
  <1>1. /\ last_allocated[t] \in 0..NumEntries /\ NumEntries \in Nat
        /\ \A i \in Entries : step_work_list[t][i] \in StepRecord
        /\ perf_report[t] \in Seq(StepRecord)
    BY BufferAssumption DEF BufferTypeOK
  <1>2. last_allocated[t] \in Nat /\ 1..last_allocated[t] \subseteq Entries
    BY <1>1 DEF Entries
  <1>3. Used(t) \in [1..last_allocated[t] -> StepRecord]
    BY <1>1, <1>2 DEF Used
  <1>4. Used(t) \in Seq(StepRecord) /\ Len(Used(t)) = last_allocated[t]
    BY <1>2, <1>3, SeqDef
  <1>5. Logged(t) \in Seq(StepRecord)
    BY <1>1, <1>4, ConcatProperties DEF Logged
  <1>6. QED
    BY <1>1, <1>4, <1>5 DEF LogOf

LEMMA AppendInside ==
  ASSUME NEW p \in Seq(StepRecord), NEW u \in Seq(StepRecord), NEW e \in StepRecord
  PROVE  p \o Append(u, e) = Append(p \o u, e)
  <1> DEFINE a == p \o Append(u, e)
             b == Append(p \o u, e)
  <1>1. Len(p) \in Nat /\ Len(u) \in Nat
    BY LenProperties
  <1>2. /\ Append(u, e) \in Seq(StepRecord)
        /\ Len(Append(u, e)) = Len(u) + 1
        /\ \A i \in 1..Len(u) : Append(u, e)[i] = u[i]
        /\ Append(u, e)[Len(u) + 1] = e
    BY AppendProperties
  <1>3. /\ p \o u \in Seq(StepRecord)
        /\ Len(p \o u) = Len(p) + Len(u)
        /\ \A i \in 1..(Len(p) + Len(u)) :
             (p \o u)[i] = IF i <= Len(p) THEN p[i] ELSE u[i - Len(p)]
    BY ConcatProperties
  <1>4. /\ a \in Seq(StepRecord)
        /\ Len(a) = Len(p) + Len(u) + 1
        /\ \A i \in 1..(Len(p) + Len(u) + 1) :
             a[i] = IF i <= Len(p) THEN p[i] ELSE Append(u, e)[i - Len(p)]
    BY <1>1, <1>2, ConcatProperties
  <1>5. /\ b \in Seq(StepRecord)
        /\ Len(b) = Len(p) + Len(u) + 1
        /\ \A i \in 1..(Len(p) + Len(u)) : b[i] = (p \o u)[i]
        /\ b[Len(p) + Len(u) + 1] = e
    BY <1>3, AppendProperties
  <1> HIDE DEF a, b
  <1>6. \A i \in 1..Len(a) : a[i] = b[i]
    <2>1. SUFFICES ASSUME NEW i \in 1..Len(a) PROVE a[i] = b[i]
      OBVIOUS
    <2>2. i \in Nat /\ 1 <= i /\ i <= Len(p) + Len(u) + 1
      BY <1>1, <1>4
    <2>3. CASE i <= Len(p)
      <3>1. i \in 1..(Len(p) + Len(u)) /\ i \in 1..(Len(p) + Len(u) + 1)
        BY <2>2, <2>3, <1>1
      <3>2. a[i] = p[i]
        BY <2>3, <3>1, <1>4
      <3>3. (p \o u)[i] = p[i]
        BY <2>3, <3>1, <1>3
      <3>4. b[i] = p[i]
        BY <3>1, <3>3, <1>5
      <3>5. QED
        BY <3>2, <3>4
    <2>4. CASE i > Len(p) /\ i <= Len(p) + Len(u)
      <3>1. i - Len(p) \in 1..Len(u)
        BY <2>2, <2>4, <1>1
      <3>2. i \in 1..(Len(p) + Len(u)) /\ i \in 1..(Len(p) + Len(u) + 1) /\ ~(i <= Len(p))
        BY <2>2, <2>4, <1>1
      <3>3. a[i] = Append(u, e)[i - Len(p)]
        BY <3>2, <1>4
      <3>4. Append(u, e)[i - Len(p)] = u[i - Len(p)]
        BY <3>1, <1>2
      <3>5. (p \o u)[i] = u[i - Len(p)]
        BY <3>2, <1>3
      <3>6. b[i] = (p \o u)[i]
        BY <3>2, <1>5
      <3>7. QED
        BY <3>3, <3>4, <3>5, <3>6
    <2>5. CASE i = Len(p) + Len(u) + 1
      <3>1. i - Len(p) = Len(u) + 1 /\ i \in 1..(Len(p) + Len(u) + 1) /\ ~(i <= Len(p))
        BY <2>5, <1>1
      <3>2. a[i] = Append(u, e)[i - Len(p)]
        BY <3>1, <1>4
      <3>3. Append(u, e)[i - Len(p)] = e
        BY <3>1, <1>2
      <3>4. b[i] = e
        BY <2>5, <1>5
      <3>5. QED
        BY <3>2, <3>3, <3>4
    <2>6. QED
      BY <2>2, <2>3, <2>4, <2>5, <1>1
  <1>7. a = b
    BY <1>4, <1>5, <1>6, SeqEqual
  <1>8. QED
    BY <1>7 DEF a, b

LEMMA UsedTypePrime ==
  ASSUME BufferTypeOK', NEW t \in Threads
  PROVE  /\ Used(t)' \in Seq(StepRecord)
         /\ Len(Used(t)') = last_allocated'[t]
  <1>1. /\ last_allocated'[t] \in 0..NumEntries /\ NumEntries \in Nat
        /\ \A i \in Entries : step_work_list'[t][i] \in StepRecord
    BY BufferAssumption DEF BufferTypeOK
  <1>2. last_allocated'[t] \in Nat /\ 1..last_allocated'[t] \subseteq Entries
    BY <1>1 DEF Entries
  <1>3. Used(t)' \in [1..last_allocated'[t] -> StepRecord]
    BY <1>1, <1>2 DEF Used
  <1>4. QED
    BY <1>2, <1>3, SeqDef

(* An event appends exactly its step to the log of its thread, whether or  *)
(* not the row was full, and leaves the next entry clean.                  *)
LEMMA RecordAppends ==
  ASSUME BufferInv, NEW t \in Threads, NEW e \in StepRecord, Record(t, e),
         regionMap' \subseteq Regions
  PROVE  /\ BufferInv'
         /\ [u \in Threads |-> LogOf(u)]' =
              [[u \in Threads |-> LogOf(u)] EXCEPT ![t] = Append(@, e)]
  <1> DEFINE n == NextIndex(t)
  <1>1. /\ n \in Entries /\ n \in Nat
        /\ NumEntries \in Nat \ {0} /\ last_allocated[t] \in 0..NumEntries
        /\ ~finished /\ ~finished' /\ finished' \in BOOLEAN
        /\ node_ctr' = node_ctr + 1 /\ node_ctr \in Nat
    BY NextEntryIsClean, BufferAssumption
    DEF Record, Entries, BufferInv, BufferTypeOK
  <1>2. \A u \in Threads, i \in Entries :
          step_work_list[u][i] \in StepRecord /\ Cleaned(step_work_list[u][i]) \in StepRecord
    BY CleanedType DEF BufferInv, BufferTypeOK
  <1>3. /\ step_work_list' \in [Threads -> [Entries -> StepRecord]]
        /\ \A u \in Threads \ {t} : step_work_list'[u] = step_work_list[u]
        /\ \A i \in Entries : step_work_list'[t][i] =
             IF i = n THEN e
             ELSE IF i = n + 1 THEN Cleaned(step_work_list[t][i])
             ELSE step_work_list[t][i]
    BY <1>2 DEF Record, BufferInv, BufferTypeOK
  <1>4. /\ last_allocated' = [last_allocated EXCEPT ![t] = n]
        /\ last_allocated' \in [Threads -> 0..NumEntries]
        /\ last_allocated'[t] = n
        /\ \A u \in Threads \ {t} : last_allocated'[u] = last_allocated[u]
    BY <1>1 DEF Record, BufferInv, BufferTypeOK, Entries
  <1>5. /\ \A u \in Threads \ {t} : perf_report'[u] = perf_report[u]
        /\ perf_report'[t] = IF Full(t) THEN perf_report[t] \o step_work_list[t]
                                        ELSE perf_report[t]
        /\ perf_report[t] \in Seq(StepRecord)
    BY DEF Record, BufferInv, BufferTypeOK
  <1>6. Full(t) => Used(t) = step_work_list[t]
    BY DEF Full, Used, Entries, BufferInv, BufferTypeOK
  <1>7. perf_report' \in [Threads -> Seq(StepRecord)]
    <2>1. Used(t) \in Seq(StepRecord)
      BY UsedType DEF BufferInv
    <2>2. perf_report'[t] \in Seq(StepRecord)
      BY <2>1, <1>5, <1>6, ConcatProperties
    <2>3. QED
      BY <2>2 DEF Record, BufferInv, BufferTypeOK
  <1>8. BufferTypeOK'
    <2>1. node_ctr' \in Nat /\ finished' \in BOOLEAN
      BY <1>1
    <2>2. step_work_list' \in [Threads -> [Entries -> StepRecord]]
      BY <1>3
    <2>3. last_allocated' \in [Threads -> 0..NumEntries]
      BY <1>4
    <2>4. QED
      BY <2>1, <2>2, <2>3, <1>7 DEF BufferTypeOK
  <1>9. NextEntryClean'
    <2>1. SUFFICES ASSUME NEW u \in Threads, last_allocated'[u] < NumEntries
                   PROVE  LET f == step_work_list'[u][last_allocated'[u] + 1] IN
                          f.work = 0 /\ f.lockId = 0 /\ f.region_work = NoRegion
      BY DEF NextEntryClean
    <2>2. CASE u # t
      BY <2>1, <2>2, <1>3, <1>4 DEF BufferInv, NextEntryClean
    <2>3. CASE u = t
      <3>1. n + 1 \in Entries /\ n + 1 # n
        BY <2>1, <2>3, <1>1, <1>4 DEF Entries
      <3>2. step_work_list'[t][n + 1] = Cleaned(step_work_list[t][n + 1])
        BY <3>1, <1>3
      <3>3. QED
        BY <2>3, <3>1, <3>2, <1>2, <1>4, CleanedType DEF BufferInv, BufferTypeOK
    <2>4. QED
      BY <2>2, <2>3
  <1>10. \A u \in Threads \ {t} : LogOf(u)' = LogOf(u)
    BY <1>1, <1>3, <1>4, <1>5 DEF LogOf, Logged, Used
  <1>11. LogOf(t)' = Append(LogOf(t), e)
    <2>1. /\ LogOf(t) = perf_report[t] \o Used(t)
          /\ LogOf(t)' = perf_report'[t] \o Used(t)'
      BY <1>1 DEF LogOf, Logged
    <2>2. /\ Used(t) \in Seq(StepRecord) /\ Used(t)' \in Seq(StepRecord)
          /\ Len(Used(t)) = last_allocated[t] /\ Len(Used(t)') = n
      BY <1>4, <1>8, UsedType, UsedTypePrime DEF BufferInv
    <2>3. <<e>> \in Seq(StepRecord)
      OBVIOUS
    <2>4. CASE Full(t)
      <3>1. n = 1
        BY <2>4 DEF NextIndex
      <3>2. Used(t)'[1] = e
        BY <3>1, <1>1, <1>3, <1>4 DEF Used
      <3>3. Used(t)' = <<e>>
        BY <3>1, <3>2, <2>2, <2>3, SeqEqual
      <3>4. perf_report'[t] = perf_report[t] \o Used(t)
        BY <2>4, <1>5, <1>6
      <3>5. perf_report[t] \o Used(t) \in Seq(StepRecord)
        BY <1>5, <2>2, ConcatProperties
      <3>6. QED
        BY <2>1, <3>3, <3>4, <3>5, AppendIsConcat
    <2>5. CASE ~Full(t)
      <3>1. n = last_allocated[t] + 1
        BY <2>5 DEF NextIndex
      <3>2. \A i \in 1..n : Used(t)'[i] = IF i = n THEN e ELSE step_work_list[t][i]
        BY <1>1, <1>3, <1>4 DEF Used, Entries
      <3>3. \A i \in 1..last_allocated[t] : Used(t)[i] = step_work_list[t][i]
        BY DEF Used
      <3>4. /\ Append(Used(t), e) \in Seq(StepRecord)
            /\ Len(Append(Used(t), e)) = n
            /\ \A i \in 1..last_allocated[t] : Append(Used(t), e)[i] = Used(t)[i]
            /\ Append(Used(t), e)[n] = e
        BY <2>2, <3>1, AppendProperties
      <3>5. \A i \in 1..n : Used(t)'[i] = Append(Used(t), e)[i]
        <4>1. SUFFICES ASSUME NEW i \in 1..n
                       PROVE  Used(t)'[i] = Append(Used(t), e)[i]
          OBVIOUS
        <4>2. i = n \/ i \in 1..last_allocated[t]
          BY <1>1, <3>1
        <4>3. QED
          BY <4>2, <3>1, <3>2, <3>3, <3>4, <1>1
      <3>6. Used(t)' = Append(Used(t), e)
        BY <2>2, <3>4, <3>5, SeqEqual
      <3>7. LogOf(t)' = perf_report[t] \o Append(Used(t), e)
        BY <2>1, <2>5, <1>5, <3>6
      <3>8. perf_report[t] \in Seq(StepRecord) /\ Used(t) \in Seq(StepRecord)
        BY <1>5, <2>2
      <3>9. perf_report[t] \o Append(Used(t), e) = Append(perf_report[t] \o Used(t), e)
        BY <3>8, AppendInside
      <3>10. QED
        BY <2>1, <3>7, <3>9
    <2>6. QED
      BY <2>4, <2>5
  <1>12. QED
    BY <1>8, <1>9, <1>10, <1>11 DEF BufferInv

----------------------------------------------------------------------------
(* The invariant                                                           *)

LEMMA WithLock ==
  ASSUME NEW e \in StepRecord, NEW l
  PROVE  [e EXCEPT !.lockId = l] = Step(e.incrId, e.work, l, e.region_work)
  BY DEF StepRecord, Step

LEMMA WithRegion ==
  ASSUME NEW e \in StepRecord, NEW r, NEW w
  PROVE  [e EXCEPT !.region_work = AddRegion(@, r, w)]
           = Step(e.incrId, e.work, e.lockId, AddRegion(e.region_work, r, w))
  BY DEF StepRecord, Step

(* What each handler logs.                                                 *)
LEMMA LoggedSteps ==
  ASSUME BufferInv, NEW t \in Threads, NEW w \in Works
  PROVE  /\ node_ctr + 1 \in Nat /\ w \in Nat
         /\ Measured(t, w) = Step(node_ctr + 1, w, 0, NoRegion)
         /\ Measured(t, w) \in StepRecord
         /\ \A l \in Locks :
              /\ [Measured(t, w) EXCEPT !.lockId = l] = Step(node_ctr + 1, w, l, NoRegion)
              /\ Step(node_ctr + 1, w, l, NoRegion) \in StepRecord
         /\ \A r \in Regions :
              /\ [Measured(t, w) EXCEPT !.region_work = AddRegion(@, r, w)]
                   = Step(node_ctr + 1, w, 0, OneRegion(r, w))
              /\ Step(node_ctr + 1, w, 0, OneRegion(r, w)) \in StepRecord
  <1>1. node_ctr + 1 \in Nat /\ w \in Nat /\ \A l \in Locks : l \in Nat
    BY BufferAssumption DEF BufferInv, BufferTypeOK
  <1>2. Measured(t, w) = Step(node_ctr + 1, w, 0, NoRegion)
    BY MeasuredIsStep
  <1>3. Measured(t, w) \in StepRecord
    BY <1>1, <1>2, NoRegionType, StepType
  <1>4. /\ Measured(t, w).incrId = node_ctr + 1 /\ Measured(t, w).work = w
        /\ Measured(t, w).lockId = 0 /\ Measured(t, w).region_work = NoRegion
    BY <1>2 DEF Step
  <1>5. ASSUME NEW l \in Locks
        PROVE  /\ [Measured(t, w) EXCEPT !.lockId = l] = Step(node_ctr + 1, w, l, NoRegion)
               /\ Step(node_ctr + 1, w, l, NoRegion) \in StepRecord
    BY <1>1, <1>3, <1>4, WithLock, NoRegionType, StepType
  <1>6. ASSUME NEW r \in Regions
        PROVE  /\ [Measured(t, w) EXCEPT !.region_work = AddRegion(@, r, w)]
                    = Step(node_ctr + 1, w, 0, OneRegion(r, w))
               /\ Step(node_ctr + 1, w, 0, OneRegion(r, w)) \in StepRecord
    <2>1. OneRegion(r, w) \in RegionWork
      BY DEF RegionWork
    <2>2. [Measured(t, w) EXCEPT !.region_work = AddRegion(@, r, w)]
            = Step(Measured(t, w).incrId, Measured(t, w).work, Measured(t, w).lockId,
                   AddRegion(Measured(t, w).region_work, r, w))
      BY <1>3, WithRegion
    <2>3. AddRegion(Measured(t, w).region_work, r, w) = OneRegion(r, w)
      BY <1>4, FirstRegion
    <2>4. Step(node_ctr + 1, w, 0, OneRegion(r, w)) \in StepRecord
      BY <1>1, <2>1, StepType
    <2>5. QED
      BY <1>4, <2>2, <2>3, <2>4
  <1>7. QED
    BY <1>1, <1>2, <1>3, <1>5, <1>6

LogBar == [t \in Threads |-> LogOf(t)]

(* What an action of a handler does to the row and to the log: one step is *)
(* appended.                                                               *)
LEMMA HandlerAppends ==
  ASSUME BufferInv, NEW t \in Threads, NEW w \in Works
  PROVE  /\ RecordStep(t, w) =>
              /\ BufferInv'
              /\ LogBar' = [LogBar EXCEPT ![t] = Append(@, Step(node_ctr + 1, w, 0, NoRegion))]
         /\ \A l \in Locks : ReleaseCritical(t, w, l) =>
              /\ BufferInv'
              /\ LogBar' = [LogBar EXCEPT ![t] = Append(@, Step(node_ctr + 1, w, l, NoRegion))]
         /\ \A r \in Regions : CausalEnd(t, w, r) =>
              /\ BufferInv'
              /\ LogBar' = [LogBar EXCEPT ![t] =
                             Append(@, Step(node_ctr + 1, w, 0, OneRegion(r, w)))]
  <1>1. regionMap \subseteq Regions
    BY DEF BufferInv, BufferTypeOK
  <1>2. ASSUME RecordStep(t, w)
        PROVE  /\ BufferInv'
               /\ LogBar' = [LogBar EXCEPT ![t] = Append(@, Step(node_ctr + 1, w, 0, NoRegion))]
    BY <1>1, <1>2, LoggedSteps, RecordAppends DEF RecordStep, LogBar
  <1>3. ASSUME NEW l \in Locks, ReleaseCritical(t, w, l)
        PROVE  /\ BufferInv'
               /\ LogBar' = [LogBar EXCEPT ![t] = Append(@, Step(node_ctr + 1, w, l, NoRegion))]
    BY <1>1, <1>3, LoggedSteps, RecordAppends DEF ReleaseCritical, LogBar
  <1>4. ASSUME NEW r \in Regions, CausalEnd(t, w, r)
        PROVE  /\ BufferInv'
               /\ LogBar' = [LogBar EXCEPT ![t] =
                              Append(@, Step(node_ctr + 1, w, 0, OneRegion(r, w)))]
    BY <1>1, <1>4, LoggedSteps, RecordAppends DEF CausalEnd, LogBar
  <1>5. QED
    BY <1>2, <1>3, <1>4

LEMMA BufferInvInit == BufferInit => BufferInv
  <1>1. SUFFICES ASSUME BufferInit PROVE BufferInv
    OBVIOUS
  <1>2. Step(0, 0, 0, NoRegion) \in StepRecord
    BY NoRegionType, StepType
  <1>3. BufferTypeOK
    <2>1. step_work_list \in [Threads -> [Entries -> StepRecord]]
      BY <1>1, <1>2 DEF BufferInit
    <2>2. last_allocated \in [Threads -> 0..NumEntries]
      BY <1>1, BufferAssumption DEF BufferInit
    <2>3. perf_report \in [Threads -> Seq(StepRecord)]
      BY <1>1, EmptySeq DEF BufferInit
    <2>4. QED
      BY <1>1, <2>1, <2>2, <2>3 DEF BufferInit, BufferTypeOK
  <1>4. NextEntryClean
    BY <1>1, BufferAssumption DEF BufferInit, NextEntryClean, Entries, Step
  <1>5. QED
    BY <1>3, <1>4 DEF BufferInv

(* The last step of the program has a region work, whatever entry it comes *)
(* from.                                                                   *)
LEMMA SlotAfterType ==
  ASSUME BufferTypeOK
  PROVE  SlotAfter \in StepRecord
  <1>1. /\ Master \in Threads /\ Master + 1 \in Threads /\ 1 \in Entries
        /\ NumEntries \in Nat
    BY BufferAssumption DEF Master, Threads, Entries
  <1>2. last_allocated[Master] \in 0..NumEntries
    BY <1>1 DEF BufferTypeOK
  <1>3. last_allocated[Master] < NumEntries => last_allocated[Master] + 1 \in Entries
    BY <1>1, <1>2 DEF Entries
  <1>4. QED
    BY <1>1, <1>3 DEF SlotAfter, BufferTypeOK

LEMMA FinishAppends ==
  ASSUME BufferInv, NEW w \in Works, FinishProfile(w)
  PROVE  /\ BufferInv'
         /\ SlotAfter.region_work \in RegionWork
         /\ LogBar' = [LogBar EXCEPT ![Master] =
                         Append(@, Step(node_ctr + 1, w, 0, SlotAfter.region_work))]
  <1> DEFINE last == Step(node_ctr + 1, w, 0, SlotAfter.region_work)
  <1>1. BufferTypeOK /\ ~finished /\ finished' = TRUE /\ Master \in Threads
    BY BufferAssumption DEF BufferInv, FinishProfile, Master, Threads
  <1>2. SlotAfter.region_work \in RegionWork
    BY <1>1, SlotAfterType DEF StepRecord
  <1>3. last \in StepRecord
    BY <1>1, <1>2, BufferAssumption, StepType DEF BufferTypeOK
  <1>4. perf_report' = [t \in Threads |->
          IF t = Master THEN Append(Logged(t), last) ELSE Logged(t)]
    BY DEF FinishProfile
  <1> HIDE DEF last
  <1>5. \A t \in Threads : Logged(t) \in Seq(StepRecord)
    BY <1>1, UsedType
  <1>6. Append(Logged(Master), last) \in Seq(StepRecord)
    BY <1>1, <1>3, <1>5, AppendProperties
  <1>7. perf_report' \in [Threads -> Seq(StepRecord)]
    BY <1>4, <1>5, <1>6
  <1>8. BufferInv'
    BY <1>1, <1>7 DEF BufferInv, BufferTypeOK, NextEntryClean, FinishProfile
  <1>9. \A t \in Threads : LogOf(t) = Logged(t) /\ LogOf(t)' = perf_report'[t]
    BY <1>1 DEF LogOf
  <1>10. LogBar' = [LogBar EXCEPT ![Master] = Append(@, last)]
    BY <1>1, <1>4, <1>9 DEF LogBar
  <1>11. QED
    BY <1>2, <1>8, <1>10 DEF last

LEMMA NothingLogged ==
  ASSUME BufferInv, UNCHANGED <<step_work_list, last_allocated, perf_report, regionMap, finished>>,
         node_ctr' \in Nat
  PROVE  BufferInv' /\ LogBar' = LogBar
  BY DEF BufferInv, BufferTypeOK, NextEntryClean, LogBar, LogOf, Logged, Used

LEMMA BufferInvStep == BufferInv /\ [BufferNext]_bufferVars => BufferInv'
  <1>1. SUFFICES ASSUME BufferInv, [BufferNext]_bufferVars PROVE BufferInv'
    OBVIOUS
  <1>2. node_ctr \in Nat
    BY <1>1 DEF BufferInv, BufferTypeOK
  <1>3. ASSUME NEW t \in Threads, NEW w \in Works,
               \/ RecordStep(t, w)
               \/ \E l \in Locks : ReleaseCritical(t, w, l)
               \/ \E r \in Regions : CausalEnd(t, w, r)
        PROVE  BufferInv'
    BY <1>1, <1>3, HandlerAppends
  <1>4. CASE TakeId
    BY <1>1, <1>2, <1>4, NothingLogged DEF TakeId
  <1>5. ASSUME NEW w \in Works, FinishProfile(w) PROVE BufferInv'
    BY <1>1, <1>5, FinishAppends
  <1>6. CASE UNCHANGED bufferVars
    BY <1>1, <1>2, <1>6, NothingLogged DEF bufferVars
  <1>7. QED
    BY <1>1, <1>3, <1>4, <1>5, <1>6 DEF BufferNext

(* Whatever was in a row before it was flushed, the entry the next handler *)
(* adds to is clean.                                                       *)
THEOREM EntriesAreClean == BufferSpec => []BufferInv
  BY BufferInvInit, BufferInvStep, PTL DEF BufferSpec

----------------------------------------------------------------------------
(* The buffer implements the log                                           *)

LEMMA InitImplements == BufferInit => L!LogInit
  <1>1. SUFFICES ASSUME BufferInit PROVE L!LogInit
    OBVIOUS
  <1>2. \A t \in Threads : LogOf(t) = <<>>
    <2>1. SUFFICES ASSUME NEW t \in Threads PROVE LogOf(t) = <<>>
      OBVIOUS
    <2>2. perf_report[t] = <<>> /\ LogOf(t) = <<>> \o Used(t)
      BY <1>1 DEF BufferInit, LogOf, Logged
    <2>3. BufferTypeOK
      BY <1>1, BufferInvInit DEF BufferInv
    <2>4. Used(t) \in Seq(StepRecord) /\ Len(Used(t)) = 0
      BY <1>1, <2>3, UsedType DEF BufferInit
    <2>5. Used(t) = <<>>
      BY <2>4, EmptySeq
    <2>6. QED
      BY <2>2, <2>5
  <1>3. QED
    BY <1>1, <1>2 DEF BufferInit, L!LogInit

LEMMA StepImplements == BufferInv /\ [BufferNext]_bufferVars => [L!LogNext]_(L!logVars)
  <1>1. SUFFICES ASSUME BufferInv, [BufferNext]_bufferVars
                 PROVE  [L!LogNext]_(L!logVars)
    OBVIOUS
  <1>2. ASSUME NEW t \in Threads, NEW w \in Works, NEW l, NEW rw,
               LogBar' = [LogBar EXCEPT ![t] = Append(@, Step(node_ctr + 1, w, l, rw))],
               node_ctr' = node_ctr + 1
        PROVE  L!AppendStep(t, w, l, rw)
    BY <1>2 DEF L!AppendStep, L!Step, Step, LogBar
  <1>3. ASSUME NEW t \in Threads, NEW w \in Works,
               \/ RecordStep(t, w)
               \/ \E l \in Locks : ReleaseCritical(t, w, l)
               \/ \E r \in Regions : CausalEnd(t, w, r)
        PROVE  L!LogStep(t)
    <2>1. ~finished /\ UNCHANGED finished /\ node_ctr' = node_ctr + 1
      BY <1>3 DEF RecordStep, ReleaseCritical, CausalEnd, Record
    <2>2. L!NoRegion = NoRegion /\ \A r : L!OneRegion(r, w) = OneRegion(r, w)
      BY DEF L!NoRegion, NoRegion, L!OneRegion, OneRegion
    <2>3. CASE RecordStep(t, w)
      BY <1>1, <1>2, <2>1, <2>2, <2>3, HandlerAppends DEF L!LogStep
    <2>4. ASSUME NEW l \in Locks, ReleaseCritical(t, w, l) PROVE L!LogStep(t)
      BY <1>1, <1>2, <2>1, <2>2, <2>4, HandlerAppends DEF L!LogStep
    <2>5. ASSUME NEW r \in Regions, CausalEnd(t, w, r) PROVE L!LogStep(t)
      BY <1>1, <1>2, <2>1, <2>2, <2>5, HandlerAppends DEF L!LogStep
    <2>6. QED
      BY <1>3, <2>3, <2>4, <2>5
  <1>4. CASE TakeId
    <2>1. LogBar' = LogBar
      BY <1>1, <1>4, NothingLogged DEF TakeId, BufferInv, BufferTypeOK
    <2>2. QED
      BY <1>4, <2>1 DEF TakeId, L!LogNext, L!LogNode, LogBar
  <1>5. ASSUME NEW w \in Works, FinishProfile(w) PROVE L!LogFinish
    <2>1. /\ SlotAfter.region_work \in RegionWork
          /\ LogBar' = [LogBar EXCEPT ![Master] =
                          Append(@, Step(node_ctr + 1, w, 0, SlotAfter.region_work))]
      BY <1>1, <1>5, FinishAppends
    <2>2. ~finished /\ finished' = TRUE /\ node_ctr' = node_ctr + 1 /\ Master \in Threads
      BY <1>5, BufferAssumption DEF FinishProfile, Master, Threads
    <2>3. L!AppendStep(Master, w, 0, SlotAfter.region_work)
      BY <1>2, <2>1, <2>2
    <2>4. L!RegionWork = RegionWork
      BY DEF L!RegionWork, RegionWork, L!NoRegion, NoRegion, L!OneRegion, OneRegion
    <2>5. QED
      BY <2>1, <2>2, <2>3, <2>4 DEF L!LogFinish
  <1>6. CASE UNCHANGED bufferVars
    <2>1. LogBar' = LogBar
      BY <1>1, <1>6, NothingLogged DEF bufferVars, BufferInv, BufferTypeOK
    <2>2. QED
      BY <1>6, <2>1 DEF bufferVars, L!logVars, LogBar
  <1>7. QED
    BY <1>1, <1>3, <1>4, <1>5, <1>6 DEF BufferNext, L!LogNext

(* Every thread's log is exactly the sequence of the steps its handlers    *)
(* measured, whatever the size of the rows and however often they are      *)
(* flushed.                                                                *)
THEOREM BufferImplementsLog == BufferSpec => ImplementsLog
  BY InitImplements, StepImplements, EntriesAreClean, PTL
  DEF BufferSpec, ImplementsLog, L!LogSpec

(* The abstract log again, with the theorem about it.                      *)
LP == INSTANCE StepLogProofs WITH log <- [t \in Threads |-> LogOf(t)]

(* Ids grow along every thread's log and no id is logged twice, by one     *)
(* thread or by two, whatever part of a log is still in a row.             *)
THEOREM IdsKeepOrder == BufferSpec => []IdsStayInOrder
  <1>1. L!LogInit => LP!LogInit
    BY DEF L!LogInit, LP!LogInit
  <1>2. [L!LogNext]_(L!logVars) => [LP!LogNext]_(LP!logVars)
    <2>1. /\ L!NoRegion = LP!NoRegion
          /\ \A r, w : L!OneRegion(r, w) = LP!OneRegion(r, w)
      BY DEF L!NoRegion, LP!NoRegion, L!OneRegion, LP!OneRegion
    <2>2. L!RegionWork = LP!RegionWork
      BY <2>1 DEF L!RegionWork, LP!RegionWork
    <2>3. \A t, w, l, rw : L!AppendStep(t, w, l, rw) <=> LP!AppendStep(t, w, l, rw)
      BY DEF L!AppendStep, LP!AppendStep, L!Step, LP!Step
    <2>4. \A t : L!LogStep(t) <=> LP!LogStep(t)
      BY <2>1, <2>3, Zenon DEF L!LogStep, LP!LogStep
    <2>5. L!LogNode <=> LP!LogNode
      BY DEF L!LogNode, LP!LogNode
    <2>6. L!LogFinish <=> LP!LogFinish
      BY <2>2, <2>3, Zenon DEF L!LogFinish, LP!LogFinish
    <2>7. L!logVars = LP!logVars /\ (UNCHANGED L!logVars <=> UNCHANGED LP!logVars)
      BY DEF L!logVars, LP!logVars
    <2>8. QED
      BY <2>4, <2>5, <2>6, <2>7, Zenon DEF L!LogNext, LP!LogNext
  <1>3. LP!IdsInOrder <=> IdsStayInOrder
    BY DEF IdsStayInOrder, L!IdsInOrder, LP!IdsInOrder
  <1>4. QED
    BY <1>1, <1>2, <1>3, InitImplements, StepImplements, EntriesAreClean, LP!LogIdsInOrder, PTL
    DEF BufferSpec, LP!LogSpec

----------------------------------------------------------------------------
(* Region work                                                             *)

OwnRegionWork(e, regions) ==
  \A r \in DOMAIN e.region_work : r \in regions /\ e.region_work[r] = e.work

LEMMA OwnStep ==
  ASSUME NEW i, NEW w, NEW l, NEW regions
  PROVE  /\ OwnRegionWork(Step(i, w, l, NoRegion), regions)
         /\ \A r \in regions : OwnRegionWork(Step(i, w, l, OneRegion(r, w)), regions)
  BY DEF OwnRegionWork, Step, NoRegion, OneRegion

(* A step with its own region work, or exempt as the last step of the      *)
(* program, is appended to the log of t.                                   *)
LEMMA AppendKeepsOwn ==
  ASSUME BufferTypeOK, ~finished, RegionWorkIsOwn, regionMap \subseteq regionMap',
         NEW t \in Threads, NEW e \in StepRecord,
         LogBar' = [LogBar EXCEPT ![t] = Append(@, e)],
         \/ OwnRegionWork(e, regionMap')
         \/ finished' /\ Full(Master)' /\ t = Master
  PROVE  RegionWorkIsOwn'
  <1>1. SUFFICES ASSUME NEW u \in Threads, NEW i \in 1..Len(LogOf(u)')
                 PROVE  \/ finished' /\ Full(Master)' /\ u = Master /\ i = Len(LogOf(u)')
                        \/ OwnRegionWork(LogOf(u)'[i], regionMap')
    BY DEF RegionWorkIsOwn, OwnRegionWork
  <1>2. \A v \in Threads : LogOf(v)' = IF v = t THEN Append(LogOf(v), e) ELSE LogOf(v)
    BY DEF LogBar
  <1>3. LogOf(u) \in Seq(StepRecord) /\ Len(LogOf(u)) \in Nat
    BY UsedType, LenProperties
  <1>4. \A k \in 1..Len(LogOf(u)) : OwnRegionWork(LogOf(u)[k], regionMap')
    BY DEF RegionWorkIsOwn, OwnRegionWork
  <1>5. CASE u # t
    BY <1>2, <1>4, <1>5
  <1>6. CASE u = t
    <2>1. /\ Len(LogOf(u)') = Len(LogOf(u)) + 1
          /\ \A k \in 1..Len(LogOf(u)) : LogOf(u)'[k] = LogOf(u)[k]
          /\ LogOf(u)'[Len(LogOf(u)) + 1] = e
      BY <1>2, <1>3, <1>6, AppendProperties
    <2>2. CASE i = Len(LogOf(u)) + 1
      BY <2>1, <2>2, <1>6
    <2>3. CASE i \in 1..Len(LogOf(u))
      BY <2>1, <2>3, <1>4
    <2>4. QED
      BY <2>1, <2>2, <2>3, <1>1, <1>3
  <1>7. QED
    BY <1>5, <1>6

LEMMA RegionWorkStep ==
  BufferInv /\ RegionWorkIsOwn /\ [BufferNext]_bufferVars => RegionWorkIsOwn'
  <1>1. SUFFICES ASSUME BufferInv, RegionWorkIsOwn, [BufferNext]_bufferVars
                 PROVE  RegionWorkIsOwn'
    OBVIOUS
  <1>2. BufferTypeOK
    BY <1>1 DEF BufferInv
  <1>3. ASSUME NEW t \in Threads, NEW w \in Works,
               \/ RecordStep(t, w)
               \/ \E l \in Locks : ReleaseCritical(t, w, l)
               \/ \E r \in Regions : CausalEnd(t, w, r)
        PROVE  RegionWorkIsOwn'
    <2>1. ~finished /\ regionMap \subseteq regionMap'
      BY <1>3 DEF RecordStep, ReleaseCritical, CausalEnd, Record
    <2>2. CASE RecordStep(t, w)
      BY <1>1, <1>2, <2>1, <2>2, HandlerAppends, LoggedSteps, OwnStep, AppendKeepsOwn
    <2>3. ASSUME NEW l \in Locks, ReleaseCritical(t, w, l) PROVE RegionWorkIsOwn'
      <3> DEFINE e == Step(node_ctr + 1, w, l, NoRegion)
      <3>1. e \in StepRecord /\ LogBar' = [LogBar EXCEPT ![t] = Append(@, e)]
        BY <1>1, <2>3, HandlerAppends, LoggedSteps
      <3>2. OwnRegionWork(e, regionMap')
        BY OwnStep
      <3> HIDE DEF e
      <3>3. QED
        BY <1>1, <1>2, <2>1, <3>1, <3>2, AppendKeepsOwn
    <2>4. ASSUME NEW r \in Regions, CausalEnd(t, w, r) PROVE RegionWorkIsOwn'
      <3> DEFINE e == Step(node_ctr + 1, w, 0, OneRegion(r, w))
      <3>1. r \in regionMap'
        BY <2>4 DEF CausalEnd
      <3>2. e \in StepRecord /\ LogBar' = [LogBar EXCEPT ![t] = Append(@, e)]
        BY <1>1, <2>4, HandlerAppends, LoggedSteps
      <3>3. OwnRegionWork(e, regionMap')
        BY <3>1, OwnStep
      <3> HIDE DEF e
      <3>4. QED
        BY <1>1, <1>2, <2>1, <3>2, <3>3, AppendKeepsOwn
    <2>5. QED
      BY <1>3, <2>2, <2>3, <2>4
  <1>4. CASE TakeId \/ UNCHANGED bufferVars
    <2>1. /\ UNCHANGED <<step_work_list, last_allocated, perf_report, regionMap, finished>>
          /\ node_ctr' \in Nat
      BY <1>2, <1>4 DEF TakeId, bufferVars, BufferTypeOK
    <2>2. \A t \in Threads : LogOf(t)' = LogOf(t)
      BY <2>1 DEF LogOf, Logged, Used
    <2>3. QED
      BY <1>1, <2>1, <2>2 DEF RegionWorkIsOwn, Full
  <1>5. ASSUME NEW w \in Works, FinishProfile(w) PROVE RegionWorkIsOwn'
    <2> DEFINE e == Step(node_ctr + 1, w, 0, SlotAfter.region_work)
    <2>1. /\ SlotAfter.region_work \in RegionWork
          /\ LogBar' = [LogBar EXCEPT ![Master] = Append(@, e)]
      BY <1>1, <1>5, FinishAppends
    <2>2. e \in StepRecord
      BY <1>2, <2>1, BufferAssumption, StepType DEF BufferTypeOK
    <2>3. /\ Master \in Threads /\ ~finished /\ finished'
          /\ regionMap' = regionMap /\ last_allocated' = last_allocated
      BY <1>5, BufferAssumption DEF FinishProfile, Master, Threads
    <2>4. CASE Full(Master)
      <3>1. Full(Master)'
        BY <2>3, <2>4 DEF Full
      <3> HIDE DEF e
      <3>2. QED
        BY <1>1, <1>2, <2>1, <2>2, <2>3, <3>1, AppendKeepsOwn
    <2>5. CASE ~Full(Master)
      <3>1. last_allocated[Master] < NumEntries
        BY <1>2, <2>3, <2>5, BufferAssumption DEF BufferTypeOK, Full
      <3>2. SlotAfter.region_work = NoRegion
        BY <1>1, <2>3, <3>1 DEF SlotAfter, BufferInv, NextEntryClean
      <3>3. OwnRegionWork(e, regionMap')
        BY <3>2, OwnStep
      <3> HIDE DEF e
      <3>4. QED
        BY <1>1, <1>2, <2>1, <2>2, <2>3, <3>3, AppendKeepsOwn
    <2>6. QED
      BY <2>4, <2>5
  <1>6. QED
    BY <1>1, <1>3, <1>4, <1>5 DEF BufferNext

LEMMA RegionWorkInit == BufferInit => RegionWorkIsOwn
  <1>1. SUFFICES ASSUME BufferInit PROVE RegionWorkIsOwn
    OBVIOUS
  <1>2. \A t \in Threads : LogOf(t) = <<>>
    BY <1>1, InitImplements DEF L!LogInit
  <1>3. QED
    BY <1>2, EmptySeq DEF RegionWorkIsOwn

(* The region work that the what-if analysis reads belongs to the step it  *)
(* is logged with and to a region that is described, except, and only      *)
(* then, for the last step of a program whose master row is full at its    *)
(* end.                                                                    *)
THEOREM RegionWorkBelongs == BufferSpec => []RegionWorkIsOwn
  BY EntriesAreClean, RegionWorkInit, RegionWorkStep, PTL DEF BufferSpec

=============================================================================

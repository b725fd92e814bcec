--------------------------- MODULE StepLogProofs ---------------------------
(***************************************************************************)
(* The log of StepLog is in the order of its ids, for every number of      *)
(* threads and every set of works, locks and regions.                      *)
(***************************************************************************)
EXTENDS StepLog, SequenceTheorems, TLAPS

LEMMA IdsAreNat ==
  ASSUME log \in [Threads -> Seq(LogRecord)]
  PROVE  \A t \in Threads : \A i \in 1..Len(log[t]) : log[t][i].incrId \in Nat
  <1>1. SUFFICES ASSUME NEW t \in Threads, NEW i \in 1..Len(log[t])
                 PROVE  log[t][i].incrId \in Nat
    OBVIOUS
  <1>2. log[t] \in Seq(LogRecord)
    OBVIOUS
  <1>3. log[t][i] \in LogRecord
    BY <1>2, ElementOfSeq
  <1>4. QED
    BY <1>3 DEF LogRecord

(* An appended step has a larger id than all before it.                    *)
LEMMA AppendKeepsOrder ==
  ASSUME LogInv, NEW t \in Threads,
         NEW w \in Works, NEW l \in Locks \union {0}, NEW rw \in RegionWork,
         AppendStep(t, w, l, rw)
  PROVE  LogInv'
  <1> DEFINE e == Step(node_ctr + 1, w, l, rw)
  <1>1. node_ctr \in Nat /\ node_ctr' = node_ctr + 1
    BY DEF LogInv, AppendStep
  <1>2. e \in LogRecord /\ e.incrId = node_ctr + 1
    BY <1>1 DEF Step, LogRecord
  <1>3. \A u \in Threads : log[u] \in Seq(LogRecord)
    BY DEF LogInv
  <1>4. /\ log' = [log EXCEPT ![t] = Append(@, e)]
        /\ log'[t] = Append(log[t], e)
        /\ \A u \in Threads \ {t} : log'[u] = log[u]
    BY DEF LogInv, AppendStep
  <1> HIDE DEF e
  <1>5. /\ Append(log[t], e) \in Seq(LogRecord)
        /\ Len(log'[t]) = Len(log[t]) + 1
        /\ \A i \in 1..Len(log[t]) : log'[t][i] = log[t][i]
        /\ log'[t][Len(log[t]) + 1] = e
    BY <1>2, <1>3, <1>4, AppendProperties
  <1>6. \A u \in Threads : Len(log[u]) \in Nat
    BY <1>3, LenProperties
  <1>7. \A u \in Threads : \A i \in 1..Len(log[u]) :
          log[u][i].incrId \in Nat /\ log[u][i].incrId <= node_ctr
    BY IdsAreNat DEF LogInv
  <1>8. log' \in [Threads -> Seq(LogRecord)]
    BY <1>4, <1>5 DEF LogInv
  <1>9. \A u \in Threads : \A i \in 1..Len(log'[u]) :
          \/ u = t /\ i = Len(log[t]) + 1 /\ log'[u][i].incrId = node_ctr + 1
          \/ i \in 1..Len(log[u]) /\ log'[u][i] = log[u][i]
    <2>1. SUFFICES ASSUME NEW u \in Threads, NEW i \in 1..Len(log'[u])
                   PROVE  \/ u = t /\ i = Len(log[t]) + 1 /\ log'[u][i].incrId = node_ctr + 1
                          \/ i \in 1..Len(log[u]) /\ log'[u][i] = log[u][i]
      OBVIOUS
    <2>2. CASE u # t
      <3>1. log'[u] = log[u]
        BY <2>2, <1>4
      <3>2. QED
        BY <3>1, <2>1
    <2>3. CASE u = t
      <3>1. i \in 1..(Len(log[t]) + 1)
        BY <2>1, <2>3, <1>5
      <3>2. CASE i = Len(log[t]) + 1
        BY <2>3, <3>2, <1>2, <1>5
      <3>3. CASE i \in 1..Len(log[t])
        BY <2>3, <3>3, <1>5
      <3>4. QED
        BY <3>1, <3>2, <3>3, <1>6
    <2>4. QED
      BY <2>2, <2>3
  <1>10. \A u \in Threads : \A i \in 1..Len(log'[u]) : log'[u][i].incrId <= node_ctr'
    BY SMTT(30), <1>1, <1>7, <1>9
  <1>11. \A u \in Threads : \A i, j \in 1..Len(log'[u]) :
           i < j => log'[u][i].incrId < log'[u][j].incrId
    <2>1. SUFFICES ASSUME NEW u \in Threads, NEW i \in 1..Len(log'[u]),
                          NEW j \in 1..Len(log'[u]), i < j
                   PROVE  log'[u][i].incrId < log'[u][j].incrId
      OBVIOUS
    <2>2. i \in 1..Len(log[u]) /\ log'[u][i] = log[u][i]
      BY <2>1, <1>9, <1>5, <1>6
    <2>3. CASE u = t /\ j = Len(log[t]) + 1 /\ log'[u][j].incrId = node_ctr + 1
      BY <2>2, <2>3, <1>1, <1>7
    <2>4. CASE j \in 1..Len(log[u]) /\ log'[u][j] = log[u][j]
      BY <2>1, <2>2, <2>4 DEF LogInv, IdsInOrder
    <2>5. QED
      BY <2>3, <2>4, <1>9
  <1>12. \A u, v \in Threads : \A i \in 1..Len(log'[u]), j \in 1..Len(log'[v]) :
           log'[u][i].incrId = log'[v][j].incrId => u = v
    <2>1. SUFFICES ASSUME NEW u \in Threads, NEW v \in Threads,
                          NEW i \in 1..Len(log'[u]), NEW j \in 1..Len(log'[v]),
                          log'[u][i].incrId = log'[v][j].incrId, u # v
                   PROVE  FALSE
      OBVIOUS
    <2>2. CASE u = t
      <3>1. j \in 1..Len(log[v]) /\ log'[v][j] = log[v][j]
        BY <2>1, <2>2, <1>9
      <3>2. CASE i = Len(log[t]) + 1 /\ log'[u][i].incrId = node_ctr + 1
        BY <3>1, <3>2, <2>1, <1>1, <1>7
      <3>3. CASE i \in 1..Len(log[u]) /\ log'[u][i] = log[u][i]
        BY <3>1, <3>3, <2>1 DEF LogInv, IdsInOrder
      <3>4. QED
        BY <3>2, <3>3, <2>2, <1>9
    <2>3. CASE u # t
      <3>1. i \in 1..Len(log[u]) /\ log'[u][i] = log[u][i]
        BY <2>1, <2>3, <1>9
      <3>2. CASE j = Len(log[t]) + 1 /\ log'[v][j].incrId = node_ctr + 1
        BY <3>1, <3>2, <2>1, <1>1, <1>7
      <3>3. CASE j \in 1..Len(log[v]) /\ log'[v][j] = log[v][j]
        BY <3>1, <3>3, <2>1 DEF LogInv, IdsInOrder
      <3>4. QED
        BY <3>2, <3>3, <1>9
    <2>4. QED
      BY <2>2, <2>3
  <1>13. QED
    BY <1>1, <1>8, <1>10, <1>11, <1>12 DEF LogInv, IdsInOrder

LEMMA LogInvInit == LogInit => LogInv
  <1>1. SUFFICES ASSUME LogInit PROVE LogInv
    OBVIOUS
  <1>2. log \in [Threads -> Seq(LogRecord)] /\ \A t \in Threads : log[t] = <<>>
    BY <1>1, EmptySeq DEF LogInit
  <1>3. QED
    BY <1>1, <1>2 DEF LogInit, LogInv, IdsInOrder

(* Only ids move: the log is what it was.                                  *)
LEMMA LogKept ==
  ASSUME LogInv, log' = log, node_ctr' \in Nat, node_ctr <= node_ctr'
  PROVE  LogInv'
  <1>1. \A t \in Threads : \A i \in 1..Len(log[t]) :
          log[t][i].incrId \in Nat /\ log[t][i].incrId <= node_ctr
    BY IdsAreNat DEF LogInv
  <1>2. \A t \in Threads : \A i \in 1..Len(log'[t]) : log'[t][i].incrId <= node_ctr'
    BY <1>1 DEF LogInv
  <1>3. QED
    BY <1>2 DEF LogInv, IdsInOrder

LEMMA LogInvStep == LogInv /\ [LogNext]_logVars => LogInv'
  <1>1. SUFFICES ASSUME LogInv, [LogNext]_logVars PROVE LogInv'
    OBVIOUS
  <1>2. node_ctr \in Nat
    BY <1>1 DEF LogInv
  <1>3. ASSUME NEW t \in Threads, LogStep(t) PROVE LogInv'
    <2>1. PICK w \in Works :
            \/ AppendStep(t, w, 0, NoRegion)
            \/ \E l \in Locks : AppendStep(t, w, l, NoRegion)
            \/ \E r \in Regions : AppendStep(t, w, 0, OneRegion(r, w))
      BY <1>3 DEF LogStep
    <2>2. NoRegion \in RegionWork /\ \A r \in Regions : OneRegion(r, w) \in RegionWork
      BY DEF RegionWork
    <2>3. PICK l \in Locks \union {0}, rw \in RegionWork : AppendStep(t, w, l, rw)
      BY <2>1, <2>2
    <2>4. QED
      BY <1>1, <2>3, AppendKeepsOrder
  <1>4. CASE LogNode
    BY <1>1, <1>2, <1>4, LogKept DEF LogNode
  <1>5. CASE LogFinish
    <2>1. PICK w \in Works, rw \in RegionWork : AppendStep(Master, w, 0, rw)
      BY <1>5 DEF LogFinish
    <2>2. CASE Master \in Threads
      BY <1>1, <2>1, <2>2, AppendKeepsOrder
    <2>3. CASE Master \notin Threads
      <3>1. log' = log /\ node_ctr' = node_ctr + 1
        BY <1>1, <2>1, <2>3 DEF AppendStep, LogInv
      <3>2. QED
        BY <1>1, <1>2, <3>1, LogKept
    <2>4. QED
      BY <2>2, <2>3
  <1>6. CASE UNCHANGED logVars
    BY <1>1, <1>2, <1>6, LogKept DEF logVars
  <1>7. QED
    BY <1>1, <1>3, <1>4, <1>5, <1>6 DEF LogNext

(* Ids grow along every log and no id is in two logs: the analyzer, which  *)
(* lays out siblings by id, sees the steps of a thread in the order in     *)
(* which they ran.                                                         *)
THEOREM LogIdsInOrder == LogSpec => []IdsInOrder
  <1>1. LogInv => IdsInOrder
    BY DEF LogInv
  <1>2. QED
    BY <1>1, LogInvInit, LogInvStep, PTL DEF LogSpec

=============================================================================

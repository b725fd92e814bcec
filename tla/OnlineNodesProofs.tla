------------------------- MODULE OnlineNodesProofs -------------------------
(***************************************************************************)
(* The on-line profiler (OnlineProfiler), for every number of threads,     *)
(* tasks, constructs, chunks, barriers and regions: what its nodes, its    *)
(* stacks of ids and taskMap are between handlers (OnlineInv, the          *)
(* inductive invariant), and what pushNode and popNode do to them.         *)
(* OnlineProofs has the handlers, one by one, and the theorems.            *)
(***************************************************************************)
EXTENDS OnlineProfiler, TaskStacksProofs, WellFoundedInduction

----------------------------------------------------------------------------
(* The events                                                              *)

(* A thread reads the parent of a task there is.                           *)
ReadingInv == \A t \in Threads : reading[t].task # 0 => reading[t].task \in 1..Len(tasks)

ReadingType ==
  /\ reading = [t \in Threads |-> reading[t]]
  /\ \A t \in Threads : reading[t] = [task |-> reading[t].task, left |-> reading[t].left]

EventsInv == ReadingType /\ ReadingInv /\ IsSequence(tasks)

LEMMA TasksOnlyGrow ==
  ASSUME IsSequence(tasks), TasksNext
  PROVE  IsSequence(tasks') /\ Len(tasks) <= Len(tasks')
  <1>1. Len(tasks) \in Nat /\ DOMAIN tasks = 1..Len(tasks)
    BY LengthType
  <1>2. CASE tasks' = tasks
    BY <1>1, <1>2
  <1>3. ASSUME NEW t \in Threads, NEW now \in BOOLEAN, TaskAlloc(t, now)
        PROVE  IsSequence(tasks') /\ Len(tasks) <= Len(tasks')
    <2>1. PICK r : tasks' = Append(tasks, r)
      BY <1>3 DEF TaskAlloc
    <2>2. tasks' = Push(tasks, r)
      BY <2>1 DEF Push
    <2>3. IsSequence(tasks') /\ Len(tasks') = Len(tasks) + 1
      BY <2>2, PushLast
    <2>4. QED
      BY <1>1, <2>3
  <1>4. ASSUME tasks' = [k \in DOMAIN tasks |-> tasks'[k]]
        PROVE  IsSequence(tasks') /\ Len(tasks) <= Len(tasks')
    BY <1>1, <1>4, SameTasks
  <1>5. ASSUME NEW t \in Threads, NEW k \in DOMAIN tasks, TaskBegin(t, k)
        PROVE  tasks' = [i \in DOMAIN tasks |-> tasks'[i]]
    BY <1>5 DEF TaskBegin
  <1>6. ASSUME NEW t \in Threads, TaskEnd(t)
        PROVE  tasks' = [i \in DOMAIN tasks |-> tasks'[i]]
    BY <1>6 DEF TaskEnd
  <1>7. ASSUME NEW t \in Threads, TaskwaitEnd(t)
        PROVE  tasks' = [i \in DOMAIN tasks |-> tasks'[i]]
    BY <1>7 DEF TaskwaitEnd
  <1>8. QED
    BY <1>2, <1>3, <1>4, <1>5, <1>6, <1>7
    DEF TasksNext, TaskThreadStep, TPParallelBegin, TPParallelEnd, TPFinishProfile,
        TPImplicitTaskBegin, TPBarrierBegin, TPBarrierArrive, TPBarrierEnd,
        TPImplicitTaskEnd, TPCountImplicitEnd, Untouched, Finished, taskVars,
        TaskwaitBegin, BlockBegin, BlockEnd, LoopChunk, LoopDrained

(* Every on-line handler runs at an event of the off-line profiler; when a *)
(* task reads its parent there is none.                                    *)
LEMMA EventHappens ==
  ASSUME EventsInv, [OnlineNext]_bothVars
  PROVE  [TasksNext]_allVars
  <1>1. CASE UNCHANGED bothVars
    BY <1>1 DEF bothVars
  <1>2. ASSUME NEW t \in Threads, OnlineThreadStep(t)
        PROVE  [TasksNext]_allVars
    <2>1. ASSUME NEW k \in DOMAIN tasks, OnTaskRead(t, k)
          PROVE  UNCHANGED allVars
      BY <2>1 DEF OnTaskRead
    <2>2. TaskThreadStep(t) \/ \E k \in DOMAIN tasks : OnTaskRead(t, k)
      BY <1>2 DEF OnlineThreadStep, OnImplicitTaskBegin, OnBarrierBegin, OnBarrierArrive,
         OnImplicitTaskEnd, OnTaskAlloc, OnTaskEnd, OnTaskwaitBegin, OnTaskwaitEnd,
         OnBlockBegin, OnBlockEnd, OnLoopChunk, OnLoopDrained, OnNothing, TaskThreadStep
    <2>3. QED
      BY <2>1, <2>2 DEF TasksNext
  <1>3. ASSUME NEW t \in Threads, OnTaskBegin(t)
        PROVE  TasksNext
    <2>1. reading[t].task \in DOMAIN tasks /\ TaskBegin(t, reading[t].task)
      BY <1>3, LengthType DEF OnTaskBegin, EventsInv, ReadingInv
    <2>2. TaskThreadStep(t)
      BY <2>1 DEF TaskThreadStep
    <2>3. QED
      BY <2>2 DEF TasksNext
  <1>4. ASSUME NEW req \in Requests, NEW b \in 0..MaxBarriers, OnParallelBegin(req, b)
        PROVE  TasksNext
    BY <1>4 DEF OnParallelBegin, TasksNext
  <1>5. OnParallelEnd \/ OnFinishProfile => TasksNext
    BY DEF OnParallelEnd, OnFinishProfile, TasksNext
  <1>6. Finished /\ UNCHANGED taskVars => TasksNext
    BY DEF TasksNext
  <1>7. QED
    BY <1>1, <1>2, <1>3, <1>4, <1>5, <1>6 DEF OnlineNext

LEMMA EventsInit == OnlineInit => EventsInv
  <1> SUFFICES ASSUME OnlineInit PROVE EventsInv
    OBVIOUS
  <1>1. tasks = <<>> /\ reading = [t \in Threads |-> NotReading]
    BY DEF OnlineInit, TasksInit
  <1>2. IsSequence(<<>>)
    BY EmptySeq DEF IsSequence
  <1>3. QED
    BY <1>1, <1>2 DEF EventsInv, ReadingType, ReadingInv, NotReading

LEMMA EventsStep ==
  ASSUME EventsInv, [OnlineNext]_bothVars
  PROVE  EventsInv'
  <1>1. [TasksNext]_allVars
    BY EventHappens
  <1>2. IsSequence(tasks') /\ Len(tasks) <= Len(tasks') /\ Len(tasks) \in Nat
        /\ Len(tasks') \in Nat
    <2>1. Len(tasks) \in Nat
      BY LengthType DEF EventsInv
    <2>2. CASE UNCHANGED allVars
      BY <2>1, <2>2 DEF allVars, taskVars, EventsInv
    <2>3. CASE TasksNext
      BY <2>1, <2>3, TasksOnlyGrow, LengthType DEF EventsInv
    <2>4. QED
      BY <1>1, <2>2, <2>3
  <1>3. CASE UNCHANGED reading
    BY <1>2, <1>3 DEF EventsInv, ReadingType, ReadingInv
  <1>4. ASSUME NEW t \in Threads, NEW k \in DOMAIN tasks, OnTaskRead(t, k)
        PROVE  EventsInv'
    <2>1. k \in 1..Len(tasks')
      BY <1>2, LengthType DEF EventsInv
    <2>2. PICK w : reading' = [reading EXCEPT ![t] = [task |-> k, left |-> w]]
      BY <1>4 DEF OnTaskRead
    <2>3. \A u \in Threads : reading'[u] = IF u = t THEN [task |-> k, left |-> w] ELSE reading[u]
      BY <2>2 DEF EventsInv, ReadingType
    <2>4. reading' = [u \in Threads |-> reading'[u]]
      BY <2>2 DEF EventsInv, ReadingType
    <2>5. QED
      BY <1>2, <2>1, <2>3, <2>4 DEF EventsInv, ReadingType, ReadingInv
  <1>5. ASSUME NEW t \in Threads, OnTaskBegin(t)
        PROVE  EventsInv'
    <2>1. reading' = [reading EXCEPT ![t] = NotReading]
      BY <1>5 DEF OnTaskBegin
    <2>2. \A u \in Threads : reading'[u] = IF u = t THEN NotReading ELSE reading[u]
      BY <2>1 DEF EventsInv, ReadingType
    <2>3. reading' = [u \in Threads |-> reading'[u]]
      BY <2>1 DEF EventsInv, ReadingType
    <2>4. QED
      BY <1>2, <2>2, <2>3 DEF EventsInv, ReadingType, ReadingInv, NotReading
  <1>6. QED
    BY <1>3, <1>4, <1>5
    DEF OnlineNext, OnlineThreadStep, OnParallelBegin, OnImplicitTaskBegin,
        OnBarrierBegin, OnBarrierArrive, OnImplicitTaskEnd, OnParallelEnd,
        OnFinishProfile, OnTaskAlloc, OnTaskEnd, OnTaskwaitBegin, OnTaskwaitEnd,
        OnBlockBegin, OnBlockEnd, OnLoopChunk, OnLoopDrained, OnNothing,
        onlineVars, bothVars

(* The two profilers see the same events: whatever holds of every run of   *)
(* OpenmpTasks holds while the on-line handlers run, and a task that reads *)
(* its parent before it begins is one that the runtime has started.        *)
THEOREM SameEvents == OnlineSpec => TasksSpec
  <1>1. OnlineInit => EventsInv /\ TasksInit
    BY EventsInit DEF OnlineInit
  <1>2. EventsInv /\ [OnlineNext]_bothVars => EventsInv' /\ [TasksNext]_allVars
    BY EventsStep, EventHappens
  <1>3. QED
    BY <1>1, <1>2, PTL DEF OnlineSpec, TasksSpec

----------------------------------------------------------------------------
(* Memory: what the handlers do to the nodes                               *)

(* The fields that do not hold work.                                       *)
NodeFields == {"parent", "finish_flag", "is_barrier_finish", "callSiteId", "child_count"}

IsNode(n) == n = [x \in DOMAIN n |-> n[x]] /\ NodeFields \subseteq DOMAIN n

Alike(m, n) ==
  /\ m.parent = n.parent /\ m.finish_flag = n.finish_flag
  /\ m.is_barrier_finish = n.is_barrier_finish /\ m.callSiteId = n.callSiteId

(* Node m is node n with other work.                                       *)
Same(m, n) == Alike(m, n) /\ m.child_count = n.child_count

IsMemory(nd) == nd = [i \in DOMAIN nd |-> nd[i]] /\ \A i \in DOMAIN nd : IsNode(nd[i])

IsView(v) == v = [nodes |-> v.nodes, sites |-> v.sites, loops |-> v.loops,
                  stack |-> v.stack, sited |-> v.sited]

(* The nodes of nd, but for those in gone, are in m and only their work    *)
(* has changed.                                                            *)
Kept(m, nd) == \A i \in DOMAIN nd : i \in DOMAIN m /\ Same(m[i], nd[i])
KeptBut(m, nd, gone) == \A i \in DOMAIN nd \ gone : i \in DOMAIN m /\ Same(m[i], nd[i])

LEMMA SettledSame ==
  ASSUME NEW n, IsNode(n)
  PROVE  IsNode(Settled(n)) /\ Same(Settled(n), n)
  <1>1. CASE n.c_work < LeftWork(n)
    <2> DEFINE a == LeftWork(n)
               b == LeftEWork(n)
               c == n.l_ssList
               m == [n EXCEPT !.c_work = a, !.e_work = b, !.ssList = c]
    <2>1. Settled(n) = m
      BY <1>1 DEF Settled
    <2> HIDE DEF a, b, c
    <2>2. IsNode(m) /\ Same(m, n)
      BY DEF IsNode, Same, Alike, NodeFields
    <2>3. QED
      BY <2>1, <2>2
  <1>2. CASE ~(n.c_work < LeftWork(n))
    BY <1>2 DEF Settled, Same, Alike
  <1>3. QED
    BY <1>1, <1>2

LEMMA OwnPartSame ==
  ASSUME NEW n, IsNode(n)
  PROVE  IsNode(OwnPart(n)) /\ Same(OwnPart(n), n)
  <1>1. CASE n.callSiteId # NoSite
    <2> DEFINE e == [n.ssList EXCEPT ![n.callSiteId] = @ + n.e_work]
               m == [n EXCEPT !.ssList = e]
    <2>1. OwnPart(n) = m
      BY <1>1 DEF OwnPart
    <2> HIDE DEF e
    <2>2. IsNode(m) /\ Same(m, n)
      BY DEF IsNode, Same, Alike, NodeFields
    <2>3. QED
      BY <2>1, <2>2
  <1>2. CASE n.callSiteId = NoSite
    BY <1>2 DEF OwnPart, Same, Alike
  <1>3. QED
    BY <1>1, <1>2

LEMMA FoldedSame ==
  ASSUME NEW p, NEW n, IsNode(p)
  PROVE  IsNode(Folded(p, n)) /\ Same(Folded(p, n), p)
  <1> DEFINE own == IF n.callSiteId = NoSite THEN n.e_work ELSE 0
  <1>1. CASE n.type = "FINISH"
    <2> DEFINE a == p.left_finish_e_work + own
               b == p.left_finish_c_work + n.c_work
               c == p.work + n.work
               d == Plus(p.l_ssList, n.ssList)
               m == [p EXCEPT !.left_finish_e_work = a, !.left_finish_c_work = b,
                              !.work = c, !.l_ssList = d]
    <2>1. Folded(p, n) = m
      BY <1>1 DEF Folded
    <2> HIDE DEF a, b, c, d
    <2>2. IsNode(m) /\ Same(m, p)
      BY DEF IsNode, Same, Alike, NodeFields
    <2>3. QED
      BY <2>1, <2>2
  <1>2. CASE n.type # "FINISH" /\ n.p_left_sibling_work + n.c_work > p.c_work
    <2> DEFINE a == n.p_left_sibling_work + n.c_work
               b == n.p_left_sibling_e_work + own
               c == p.work + n.work
               d == Plus(n.p_ssList, n.ssList)
               m == [p EXCEPT !.c_work = a, !.e_work = b, !.work = c, !.ssList = d]
    <2>1. Folded(p, n) = m
      BY <1>2 DEF Folded
    <2> HIDE DEF a, b, c, d
    <2>2. IsNode(m) /\ Same(m, p)
      BY DEF IsNode, Same, Alike, NodeFields
    <2>3. QED
      BY <2>1, <2>2
  <1>3. CASE n.type # "FINISH" /\ ~(n.p_left_sibling_work + n.c_work > p.c_work)
    <2> DEFINE c == p.work + n.work
               m == [p EXCEPT !.work = c]
    <2>1. Folded(p, n) = m
      BY <1>3 DEF Folded
    <2> HIDE DEF c
    <2>2. IsNode(m) /\ Same(m, p)
      BY DEF IsNode, Same, Alike, NodeFields
    <2>3. QED
      BY <2>1, <2>2
  <1>4. QED
    BY <1>1, <1>2, <1>3

LEMMA SizedSame ==
  ASSUME NEW n, IsNode(n), NEW p, NEW left
  PROVE  IsNode(Sized(n, p, left)) /\ Same(Sized(n, p, left), n)
  <1> DEFINE b == LeftEWork(p)
             c == Plus(n.p_ssList, p.l_ssList)
             m == [n EXCEPT !.p_left_sibling_work = left, !.p_left_sibling_e_work = b,
                            !.p_ssList = c]
  <1>1. Sized(n, p, left) = m
    BY DEF Sized
  <1> HIDE DEF b, c
  <1>2. IsNode(m) /\ Same(m, n)
    BY DEF IsNode, Same, Alike, NodeFields
  <1>3. QED
    BY <1>1, <1>2

LEMMA FreshNode ==
  ASSUME NEW ty, NEW site
  PROVE  /\ IsNode(Fresh(ty, site))
         /\ Fresh(ty, site).parent = 0 /\ ~Fresh(ty, site).finish_flag
         /\ ~Fresh(ty, site).is_barrier_finish /\ Fresh(ty, site).callSiteId = site
         /\ Fresh(ty, site).child_count = 0
  BY DEF Fresh, IsNode, NodeFields

(* A node of memory gets other work.                                       *)
LEMMA OneChanged ==
  ASSUME NEW nd, IsMemory(nd), NEW i, NEW m, i \in DOMAIN nd => IsNode(m) /\ Same(m, nd[i]),
         NEW r, r = [nd EXCEPT ![i] = m]
  PROVE  IsMemory(r) /\ DOMAIN r = DOMAIN nd /\ Kept(r, nd)
  <1>1. DOMAIN r = DOMAIN nd /\ r = [j \in DOMAIN nd |-> r[j]]
    BY DEF IsMemory
  <1>2. \A j \in DOMAIN nd : r[j] = IF j = i THEN m ELSE nd[j]
    BY DEF IsMemory
  <1>3. \A j \in DOMAIN nd : IsNode(r[j]) /\ Same(r[j], nd[j])
    BY <1>2 DEF IsMemory, Same, Alike
  <1>4. QED
    BY <1>1, <1>3 DEF IsMemory, Kept

LEMMA AddedEffect ==
  ASSUME NEW v, IsView(v), IsMemory(v.nodes), NEW i, NEW counts, NEW w, w = Added(v, i, counts)
  PROVE  /\ IsView(w) /\ IsMemory(w.nodes) /\ w.stack = v.stack
         /\ DOMAIN w.nodes = DOMAIN v.nodes /\ Kept(w.nodes, v.nodes)
  <1> DEFINE g == IF counts THEN Weight(i) ELSE 0
             l == Last(v.stack)
             m == WithStepWork(v.nodes[l], g)
             nd == [v.nodes EXCEPT ![l] = m]
  <1>1. w = [v EXCEPT !.nodes = nd]
    BY DEF Added
  <1>2. IsView(w) /\ w.nodes = nd /\ w.stack = v.stack
    <2> HIDE DEF nd
    <2>1. QED
      BY <1>1 DEF IsView
  <1>3. ASSUME NEW n, IsNode(n)
        PROVE  IsNode(WithStepWork(n, g)) /\ Same(WithStepWork(n, g), n)
    <2> DEFINE a == n.left_step_work + g
               b == n.work + g
               r == [n EXCEPT !.left_step_work = a, !.work = b]
    <2>1. WithStepWork(n, g) = r
      BY DEF WithStepWork
    <2> HIDE DEF a, b
    <2>2. IsNode(r) /\ Same(r, n)
      BY <1>3 DEF IsNode, Same, Alike, NodeFields
    <2>3. QED
      BY <2>1, <2>2
  <1>4. l \in DOMAIN v.nodes => IsNode(m) /\ Same(m, v.nodes[l])
    BY <1>3 DEF IsMemory
  <1>5. nd = [v.nodes EXCEPT ![l] = m]
    OBVIOUS
  <1> HIDE DEF nd, m, l
  <1>6. IsMemory(nd) /\ DOMAIN nd = DOMAIN v.nodes /\ Kept(nd, v.nodes)
    BY <1>4, <1>5, OneChanged
  <1>7. QED
    BY <1>2, <1>6

(* Memory nd has become r, with node m of id i.                            *)
Gains(r, nd, i, m) ==
  IsMemory(r) /\ DOMAIN r = DOMAIN nd \union {i} /\ Kept(r, nd) /\ r[i] = m

LEMMA WithEffect ==
  ASSUME NEW nd, IsMemory(nd), NEW i, i \notin DOMAIN nd, NEW m, IsNode(m)
  PROVE  Gains(With(nd, i, m), nd, i, m)
  <1> DEFINE r == With(nd, i, m)
  <1>1. DOMAIN r = DOMAIN nd \union {i} /\ r = [j \in DOMAIN r |-> r[j]] /\ r[i] = m
    BY DEF With
  <1>2. \A j \in DOMAIN nd : r[j] = nd[j]
    BY DEF With
  <1> HIDE DEF r
  <1>3. Gains(r, nd, i, m)
    BY <1>1, <1>2 DEF IsMemory, Kept, Same, Alike, Gains
  <1>4. QED
    BY <1>3 DEF r

LEMMA PushEffect ==
  ASSUME NEW v, IsView(v), IsMemory(v.nodes), NEW i, i \notin DOMAIN v.nodes,
         NEW n, IsNode(n), NEW w, w = PushNode(v, i, n)
  PROVE  /\ IsView(w) /\ IsMemory(w.nodes) /\ w.stack = Append(v.stack, i)
         /\ DOMAIN w.nodes = DOMAIN v.nodes \union {i}
         /\ Kept(w.nodes, v.nodes)
         /\ w.nodes[i].parent = Last(v.stack)
         /\ w.nodes[i].finish_flag = n.finish_flag
         /\ w.nodes[i].is_barrier_finish = n.is_barrier_finish
         /\ w.nodes[i].callSiteId = n.callSiteId
         /\ w.nodes[i].child_count = n.child_count
  <1> DEFINE p == Last(v.stack)
             n2 == [n EXCEPT !.parent = p]
             m == Sized(n2, v.nodes[p], LeftWork(v.nodes[p]))
             nd == With(v.nodes, i, m)
             st == Append(v.stack, i)
             sd == With(v.sited, i, n.callSiteId)
  <1>1. w = [v EXCEPT !.nodes = nd, !.stack = st, !.sited = sd]
    BY DEF PushNode
  <1>2. IsView(w) /\ w.nodes = nd /\ w.stack = st
    <2> HIDE DEF nd, st, sd
    <2>1. QED
      BY <1>1 DEF IsView
  <1>3. /\ IsNode(n2) /\ n2.parent = p /\ n2.finish_flag = n.finish_flag
        /\ n2.is_barrier_finish = n.is_barrier_finish /\ n2.callSiteId = n.callSiteId
        /\ n2.child_count = n.child_count
    <2> HIDE DEF p
    <2>1. QED
      BY DEF IsNode, NodeFields
  <1>4. IsNode(m) /\ Same(m, n2)
    <2> HIDE DEF n2
    <2>1. QED
      BY <1>3, SizedSame
  <1>5. nd = With(v.nodes, i, m)
    OBVIOUS
  <1> HIDE DEF nd, m, n2
  <1>6. Gains(nd, v.nodes, i, m)
    BY <1>4, <1>5, WithEffect
  <1>7. QED
    BY <1>2, <1>3, <1>4, <1>6 DEF Same, Alike, Gains

LEMMA CreditedEffect ==
  ASSUME NEW v, IsView(v), NEW n
  PROVE  /\ IsView(Credited(v, n)) /\ Credited(v, n).nodes = v.nodes
         /\ Credited(v, n).stack = v.stack
  <1>1. CASE ~Outermost(v, n)
    BY <1>1 DEF Credited
  <1>2. CASE Outermost(v, n) /\ n.callSiteId = "loop"
    <2> DEFINE a == [v.sites EXCEPT !["loop"].work = @ + n.work]
               b == [v.loops EXCEPT ![n.parallel_id] = Max({@, n.c_work})]
    <2>1. Credited(v, n) = [v EXCEPT !.sites = a, !.loops = b]
      BY <1>2 DEF Credited
    <2> HIDE DEF a, b
    <2>2. QED
      BY <2>1 DEF IsView
  <1>3. CASE Outermost(v, n) /\ n.callSiteId # "loop"
    <2> DEFINE s == n.callSiteId
               a == [v.sites EXCEPT ![s].work = @ + n.work]
               b == [a EXCEPT ![s].cWork = v.sites[s].cWork + n.c_work]
    <2>1. Credited(v, n) = [v EXCEPT !.sites[s].work = @ + n.work,
                                     !.sites[s].cWork = @ + n.c_work]
      BY <1>3 DEF Credited
    <2>2. [v EXCEPT !.sites[s].work = @ + n.work, !.sites[s].cWork = @ + n.c_work]
            = [[v EXCEPT !.sites = a] EXCEPT !.sites[s].cWork = v.sites[s].cWork + n.c_work]
      OBVIOUS
    <2> HIDE DEF a, b
    <2>3. [v EXCEPT !.sites = a].sites = a
      BY DEF IsView
    <2>4. QED
      BY <2>1, <2>2, <2>3 DEF IsView
  <1>4. QED
    BY <1>1, <1>2, <1>3

(* Memory nd has become r when a thread has left the node of id i.         *)
Loses(r, nd, i) ==
  /\ IsMemory(r) /\ KeptBut(r, nd, {i})
  /\ LastOut(nd[i]) => DOMAIN r = DOMAIN nd \ {i}
  /\ ~LastOut(nd[i]) =>
       /\ DOMAIN r = DOMAIN nd
       /\ i \in DOMAIN nd => Alike(r[i], nd[i]) /\ r[i].child_count = nd[i].child_count + 1

LEMMA RestrictEffect ==
  ASSUME NEW nd, NEW u, IsMemory(u), DOMAIN u = DOMAIN nd, Kept(u, nd), NEW i,
         NEW r, r = Restrict(u, DOMAIN u \ {i}), LastOut(nd[i])
  PROVE  Loses(r, nd, i)
  <1>1. DOMAIN r = DOMAIN nd \ {i} /\ r = [j \in DOMAIN r |-> r[j]]
    BY DEF Restrict
  <1>2. \A j \in DOMAIN r : r[j] = u[j] /\ j \in DOMAIN u
    BY DEF Restrict
  <1>3. IsMemory(r)
    BY <1>1, <1>2 DEF IsMemory
  <1>4. KeptBut(r, nd, {i})
    BY <1>1, <1>2 DEF Kept, KeptBut
  <1>5. QED
    BY <1>1, <1>3, <1>4 DEF Loses

LEMMA CountedEffect ==
  ASSUME NEW nd, IsMemory(nd), NEW i, ~LastOut(nd[i]), NEW m,
         m = [nd[i] EXCEPT !.child_count = @ + 1], NEW r, r = [nd EXCEPT ![i] = m]
  PROVE  Loses(r, nd, i)
  <1>1. /\ DOMAIN r = DOMAIN nd /\ r = [j \in DOMAIN nd |-> r[j]]
        /\ \A j \in DOMAIN nd : r[j] = IF j = i THEN m ELSE nd[j]
    BY DEF IsMemory
  <1>2. ASSUME IsNode(nd[i])
        PROVE  IsNode(m) /\ Alike(m, nd[i]) /\ m.child_count = nd[i].child_count + 1
    <2> DEFINE n == nd[i]
               c == n.child_count + 1
    <2>1. m = [n EXCEPT !.child_count = c] /\ IsNode(n)
      BY <1>2
    <2> HIDE DEF n, c
    <2>2. IsNode(m) /\ Alike(m, n) /\ m.child_count = c
      BY <2>1 DEF IsNode, Alike, NodeFields
    <2>3. QED
      BY <2>2 DEF n, c
  <1>3. IsMemory(r)
    BY <1>1, <1>2 DEF IsMemory
  <1>4. KeptBut(r, nd, {i})
    BY <1>1 DEF KeptBut, Same, Alike
  <1>5. i \in DOMAIN nd => Alike(r[i], nd[i]) /\ r[i].child_count = nd[i].child_count + 1
    BY <1>1, <1>2 DEF IsMemory
  <1>6. QED
    BY <1>1, <1>3, <1>4, <1>5 DEF Loses

LEMMA PopEffect ==
  ASSUME NEW v, IsView(v), IsMemory(v.nodes), NEW w, w = PopNode(v)
  PROVE  /\ IsView(w) /\ w.stack = Pop(v.stack)
         /\ Loses(w.nodes, v.nodes, Last(v.stack))
  <1> DEFINE i == Last(v.stack)
             n == OwnPart(Settled(v.nodes[i]))
             c == Credited(v, n)
             folded == Folded(c.nodes[n.parent], n)
             handed == [c.nodes EXCEPT ![n.parent] = folded]
             rest == Restrict(handed, DOMAIN handed \ {i})
  <1>1. CASE LastOut(v.nodes[i])
    <2>1. w = [c EXCEPT !.nodes = rest, !.stack = Pop(@)]
      BY <1>1 DEF PopNode
    <2>2. IsView(c) /\ c.nodes = v.nodes /\ c.stack = v.stack
      <3> HIDE DEF n
      <3>1. QED
        BY CreditedEffect
    <2>3. IsMemory(handed) /\ DOMAIN handed = DOMAIN v.nodes /\ Kept(handed, v.nodes)
      <3>1. n.parent \in DOMAIN v.nodes => IsNode(folded) /\ Same(folded, v.nodes[n.parent])
        <4> HIDE DEF n, c
        <4>1. QED
          BY <2>2, FoldedSame DEF IsMemory
      <3>2. handed = [v.nodes EXCEPT ![n.parent] = folded]
        BY <2>2
      <3> HIDE DEF handed, folded, n
      <3>3. QED
        BY <3>1, <3>2, OneChanged
    <2>4. Loses(rest, v.nodes, i)
      <3> HIDE DEF handed, i
      <3>1. QED
        BY <1>1, <2>3, RestrictEffect DEF i
    <2> HIDE DEF rest, c
    <2>5. IsView(w) /\ w.nodes = rest /\ w.stack = Pop(c.stack)
      BY <2>1, <2>2 DEF IsView
    <2>6. QED
      BY <2>2, <2>4, <2>5
  <1>2. CASE ~LastOut(v.nodes[i])
    <2> DEFINE m == [v.nodes[i] EXCEPT !.child_count = @ + 1]
               nd == [v.nodes EXCEPT ![i] = m]
    <2>1. w = [v EXCEPT !.nodes = nd, !.stack = Pop(@)]
      BY <1>2 DEF PopNode
    <2>2. Loses(nd, v.nodes, i)
      <3>1. m = [v.nodes[i] EXCEPT !.child_count = @ + 1] /\ nd = [v.nodes EXCEPT ![i] = m]
        OBVIOUS
      <3> HIDE DEF m, nd, i
      <3>2. QED
        BY <1>2, <3>1, CountedEffect
    <2> HIDE DEF nd
    <2>3. IsView(w) /\ w.nodes = nd /\ w.stack = Pop(v.stack)
      BY <2>1 DEF IsView
    <2>4. QED
      BY <2>2, <2>3
  <1>3. QED
    BY <1>1, <1>2

----------------------------------------------------------------------------
(* The two stacks of a thread                                              *)

(* The nodes a context has on the off-line stack, and how many of them are *)
(* the region's, which threads share.                                      *)
FrameSize(f, g)  == LevelAt(f, 0, g) + LevelSize(Last(f.levels))
SharedSize(f, g) == IF f.ctx > MaxTasks THEN IF g.closed THEN 1 ELSE 2 ELSE 0

(* The on-line node for tasks stays open while they are waited for.        *)
Extra(f) == IF f.waiting THEN 1 ELSE 0

(* Node i is in memory and is on one stack at most.                        *)
Private(nd, i) ==
  i \in DOMAIN nd /\ ~nd[i].is_barrier_finish /\ nd[i].callSiteId # "region"

(* The on-line nodes of context f above the first m of stack o are those   *)
(* it has above the first lo of the off-line stack s, and one more when it *)
(* waits.                                                                  *)
SameIds(f, s, lo, o, m, g) == \A j \in 1..FrameSize(f, g) : o[m + j] = s[lo + j].id

OwnedNode(nd, o, j, m) ==
  Private(nd, o[j]) /\ (j > m + 1 => nd[o[j]].parent = o[j - 1])

OwnedNodes(f, s, lo, o, m, g, nd) ==
  \A j \in (SharedSize(f, g) + 1)..FrameSize(f, g) :
    OwnedNode(nd, o, m + j, m) /\ nd[o[m + j]].finish_flag = s[lo + j].finish_flag

WaitNode(f, o, m, g, nd) ==
  f.waiting => LET j == m + FrameSize(f, g) + 1 IN
               OwnedNode(nd, o, j, m) /\ nd[o[j]].finish_flag

Parts(f, s, lo, o, m, g, nd) ==
  /\ SameIds(f, s, lo, o, m, g)
  /\ OwnedNodes(f, s, lo, o, m, g, nd)
  /\ WaitNode(f, o, m, g, nd)

(* The first n of the contexts fr have the first h nodes of the off-line   *)
(* stack s, and the first k of the on-line stack o but for those at the    *)
(* bottom that a region has left there.                                    *)
Twins(fr, n, s, h, o, k, g, nd) ==
  \E b \in [1..(n + 1) -> 0..h], c \in [1..(n + 1) -> 0..k] :
    /\ b[1] = 0 /\ b[n + 1] = h /\ c[n + 1] = k
    /\ \A i, j \in 1..(n + 1) : i <= j => b[i] <= b[j] /\ c[i] <= c[j]
    /\ \A i \in 1..n :
         /\ b[i + 1] = b[i] + FrameSize(fr[i], g)
         /\ c[i + 1] = c[i] + FrameSize(fr[i], g) + Extra(fr[i])
         /\ Parts(fr[i], s, b[i], o, c[i], g, nd)

LEMMA FrameSizes ==
  ASSUME NEW f, IsContext(f), NEW g
  PROVE  /\ FrameSize(f, g) \in Nat \ {0} /\ Extra(f) \in {0, 1} /\ SharedSize(f, g) \in 0..2
         /\ SharedSize(f, g) <= FrameSize(f, g)
         /\ \A lo \in Nat : LevelAt(f, lo, g) + LevelSize(Last(f.levels)) = lo + FrameSize(f, g)
  <1>1. /\ Size(f, g) \in 1..3 /\ LevelSize(f.levels[1]) \in 0..1
        /\ LevelSize(Last(f.levels)) \in 0..3
    BY ContextSizes
  <1>2. Size(f, g) >= SharedSize(f, g)
    BY DEF Size, SharedSize
  <1>3. QED
    BY <1>1, <1>2 DEF FrameSize, SharedSize, Extra, LevelAt

LEMMA PartsEnd ==
  ASSUME NEW f, IsContext(f), NEW lo \in Nat, NEW g, NEW s, NEW hi, FrameNodes(f, s, lo, hi, g)
  PROVE  hi = lo + FrameSize(f, g)
  BY FrameSizes DEF FrameNodes

LEMMA TwinsPeel ==
  ASSUME NEW fr, NEW n \in Nat, NEW s, NEW h \in Nat, NEW o, NEW k \in Nat, NEW g, NEW nd,
         Twins(fr, n + 1, s, h, o, k, g, nd)
  PROVE  \E lo \in 0..h, m \in 0..k :
           /\ Twins(fr, n, s, lo, o, m, g, nd)
           /\ h = lo + FrameSize(fr[n + 1], g)
           /\ k = m + FrameSize(fr[n + 1], g) + Extra(fr[n + 1])
           /\ Parts(fr[n + 1], s, lo, o, m, g, nd)
  <1>1. PICK b \in [1..(n + 2) -> 0..h], c \in [1..(n + 2) -> 0..k] :
          /\ b[1] = 0 /\ b[n + 2] = h /\ c[n + 2] = k
          /\ \A i, j \in 1..(n + 2) : i <= j => b[i] <= b[j] /\ c[i] <= c[j]
          /\ \A i \in 1..(n + 1) :
               /\ b[i + 1] = b[i] + FrameSize(fr[i], g)
               /\ c[i + 1] = c[i] + FrameSize(fr[i], g) + Extra(fr[i])
               /\ Parts(fr[i], s, b[i], o, c[i], g, nd)
    <2>1. n + 1 + 1 = n + 2
      OBVIOUS
    <2>2. QED
      BY <2>1 DEF Twins
  <1> DEFINE lo == b[n + 1]
             m == c[n + 1]
             b2 == [i \in 1..(n + 1) |-> b[i]]
             c2 == [i \in 1..(n + 1) |-> c[i]]
  <1>2. /\ lo \in 0..h /\ m \in 0..k
        /\ h = lo + FrameSize(fr[n + 1], g)
        /\ k = m + FrameSize(fr[n + 1], g) + Extra(fr[n + 1])
        /\ Parts(fr[n + 1], s, lo, o, m, g, nd)
    <2>1. n + 1 \in 1..(n + 1) /\ n + 1 \in 1..(n + 2) /\ n + 1 + 1 = n + 2
      OBVIOUS
    <2>2. QED
      BY <1>1, <2>1
  <1>3. b2 \in [1..(n + 1) -> 0..lo] /\ c2 \in [1..(n + 1) -> 0..m]
    <2> SUFFICES ASSUME NEW i \in 1..(n + 1) PROVE b[i] \in 0..lo /\ c[i] \in 0..m
      OBVIOUS
    <2>1. i \in 1..(n + 2) /\ n + 1 \in 1..(n + 2) /\ i <= n + 1
      OBVIOUS
    <2>2. b[i] <= b[n + 1] /\ b[i] \in 0..h /\ c[i] <= c[n + 1] /\ c[i] \in 0..k
      BY <1>1, <2>1
    <2>3. QED
      BY <1>2, <2>2
  <1>4. /\ b2[1] = 0 /\ b2[n + 1] = lo /\ c2[n + 1] = m
        /\ \A i, j \in 1..(n + 1) : i <= j => b2[i] <= b2[j] /\ c2[i] <= c2[j]
    <2>1. \A i \in 1..(n + 1) : i \in 1..(n + 2)
      OBVIOUS
    <2>2. QED
      BY <1>1, <2>1
  <1>5. \A i \in 1..n : /\ b2[i + 1] = b2[i] + FrameSize(fr[i], g)
                        /\ c2[i + 1] = c2[i] + FrameSize(fr[i], g) + Extra(fr[i])
                        /\ Parts(fr[i], s, b2[i], o, c2[i], g, nd)
    <2> SUFFICES ASSUME NEW i \in 1..n
                 PROVE  /\ b2[i + 1] = b2[i] + FrameSize(fr[i], g)
                        /\ c2[i + 1] = c2[i] + FrameSize(fr[i], g) + Extra(fr[i])
                        /\ Parts(fr[i], s, b2[i], o, c2[i], g, nd)
      OBVIOUS
    <2>1. i \in 1..(n + 1) /\ i + 1 \in 1..(n + 1)
      OBVIOUS
    <2>2. b2[i] = b[i] /\ b2[i + 1] = b[i + 1] /\ c2[i] = c[i] /\ c2[i + 1] = c[i + 1]
      BY <2>1
    <2> HIDE DEF b2, c2
    <2>3. QED
      BY <1>1, <2>1, <2>2
  <1> HIDE DEF lo, m, b2, c2
  <1>6. Twins(fr, n, s, lo, o, m, g, nd)
    BY <1>3, <1>4, <1>5 DEF Twins
  <1>7. QED
    BY <1>2, <1>6


----------------------------------------------------------------------------
(* Induction: what fails for some number fails for a least one             *)

LEMMA LeastNumber ==
  ASSUME NEW S, S \subseteq Nat, S # {}
  PROVE  \E x \in S : \A y \in S : x <= y
  <1> DEFINE R == {ss \in Nat \X Nat : ss[1] < ss[2]}
  <1>1. IsWellFoundedOn(R, Nat)
    BY NatLessThanWellFounded DEF OpToRel
  <1>2. \A x \in Nat, y \in Nat : y < x => <<y, x>> \in R
    OBVIOUS
  <1> HIDE DEF R
  <1>3. PICK x \in S : \A y \in S : ~(<<y, x>> \in R)
    BY <1>1, WFMin
  <1>4. \A y \in S : x <= y
    <2> SUFFICES ASSUME NEW y \in S PROVE x <= y
      OBVIOUS
    <2>1. x \in Nat /\ y \in Nat /\ ~(y < x)
      BY <1>2, <1>3
    <2>2. QED
      BY <2>1
  <1>5. QED
    BY <1>4

(* The ground is under implicit tasks only.                                *)
LEMMA SizeOfTask ==
  ASSUME NEW f, NEW g, NEW g2, f.ctx > MaxTasks => g2 = g
  PROVE  FrameSize(f, g2) = FrameSize(f, g) /\ SharedSize(f, g2) = SharedSize(f, g)
  <1>1. Size(f, g2) = Size(f, g)
    BY DEF Size
  <1>2. QED
    BY <1>1 DEF FrameSize, SharedSize, LevelAt

(* How many nodes contexts have on a stack depends on the contexts only.   *)
AsHigh(h2, h) == h2 = h

LEMMA SameHeight ==
  ASSUME NEW fr, NEW fr2, NEW n \in Nat, \A i \in 1..n : IsContext(fr[i]) /\ fr2[i] = fr[i],
         NEW g, NEW g2, \A i \in 1..n : fr[i].ctx > MaxTasks => g2 = g,
         NEW s, NEW h \in Nat, Matches(fr, n, s, h, g),
         NEW r, NEW h2 \in Nat, Matches(fr2, n, r, h2, g2)
  PROVE  AsHigh(h2, h)
  <1>1. PICK b \in [1..(n + 1) -> 0..h] :
          /\ b[1] = 0 /\ b[n + 1] = h
          /\ \A i \in 1..n : FrameNodes(fr[i], s, b[i], b[i + 1], g)
    BY DEF Matches
  <1>2. PICK c \in [1..(n + 1) -> 0..h2] :
          /\ c[1] = 0 /\ c[n + 1] = h2
          /\ \A i \in 1..n : FrameNodes(fr2[i], r, c[i], c[i + 1], g2)
    BY DEF Matches
  <1> DEFINE S == {i \in 1..(n + 1) : b[i] # c[i]}
  <1>3. ASSUME S # {}
        PROVE  FALSE
    <2>1. PICK x \in S : \A y \in S : x <= y
      <3>1. S \subseteq Nat
        OBVIOUS
      <3> HIDE DEF S
      <3>2. QED
        BY <1>3, <3>1, LeastNumber
    <2>2. x \in 1..(n + 1) /\ b[x] # c[x] /\ x # 1
      BY <1>1, <1>2, <2>1
    <2>3. x - 1 \in 1..n /\ x - 1 \in 1..(n + 1) /\ (x - 1) + 1 = x /\ x - 1 \notin S
      BY <2>1, <2>2
    <2>4. b[x - 1] = c[x - 1] /\ b[x - 1] \in Nat
      BY <1>1, <2>3
    <2>5. FrameNodes(fr[x - 1], s, b[x - 1], b[x], g) /\ FrameNodes(fr2[x - 1], r, c[x - 1], c[x], g2)
      BY <1>1, <1>2, <2>3
    <2>6. IsContext(fr[x - 1]) /\ fr2[x - 1] = fr[x - 1]
          /\ (fr[x - 1].ctx > MaxTasks => g2 = g)
      BY <2>3
    <2> DEFINE f == fr[x - 1]
               l == b[x - 1]
    <2>7. b[x] = l + FrameSize(f, g) /\ c[x] = l + FrameSize(f, g2)
      <3>1. IsContext(f) /\ l \in Nat /\ FrameNodes(f, s, l, b[x], g)
            /\ FrameNodes(f, r, l, c[x], g2)
        BY <2>4, <2>5, <2>6
      <3> HIDE DEF f, l
      <3>2. QED
        BY <3>1, PartsEnd
    <2>8. FrameSize(f, g) = FrameSize(f, g2)
      <3>1. f.ctx > MaxTasks => g2 = g
        BY <2>6
      <3> HIDE DEF f
      <3>2. QED
        BY <3>1, SizeOfTask
    <2>9. QED
      BY <2>2, <2>7, <2>8
  <1>4. n + 1 \in 1..(n + 1)
    OBVIOUS
  <1>5. QED
    BY <1>1, <1>2, <1>3, <1>4 DEF AsHigh

(* The nodes of a context stay its own when the stacks change above them.  *)
KeepsOwn(nd2, nd, o, k) ==
  \A j \in 1..k : Private(nd, o[j]) => Private(nd2, o[j]) /\ Alike(nd2[o[j]], nd[o[j]])

LEMMA PartsSame ==
  ASSUME NEW f, IsContext(f), NEW g, NEW g2, f.ctx > MaxTasks => g2 = g,
         NEW lo \in Nat, NEW m \in Nat, NEW s, NEW r, NEW o, NEW o2, NEW nd, NEW nd2,
         Parts(f, s, lo, o, m, g, nd),
         NEW h \in Nat, h = lo + FrameSize(f, g), \A j \in (lo + 1)..h : r[j] = s[j],
         NEW k \in Nat, k = m + FrameSize(f, g) + Extra(f), \A j \in (m + 1)..k : o2[j] = o[j],
         KeepsOwn(nd2, nd, o, k)
  PROVE  Parts(f, r, lo, o2, m, g2, nd2)
  <1> DEFINE F == FrameSize(f, g)
             S == SharedSize(f, g)
  <1>1. F \in Nat \ {0} /\ S \in 0..2 /\ Extra(f) \in {0, 1}
    BY FrameSizes
  <1>2. FrameSize(f, g2) = F /\ SharedSize(f, g2) = S
    BY SizeOfTask
  <1>0. /\ \A j \in 1..F : o[m + j] = s[lo + j].id
        /\ \A j \in (S + 1)..F : /\ OwnedNode(nd, o, m + j, m)
                                 /\ nd[o[m + j]].finish_flag = s[lo + j].finish_flag
        /\ f.waiting => /\ OwnedNode(nd, o, m + F + 1, m)
                        /\ nd[o[m + F + 1]].finish_flag
    BY DEF Parts, SameIds, OwnedNodes, WaitNode
  <1> HIDE DEF F, S
  <1>3. \A j \in 1..F : r[lo + j] = s[lo + j]
    BY <1>1 DEF F
  <1>4. \A j \in 1..(F + Extra(f)) : o2[m + j] = o[m + j]
    BY <1>1 DEF F
  <1>5. ASSUME NEW i \in 1..(F + Extra(f)), OwnedNode(nd, o, m + i, m)
        PROVE  /\ OwnedNode(nd2, o2, m + i, m)
               /\ nd2[o2[m + i]].finish_flag = nd[o[m + i]].finish_flag
    <2>1. o2[m + i] = o[m + i] /\ m + i \in 1..k
      BY <1>1, <1>4, <1>5 DEF F
    <2>2. Private(nd2, o[m + i]) /\ Alike(nd2[o[m + i]], nd[o[m + i]])
      BY <1>5, <2>1 DEF OwnedNode, KeepsOwn
    <2>3. m + i > m + 1 => nd2[o2[m + i]].parent = o2[m + i - 1]
      <3> SUFFICES ASSUME m + i > m + 1 PROVE nd2[o2[m + i]].parent = o2[m + i - 1]
        OBVIOUS
      <3>1. i - 1 \in 1..(F + Extra(f)) /\ m + i - 1 = m + (i - 1)
        BY <1>1
      <3>2. o2[m + i - 1] = o[m + i - 1]
        BY <1>4, <3>1
      <3>3. QED
        BY <1>5, <2>1, <2>2, <3>2 DEF OwnedNode, Alike
    <2>4. QED
      BY <2>1, <2>2, <2>3 DEF OwnedNode, Alike
  <1>6. \A j \in 1..F : j \in 1..(F + Extra(f))
    BY <1>1
  <1>7. SameIds(f, r, lo, o2, m, g2)
    BY <1>0, <1>2, <1>3, <1>4, <1>6 DEF SameIds
  <1>8. \A j \in (S + 1)..F : j \in 1..F
    BY <1>1
  <1>9. OwnedNodes(f, r, lo, o2, m, g2, nd2)
    BY <1>0, <1>2, <1>3, <1>5, <1>6, <1>8 DEF OwnedNodes
  <1>10. WaitNode(f, o2, m, g2, nd2)
    <2> SUFFICES ASSUME f.waiting
                 PROVE  OwnedNode(nd2, o2, m + F + 1, m) /\ nd2[o2[m + F + 1]].finish_flag
      BY <1>2 DEF WaitNode
    <2>1. F + 1 \in 1..(F + Extra(f)) /\ m + (F + 1) = m + F + 1
      BY <1>1 DEF Extra
    <2>2. OwnedNode(nd, o, m + (F + 1), m) /\ nd[o[m + (F + 1)]].finish_flag
      BY <1>0, <2>1
    <2>3. QED
      BY <1>5, <2>1, <2>2
  <1>11. QED
    BY <1>7, <1>9, <1>10 DEF Parts

LEMMA TwinsLay ==
  ASSUME NEW fr, NEW n \in Nat, NEW s, NEW lo \in Nat, NEW o, NEW m \in Nat, NEW g, NEW nd,
         Twins(fr, n, s, lo, o, m, g, nd), IsContext(fr[n + 1]),
         NEW h, h = lo + FrameSize(fr[n + 1], g),
         NEW k, k = m + FrameSize(fr[n + 1], g) + Extra(fr[n + 1]),
         Parts(fr[n + 1], s, lo, o, m, g, nd)
  PROVE  Twins(fr, n + 1, s, h, o, k, g, nd)
  <1>1. PICK b \in [1..(n + 1) -> 0..lo], c \in [1..(n + 1) -> 0..m] :
          /\ b[1] = 0 /\ b[n + 1] = lo /\ c[n + 1] = m
          /\ \A i, j \in 1..(n + 1) : i <= j => b[i] <= b[j] /\ c[i] <= c[j]
          /\ \A i \in 1..n :
               /\ b[i + 1] = b[i] + FrameSize(fr[i], g)
               /\ c[i + 1] = c[i] + FrameSize(fr[i], g) + Extra(fr[i])
               /\ Parts(fr[i], s, b[i], o, c[i], g, nd)
    BY DEF Twins
  <1>2. h \in Nat /\ lo <= h /\ k \in Nat /\ m <= k
    <2> DEFINE f == fr[n + 1]
               F == FrameSize(f, g)
    <2>1. IsContext(f) /\ h = lo + F /\ k = m + F + Extra(f)
      OBVIOUS
    <2> HIDE DEF f, F
    <2>2. F \in Nat \ {0} /\ Extra(f) \in {0, 1}
      BY <2>1, FrameSizes DEF F
    <2>3. QED
      BY <2>1, <2>2
  <1> DEFINE b2 == [i \in 1..(n + 2) |-> IF i = n + 2 THEN h ELSE b[i]]
             c2 == [i \in 1..(n + 2) |-> IF i = n + 2 THEN k ELSE c[i]]
  <1>3. /\ n + 2 \in 1..(n + 2) /\ n + 1 + 1 = n + 2 /\ n + 2 # n + 1 /\ 1 # n + 2
        /\ \A i \in 1..(n + 2) : i = n + 2 \/ i \in 1..(n + 1)
        /\ \A i \in 1..(n + 1) : i \in 1..(n + 2) /\ i # n + 2
        /\ 1 \in 1..(n + 1) /\ n + 1 \in 1..(n + 1)
    OBVIOUS
  <1>4. \A i \in 1..(n + 1) : b2[i] = b[i] /\ c2[i] = c[i]
    BY <1>3
  <1>5. b2[n + 2] = h /\ c2[n + 2] = k
    BY <1>3
  <1>6. b2 \in [1..(n + 2) -> 0..h] /\ c2 \in [1..(n + 2) -> 0..k]
    <2> SUFFICES ASSUME NEW i \in 1..(n + 2) PROVE b2[i] \in 0..h /\ c2[i] \in 0..k
      OBVIOUS
    <2> HIDE DEF b2, c2
    <2>1. \A j \in 1..(n + 1) : b2[j] \in 0..lo /\ c2[j] \in 0..m
      BY <1>1, <1>4
    <2>2. (\A x \in 0..lo : x \in 0..h) /\ (\A x \in 0..m : x \in 0..k) /\ h \in 0..h /\ k \in 0..k
      BY <1>2
    <2>3. QED
      BY <1>3, <1>5, <2>1, <2>2
  <1> HIDE DEF b2, c2
  <1>7. b2[1] = 0 /\ b2[n + 1] = lo /\ c2[n + 1] = m
    BY <1>1, <1>3, <1>4
  <1>8. \A i, j \in 1..(n + 2) : i <= j => b2[i] <= b2[j] /\ c2[i] <= c2[j]
    <2> SUFFICES ASSUME NEW i \in 1..(n + 2), NEW j \in 1..(n + 2), i <= j
                 PROVE  b2[i] <= b2[j] /\ c2[i] <= c2[j]
      OBVIOUS
    <2>1. CASE j = n + 2
      <3>1. b2[i] \in 0..h /\ c2[i] \in 0..k
        BY <1>6
      <3>2. QED
        BY <1>2, <1>5, <2>1, <3>1
    <2>2. CASE j # n + 2
      <3>1. i \in 1..(n + 1) /\ j \in 1..(n + 1)
        BY <2>2
      <3>2. QED
        BY <1>1, <1>4, <3>1
    <2>3. QED
      BY <2>1, <2>2
  <1>9. \A i \in 1..(n + 1) : /\ b2[i + 1] = b2[i] + FrameSize(fr[i], g)
                              /\ c2[i + 1] = c2[i] + FrameSize(fr[i], g) + Extra(fr[i])
                              /\ Parts(fr[i], s, b2[i], o, c2[i], g, nd)
    <2> SUFFICES ASSUME NEW i \in 1..(n + 1)
                 PROVE  /\ b2[i + 1] = b2[i] + FrameSize(fr[i], g)
                        /\ c2[i + 1] = c2[i] + FrameSize(fr[i], g) + Extra(fr[i])
                        /\ Parts(fr[i], s, b2[i], o, c2[i], g, nd)
      OBVIOUS
    <2>1. CASE i = n + 1
      BY <1>3, <1>5, <1>7, <2>1
    <2>2. CASE i # n + 1
      <3>1. i \in 1..n /\ i \in 1..(n + 1) /\ i + 1 \in 1..(n + 1)
        BY <2>2
      <3>2. b2[i] = b[i] /\ b2[i + 1] = b[i + 1] /\ c2[i] = c[i] /\ c2[i + 1] = c[i + 1]
        BY <1>4, <3>1
      <3>3. QED
        BY <1>1, <3>1, <3>2
    <2>3. QED
      BY <2>1, <2>2
  <1> DEFINE z == n + 1
  <1>10. z + 1 = n + 2 /\ z = n + 1
    OBVIOUS
  <1> HIDE DEF z
  <1>11. Twins(fr, z, s, h, o, k, g, nd)
    <2>1. b2 \in [1..(z + 1) -> 0..h] /\ c2 \in [1..(z + 1) -> 0..k]
      BY <1>6, <1>10
    <2>2. b2[1] = 0 /\ b2[z + 1] = h /\ c2[z + 1] = k
      BY <1>5, <1>7, <1>10
    <2>3. \A i, j \in 1..(z + 1) : i <= j => b2[i] <= b2[j] /\ c2[i] <= c2[j]
      BY <1>8, <1>10
    <2>4. \A i \in 1..z : /\ b2[i + 1] = b2[i] + FrameSize(fr[i], g)
                          /\ c2[i + 1] = c2[i] + FrameSize(fr[i], g) + Extra(fr[i])
                          /\ Parts(fr[i], s, b2[i], o, c2[i], g, nd)
      BY <1>9, <1>10
    <2>5. QED
      BY <2>1, <2>2, <2>3, <2>4 DEF Twins
  <1>12. QED
    BY <1>10, <1>11

(* Contexts keep their nodes when the stacks change above them.            *)
LEMMA TwinsSame ==
  ASSUME NEW fr, NEW fr2, NEW n \in Nat, \A i \in 1..n : IsContext(fr[i]) /\ fr2[i] = fr[i],
         NEW g, NEW g2, \A i \in 1..n : fr[i].ctx > MaxTasks => g2 = g,
         NEW s, NEW r, NEW h \in Nat, \A j \in 1..h : r[j] = s[j],
         NEW o, NEW o2, NEW k \in Nat, \A j \in 1..k : o2[j] = o[j],
         NEW nd, NEW nd2, KeepsOwn(nd2, nd, o, k),
         Twins(fr, n, s, h, o, k, g, nd)
  PROVE  Twins(fr2, n, r, h, o2, k, g2, nd2)
  <1>1. PICK b \in [1..(n + 1) -> 0..h], c \in [1..(n + 1) -> 0..k] :
          /\ b[1] = 0 /\ b[n + 1] = h /\ c[n + 1] = k
          /\ \A i, j \in 1..(n + 1) : i <= j => b[i] <= b[j] /\ c[i] <= c[j]
          /\ \A i \in 1..n :
               /\ b[i + 1] = b[i] + FrameSize(fr[i], g)
               /\ c[i + 1] = c[i] + FrameSize(fr[i], g) + Extra(fr[i])
               /\ Parts(fr[i], s, b[i], o, c[i], g, nd)
    BY DEF Twins
  <1>2. ASSUME NEW i \in 1..n
        PROVE  /\ b[i + 1] = b[i] + FrameSize(fr2[i], g2)
               /\ c[i + 1] = c[i] + FrameSize(fr2[i], g2) + Extra(fr2[i])
               /\ Parts(fr2[i], r, b[i], o2, c[i], g2, nd2)
    <2>1. i \in 1..(n + 1) /\ i + 1 \in 1..(n + 1)
      OBVIOUS
    <2>2. b[i] \in 0..h /\ b[i + 1] \in 0..h /\ c[i] \in 0..k /\ c[i + 1] \in 0..k
      BY <2>1
    <2> DEFINE f == fr[i]
               x == b[i]
               y == b[i + 1]
               u == c[i]
               v == c[i + 1]
    <2>3. IsContext(f) /\ fr2[i] = f /\ (f.ctx > MaxTasks => g2 = g)
      OBVIOUS
    <2>4. y = x + FrameSize(f, g) /\ v = u + FrameSize(f, g) + Extra(f)
          /\ Parts(f, s, x, o, u, g, nd)
      BY <1>1
    <2>5. x \in Nat /\ y \in Nat /\ y \in 0..h /\ u \in Nat /\ v \in Nat /\ v \in 0..k
      BY <2>2
    <2> HIDE DEF f, x, y, u, v
    <2>6. (\A j \in (x + 1)..y : j \in 1..h) /\ (\A j \in (u + 1)..v : j \in 1..k)
      BY <2>5
    <2>11. \A j \in 1..v : j \in 1..k
      BY <2>5
    <2>7. /\ KeepsOwn(nd2, nd, o, v)
          /\ \A j \in (x + 1)..y : r[j] = s[j]
          /\ \A j \in (u + 1)..v : o2[j] = o[j]
      BY <2>6, <2>11 DEF KeepsOwn
    <2>12. x \in Nat /\ y \in Nat /\ u \in Nat /\ v \in Nat
      BY <2>5
    <2>8. Parts(f, r, x, o2, u, g2, nd2)
      BY <2>3, <2>4, <2>7, <2>12, PartsSame
    <2>9. FrameSize(f, g2) = FrameSize(f, g)
      BY <2>3, SizeOfTask
    <2>10. QED
      BY <2>3, <2>4, <2>8, <2>9 DEF x, y, u, v
  <1>3. QED
    BY <1>1, <1>2 DEF Twins

----------------------------------------------------------------------------
(* A handler at work                                                       *)

(* What a handler starts from: the nodes in memory, the last id handed     *)
(* out, the thread's stack, the off-line one, and the nodes that other     *)
(* threads or taskMap hold.  And where it works: above the first lo nodes of the off-line     *)
(* stack and the first m of the on-line one; the first shared nodes it     *)
(* finds there may be on other stacks.                                     *)
IsOrigin(from) ==
  /\ IsMemory(from.nodes) /\ from.ctr \in Nat /\ DOMAIN from.nodes \subseteq 1..from.ctr
  /\ from.others \subseteq 1..from.ctr

IsPlace(lo, m, sh) == lo \in Nat /\ m \in Nat /\ sh \in Nat

Placed(w, c) ==
  /\ IsView(w) /\ IsMemory(w.nodes) /\ IsSequence(w.stack) /\ c \in Nat
  /\ \A i \in DOMAIN w.nodes : i \in 1..c
  /\ \A j \in 1..Len(w.stack) : w.stack[j] \in 1..c

(* A node of the thread's own is on its stack once.                        *)
OnceIn(nd, o) ==
  \A j, l \in 1..Len(o) : o[j] = o[l] /\ Private(nd, o[j]) => j = l

(* The view has the nodes of the off-line stack s.                         *)
Aligned(w, s, lo, m, sh) ==
  /\ s \in Seq(NodeRecord) /\ lo <= Len(s) /\ Len(w.stack) = m + (Len(s) - lo)
  /\ \A j \in 1..(Len(s) - lo) :
       /\ w.stack[m + j] = s[lo + j].id
       /\ j > sh =>
            /\ OwnedNode(w.nodes, w.stack, m + j, m)
            /\ w.nodes[w.stack[m + j]].finish_flag = s[lo + j].finish_flag

(* The nodes of nd are as they were, unless they are gone.                 *)
FromMemory(m, nd, c) ==
  \A i \in DOMAIN m : i <= c => i \in DOMAIN nd /\ Alike(m[i], nd[i])

(* No node is gone that others hold, or that is below the place.           *)
Sparing(w, m, from) ==
  /\ \A j \in 1..m : w.stack[j] = from.stack[j]
  /\ FromMemory(w.nodes, from.nodes, from.ctr)
  /\ \A i \in DOMAIN from.nodes \ DOMAIN w.nodes : Private(from.nodes, i) =>
       i \notin from.others /\ \A j \in 1..m : from.stack[j] # i
  /\ \A j \in (m + 1)..Len(w.stack) :
       Private(w.nodes, w.stack[j]) => w.stack[j] \notin from.others

(* The off-line stack has not changed below the place.                     *)
OnBase(s, lo, from) == \A j \in 1..lo : s[j] = from.below[j]

(* View w, with ids up to c, is what the handler has made of it so far     *)
(* when the off-line one has made s of its stack.                          *)
Drawn(w, c, s, lo, m, sh, from) ==
  /\ IsOrigin(from) /\ IsPlace(lo, m, sh) /\ from.ctr <= c
  /\ Placed(w, c) /\ OnceIn(w.nodes, w.stack) /\ Aligned(w, s, lo, m, sh)
  /\ Sparing(w, m, from) /\ OnBase(s, lo, from)

LEMMA PrivateAlike ==
  ASSUME NEW m, NEW nd, NEW i, i \in DOMAIN nd, i \in DOMAIN m, Alike(m[i], nd[i])
  PROVE  Private(m, i) <=> Private(nd, i)
  BY DEF Private, Alike

LEMMA DrawnKept ==
  ASSUME NEW w, NEW c, NEW s, NEW lo, NEW m, NEW sh, NEW from,
         Drawn(w, c, s, lo, m, sh, from),
         NEW w2, IsView(w2), IsMemory(w2.nodes), w2.stack = w.stack,
         DOMAIN w2.nodes = DOMAIN w.nodes, Kept(w2.nodes, w.nodes)
  PROVE  Drawn(w2, c, s, lo, m, sh, from)
  <1>1. \A i \in DOMAIN w.nodes : i \in DOMAIN w2.nodes /\ Alike(w2.nodes[i], w.nodes[i])
    BY DEF Kept, Same
  <1>2. \A i : Private(w2.nodes, i) <=> Private(w.nodes, i)
    BY <1>1 DEF Private, Alike
  <1>3. Placed(w2, c) /\ OnceIn(w2.nodes, w2.stack)
    BY <1>2 DEF Drawn, Placed, OnceIn
  <1>4. Aligned(w2, s, lo, m, sh)
    BY <1>1, <1>2 DEF Drawn, Aligned, OwnedNode, Alike, Private
  <1>5. Sparing(w2, m, from)
    BY <1>1, <1>2 DEF Drawn, Sparing, FromMemory, Alike
  <1>6. QED
    BY <1>3, <1>4, <1>5 DEF Drawn

LEMMA DrawnAdded ==
  ASSUME NEW w, NEW c, NEW s, NEW lo, NEW m, NEW sh, NEW from,
         Drawn(w, c, s, lo, m, sh, from),
         NEW i, NEW counts, NEW w2, w2 = Added(w, i, counts)
  PROVE  Drawn(w2, c, s, lo, m, sh, from)
  <1>1. /\ IsView(w2) /\ IsMemory(w2.nodes) /\ w2.stack = w.stack
        /\ DOMAIN w2.nodes = DOMAIN w.nodes /\ Kept(w2.nodes, w.nodes)
    BY AddedEffect DEF Drawn, Placed
  <1>2. QED
    BY <1>1, DrawnKept

(* A higher number of ids.                                                 *)
LEMMA DrawnMore ==
  ASSUME NEW w, NEW c, NEW s, NEW lo, NEW m, NEW sh, NEW from,
         Drawn(w, c, s, lo, m, sh, from),
         NEW d \in Nat, c <= d
  PROVE  Drawn(w, d, s, lo, m, sh, from)
  <1>1. \A i \in 1..c : i \in 1..d
    BY DEF Drawn, Placed
  <1>2. from.ctr <= d
    BY DEF Drawn, Placed, IsOrigin
  <1>3. QED
    BY <1>1, <1>2 DEF Drawn, Placed

LEMMA DrawnPop ==
  ASSUME NEW w, NEW c, NEW s, NEW lo, NEW m, NEW sh, NEW from,
         Drawn(w, c, s, lo, m, sh, from),
         Len(s) > lo, NEW w2, w2 = PopNode(w)
  PROVE  Drawn(w2, c, Pop(s), lo, m, sh, from)
  <1> DEFINE n == Len(w.stack)
             i == w.stack[n]
             r == Pop(s)
  <1>1. /\ IsOrigin(from) /\ IsPlace(lo, m, sh) /\ from.ctr <= c
        /\ Placed(w, c) /\ OnceIn(w.nodes, w.stack) /\ Aligned(w, s, lo, m, sh)
        /\ Sparing(w, m, from) /\ OnBase(s, lo, from)
    BY DEF Drawn
  <1>2. /\ s \in Seq(NodeRecord) /\ Len(s) \in Nat /\ n = m + (Len(s) - lo)
        /\ lo \in Nat /\ m \in Nat /\ m < n /\ n \in Nat /\ n \in 1..n
        /\ IsSequence(w.stack) /\ w.stack # <<>> /\ Len(s) > lo
    <2>1. s \in Seq(NodeRecord) /\ Len(s) \in Nat /\ n = m + (Len(s) - lo)
          /\ lo \in Nat /\ m \in Nat /\ IsSequence(w.stack)
      BY <1>1 DEF Aligned, IsPlace, Placed
    <2>2. n \in Nat /\ m < n
      BY <2>1
    <2>3. QED
      BY <2>1, <2>2, LengthType
  <1>3. /\ r \in Seq(NodeRecord) /\ Len(r) = Len(s) - 1
        /\ \A j \in 1..(Len(s) - 1) : r[j] = s[j]
    <2>1. Len(s) > 0
      BY <1>2
    <2>2. QED
      BY <1>2, <2>1, PopStack
  <1>4. /\ IsView(w2) /\ w2.stack = Pop(w.stack) /\ Loses(w2.nodes, w.nodes, i)
    <2>1. Last(w.stack) = i
      BY DEF Last
    <2> HIDE DEF i
    <2>2. QED
      BY <1>1, <2>1, PopEffect DEF Placed
  <1>5. /\ IsSequence(w2.stack) /\ Len(w2.stack) = n - 1
        /\ \A j \in 1..(n - 1) : j \in 1..n /\ j < n /\ w2.stack[j] = w.stack[j]
    <2> DEFINE o == w.stack
               q == w2.stack
    <2>1. IsSequence(o) /\ o # <<>> /\ q = Pop(o) /\ n = Len(o)
      BY <1>2, <1>4
    <2> HIDE DEF o, q, n
    <2>2. /\ IsSequence(q) /\ Len(q) = n - 1
          /\ \A j \in 1..Len(q) : j \in 1..n /\ j < n /\ q[j] = o[j]
      BY <2>1, PopLast
    <2>3. QED
      BY <2>2 DEF o, q
  <1>6. /\ IsMemory(w2.nodes)
        /\ \A x \in DOMAIN w2.nodes : x \in DOMAIN w.nodes /\ Alike(w2.nodes[x], w.nodes[x])
        /\ \A x \in DOMAIN w.nodes : x # i => x \in DOMAIN w2.nodes
    BY <1>4 DEF Loses, KeptBut, Same, LastOut
  <1>7. \A x : Private(w2.nodes, x) => Private(w.nodes, x)
    BY <1>6 DEF Private, Alike
  <1> HIDE DEF n, r
  <1>8. Placed(w2, c)
    <2>1. \A j \in 1..Len(w2.stack) : w2.stack[j] \in 1..c
      <3>1. \A j \in 1..n : w.stack[j] \in 1..c
        BY <1>1 DEF Placed, n
      <3>2. QED
        BY <1>5, <3>1
    <2>2. QED
      BY <1>1, <1>4, <1>5, <1>6, <2>1 DEF Placed
  <1>9. OnceIn(w2.nodes, w2.stack)
    <2> SUFFICES ASSUME NEW j \in 1..Len(w2.stack), NEW l \in 1..Len(w2.stack),
                        w2.stack[j] = w2.stack[l], Private(w2.nodes, w2.stack[j])
                 PROVE  j = l
      BY DEF OnceIn
    <2>1. j \in 1..n /\ l \in 1..n /\ w.stack[j] = w.stack[l] /\ Private(w.nodes, w.stack[j])
      BY <1>5, <1>7
    <2>2. QED
      BY <1>1, <2>1 DEF OnceIn, n
  <1>10. \A j \in 1..(n - 1) : Private(w.nodes, w.stack[j]) =>
           w.stack[j] # i /\ Private(w2.nodes, w.stack[j])
    <2> SUFFICES ASSUME NEW j \in 1..(n - 1), Private(w.nodes, w.stack[j])
                 PROVE  w.stack[j] # i /\ Private(w2.nodes, w.stack[j])
      OBVIOUS
    <2>1. j \in 1..n /\ j # n
      BY <1>2
    <2>2. w.stack[j] # i
      BY <1>1, <1>2, <2>1 DEF OnceIn, n, i
    <2>3. QED
      BY <1>6, <2>2 DEF Private, Alike
  <1>11. Aligned(w2, r, lo, m, sh)
    <2>1. Len(r) \in Nat /\ lo <= Len(r) /\ Len(w2.stack) = m + (Len(r) - lo)
      BY <1>2, <1>3, <1>5
    <2>2. ASSUME NEW j \in 1..(Len(r) - lo)
          PROVE  /\ w2.stack[m + j] = r[lo + j].id
                 /\ j > sh =>
                      /\ OwnedNode(w2.nodes, w2.stack, m + j, m)
                      /\ w2.nodes[w2.stack[m + j]].finish_flag = r[lo + j].finish_flag
      <3>1. j \in 1..(Len(s) - lo) /\ m + j \in 1..(n - 1) /\ lo + j \in 1..(Len(s) - 1)
        <4>1. j \in Nat /\ 1 <= j /\ j <= Len(s) - 1 - lo
          BY <1>2, <1>3, <2>1
        <4>2. QED
          BY <1>2, <4>1
      <3>2. w2.stack[m + j] = w.stack[m + j] /\ r[lo + j] = s[lo + j]
        BY <1>3, <1>5, <3>1
      <3>3. w.stack[m + j] = s[lo + j].id
        BY <1>1, <3>1 DEF Aligned
      <3>4. ASSUME j > sh
            PROVE  /\ OwnedNode(w2.nodes, w2.stack, m + j, m)
                   /\ w2.nodes[w2.stack[m + j]].finish_flag = r[lo + j].finish_flag
        <4>1. /\ OwnedNode(w.nodes, w.stack, m + j, m)
              /\ w.nodes[w.stack[m + j]].finish_flag = s[lo + j].finish_flag
          BY <1>1, <3>1, <3>4 DEF Aligned
        <4>2. Private(w2.nodes, w.stack[m + j])
          BY <1>10, <3>1, <4>1 DEF OwnedNode
        <4>3. Alike(w2.nodes[w.stack[m + j]], w.nodes[w.stack[m + j]])
          BY <1>6, <4>2 DEF Private
        <4>4. m + j > m + 1 => w2.stack[(m + j) - 1] = w.stack[(m + j) - 1]
          <5>1. m + j > m + 1 => (m + j) - 1 \in 1..(n - 1)
            <6>1. j \in Nat
              OBVIOUS
            <6>2. QED
              BY <1>2, <3>1, <6>1
          <5>2. QED
            BY <1>5, <5>1
        <4>5. OwnedNode(w2.nodes, w2.stack, m + j, m)
          <5> DEFINE x == m + j
          <5>1. /\ w2.stack[x] = w.stack[x] /\ OwnedNode(w.nodes, w.stack, x, m)
                /\ Private(w2.nodes, w.stack[x]) /\ Alike(w2.nodes[w.stack[x]], w.nodes[w.stack[x]])
                /\ x > m + 1 => w2.stack[x - 1] = w.stack[x - 1]
            BY <3>2, <4>1, <4>2, <4>3, <4>4
          <5> HIDE DEF x
          <5>2. OwnedNode(w2.nodes, w2.stack, x, m)
            BY <5>1 DEF OwnedNode, Alike
          <5>3. QED
            BY <5>2 DEF x
        <4>6. QED
          BY <3>2, <4>1, <4>3, <4>5 DEF Alike
      <3>5. QED
        BY <3>2, <3>3, <3>4
    <2>3. QED
      BY <1>3, <2>1, <2>2 DEF Aligned
  <1>12. Sparing(w2, m, from)
    <2>1. \A j \in 1..m : w2.stack[j] = from.stack[j]
      <3>1. \A j \in 1..m : j \in 1..(n - 1)
        BY <1>2
      <3>2. QED
        BY <1>1, <1>5, <3>1 DEF Sparing
    <2>2. FromMemory(w2.nodes, from.nodes, from.ctr)
      BY <1>1, <1>6 DEF Sparing, FromMemory, Alike
    <2>3. \A j \in (m + 1)..Len(w2.stack) :
            Private(w2.nodes, w2.stack[j]) => w2.stack[j] \notin from.others
      <3>1. \A j \in (m + 1)..(n - 1) : j \in 1..(n - 1) /\ j \in (m + 1)..n
        BY <1>2
      <3>2. QED
        BY <1>1, <1>5, <1>7, <3>1 DEF Sparing, n
    <2>4. ASSUME NEW x \in DOMAIN from.nodes \ DOMAIN w2.nodes, Private(from.nodes, x)
          PROVE  x \notin from.others /\ \A j \in 1..m : from.stack[j] # x
      <3>1. CASE x \notin DOMAIN w.nodes
        BY <1>1, <2>4, <3>1 DEF Sparing
      <3>2. CASE x \in DOMAIN w.nodes
        <4>1. x = i
          BY <1>6, <2>4, <3>2
        <4>2. x <= from.ctr
          BY <1>1, <2>4 DEF IsOrigin
        <4>3. Alike(w.nodes[x], from.nodes[x])
          BY <1>1, <3>2, <4>2 DEF Sparing, FromMemory
        <4>4. Private(w.nodes, i)
          BY <2>4, <3>2, <4>1, <4>3 DEF Private, Alike
        <4>5. i \notin from.others
          <5>1. n \in (m + 1)..n
            BY <1>2
          <5>2. QED
            BY <1>1, <4>4, <5>1 DEF Sparing, n, i
        <4>6. \A j \in 1..m : from.stack[j] # i
          <5> SUFFICES ASSUME NEW j \in 1..m, from.stack[j] = i PROVE FALSE
            OBVIOUS
          <5>1. w.stack[j] = i /\ j \in 1..n /\ j # n
            BY <1>1, <1>2 DEF Sparing
          <5>2. QED
            BY <1>1, <1>2, <4>4, <5>1 DEF OnceIn, n, i
        <4>7. QED
          BY <4>1, <4>5, <4>6
      <3>3. QED
        BY <3>1, <3>2
    <2>5. QED
      BY <2>1, <2>2, <2>3, <2>4 DEF Sparing
  <1>13. OnBase(r, lo, from)
    <2>1. \A j \in 1..lo : j \in 1..(Len(s) - 1)
      BY <1>2
    <2>2. QED
      BY <1>1, <1>3, <2>1 DEF OnBase
  <1>14. QED
    BY <1>1, <1>8, <1>9, <1>11, <1>12, <1>13 DEF Drawn, r

(* The node on top, if it is the thread's own.                             *)
LEMMA DrawnTop ==
  ASSUME NEW w, NEW c, NEW s, NEW lo, NEW m, NEW sh, NEW from,
         Drawn(w, c, s, lo, m, sh, from),
         Len(s) > lo, Len(s) - lo > sh
  PROVE  /\ Last(w.stack) = Top(s).id /\ Private(w.nodes, Last(w.stack))
         /\ w.nodes[Last(w.stack)].finish_flag = Top(s).finish_flag
  <1>1. /\ s \in Seq(NodeRecord) /\ Len(s) \in Nat /\ lo \in Nat /\ m \in Nat
        /\ Len(w.stack) = m + (Len(s) - lo) /\ Len(s) > lo /\ Len(s) - lo > sh
    BY DEF Drawn, Aligned, IsPlace
  <1> DEFINE j == Len(s) - lo
  <1>2. j \in 1..(Len(s) - lo) /\ lo + j = Len(s) /\ j > sh
        /\ m + j = Len(w.stack) /\ Len(s) > 0
    BY <1>1
  <1>3. Top(s) = s[Len(s)]
    BY <1>1, <1>2, EmptySeq DEF Top
  <1>4. /\ w.stack[m + j] = s[lo + j].id
        /\ OwnedNode(w.nodes, w.stack, m + j, m)
        /\ w.nodes[w.stack[m + j]].finish_flag = s[lo + j].finish_flag
    BY <1>2 DEF Drawn, Aligned
  <1> HIDE DEF j
  <1>5. QED
    BY <1>2, <1>3, <1>4 DEF Last, OwnedNode

LEMMA DrawnCleanup ==
  ASSUME NEW w, NEW c, NEW s, NEW lo, NEW m, NEW sh, NEW from,
         Drawn(w, c, s, lo, m, sh, from),
         Len(s) > lo, Len(s) - lo > sh, NEW w2, w2 = CleanupFinishNode(w)
  PROVE  Drawn(w2, c, Cleanup(s), lo, m, sh, from)
  <1>1. w.nodes[Last(w.stack)].finish_flag = Top(s).finish_flag
    BY DrawnTop
  <1>2. CASE Top(s).finish_flag
    <2>1. w2 = PopNode(w) /\ Cleanup(s) = Pop(s)
      BY <1>1, <1>2 DEF CleanupFinishNode, Cleanup
    <2>2. QED
      BY <2>1, DrawnPop
  <1>3. CASE ~Top(s).finish_flag
    BY <1>1, <1>3 DEF CleanupFinishNode, Cleanup
  <1>4. QED
    BY <1>2, <1>3

(* Where a node of the two stacks is, when both have grown by one.         *)
LEMMA PlaceOf ==
  ASSUME NEW lo \in Nat, NEW m \in Nat, NEW l \in Nat, NEW n \in Nat, lo <= l,
         n = m + (l - lo), NEW x, x = l + 1
  PROVE  \A j \in 1..(x - lo) :
           /\ j \in Nat
           /\ lo + j = l + 1 =>
                /\ m + j = n + 1 /\ j = (l - lo) + 1
                /\ m + j > m + 1 => n > m /\ (m + j) - 1 = n /\ n \in 1..n
           /\ lo + j # l + 1 =>
                /\ j \in 1..(l - lo) /\ m + j \in 1..n /\ lo + j \in 1..l
                /\ m + j > m + 1 => (m + j) - 1 \in 1..n
  OBVIOUS

(* A node on top, new or old, that others do not hold if it is the         *)
(* thread's own.                                                           *)
LEMMA DrawnAppend ==
  ASSUME NEW w, NEW c, NEW s, NEW lo, NEW m, NEW sh, NEW from,
         Drawn(w, c, s, lo, m, sh, from),
         NEW d \in Nat, c <= d, NEW i \in 1..d,
         NEW w2, IsView(w2), IsMemory(w2.nodes), w2.stack = Append(w.stack, i),
         \A x \in DOMAIN w.nodes : x \in DOMAIN w2.nodes /\ Alike(w2.nodes[x], w.nodes[x]),
         \A x \in DOMAIN w2.nodes : x \in DOMAIN w.nodes \/ (x = i /\ c < i),
         Private(w2.nodes, i) => i \notin from.others /\ \A j \in 1..Len(w.stack) : w.stack[j] # i,
         NEW y \in NodeRecord, y.id = i,
         Len(s) - lo >= sh => /\ Private(w2.nodes, i) /\ w2.nodes[i].finish_flag = y.finish_flag
                              /\ Len(w.stack) > m => w2.nodes[i].parent = Last(w.stack)
  PROVE  Drawn(w2, d, Append(s, y), lo, m, sh, from)
  <1> DEFINE n == Len(w.stack)
             o == w.stack
             q == w2.stack
             r == Append(s, y)
  <1>1. /\ IsOrigin(from) /\ IsPlace(lo, m, sh) /\ from.ctr <= c
        /\ Placed(w, c) /\ OnceIn(w.nodes, w.stack) /\ Aligned(w, s, lo, m, sh)
        /\ Sparing(w, m, from) /\ OnBase(s, lo, from)
    BY DEF Drawn
  <1>2. /\ s \in Seq(NodeRecord) /\ Len(s) \in Nat /\ n = m + (Len(s) - lo) /\ lo <= Len(s)
        /\ lo \in Nat /\ m \in Nat /\ m <= n /\ n \in Nat /\ sh \in Nat
        /\ IsSequence(o) /\ n = Len(o) /\ c \in Nat /\ from.ctr \in Nat
    <2>1. s \in Seq(NodeRecord) /\ Len(s) \in Nat /\ n = m + (Len(s) - lo) /\ lo <= Len(s)
          /\ lo \in Nat /\ m \in Nat /\ IsSequence(w.stack) /\ sh \in Nat /\ c \in Nat
          /\ from.ctr \in Nat
      BY <1>1 DEF Aligned, IsPlace, Placed, IsOrigin
    <2>2. n \in Nat /\ m <= n
      BY <2>1
    <2>3. QED
      BY <2>1, <2>2
  <1>3. /\ r \in Seq(NodeRecord) /\ Len(r) = Len(s) + 1
        /\ \A j \in 1..Len(s) : r[j] = s[j]
        /\ r[Len(s) + 1] = y
    BY <1>2, AppendProperties
  <1>4. /\ IsSequence(q) /\ Len(q) = n + 1 /\ q[n + 1] = i
        /\ \A j \in 1..n : q[j] = o[j]
    <2>1. q = Push(o, i)
      BY DEF Push
    <2>2. IsSequence(o) /\ n = Len(o) /\ n \in Nat
      BY <1>2
    <2> HIDE DEF o, q, n
    <2>3. /\ IsSequence(q) /\ Len(q) = Len(o) + 1 /\ q[Len(q)] = i
          /\ \A j \in 1..Len(q) : j < Len(q) => j \in 1..Len(o) /\ q[j] = o[j]
      BY ONLY <2>1, <2>2, PushLast
    <2>4. \A j \in 1..n : j \in 1..(n + 1) /\ j < n + 1
      BY ONLY <2>2
    <2>5. QED
      BY ONLY <2>2, <2>3, <2>4
  <1>5. \A x : x # i => (Private(w2.nodes, x) <=> Private(w.nodes, x))
    BY DEF Private, Alike
  <1>6. \A x : x <= c => (Private(w2.nodes, x) <=> Private(w.nodes, x))
    BY <1>2 DEF Private, Alike
  <1>7. \A j \in 1..n : o[j] \in 1..c
    BY <1>1 DEF Placed
  <1>8. \A j \in 1..n : Private(w2.nodes, o[j]) <=> Private(w.nodes, o[j])
    BY <1>6, <1>7
  <1>9. Private(w2.nodes, i) => i \notin from.others /\ \A j \in 1..n : o[j] # i
    OBVIOUS
  <1>10. Len(s) - lo >= sh =>
           /\ Private(w2.nodes, i) /\ w2.nodes[i].finish_flag = y.finish_flag
           /\ n > m => w2.nodes[i].parent = o[n]
    BY DEF Last
  <1>11. Len(w2.stack) = Len(q) /\ \A j : w2.stack[j] = q[j]
    OBVIOUS
  <1>12. (\A x \in 1..c : x \in 1..d) /\ from.ctr <= d
    BY <1>1, <1>2
  <1> HIDE DEF n, o, q, r
  <1>18. \A j \in 1..(n + 1) : j = n + 1 \/ j \in 1..n
    BY <1>2
  <1>19. \A j \in 1..(Len(r) - lo) :
           /\ j \in Nat
           /\ lo + j = Len(s) + 1 =>
                /\ m + j = n + 1 /\ j = (Len(s) - lo) + 1
                /\ m + j > m + 1 => n > m /\ (m + j) - 1 = n /\ n \in 1..n
           /\ lo + j # Len(s) + 1 =>
                /\ j \in 1..(Len(s) - lo) /\ m + j \in 1..n /\ lo + j \in 1..Len(s)
                /\ m + j > m + 1 => (m + j) - 1 \in 1..n
    <2> DEFINE l == Len(s)
               x == Len(r)
    <2>1. lo \in Nat /\ m \in Nat /\ l \in Nat /\ n \in Nat /\ lo <= l /\ n = m + (l - lo)
          /\ x = l + 1
      BY <1>2, <1>3
    <2> HIDE DEF l, x
    <2>2. \A j \in 1..(x - lo) :
           /\ j \in Nat
           /\ lo + j = l + 1 =>
                /\ m + j = n + 1 /\ j = (l - lo) + 1
                /\ m + j > m + 1 => n > m /\ (m + j) - 1 = n /\ n \in 1..n
           /\ lo + j # l + 1 =>
                /\ j \in 1..(l - lo) /\ m + j \in 1..n /\ lo + j \in 1..l
                /\ m + j > m + 1 => (m + j) - 1 \in 1..n
      BY <2>1, PlaceOf
    <2>3. QED
      BY <2>2 DEF l, x
  <1>13. Placed(w2, d)
    <2>1. \A x \in DOMAIN w2.nodes : x \in 1..d
      BY <1>1, <1>12 DEF Placed
    <2>2. \A j \in 1..(n + 1) : j = n + 1 \/ j \in 1..n
      BY <1>2
    <2>3. \A j \in 1..Len(w2.stack) : w2.stack[j] \in 1..d
      BY <1>4, <1>7, <1>11, <1>12, <2>2
    <2>4. IsSequence(w2.stack)
      BY <1>4 DEF q
    <2>5. QED
      BY <2>1, <2>3, <2>4 DEF Placed
  <1>14. OnceIn(w2.nodes, w2.stack)
    <2> SUFFICES ASSUME NEW j \in 1..(n + 1), NEW l \in 1..(n + 1), q[j] = q[l],
                        Private(w2.nodes, q[j])
                 PROVE  j = l
      BY <1>4, <1>11 DEF OnceIn
    <2>1. (j = n + 1 \/ j \in 1..n) /\ (l = n + 1 \/ l \in 1..n)
      BY <1>18
    <2>2. CASE j \in 1..n /\ l \in 1..n
      BY <1>1, <1>4, <1>8, <2>2 DEF OnceIn, n, o
    <2>3. CASE j = n + 1 /\ l \in 1..n
      BY <1>4, <1>9, <2>3
    <2>4. CASE l = n + 1 /\ j \in 1..n
      BY <1>4, <1>9, <2>4
    <2>5. QED
      BY <2>1, <2>2, <2>3, <2>4
  <1>15. Aligned(w2, r, lo, m, sh)
    <2>1. lo <= Len(r) /\ Len(w2.stack) = m + (Len(r) - lo)
      BY <1>2, <1>3, <1>4, <1>11
    <2>2. ASSUME NEW j \in 1..(Len(r) - lo)
          PROVE  /\ w2.stack[m + j] = r[lo + j].id
                 /\ j > sh =>
                      /\ OwnedNode(w2.nodes, w2.stack, m + j, m)
                      /\ w2.nodes[w2.stack[m + j]].finish_flag = r[lo + j].finish_flag
      <3>1. CASE lo + j = Len(s) + 1
        <4>1. m + j = n + 1 /\ j \in Nat /\ j = (Len(s) - lo) + 1
          BY <1>19, <3>1
        <4>2. w2.stack[m + j] = i /\ r[lo + j] = y
          BY <1>3, <1>4, <1>11, <3>1, <4>1
        <4>3. j > sh => Len(s) - lo >= sh
          BY <1>2, <4>1
        <4>4. m + j > m + 1 => n > m /\ w2.stack[(m + j) - 1] = o[n]
          <5>1. m + j > m + 1 => n > m /\ (m + j) - 1 = n /\ n \in 1..n
            BY <1>19, <3>1
          <5>2. QED
            BY <1>4, <1>11, <5>1
        <4>5. QED
          BY <1>10, <4>2, <4>3, <4>4 DEF OwnedNode
      <3>2. CASE lo + j # Len(s) + 1
        <4>1. j \in 1..(Len(s) - lo) /\ m + j \in 1..n /\ lo + j \in 1..Len(s)
          BY <1>19, <3>2
        <4> DEFINE x == m + j
        <4>2. w2.stack[x] = w.stack[x] /\ r[lo + j] = s[lo + j] /\ w.stack[x] \in 1..c
          BY <1>3, <1>4, <1>7, <1>11, <4>1 DEF o
        <4>3. w.stack[x] = s[lo + j].id
          BY <1>1, <4>1 DEF Aligned
        <4>4. ASSUME j > sh
              PROVE  /\ OwnedNode(w2.nodes, w2.stack, x, m)
                     /\ w2.nodes[w2.stack[x]].finish_flag = r[lo + j].finish_flag
          <5>1. /\ OwnedNode(w.nodes, w.stack, x, m)
                /\ w.nodes[w.stack[x]].finish_flag = s[lo + j].finish_flag
            BY <1>1, <4>1, <4>4 DEF Aligned
          <5>2. Private(w2.nodes, w.stack[x])
            BY <1>6, <4>2, <5>1 DEF OwnedNode
          <5>3. Alike(w2.nodes[w.stack[x]], w.nodes[w.stack[x]])
            BY <5>1 DEF Private, OwnedNode
          <5>4. x > m + 1 => w2.stack[x - 1] = w.stack[x - 1]
            <6>1. x > m + 1 => x - 1 \in 1..n
              BY <1>19, <3>2
            <6>2. QED
              BY <1>4, <1>11, <6>1 DEF o
          <5> HIDE DEF x
          <5>5. QED
            BY <4>2, <5>1, <5>2, <5>3, <5>4 DEF OwnedNode, Alike
        <4>5. QED
          BY <4>2, <4>3, <4>4
      <3>3. QED
        BY <3>1, <3>2
    <2>3. QED
      BY <1>3, <2>1, <2>2 DEF Aligned
  <1>16. Sparing(w2, m, from)
    <2>1. \A j \in 1..m : w2.stack[j] = from.stack[j]
      <3>1. \A j \in 1..m : j \in 1..n
        BY <1>2
      <3>2. QED
        BY <1>1, <1>4, <1>11, <3>1 DEF Sparing, o
    <2>2. FromMemory(w2.nodes, from.nodes, from.ctr)
      <3> SUFFICES ASSUME NEW x \in DOMAIN w2.nodes, x <= from.ctr
                   PROVE  x \in DOMAIN from.nodes /\ Alike(w2.nodes[x], from.nodes[x])
        BY DEF FromMemory
      <3>1. x \in DOMAIN w.nodes
        BY <1>1, <1>2
      <3>2. QED
        BY <1>1, <3>1 DEF Sparing, FromMemory, Alike
    <2>3. \A j \in (m + 1)..Len(w2.stack) :
            Private(w2.nodes, w2.stack[j]) => w2.stack[j] \notin from.others
      <3>1. \A j \in (m + 1)..(n + 1) : j = n + 1 \/ (j \in 1..n /\ j \in (m + 1)..n)
        BY <1>2
      <3>2. \A j \in (m + 1)..n : Private(w.nodes, o[j]) => o[j] \notin from.others
        BY <1>1 DEF Sparing, n, o
      <3>3. QED
        BY <1>4, <1>8, <1>9, <1>11, <3>1, <3>2
    <2>4. \A x \in DOMAIN from.nodes \ DOMAIN w2.nodes : Private(from.nodes, x) =>
            x \notin from.others /\ \A j \in 1..m : from.stack[j] # x
      BY <1>1 DEF Sparing
    <2>5. QED
      BY <2>1, <2>2, <2>3, <2>4 DEF Sparing
  <1>20. OnBase(r, lo, from)
    <2>1. \A j \in 1..lo : j \in 1..Len(s)
      BY <1>2
    <2>2. QED
      BY <1>1, <1>3, <2>1 DEF OnBase
  <1>17. QED
    BY <1>1, <1>12, <1>13, <1>14, <1>15, <1>16, <1>20 DEF Drawn, r

(* What pushNode makes of a node n with which the tree has y.              *)
PushedFor(n, y, shared) ==
  IsNode(n) /\ (~shared => /\ ~n.is_barrier_finish /\ n.callSiteId # "region"
                           /\ n.finish_flag = y.finish_flag)

LEMMA DrawnPush ==
  ASSUME NEW w, NEW c, NEW s, NEW lo, NEW m, NEW sh, NEW from,
         Drawn(w, c, s, lo, m, sh, from),
         NEW i \in Nat, c < i, NEW n, NEW y \in NodeRecord, y.id = i,
         PushedFor(n, y, Len(s) - lo < sh), NEW w2, w2 = PushNode(w, i, n)
  PROVE  Drawn(w2, i, Append(s, y), lo, m, sh, from)
  <1>1. /\ Placed(w, c) /\ IsOrigin(from) /\ from.ctr <= c /\ c \in Nat /\ from.ctr \in Nat
        /\ Len(s) \in Nat /\ lo \in Nat /\ sh \in Nat
    BY DEF Drawn, Placed, IsOrigin, Aligned, IsPlace
  <1>2. i \notin DOMAIN w.nodes
    BY <1>1 DEF Placed
  <1>3. /\ IsView(w2) /\ IsMemory(w2.nodes) /\ w2.stack = Append(w.stack, i)
        /\ DOMAIN w2.nodes = DOMAIN w.nodes \union {i}
        /\ Kept(w2.nodes, w.nodes)
        /\ w2.nodes[i].parent = Last(w.stack)
        /\ w2.nodes[i].finish_flag = n.finish_flag
        /\ w2.nodes[i].is_barrier_finish = n.is_barrier_finish
        /\ w2.nodes[i].callSiteId = n.callSiteId
    BY <1>1, <1>2, PushEffect DEF Placed, PushedFor
  <1>4. /\ \A x \in DOMAIN w.nodes : x \in DOMAIN w2.nodes /\ Alike(w2.nodes[x], w.nodes[x])
        /\ \A x \in DOMAIN w2.nodes : x \in DOMAIN w.nodes \/ (x = i /\ c < i)
    BY <1>3 DEF Kept, Same
  <1>5. i \notin from.others /\ \A j \in 1..Len(w.stack) : w.stack[j] # i
    BY <1>1 DEF Placed, IsOrigin
  <1>6. Len(s) - lo >= sh => ~(Len(s) - lo < sh)
    BY <1>1
  <1>7. Len(s) - lo >= sh => /\ Private(w2.nodes, i) /\ w2.nodes[i].finish_flag = y.finish_flag
                             /\ Len(w.stack) > m => w2.nodes[i].parent = Last(w.stack)
    BY <1>3, <1>6 DEF Private, PushedFor
  <1>8. i \in 1..i /\ c <= i
    BY <1>1
  <1>9. QED
    BY <1>3, <1>4, <1>5, <1>7, <1>8, DrawnAppend

(* A node that threads share is put on the stack.                          *)
LEMMA DrawnShare ==
  ASSUME NEW w, NEW c, NEW s, NEW lo, NEW m, NEW sh, NEW from,
         Drawn(w, c, s, lo, m, sh, from), Len(s) - lo < sh,
         NEW i \in 1..c, ~Private(w.nodes, i), NEW y \in NodeRecord, y.id = i,
         NEW w2, w2 = [w EXCEPT !.stack = Append(@, i)]
  PROVE  Drawn(w2, c, Append(s, y), lo, m, sh, from)
  <1>1. /\ IsView(w) /\ IsMemory(w.nodes) /\ c \in Nat /\ Len(s) \in Nat /\ lo \in Nat /\ sh \in Nat
    BY DEF Drawn, Placed, Aligned, IsPlace
  <1>2. IsView(w2) /\ w2.nodes = w.nodes /\ w2.stack = Append(w.stack, i)
    BY <1>1 DEF IsView
  <1>3. /\ \A x \in DOMAIN w.nodes : x \in DOMAIN w2.nodes /\ Alike(w2.nodes[x], w.nodes[x])
        /\ \A x \in DOMAIN w2.nodes : x \in DOMAIN w.nodes \/ (x = i /\ c < i)
    BY <1>2 DEF Alike
  <1>4. ~Private(w2.nodes, i) /\ ~(Len(s) - lo >= sh) /\ c <= c
    BY <1>1, <1>2
  <1>5. QED
    BY <1>1, <1>2, <1>3, <1>4, DrawnAppend

(* A node more in memory that is on no stack.                              *)
LEMMA DrawnWith ==
  ASSUME NEW w, NEW c, NEW s, NEW lo, NEW m, NEW sh, NEW from,
         Drawn(w, c, s, lo, m, sh, from),
         NEW i \in Nat, c < i, NEW n, IsNode(n),
         NEW w2, IsView(w2), w2.nodes = With(w.nodes, i, n), w2.stack = w.stack
  PROVE  /\ Drawn(w2, i, s, lo, m, sh, from)
         /\ w2.nodes[i] = n /\ i \in DOMAIN w2.nodes
         /\ \A j \in 1..Len(w2.stack) : w2.stack[j] # i
  <1>1. /\ Placed(w, c) /\ IsOrigin(from) /\ from.ctr <= c /\ c \in Nat /\ from.ctr \in Nat
        /\ IsMemory(w.nodes)
    BY DEF Drawn, Placed, IsOrigin
  <1>2. i \notin DOMAIN w.nodes
    BY <1>1 DEF Placed
  <1>3. /\ IsMemory(w2.nodes) /\ DOMAIN w2.nodes = DOMAIN w.nodes \union {i}
        /\ \A x \in DOMAIN w.nodes : Alike(w2.nodes[x], w.nodes[x])
        /\ w2.nodes[i] = n
    <2> DEFINE nd == w.nodes
    <2>1. IsMemory(nd) /\ i \notin DOMAIN nd
      BY <1>1, <1>2
    <2> HIDE DEF nd
    <2>2. Gains(With(nd, i, n), nd, i, n)
      BY <2>1, WithEffect
    <2>3. Gains(w2.nodes, w.nodes, i, n)
      BY <2>2 DEF nd
    <2>4. QED
      BY <2>3 DEF Gains, Kept, Same
  <1>4. \A x : x # i => (Private(w2.nodes, x) <=> Private(w.nodes, x))
    BY <1>3 DEF Private, Alike
  <1>5. \A j \in 1..Len(w.stack) : w.stack[j] \in 1..c /\ w.stack[j] # i
    BY <1>1 DEF Placed
  <1>6. (\A x \in 1..c : x \in 1..i) /\ i \in 1..i /\ from.ctr <= i
    BY <1>1
  <1>7. Placed(w2, i)
    BY <1>1, <1>3, <1>5, <1>6 DEF Placed
  <1>8. OnceIn(w2.nodes, w2.stack)
    BY <1>4, <1>5 DEF Drawn, OnceIn
  <1>9. Aligned(w2, s, lo, m, sh)
    <2>1. ASSUME NEW j \in 1..(Len(s) - lo), j > sh
          PROVE  /\ OwnedNode(w2.nodes, w2.stack, m + j, m)
                 /\ w2.nodes[w2.stack[m + j]].finish_flag = s[lo + j].finish_flag
      <3> DEFINE x == w.stack[m + j]
      <3>1. /\ OwnedNode(w.nodes, w.stack, m + j, m)
            /\ w.nodes[x].finish_flag = s[lo + j].finish_flag
        BY <2>1 DEF Drawn, Aligned
      <3>2. x \in DOMAIN w.nodes
        BY <3>1 DEF OwnedNode, Private
      <3>3. QED
        BY <1>2, <1>3, <1>4, <3>1, <3>2 DEF OwnedNode, Alike
    <2>2. QED
      BY <2>1 DEF Drawn, Aligned
  <1>10. Sparing(w2, m, from)
    <2>1. FromMemory(w2.nodes, from.nodes, from.ctr)
      <3>1. ASSUME NEW x \in DOMAIN w2.nodes, x <= from.ctr
            PROVE  x \in DOMAIN w.nodes
        BY <1>1, <1>3, <3>1
      <3>2. QED
        BY <1>3, <3>1 DEF Drawn, Sparing, FromMemory, Alike
    <2>2. \A j \in (m + 1)..Len(w2.stack) :
            Private(w2.nodes, w2.stack[j]) => w2.stack[j] \notin from.others
      <3>1. \A j \in (m + 1)..Len(w.stack) : j \in 1..Len(w.stack)
        BY <1>1 DEF Drawn, IsPlace, Placed
      <3>2. QED
        BY <1>4, <1>5, <3>1 DEF Drawn, Sparing
    <2>3. QED
      BY <1>3, <2>1, <2>2 DEF Drawn, Sparing
  <1>11. QED
    BY <1>3, <1>5, <1>6, <1>7, <1>8, <1>9, <1>10 DEF Drawn

----------------------------------------------------------------------------
(* The inductive invariant                                                 *)

(* The ground on-line: what it is does not matter, how many nodes it has   *)
(* does.                                                                   *)
Shut(t) == [closed |-> pc[t] \notin InRegionControl \/ pc[t] = "locking",
            region |-> Root, phase |-> Root]

(* The nodes of the region on the stack of t that no context of t has: a   *)
(* thread has both before it begins its implicit task, and the master has  *)
(* one from the end of its implicit task to the end of the region.         *)
OverSize(t) ==
  IF Held(t) THEN 2 ELSE IF t = Master /\ pc[t] \in {"ended", "spin"} THEN 1 ELSE 0

Height(t) == Len(last_nodes[t]) - IF Held(t) THEN 2 ELSE 0

(* The contexts fr on the stack o, under the first over nodes of those in  *)
(* rn.                                                                     *)
Paired(fr, s, h, o, over, g, nd, rn) ==
  /\ over <= Len(o)
  /\ \A j \in 1..over : o[(Len(o) - over) + j] = rn[j].id
  /\ Twins(fr, Len(fr), s, h, o, Len(o) - over, g, nd)

OnlineStack(t) ==
  Paired(frames[t], last_nodes[t], Height(t), open[t], OverSize(t), Shut(t), node, region_nodes)

MemoryInv ==
  /\ IsMemory(node) /\ node_ctr \in Nat /\ DOMAIN node \subseteq 1..node_ctr
  /\ open = [t \in Threads |-> open[t]]
  /\ \A t \in Threads : IsSequence(open[t]) /\ \A j \in 1..Len(open[t]) : open[t][j] \in 1..node_ctr

(* A node of a thread's own is on one stack, once.                         *)
OnceInv ==
  \A t, u \in Threads : \A j \in 1..Len(open[t]), l \in 1..Len(open[u]) :
    open[t][j] = open[u][l] /\ Private(node, open[t][j]) => t = u /\ j = l

(* The node of a task that has not begun is in memory and on no stack.     *)
Waiting(i, k) ==
  /\ Private(node, i) /\ node[i].finish_flag = FALSE
  /\ \A t \in Threads : \A j \in 1..Len(open[t]) : open[t][j] # i
  /\ \A l \in DOMAIN taskMap : taskMap[l].id = i => l = k

MapInv == \A k \in DOMAIN taskMap : Waiting(taskMap[k].id, k)

(* The nodes of phases are shared.                                         *)
PendingInv ==
  \A k \in 1..Len(pendingFinish) :
    pendingFinish[k].id \in 1..node_ctr /\ ~Private(node, pendingFinish[k].id)

OnlineInv ==
  /\ EventsInv /\ StacksInv /\ MemoryInv /\ OnceInv /\ MapInv /\ PendingInv
  /\ \A t \in Threads : OnlineStack(t)

----------------------------------------------------------------------------
(* What a handler starts from, and what it leaves                          *)

(* The nodes on the stacks of other threads and of the tasks in K.         *)
HeldBy(t, K) ==
  {i \in 1..node_ctr : \/ \E u \in Threads \ {t} : \E j \in 1..Len(open[u]) : open[u][j] = i
                       \/ \E k \in K : taskMap[k].id = i}

Origin(t, K) ==
  [nodes |-> node, ctr |-> node_ctr, stack |-> open[t], below |-> last_nodes[t],
   others |-> HeldBy(t, K)]

LEMMA DrawnOpen ==
  ASSUME MemoryInv, OnceInv, MapInv, NEW t \in Threads, NEW K, K \subseteq DOMAIN taskMap,
         NEW s, NEW lo, NEW m, NEW sh, IsPlace(lo, m, sh), Aligned(View(t), s, lo, m, sh),
         Keeps(s, last_nodes[t], lo), NEW from, from = Origin(t, K)
  PROVE  Drawn(View(t), node_ctr, s, lo, m, sh, from)
  <1> DEFINE w == View(t)
             o == open[t]
  <1>1. w.nodes = node /\ w.stack = o /\ IsView(w)
    BY DEF View, IsView
  <1>2. /\ from.nodes = node /\ from.ctr = node_ctr /\ from.stack = o
        /\ from.below = last_nodes[t] /\ from.others = HeldBy(t, K)
    BY DEF Origin
  <1>3. IsOrigin(from)
    BY <1>2 DEF IsOrigin, HeldBy, MemoryInv
  <1>4. Placed(w, node_ctr)
    BY <1>1 DEF Placed, MemoryInv
  <1>5. OnceIn(w.nodes, w.stack)
    BY <1>1 DEF OnceIn, OnceInv
  <1>6. Len(o) \in Nat /\ m \in Nat /\ lo \in Nat
    BY LengthType DEF MemoryInv, IsPlace
  <1>7. ASSUME NEW j \in (m + 1)..Len(o), Private(node, o[j])
        PROVE  o[j] \notin HeldBy(t, K)
    <2>1. j \in 1..Len(o)
      BY <1>6
    <2>2. \A u \in Threads \ {t} : \A l \in 1..Len(open[u]) : open[u][l] # o[j]
      BY <1>7, <2>1 DEF OnceInv
    <2>3. \A k \in K : taskMap[k].id # o[j]
      BY <2>1 DEF MapInv, Waiting
    <2>4. QED
      BY <2>2, <2>3 DEF HeldBy
  <1>8. Sparing(w, m, from)
    BY <1>1, <1>2, <1>7 DEF Sparing, FromMemory, Alike
  <1>9. OnBase(s, lo, from)
    BY <1>2 DEF OnBase, Keeps
  <1>10. from.ctr <= node_ctr
    BY <1>2 DEF MemoryInv
  <1>11. QED
    BY <1>3, <1>4, <1>5, <1>8, <1>9, <1>10 DEF Drawn

(* What a handler has kept: the nodes that others hold, and those of the   *)
(* thread below the place.                                                 *)
LEMMA DrawnSpares ==
  ASSUME MemoryInv, NEW t \in Threads, NEW K, K \subseteq DOMAIN taskMap,
         NEW w, NEW c, NEW s, NEW lo, NEW m, NEW sh,
         Drawn(w, c, s, lo, m, sh, Origin(t, K))
  PROVE  /\ IsMemory(w.nodes) /\ DOMAIN w.nodes \subseteq 1..c /\ IsSequence(w.stack)
         /\ node_ctr <= c /\ c \in Nat
         /\ \A j \in 1..Len(w.stack) : w.stack[j] \in 1..c
         /\ \A i \in HeldBy(t, K) : Private(node, i) =>
              Private(w.nodes, i) /\ Alike(w.nodes[i], node[i])
         /\ \A i : i \in 1..node_ctr /\ Private(w.nodes, i) => Private(node, i)
         /\ \A j \in 1..m : w.stack[j] = open[t][j]
         /\ m \in Nat /\ m <= Len(w.stack)
         /\ \A j \in 1..m : Private(node, open[t][j]) =>
              Private(w.nodes, open[t][j]) /\ Alike(w.nodes[open[t][j]], node[open[t][j]])
         /\ \A j \in (m + 1)..Len(w.stack) :
              Private(w.nodes, w.stack[j]) => w.stack[j] \notin HeldBy(t, K)
  <1> DEFINE from == Origin(t, K)
  <1>2. /\ from.nodes = node /\ from.ctr = node_ctr /\ from.stack = open[t]
        /\ from.others = HeldBy(t, K)
    BY DEF Origin
  <1>1. Drawn(w, c, s, lo, m, sh, from)
    OBVIOUS
  <1> HIDE DEF from
  <1>3. /\ Placed(w, c) /\ Sparing(w, m, from) /\ node_ctr <= c /\ m \in Nat
    BY <1>1, <1>2 DEF Drawn, IsPlace
  <1>4. ASSUME NEW i, Private(node, i), i \in HeldBy(t, K) \/ \E j \in 1..m : open[t][j] = i
        PROVE  Private(w.nodes, i) /\ Alike(w.nodes[i], node[i])
    <2>1. i \in DOMAIN w.nodes
      BY <1>2, <1>3, <1>4 DEF Sparing, Private
    <2>2. i <= from.ctr
      BY <1>2, <1>4 DEF MemoryInv, Private
    <2>3. Alike(w.nodes[i], node[i])
      BY <1>2, <1>3, <2>1, <2>2 DEF Sparing, FromMemory
    <2>4. QED
      BY <1>4, <2>1, <2>3 DEF Private, Alike
  <1>5. ASSUME NEW i, i \in 1..node_ctr, Private(w.nodes, i)
        PROVE  Private(node, i)
    <2>1. i <= from.ctr /\ i \in DOMAIN w.nodes
      BY <1>2, <1>5 DEF Private, MemoryInv
    <2>2. i \in DOMAIN node /\ Alike(w.nodes[i], node[i])
      BY <1>2, <1>3, <2>1 DEF Sparing, FromMemory
    <2>3. QED
      BY <1>5, <2>2 DEF Private, Alike
  <1>6. /\ IsMemory(w.nodes) /\ DOMAIN w.nodes \subseteq 1..c /\ IsSequence(w.stack)
        /\ c \in Nat /\ \A j \in 1..Len(w.stack) : w.stack[j] \in 1..c
    BY <1>3 DEF Placed
  <1>7. /\ \A j \in 1..m : w.stack[j] = open[t][j]
        /\ \A j \in (m + 1)..Len(w.stack) :
              Private(w.nodes, w.stack[j]) => w.stack[j] \notin HeldBy(t, K)
    BY <1>2, <1>3 DEF Sparing
  <1>8. m <= Len(w.stack)
    <2>1. Len(w.stack) = m + (Len(s) - lo) /\ lo <= Len(s) /\ Len(s) \in Nat /\ lo \in Nat
      BY <1>1 DEF Drawn, Aligned, IsPlace
    <2>2. QED
      BY <1>3, <2>1
  <1>9. QED
    BY <1>3, <1>4, <1>5, <1>6, <1>7, <1>8

(* Another thread keeps its stack, or gets nodes that threads share.       *)
Aside(u) ==
  \/ open'[u] = open[u]
  \/ /\ IsSequence(open'[u])
     /\ \A j \in 1..Len(open'[u]) : open'[u][j] \in 1..node_ctr' /\ ~Private(node', open'[u][j])

(* The memory and the stacks are what the handler of t has made of them.   *)
Turns(t, w) ==
  /\ node' = w.nodes
  /\ open' = [u \in Threads |-> open'[u]] /\ open'[t] = w.stack
  /\ \A u \in Threads \ {t} : Aside(u)

LEMMA TurnMemory ==
  ASSUME MemoryInv, OnceInv, NEW t \in Threads, NEW K, K \subseteq DOMAIN taskMap,
         NEW w, NEW s, NEW lo, NEW m, NEW sh, m <= Len(open[t]),
         Drawn(w, node_ctr', s, lo, m, sh, Origin(t, K)), Turns(t, w)
  PROVE  /\ MemoryInv' /\ OnceInv'
         /\ \A u \in Threads \ {t} : KeepsOwn(node', node, open[u], Len(open[u]))
         /\ KeepsOwn(node', node, open[t], m)
         /\ \A j \in 1..m : open'[t][j] = open[t][j]
         /\ \A i \in 1..node_ctr : Private(node', i) => Private(node, i)
  <1>1. /\ IsMemory(w.nodes) /\ DOMAIN w.nodes \subseteq 1..node_ctr' /\ IsSequence(w.stack)
        /\ node_ctr <= node_ctr' /\ node_ctr' \in Nat
        /\ \A j \in 1..Len(w.stack) : w.stack[j] \in 1..node_ctr'
        /\ \A i \in HeldBy(t, K) : Private(node, i) =>
             Private(w.nodes, i) /\ Alike(w.nodes[i], node[i])
        /\ \A i : i \in 1..node_ctr /\ Private(w.nodes, i) => Private(node, i)
        /\ \A j \in 1..m : w.stack[j] = open[t][j]
        /\ m \in Nat /\ m <= Len(w.stack)
        /\ \A j \in 1..m : Private(node, open[t][j]) =>
             Private(w.nodes, open[t][j]) /\ Alike(w.nodes[open[t][j]], node[open[t][j]])
        /\ \A j \in (m + 1)..Len(w.stack) :
             Private(w.nodes, w.stack[j]) => w.stack[j] \notin HeldBy(t, K)
    <2> DEFINE c == node_ctr'
    <2>1. Drawn(w, c, s, lo, m, sh, Origin(t, K))
      OBVIOUS
    <2> HIDE DEF c
    <2>2. /\ IsMemory(w.nodes) /\ DOMAIN w.nodes \subseteq 1..c /\ IsSequence(w.stack)
          /\ node_ctr <= c /\ c \in Nat
          /\ \A j \in 1..Len(w.stack) : w.stack[j] \in 1..c
          /\ \A i \in HeldBy(t, K) : Private(node, i) =>
               Private(w.nodes, i) /\ Alike(w.nodes[i], node[i])
          /\ \A i : i \in 1..node_ctr /\ Private(w.nodes, i) => Private(node, i)
          /\ \A j \in 1..m : w.stack[j] = open[t][j]
          /\ m \in Nat /\ m <= Len(w.stack)
          /\ \A j \in 1..m : Private(node, open[t][j]) =>
               Private(w.nodes, open[t][j]) /\ Alike(w.nodes[open[t][j]], node[open[t][j]])
          /\ \A j \in (m + 1)..Len(w.stack) :
               Private(w.nodes, w.stack[j]) => w.stack[j] \notin HeldBy(t, K)
      BY <2>1, DrawnSpares
    <2>3. QED
      BY <2>2 DEF c
  <1>2. /\ node' = w.nodes /\ open' = [u \in Threads |-> open'[u]] /\ open'[t] = w.stack
        /\ \A u \in Threads \ {t} : Aside(u)
    BY DEF Turns
  <1>3. /\ node_ctr \in Nat /\ \A u \in Threads : Len(open[u]) \in Nat
        /\ \A x \in 1..node_ctr : x \in 1..node_ctr'
    BY <1>1, LengthType DEF MemoryInv
  <1>4. ASSUME NEW u \in Threads \ {t}, NEW j \in 1..Len(open[u])
        PROVE  open[u][j] \in HeldBy(t, K) /\ open[u][j] \in 1..node_ctr
    BY <1>4 DEF HeldBy, MemoryInv
  <1>5. MemoryInv'
    <2>1. ASSUME NEW u \in Threads
          PROVE  IsSequence(open'[u]) /\ \A j \in 1..Len(open'[u]) : open'[u][j] \in 1..node_ctr'
      <3>1. CASE u = t
        BY <1>1, <1>2, <3>1
      <3>2. CASE u # t /\ open'[u] = open[u]
        BY <1>3, <3>2 DEF MemoryInv
      <3>3. QED
        BY <1>2, <3>1, <3>2 DEF Aside
    <2>2. QED
      BY <1>1, <1>2, <2>1 DEF MemoryInv
  (* Where a node of one thread's own is after the step.                   *)
  <1>6. ASSUME NEW u \in Threads \ {t}, NEW j \in 1..Len(open'[u]), Private(node', open'[u][j])
        PROVE  /\ open'[u] = open[u] /\ j \in 1..Len(open[u]) /\ Private(node, open[u][j])
               /\ open[u][j] \in HeldBy(t, K)
    <2>1. open'[u] = open[u]
      BY <1>2, <1>6 DEF Aside
    <2>2. QED
      BY <1>1, <1>2, <1>4, <1>6, <2>1
  <1>7. ASSUME NEW j \in 1..Len(open'[t]), Private(node', open'[t][j])
        PROVE  \/ /\ j \in 1..m /\ j \in 1..Len(open[t]) /\ open'[t][j] = open[t][j]
                  /\ Private(node, open[t][j])
               \/ open'[t][j] \notin HeldBy(t, K)
    <2>1. j \in 1..m \/ j \in (m + 1)..Len(w.stack)
      BY <1>1, <1>2
    <2>2. CASE j \in 1..m
      <3>1. j \in 1..Len(open[t])
        BY <1>1, <1>3, <2>2
      <3>2. QED
        BY <1>1, <1>2, <1>3, <1>7, <2>2, <3>1 DEF MemoryInv
    <2>3. QED
      BY <1>1, <1>2, <1>7, <2>1, <2>2
  <1>8. OnceInv'
    <2> SUFFICES ASSUME NEW u \in Threads, NEW v \in Threads,
                        NEW j \in 1..Len(open'[u]), NEW l \in 1..Len(open'[v]),
                        open'[u][j] = open'[v][l], Private(node', open'[u][j])
                 PROVE  u = v /\ j = l
      BY DEF OnceInv
    <2>1. CASE u # t /\ v # t
      <3>1. /\ open'[u] = open[u] /\ j \in 1..Len(open[u]) /\ Private(node, open[u][j])
            /\ open'[v] = open[v] /\ l \in 1..Len(open[v])
        BY <1>6, <2>1
      <3>2. QED
        BY <3>1 DEF OnceInv
    <2>2. CASE u = t /\ v # t
      <3>1. /\ open'[v] = open[v] /\ l \in 1..Len(open[v])
            /\ open[v][l] \in HeldBy(t, K)
        BY <1>6, <2>2
      <3>2. j \in 1..Len(open[t]) /\ open'[t][j] = open[t][j] /\ Private(node, open[t][j])
        BY <1>7, <2>2, <3>1
      <3>3. QED
        BY <2>2, <3>1, <3>2 DEF OnceInv
    <2>3. CASE u # t /\ v = t
      <3>1. /\ open'[u] = open[u] /\ j \in 1..Len(open[u]) /\ Private(node, open[u][j])
            /\ open[u][j] \in HeldBy(t, K)
        BY <1>6, <2>3
      <3>2. l \in 1..Len(open[t]) /\ open'[t][l] = open[t][l]
        BY <1>7, <2>3, <3>1
      <3>3. QED
        BY <2>3, <3>1, <3>2 DEF OnceInv
    <2>4. CASE u = t /\ v = t
      <3>1. OnceIn(w.nodes, w.stack)
        BY DEF Drawn
      <3>2. QED
        BY <1>2, <2>4, <3>1 DEF OnceIn
    <2>5. QED
      BY <2>1, <2>2, <2>3, <2>4
  <1>9. \A u \in Threads \ {t} : KeepsOwn(node', node, open[u], Len(open[u]))
    BY <1>1, <1>2, <1>4 DEF KeepsOwn
  <1>10. KeepsOwn(node', node, open[t], m)
    BY <1>1, <1>2 DEF KeepsOwn
  <1>11. /\ \A j \in 1..m : open'[t][j] = open[t][j]
         /\ \A i \in 1..node_ctr : Private(node', i) => Private(node, i)
    BY <1>1, <1>2
  <1>12. QED
    BY <1>5, <1>8, <1>9, <1>10, <1>11

(* The nodes of the tasks that have not begun and do not now.              *)
LEMMA TurnMap ==
  ASSUME MemoryInv, MapInv, NEW t \in Threads, NEW K, K \subseteq DOMAIN taskMap,
         NEW w, NEW s, NEW lo, NEW m, NEW sh, m <= Len(open[t]),
         Drawn(w, node_ctr', s, lo, m, sh, Origin(t, K)), Turns(t, w)
  PROVE  \A k \in K : /\ Private(node', taskMap[k].id) /\ node'[taskMap[k].id].finish_flag = FALSE
                      /\ taskMap[k].id \in 1..node_ctr
                      /\ \A u \in Threads : \A j \in 1..Len(open'[u]) :
                           open'[u][j] # taskMap[k].id
  <1> SUFFICES ASSUME NEW k \in K
               PROVE  /\ Private(node', taskMap[k].id) /\ node'[taskMap[k].id].finish_flag = FALSE
                      /\ taskMap[k].id \in 1..node_ctr
                      /\ \A u \in Threads : \A j \in 1..Len(open'[u]) :
                           open'[u][j] # taskMap[k].id
    OBVIOUS
  <1> DEFINE i == taskMap[k].id
  <1>1. Waiting(i, k) /\ i \in 1..node_ctr
    BY DEF MapInv, MemoryInv, Waiting, Private
  <1>2. i \in HeldBy(t, K)
    BY <1>1 DEF HeldBy
  <1>3. /\ \A x \in HeldBy(t, K) : Private(node, x) =>
             Private(w.nodes, x) /\ Alike(w.nodes[x], node[x])
        /\ \A j \in 1..m : w.stack[j] = open[t][j]
        /\ m \in Nat /\ m <= Len(w.stack) /\ IsSequence(w.stack)
        /\ \A j \in (m + 1)..Len(w.stack) :
             Private(w.nodes, w.stack[j]) => w.stack[j] \notin HeldBy(t, K)
    <2> DEFINE c == node_ctr'
    <2>1. Drawn(w, c, s, lo, m, sh, Origin(t, K))
      OBVIOUS
    <2> HIDE DEF c
    <2>2. QED
      BY <2>1, DrawnSpares
  <1>4. Private(node', i) /\ node'[i].finish_flag = FALSE
    BY <1>1, <1>2, <1>3 DEF Turns, Waiting, Alike
  <1> HIDE DEF i
  <1>5. ASSUME NEW u \in Threads, NEW j \in 1..Len(open'[u]), open'[u][j] = i
        PROVE  FALSE
    <2>1. CASE u # t
      <3>1. open'[u] = open[u]
        BY <1>4, <1>5, <2>1 DEF Turns, Aside
      <3>2. QED
        BY <1>1, <1>5, <3>1 DEF Waiting
    <2>2. CASE u = t
      <3>1. open'[t] = w.stack /\ node' = w.nodes /\ Len(w.stack) \in Nat
        BY <1>3, LengthType DEF Turns
      <3>2. j \in 1..m \/ j \in (m + 1)..Len(w.stack)
        BY <1>3, <2>2, <3>1
      <3>3. CASE j \in 1..m
        <4>1. j \in 1..Len(open[t])
          <5>1. Len(open[t]) \in Nat
            BY LengthType DEF MemoryInv
          <5>2. QED
            BY <1>3, <3>3, <5>1
        <4>2. QED
          BY <1>1, <1>3, <1>5, <2>2, <3>1, <3>3, <4>1 DEF Waiting
      <3>4. CASE j \in (m + 1)..Len(w.stack)
        BY <1>2, <1>3, <1>4, <1>5, <2>2, <3>1, <3>4
      <3>5. QED
        BY <3>2, <3>3, <3>4
    <2>3. QED
      BY <2>1, <2>2
  <1>6. QED
    BY <1>1, <1>4, <1>5 DEF i

----------------------------------------------------------------------------
(* The contexts of a thread on both stacks                                 *)

(* Before any context there may be nodes that a region has left.           *)
LEMMA TwinsNone ==
  ASSUME NEW fr, NEW s, NEW o, NEW k \in Nat, NEW g, NEW nd
  PROVE  Twins(fr, 0, s, 0, o, k, g, nd)
  <1> DEFINE b == [i \in 1..(0 + 1) |-> 0]
             c == [i \in 1..(0 + 1) |-> k]
  <1>1. b \in [1..(0 + 1) -> 0..0] /\ c \in [1..(0 + 1) -> 0..k]
    OBVIOUS
  <1>2. 1 \in 1..(0 + 1) /\ 0 + 1 \in 1..(0 + 1) /\ ~(\E i \in 1..0 : TRUE)
    OBVIOUS
  <1>3. /\ b[1] = 0 /\ b[0 + 1] = 0 /\ c[0 + 1] = k
        /\ \A i, j \in 1..(0 + 1) : i <= j => b[i] <= b[j] /\ c[i] <= c[j]
    BY <1>2
  <1> HIDE DEF b, c
  <1>4. QED
    BY <1>1, <1>2, <1>3 DEF Twins

(* How many nodes a context has depends on whether the phase is closed.    *)
LEMMA SizeClosed ==
  ASSUME NEW f, NEW g, NEW g2, g.closed = g2.closed
  PROVE  FrameSize(f, g) = FrameSize(f, g2) /\ SharedSize(f, g) = SharedSize(f, g2)
  <1>1. Size(f, g) = Size(f, g2)
    BY DEF Size
  <1>2. QED
    BY <1>1 DEF FrameSize, SharedSize, LevelAt

LEMMA ShutClosed ==
  ASSUME NEW t
  PROVE  Shut(t).closed = Ground(t).closed
  BY DEF Shut, Ground

(* The topmost context of thread t has its nodes above lo and above m.     *)
AtPlace(t, lo, m) ==
  LET s == last_nodes[t]
      o == open[t] IN
  /\ lo \in Nat /\ m \in Nat /\ lo < Len(s) /\ m < Len(o) /\ Len(s) \in Nat /\ Len(o) \in Nat
  /\ IsSequence(frames[t]) /\ frames[t] # <<>> /\ Len(frames[t]) \in Nat \ {0}
  /\ \A i \in 1..Len(frames[t]) : IsContext(frames[t][i])
  /\ Cur(t) = frames[t][Len(frames[t])]
  /\ Matches(frames[t], Len(frames[t]) - 1, s, lo, Ground(t))
  /\ Topmost(Cur(t), s, lo, Ground(t))
  /\ Twins(frames[t], Len(frames[t]) - 1, s, lo, o, m, Shut(t), node)
  /\ Parts(Cur(t), s, lo, o, m, Shut(t), node)
  /\ Len(s) = lo + FrameSize(Cur(t), Shut(t))
  /\ Len(o) = m + FrameSize(Cur(t), Shut(t)) + Extra(Cur(t))

LEMMA OnlineTop ==
  ASSUME OnlineInv, NEW t \in Threads, frames[t] # <<>>, ~Held(t), OverSize(t) = 0
  PROVE  \E lo \in Nat, m \in Nat : AtPlace(t, lo, m)
  <1> DEFINE s == last_nodes[t]
             o == open[t]
             fr == frames[t]
             g == Shut(t)
  <1>1. /\ IsSequence(fr) /\ \A i \in 1..Len(fr) : IsContext(fr[i])
        /\ s \in Seq(NodeRecord)
        /\ \E x \in 0..Len(s) : /\ Matches(fr, Len(fr) - 1, s, x, Ground(t))
                                /\ Topmost(Cur(t), s, x, Ground(t))
    BY TopOfStack DEF OnlineInv
  <1>2. PICK x \in 0..Len(s) : /\ Matches(fr, Len(fr) - 1, s, x, Ground(t))
                               /\ Topmost(Cur(t), s, x, Ground(t))
    BY <1>1
  <1>3. Len(fr) \in Nat \ {0} /\ Cur(t) = fr[Len(fr)]
    BY <1>1, LengthType DEF Cur, Last
  <1>4. Len(s) \in Nat /\ Len(o) \in Nat
    BY <1>1, LengthType DEF OnlineInv, MemoryInv
  <1>5. Twins(fr, Len(fr), s, Len(s), o, Len(o), g, node)
    <2>1. OnlineStack(t) /\ Height(t) = Len(s)
      BY <1>4 DEF OnlineInv, Height
    <2>2. Len(o) - 0 = Len(o)
      BY <1>4
    <2>3. QED
      BY <2>1, <2>2 DEF OnlineStack, Paired
  <1> DEFINE n == Len(fr) - 1
             h == Len(s)
             k == Len(o)
             f == Cur(t)
  <1>6. /\ n \in Nat /\ n + 1 = Len(fr) /\ h \in Nat /\ k \in Nat
        /\ Twins(fr, n + 1, s, h, o, k, g, node) /\ fr[n + 1] = f /\ IsContext(f)
    BY <1>1, <1>3, <1>4, <1>5
  <1>7. Matches(fr, n, s, x, Ground(t)) /\ Topmost(f, s, x, Ground(t)) /\ x \in Nat
    BY <1>2, <1>4
  <1>8. g.closed = Ground(t).closed
    BY ShutClosed
  <1> HIDE DEF n, h, k, f, fr, o, s, g
  <1>9. PICK lo \in 0..h, m \in 0..k :
           /\ Twins(fr, n, s, lo, o, m, g, node)
           /\ h = lo + FrameSize(fr[n + 1], g)
           /\ k = m + FrameSize(fr[n + 1], g) + Extra(fr[n + 1])
           /\ Parts(fr[n + 1], s, lo, o, m, g, node)
    BY <1>6, TwinsPeel
  <1>10. /\ Twins(fr, n, s, lo, o, m, g, node) /\ h = lo + FrameSize(f, g)
         /\ k = m + FrameSize(f, g) + Extra(f) /\ Parts(f, s, lo, o, m, g, node)
    BY <1>6, <1>9
  <1>11. FrameSize(f, g) \in Nat \ {0} /\ Extra(f) \in {0, 1}
    BY <1>6, FrameSizes
  <1>12. h = x + FrameSize(f, g)
    <2>1. FrameNodes(f, s, x, h, Ground(t))
      BY <1>7 DEF Topmost, h
    <2>2. h = x + FrameSize(f, Ground(t))
      BY <1>6, <1>7, <2>1, PartsEnd
    <2>3. FrameSize(f, g) = FrameSize(f, Ground(t))
      BY <1>8, SizeClosed
    <2>4. QED
      BY <2>2, <2>3
  <1>13. lo = x /\ lo \in Nat /\ m \in Nat /\ lo < h /\ m < k
    BY <1>6, <1>7, <1>10, <1>11, <1>12
  <1>14. AtPlace(t, lo, m)
    <2>1. /\ lo \in Nat /\ m \in Nat /\ lo < h /\ m < k /\ h \in Nat /\ k \in Nat
          /\ Matches(fr, n, s, lo, Ground(t)) /\ Topmost(f, s, lo, Ground(t))
      BY <1>6, <1>7, <1>13
    <2>2. /\ IsSequence(fr) /\ fr # <<>> /\ Len(fr) \in Nat \ {0}
          /\ \A i \in 1..Len(fr) : IsContext(fr[i]) /\ f = fr[Len(fr)]
      BY <1>1, <1>3 DEF f, fr
    <2>3. QED
      BY <1>10, <2>1, <1>1, <1>3 DEF AtPlace, n, h, k, f, fr, o, s, g
  <1>15. QED
    BY <1>13, <1>14

(* The handlers of a context that does not wait start there.               *)
LEMMA PlaceDrawn ==
  ASSUME OnlineInv, NEW t \in Threads, NEW lo, NEW m, AtPlace(t, lo, m),
         ~Cur(t).waiting, NEW sh \in Nat, SharedSize(Cur(t), Shut(t)) <= sh,
         NEW K, K \subseteq DOMAIN taskMap
  PROVE  /\ Drawn(View(t), node_ctr, last_nodes[t], lo, m, sh, Origin(t, K))
         /\ Drawn(Stepped(t), node_ctr, last_nodes[t], lo, m, sh, Origin(t, K))
  <1> DEFINE s == last_nodes[t]
             f == Cur(t)
             g == Shut(t)
             w == View(t)
             from == Origin(t, K)
  <1>1. w.nodes = node /\ w.stack = open[t]
    BY DEF View
  <1>2. /\ lo \in Nat /\ m \in Nat /\ lo < Len(s) /\ Len(s) \in Nat /\ Topmost(f, s, lo, Ground(t))
        /\ Parts(f, s, lo, open[t], m, g, node)
        /\ Len(s) = lo + FrameSize(f, g) /\ Len(open[t]) = m + FrameSize(f, g) + Extra(f)
    BY DEF AtPlace
  <1>3. FrameSize(f, g) \in Nat \ {0} /\ SharedSize(f, g) \in 0..2 /\ Extra(f) = 0
    BY <1>2, FrameSizes DEF Topmost, Extra
  <1>4. s \in Seq(NodeRecord)
    BY <1>2 DEF Topmost
  <1>5. Aligned(w, s, lo, m, sh)
    <2> DEFINE F == FrameSize(f, g)
               S == SharedSize(f, g)
    <2>1. /\ \A j \in 1..F : open[t][m + j] = s[lo + j].id
          /\ \A j \in (S + 1)..F : /\ OwnedNode(node, open[t], m + j, m)
                                   /\ node[open[t][m + j]].finish_flag = s[lo + j].finish_flag
      BY <1>2 DEF Parts, SameIds, OwnedNodes
    <2>2. F \in Nat /\ S \in Nat /\ S <= sh
      BY <1>3
    <2>6. Len(s) - lo = F /\ Len(open[t]) = m + F
      BY <1>2, <1>3
    <2> HIDE DEF F, S
    <2>3. Len(open[t]) = m + (Len(s) - lo) /\ lo <= Len(s)
      BY <1>2, <2>6
    <2>4. \A j \in 1..F : j > sh => j \in (S + 1)..F
      BY <2>2
    <2>5. QED
      BY <1>1, <1>4, <2>1, <2>3, <2>4, <2>6 DEF Aligned
  <1>6. IsPlace(lo, m, sh) /\ Keeps(s, last_nodes[t], lo)
    BY <1>2 DEF IsPlace, Keeps
  <1>7. MemoryInv /\ OnceInv /\ MapInv
    BY DEF OnlineInv
  <1>8. from = Origin(t, K)
    OBVIOUS
  <1> HIDE DEF from
  <1>9. Drawn(w, node_ctr, s, lo, m, sh, from)
    <2> HIDE DEF s
    <2>1. QED
      BY <1>5, <1>6, <1>7, <1>8, DrawnOpen
  <1>10. Drawn(Stepped(t), node_ctr, s, lo, m, sh, from)
    <2> HIDE DEF w
    <2>1. Stepped(t) = Added(w, node_ctr + 1, counting[t])
      BY DEF Stepped, w
    <2>2. QED
      BY <1>9, <2>1, DrawnAdded
  <1>11. QED
    BY <1>9, <1>10 DEF from

----------------------------------------------------------------------------
(* The stacks of the thread after its handler                              *)

(* The first n contexts of thread t have their nodes up to lo and m.       *)
Based(t, n, lo, m) ==
  /\ n \in Nat /\ lo \in Nat /\ m \in Nat /\ m <= Len(open[t])
  /\ \A i \in 1..n : IsContext(frames[t][i])
  /\ Matches(frames[t], n, last_nodes[t], lo, Ground(t))
  /\ Twins(frames[t], n, last_nodes[t], lo, open[t], m, Shut(t), node)

(* They are what they were.                                                *)
LowerKept(t, n) ==
  \A i \in 1..n :
    /\ frames'[t][i] = frames[t][i]
    /\ frames[t][i].ctx > MaxTasks => Ground(t)' = Ground(t) /\ Shut(t)' = Shut(t)

LEMMA BaseKept ==
  ASSUME MemoryInv, OnceInv, NEW t \in Threads, NEW K, K \subseteq DOMAIN taskMap,
         NEW n, NEW lo, NEW m, Based(t, n, lo, m), LowerKept(t, n),
         NEW w, NEW r, NEW sh, Drawn(w, node_ctr', r, lo, m, sh, Origin(t, K)), Turns(t, w)
  PROVE  Twins(frames'[t], n, r, lo, open'[t], m, Shut(t)', node')
  <1>1. /\ n \in Nat /\ lo \in Nat /\ m \in Nat /\ m <= Len(open[t])
        /\ \A i \in 1..n : IsContext(frames[t][i])
        /\ Twins(frames[t], n, last_nodes[t], lo, open[t], m, Shut(t), node)
    BY DEF Based
  <1>2. KeepsOwn(node', node, open[t], m) /\ \A j \in 1..m : open'[t][j] = open[t][j]
    BY <1>1, TurnMemory
  <1>3. \A j \in 1..lo : r[j] = last_nodes[t][j]
    BY DEF Drawn, OnBase, Origin
  <1> DEFINE fr  == frames[t]
             fr2 == frames'[t]
             g   == Shut(t)
             g2  == Shut(t)'
             o   == open[t]
             o2  == open'[t]
             s   == last_nodes[t]
             nd  == node
             nd2 == node'
  <1>4. /\ \A i \in 1..n : IsContext(fr[i]) /\ fr2[i] = fr[i]
        /\ \A i \in 1..n : fr[i].ctx > MaxTasks => g2 = g
        /\ \A j \in 1..lo : r[j] = s[j]
        /\ \A j \in 1..m : o2[j] = o[j]
        /\ KeepsOwn(nd2, nd, o, m) /\ Twins(fr, n, s, lo, o, m, g, nd)
    BY <1>1, <1>2, <1>3 DEF LowerKept
  <1> HIDE DEF fr, fr2, g, g2, o, o2, s, nd, nd2
  <1>5. Twins(fr2, n, r, lo, o2, m, g2, nd2)
    BY <1>1, <1>4, TwinsSame
  <1>6. QED
    BY <1>5 DEF fr2, o2, g2, nd2

(* How high the off-line stack is after the step.                          *)
LEMMA HeightAfter ==
  ASSUME NEW t \in Threads, NEW n, NEW lo, NEW m, Based(t, n, lo, m), LowerKept(t, n),
         StacksInv', ~Held(t)'
  PROVE  /\ last_nodes'[t] \in Seq(NodeRecord) /\ Len(last_nodes'[t]) \in Nat
         /\ IsSequence(frames'[t])
         /\ Len(frames'[t]) = n => Len(last_nodes'[t]) = lo
         /\ Len(frames'[t]) = n + 1 =>
              /\ IsContext(frames'[t][n + 1])
              /\ Len(last_nodes'[t]) = lo + FrameSize(frames'[t][n + 1], Shut(t)')
  <1> DEFINE fr  == frames[t]
             fr2 == frames'[t]
             g   == Ground(t)
             g2  == Ground(t)'
             s   == last_nodes[t]
             r   == last_nodes'[t]
             c   == Shut(t)'
  <1>1. /\ n \in Nat /\ lo \in Nat
        /\ \A i \in 1..n : IsContext(fr[i]) /\ fr2[i] = fr[i]
        /\ \A i \in 1..n : fr[i].ctx > MaxTasks => g2 = g
        /\ Matches(fr, n, s, lo, g)
    BY DEF Based, LowerKept
  <1>2. ThreadOK(t)'
    BY DEF StacksInv
  <1>3. /\ NodesOK(fr2, r, g2) /\ IsSequence(fr2) /\ \A i \in 1..Len(fr2) : IsContext(fr2[i])
    BY <1>2 DEF ThreadOK, StackInv, FramesInv, FramesOK
  <1>4. c.closed = g2.closed
    BY DEF Shut, Ground
  <1> HIDE DEF fr, fr2, g, g2, s, r, c
  <1>5. /\ r \in Seq(NodeRecord) /\ Len(r) \in Nat /\ Matches(fr2, Len(fr2), r, Len(r), g2)
    BY <1>3 DEF NodesOK
  <1>6. ASSUME Len(fr2) = n
        PROVE  Len(r) = lo
    <2> DEFINE h2 == Len(r)
    <2>1. Matches(fr2, n, r, h2, g2) /\ h2 \in Nat
      BY <1>5, <1>6
    <2> HIDE DEF h2
    <2>2. /\ n \in Nat /\ lo \in Nat /\ h2 \in Nat
          /\ Matches(fr, n, s, lo, g) /\ Matches(fr2, n, r, h2, g2)
      BY <1>1, <2>1
    <2>4. \A i \in 1..n : IsContext(fr[i]) /\ fr2[i] = fr[i]
      BY <1>1
    <2>5. \A i \in 1..n : fr[i].ctx > MaxTasks => g2 = g
      BY <1>1
    <2>6. AsHigh(h2, lo)
      BY <2>2, <2>4, <2>5, SameHeight
    <2>3. QED
      BY <2>6 DEF AsHigh, h2
  <1>7. ASSUME Len(fr2) = n + 1
        PROVE  IsContext(fr2[n + 1]) /\ Len(r) = lo + FrameSize(fr2[n + 1], c)
    <2>1. n + 1 \in 1..Len(fr2) /\ fr2 # <<>>
      <3>1. n + 1 \in 1..Len(fr2) /\ Len(fr2) # 0
        BY <1>1, <1>7
      <3>2. QED
        BY <3>1
    <2>2. PICK x \in 0..Len(r) :
             Matches(fr2, Len(fr2) - 1, r, x, g2) /\ Topmost(Last(fr2), r, x, g2)
      BY <1>3, <2>1, StackTop
    <2> DEFINE f == fr2[n + 1]
    <2>3. Len(fr2) - 1 = n /\ Last(fr2) = f /\ x \in Nat
      BY <1>1, <1>5, <1>7 DEF Last
    <2>4. IsContext(f) /\ Matches(fr2, n, r, x, g2) /\ FrameNodes(f, r, x, Len(r), g2)
      BY <2>2, <2>3 DEF Topmost
    <2> HIDE DEF f
    <2>5. AsHigh(x, lo)
      BY <1>1, <2>3, <2>4, SameHeight
    <2>6. Len(r) = x + FrameSize(f, g2)
      BY <2>3, <2>4, PartsEnd
    <2>7. FrameSize(f, g2) = FrameSize(f, c)
      BY <1>4, SizeClosed
    <2>8. QED
      BY <2>4, <2>5, <2>6, <2>7 DEF AsHigh, f
  <1>8. QED
    BY <1>3, <1>5, <1>6, <1>7 DEF fr2, r, c

(* What the handler has made of the nodes of a context on top.             *)
LEMMA DrawnParts ==
  ASSUME NEW w, NEW c, NEW r, NEW lo, NEW m, NEW sh, NEW from,
         Drawn(w, c, r, lo, m, sh, from),
         NEW f, IsContext(f), ~f.waiting, NEW g, NEW x \in Nat,
         NEW y, y = lo + x, NEW z, z = m + x, y + FrameSize(f, g) <= Len(r),
         \/ sh <= x + SharedSize(f, g)
         \/ FrameSize(f, g) <= SharedSize(f, g)
  PROVE  Parts(f, r, y, w.stack, z, g, w.nodes)
  <1> DEFINE F  == FrameSize(f, g)
             S  == SharedSize(f, g)
             L  == Len(r)
             o  == w.stack
             nd == w.nodes
  <1>1. F \in Nat \ {0} /\ S \in 0..2
    BY FrameSizes
  <1>2. lo \in Nat /\ m \in Nat /\ sh \in Nat /\ L \in Nat /\ lo <= L
    BY DEF Drawn, IsPlace, Aligned
  <1>3. \A j \in 1..(L - lo) :
          /\ o[m + j] = r[lo + j].id
          /\ j > sh => OwnedNode(nd, o, m + j, m) /\ nd[o[m + j]].finish_flag = r[lo + j].finish_flag
    BY DEF Drawn, Aligned
  <1>4. y + F <= L /\ (sh <= x + S \/ F <= S)
    OBVIOUS
  <1> HIDE DEF F, S, L, o, nd
  <1>5. ASSUME NEW j \in 1..F
        PROVE  /\ x + j \in 1..(L - lo) /\ z + j = m + (x + j) /\ y + j = lo + (x + j)
               /\ z + j \in Nat /\ (z + j > z + 1 => z + j > m + 1)
               /\ j > S => x + j > sh
    BY <1>1, <1>2, <1>4
  <1>6. \A j \in 1..F : o[z + j] = r[y + j].id
    BY <1>3, <1>5
  <1>7. ASSUME NEW j \in (S + 1)..F
        PROVE  OwnedNode(nd, o, z + j, z) /\ nd[o[z + j]].finish_flag = r[y + j].finish_flag
    <2>1. j \in 1..F /\ j > S
      BY <1>1
    <2> DEFINE v == x + j
    <2>2. v \in 1..(L - lo) /\ z + j = m + v /\ y + j = lo + v /\ v > sh
      BY <1>5, <2>1
    <2> HIDE DEF v
    <2>3. OwnedNode(nd, o, m + v, m) /\ nd[o[m + v]].finish_flag = r[lo + v].finish_flag
      BY <1>3, <2>2
    <2>4. OwnedNode(nd, o, z + j, m) /\ nd[o[z + j]].finish_flag = r[y + j].finish_flag
      BY <2>2, <2>3
    <2>5. OwnedNode(nd, o, z + j, z)
      BY <1>5, <2>1, <2>4 DEF OwnedNode
    <2>6. QED
      BY <2>4, <2>5
  <1>8. /\ SameIds(f, r, y, o, z, g) /\ OwnedNodes(f, r, y, o, z, g, nd)
        /\ WaitNode(f, o, z, g, nd)
    BY <1>6, <1>7 DEF SameIds, OwnedNodes, WaitNode, F, S
  <1>9. QED
    BY <1>8 DEF Parts, o, nd

(* The contexts of t have the nodes on both stacks and no others.          *)
LEMMA StackSettled ==
  ASSUME NEW t \in Threads, ~Held(t)', OverSize(t)' = 0,
         Len(last_nodes'[t]) \in Nat, Len(open'[t]) \in Nat,
         Twins(frames'[t], Len(frames'[t]), last_nodes'[t], Len(last_nodes'[t]),
               open'[t], Len(open'[t]), Shut(t)', node')
  PROVE  OnlineStack(t)'
  <1>1. Height(t)' = Len(last_nodes'[t])
    BY DEF Height
  <1>2. Len(open'[t]) - OverSize(t)' = Len(open'[t])
    OBVIOUS
  <1>3. Paired(frames'[t], last_nodes'[t], Height(t)', open'[t], OverSize(t)', Shut(t)', node',
               region_nodes')
    BY <1>1, <1>2 DEF Paired
  <1>4. QED
    BY <1>3 DEF OnlineStack

(* A handler that leaves n contexts and one on top that does not wait.     *)
LEMMA StackReplacedOn ==
  ASSUME MemoryInv, OnceInv, NEW t \in Threads, NEW K, K \subseteq DOMAIN taskMap,
         NEW n, NEW lo, NEW m, Based(t, n, lo, m), LowerKept(t, n), StacksInv',
         Len(frames'[t]) = n + 1, ~Held(t)', OverSize(t)' = 0,
         NEW f, f = frames'[t][n + 1], ~f.waiting,
         NEW w, NEW r, NEW sh, Drawn(w, node_ctr', r, lo, m, sh, Origin(t, K)), Turns(t, w),
         last_nodes'[t] = r,
         \/ sh <= SharedSize(f, Shut(t)')
         \/ FrameSize(f, Shut(t)') <= SharedSize(f, Shut(t)')
  PROVE  OnlineStack(t)'
  <1> DEFINE g   == Shut(t)'
             F   == FrameSize(f, g)
             o   == open'[t]
             nd  == node'
             fr  == frames'[t]
             h   == Len(r)
             k   == Len(o)
             c   == node_ctr'
             from == Origin(t, K)
  <1>1. n \in Nat /\ lo \in Nat /\ m \in Nat
    BY DEF Based
  <1>2. IsContext(f) /\ h = lo + F /\ h \in Nat
    BY HeightAfter
  <1>3. o = w.stack /\ nd = w.nodes /\ Drawn(w, c, r, lo, m, sh, from)
    BY DEF Turns
  <1>4. Twins(fr, n, r, lo, o, m, g, nd)
    BY BaseKept
  <1>5. (sh <= 0 + SharedSize(f, g) \/ F <= SharedSize(f, g)) /\ Extra(f) = 0
    <2> DEFINE S == SharedSize(f, g)
    <2>1. S \in 0..2
      <3> HIDE DEF g
      <3>1. QED
        BY <1>2, FrameSizes
    <2>2. sh <= S \/ F <= S
      OBVIOUS
    <2> HIDE DEF S, F
    <2>3. sh <= 0 + S \/ F <= S
      BY <2>1, <2>2
    <2>4. QED
      BY <2>3 DEF Extra, S, F
  <1>6. fr[n + 1] = f /\ F \in Nat
    BY <1>2, FrameSizes
  <1>7. k = m + F
    <2>1. Len(w.stack) = m + (Len(r) - lo)
      BY <1>3 DEF Drawn, Aligned
    <2> HIDE DEF F
    <2>2. QED
      BY <1>1, <1>2, <1>3, <1>6, <2>1
  <1> HIDE DEF g, o, nd, fr, h, k, c, from
  <1>8. Parts(f, r, lo, o, m, g, nd)
    <2>1. lo = lo + 0 /\ m = m + 0 /\ lo + FrameSize(f, g) <= Len(r)
      BY <1>1, <1>2, <1>6 DEF h
    <2>2. Parts(f, r, lo, w.stack, m, g, w.nodes)
      BY <1>1, <1>2, <1>3, <1>5, <2>1, DrawnParts
    <2>3. QED
      BY <1>3, <2>2
  <1>9. Twins(fr, n + 1, r, h, o, k, g, nd)
    <2>1. /\ h = lo + FrameSize(fr[n + 1], g) /\ k = m + FrameSize(fr[n + 1], g) + Extra(fr[n + 1])
          /\ Parts(fr[n + 1], r, lo, o, m, g, nd) /\ IsContext(fr[n + 1])
      BY <1>1, <1>2, <1>5, <1>6, <1>7, <1>8
    <2>2. QED
      BY <1>1, <1>4, <2>1, TwinsLay
  <1>10. k \in Nat
    BY <1>1, <1>6, <1>7
  <1>11. QED
    BY <1>2, <1>9, <1>10, StackSettled DEF g, o, nd, fr, h, k

(* A handler that leaves n contexts and no node above theirs.              *)
LEMMA StackPoppedOn ==
  ASSUME MemoryInv, OnceInv, NEW t \in Threads, NEW K, K \subseteq DOMAIN taskMap,
         NEW n, NEW lo, NEW m, Based(t, n, lo, m), LowerKept(t, n), StacksInv',
         Len(frames'[t]) = n, ~Held(t)', OverSize(t)' = 0,
         NEW w, NEW r, NEW sh, Drawn(w, node_ctr', r, lo, m, sh, Origin(t, K)), Turns(t, w),
         last_nodes'[t] = r
  PROVE  OnlineStack(t)'
  <1>1. n \in Nat /\ lo \in Nat /\ m \in Nat
    BY DEF Based
  <1>2. Len(r) = lo
    BY HeightAfter
  <1>3. open'[t] = w.stack
    BY DEF Turns
  <1>4. Twins(frames'[t], n, r, lo, open'[t], m, Shut(t)', node')
    BY BaseKept
  <1>5. Len(w.stack) = m + (Len(r) - lo)
    BY DEF Drawn, Aligned
  <1>6. Len(open'[t]) = m
    BY <1>1, <1>2, <1>3, <1>5
  <1>7. QED
    BY <1>1, <1>2, <1>4, <1>6, StackSettled

----------------------------------------------------------------------------
(* The invariant after a handler                                           *)

(* Thread u has nothing to do with it.                                     *)
OtherSame(u) ==
  /\ frames'[u] = frames[u] /\ last_nodes'[u] = last_nodes[u] /\ pc'[u] = pc[u]
  /\ Held(u)' <=> Held(u)
  /\ region_nodes' = region_nodes /\ open'[u] = open[u]

LEMMA ContextsOf ==
  ASSUME StacksInv, NEW t \in Threads
  PROVE  /\ IsSequence(frames[t]) /\ Len(frames[t]) \in Nat
         /\ \A i \in 1..Len(frames[t]) : IsContext(frames[t][i])
  <1>1. ThreadOK(t)
    BY DEF StacksInv
  <1>2. IsSequence(frames[t]) /\ \A i \in 1..Len(frames[t]) : IsContext(frames[t][i])
    BY <1>1 DEF ThreadOK, FramesInv, FramesOK
  <1>3. QED
    BY <1>2, LengthType

LEMMA OtherStack ==
  ASSUME StacksInv, MemoryInv, NEW u \in Threads, OnlineStack(u), OtherSame(u),
         KeepsOwn(node', node, open[u], Len(open[u]))
  PROVE  OnlineStack(u)'
  <1> DEFINE fr  == frames[u]
             g   == Shut(u)
             g2  == Shut(u)'
             o   == open[u]
             nd  == node
             nd2 == node'
             s   == last_nodes[u]
             n   == Len(fr)
             h   == Height(u)
             v   == OverSize(u)
             k   == Len(o) - v
             L   == Len(o)
  <1>1. /\ frames'[u] = fr /\ last_nodes'[u] = s /\ open'[u] = o /\ g2 = g
        /\ OverSize(u)' = v /\ Height(u)' = h
    BY DEF OtherSame, Shut, OverSize, Height
  <1>2. /\ n \in Nat /\ \A i \in 1..n : IsContext(fr[i])
    BY ContextsOf
  <1>3. L \in Nat /\ v \in Nat /\ h \in Int
    <2>1. Len(last_nodes[u]) \in Nat
      <3>1. last_nodes[u] \in Seq(NodeRecord)
        BY DEF StacksInv, TeamInv, TypeOK
      <3>2. QED
        BY <3>1
    <2>2. L \in Nat
      BY LengthType DEF MemoryInv
    <2>3. v \in 0..2
      BY DEF OverSize
    <2>4. h \in Int
      BY <2>1 DEF Height
    <2>5. QED
      BY <2>2, <2>3, <2>4
  <1>4. /\ v <= L /\ Twins(fr, n, s, h, o, k, g, nd)
        /\ \A j \in 1..v : o[(L - v) + j] = region_nodes[j].id
    BY DEF OnlineStack, Paired
  <1>5. KeepsOwn(nd2, nd, o, L) /\ region_nodes' = region_nodes
    BY DEF OtherSame
  <1>6. h \in Nat
    <2>1. Twins(fr, n, s, h, o, k, g, nd)
      BY <1>4
    <2> HIDE DEF fr, g, o, nd, s, n, h, k
    <2>2. PICK b \in [1..(n + 1) -> 0..h] : b[1] = 0
      BY <2>1 DEF Twins
    <2>3. 1 \in 1..(n + 1)
      BY <1>2
    <2>4. b[1] \in 0..h
      BY <2>3
    <2>5. QED
      BY <1>3, <2>2, <2>4
  <1> HIDE DEF v, L
  <1>7. k \in Nat /\ k <= L /\ k = L - v
    BY <1>3, <1>4 DEF L
  <1> HIDE DEF fr, g, g2, o, nd, nd2, s, n, h, k
  <1>8. KeepsOwn(nd2, nd, o, k)
    BY <1>3, <1>5, <1>7 DEF KeepsOwn
  <1>9. \A i \in 1..n : IsContext(fr[i]) /\ fr[i] = fr[i]
    BY <1>2
  <1>10. \A i \in 1..n : fr[i].ctx > MaxTasks => g2 = g
    BY <1>1
  <1>11. /\ \A j \in 1..h : s[j] = s[j]
         /\ \A j \in 1..k : o[j] = o[j]
    OBVIOUS
  <1>12. Twins(fr, n, s, h, o, k, g2, nd2)
    BY <1>2, <1>4, <1>6, <1>7, <1>8, <1>9, <1>10, <1>11, TwinsSame
  <1>13. Paired(fr, s, h, o, v, g2, nd2, region_nodes')
    BY <1>4, <1>5, <1>7, <1>12 DEF Paired, L, n, k
  <1>14. Paired(frames'[u], last_nodes'[u], Height(u)', open'[u], OverSize(u)', Shut(u)', node',
                region_nodes')
    BY <1>1, <1>13 DEF g2, nd2
  <1>15. QED
    BY <1>14 DEF OnlineStack

LEMMA OthersFollow ==
  ASSUME OnlineInv, NEW t \in Threads, NEW K, K \subseteq DOMAIN taskMap,
         NEW w, NEW s, NEW lo, NEW m, NEW sh, m <= Len(open[t]),
         Drawn(w, node_ctr', s, lo, m, sh, Origin(t, K)), Turns(t, w)
  PROVE  \A u \in Threads \ {t} : OtherSame(u) => OnlineStack(u)'
  <1>1. \A u \in Threads \ {t} : KeepsOwn(node', node, open[u], Len(open[u]))
    BY TurnMemory DEF OnlineInv
  <1>2. QED
    BY <1>1, OtherStack DEF OnlineInv

(* The nodes of phases stay shared.                                        *)
LEMMA TurnPending ==
  ASSUME MemoryInv, OnceInv, PendingInv, NEW t \in Threads, NEW K, K \subseteq DOMAIN taskMap,
         NEW w, NEW s, NEW lo, NEW m, NEW sh, m <= Len(open[t]),
         Drawn(w, node_ctr', s, lo, m, sh, Origin(t, K)), Turns(t, w)
  PROVE  \A k \in 1..Len(pendingFinish) :
           pendingFinish[k].id \in 1..node_ctr' /\ ~Private(node', pendingFinish[k].id)
  <1>1. /\ MemoryInv'
        /\ \A i \in 1..node_ctr : Private(node', i) => Private(node, i)
    BY TurnMemory
  <1>2. node_ctr <= node_ctr'
    <2> DEFINE c == node_ctr'
    <2>1. Drawn(w, c, s, lo, m, sh, Origin(t, K))
      OBVIOUS
    <2> HIDE DEF c
    <2>2. node_ctr <= c
      BY <2>1, DrawnSpares
    <2>3. QED
      BY <2>2 DEF c
  <1>3. node_ctr \in Nat /\ node_ctr' \in Nat
    BY <1>1 DEF MemoryInv
  <1>4. QED
    BY <1>1, <1>2, <1>3 DEF PendingInv

(* The invariant holds again, if the tasks that wait and the nodes of      *)
(* phases are the same.                                                    *)
LEMMA TurnDone ==
  ASSUME OnlineInv, NEW t \in Threads,
         NEW w, NEW s, NEW lo, NEW m, NEW sh, m <= Len(open[t]),
         Drawn(w, node_ctr', s, lo, m, sh, Origin(t, DOMAIN taskMap)), Turns(t, w),
         \A u \in Threads \ {t} : OtherSame(u), OnlineStack(t)', EventsInv', StacksInv',
         taskMap' = taskMap, pendingFinish' = pendingFinish
  PROVE  OnlineInv'
  <1> DEFINE K == DOMAIN taskMap
  <1>1. /\ K \subseteq DOMAIN taskMap /\ Drawn(w, node_ctr', s, lo, m, sh, Origin(t, K))
        /\ MemoryInv /\ OnceInv /\ MapInv /\ PendingInv
    BY DEF OnlineInv
  <1> HIDE DEF K
  <1>2. MemoryInv' /\ OnceInv'
    BY <1>1, TurnMemory
  <1>3. MapInv'
    <2>1. \A k \in K : /\ Private(node', taskMap[k].id) /\ node'[taskMap[k].id].finish_flag = FALSE
                       /\ \A u \in Threads : \A j \in 1..Len(open'[u]) :
                            open'[u][j] # taskMap[k].id
      BY <1>1, TurnMap
    <2>2. ASSUME NEW k \in DOMAIN taskMap'
          PROVE  Waiting(taskMap[k].id, k)'
      <3>1. k \in K /\ taskMap' = taskMap
        BY <2>2 DEF K
      <3>2. Waiting(taskMap[k].id, k)
        BY <1>1, <3>1 DEF MapInv, K
      <3>3. QED
        BY <2>1, <3>1, <3>2 DEF Waiting
    <2>3. QED
      BY <2>2 DEF MapInv
  <1>4. PendingInv'
    <2>1. \A k \in 1..Len(pendingFinish) :
            pendingFinish[k].id \in 1..node_ctr' /\ ~Private(node', pendingFinish[k].id)
      BY <1>1, TurnPending
    <2>2. QED
      BY <2>1 DEF PendingInv
  <1>5. \A u \in Threads : OnlineStack(u)'
    BY <1>1, OthersFollow
  <1>6. QED
    BY <1>2, <1>3, <1>4, <1>5 DEF OnlineInv

(* What Shows makes of the memory and the stacks.                          *)
LEMMA ShowsTurns ==
  ASSUME MemoryInv, NEW t \in Threads, NEW w, Shows(t, w)
  PROVE  Turns(t, w) /\ \A u \in Threads \ {t} : open'[u] = open[u]
  <1>1. open' = [open EXCEPT ![t] = w.stack] /\ open = [u \in Threads |-> open[u]]
    BY DEF Shows, MemoryInv
  <1>2. QED
    BY <1>1 DEF Turns, Aside, Shows

----------------------------------------------------------------------------
(* Handlers of a thread at work                                            *)

LEMMA PlaceBased ==
  ASSUME NEW t \in Threads, NEW lo, NEW m, AtPlace(t, lo, m)
  PROVE  /\ Based(t, Len(frames[t]) - 1, lo, m)
         /\ Len(frames[t]) \in Nat \ {0} /\ IsSequence(frames[t]) /\ frames[t] # <<>>
         /\ lo \in Nat /\ m \in Nat /\ lo < Len(last_nodes[t]) /\ m <= Len(open[t])
         /\ Len(last_nodes[t]) \in Nat /\ Topmost(Cur(t), last_nodes[t], lo, Ground(t))
         /\ IsContext(Cur(t)) /\ Cur(t) = frames[t][Len(frames[t])]
         /\ Len(last_nodes[t]) = lo + FrameSize(Cur(t), Shut(t))
  <1>1. /\ Len(frames[t]) \in Nat \ {0} /\ IsSequence(frames[t]) /\ frames[t] # <<>>
        /\ lo \in Nat /\ m \in Nat /\ lo < Len(last_nodes[t]) /\ m <= Len(open[t])
        /\ Len(last_nodes[t]) \in Nat /\ Topmost(Cur(t), last_nodes[t], lo, Ground(t))
        /\ \A i \in 1..Len(frames[t]) : IsContext(frames[t][i])
        /\ Cur(t) = frames[t][Len(frames[t])]
        /\ Matches(frames[t], Len(frames[t]) - 1, last_nodes[t], lo, Ground(t))
        /\ Twins(frames[t], Len(frames[t]) - 1, last_nodes[t], lo, open[t], m, Shut(t), node)
        /\ Len(last_nodes[t]) = lo + FrameSize(Cur(t), Shut(t))
    BY DEF AtPlace
  <1> DEFINE n == Len(frames[t]) - 1
  <1>2. n \in Nat /\ \A i \in 1..n : IsContext(frames[t][i])
    BY <1>1
  <1>3. IsContext(Cur(t))
    BY <1>1 DEF Topmost
  <1>4. Based(t, n, lo, m)
    BY <1>1, <1>2 DEF Based
  <1>5. QED
    BY <1>1, <1>3, <1>4

LEMMA WorkPlace ==
  ASSUME OnlineInv, NEW t \in Threads, InWork(t)
  PROVE  /\ OverSize(t) = 0 /\ ~Held(t)
         /\ \E lo \in Nat, m \in Nat : AtPlace(t, lo, m)
  <1>1. frames[t] # <<>> /\ ~Held(t) /\ ~MasterIsOut
    BY DEF InWork
  <1>2. OverSize(t) = 0
    BY <1>1 DEF OverSize, MasterIsOut
  <1>3. QED
    BY <1>1, <1>2, OnlineTop

(* What the end of a barrier, of a wait, or of a construct does not touch. *)
SameRuntime ==
  /\ UNCHANGED <<num_threads, barrierCount, pendingFinish, implEndCount>>
  /\ UNCHANGED runtime

LEMMA SameElsewhere ==
  ASSUME StacksInv, NEW t \in Threads, SameRuntime,
         NEW fr, frames' = [frames EXCEPT ![t] = fr],
         NEW r, last_nodes' = [last_nodes EXCEPT ![t] = r],
         \A u \in Threads \ {t} : open'[u] = open[u]
  PROVE  /\ \A u \in Threads \ {t} : OtherSame(u)
         /\ Held(t)' <=> Held(t)
         /\ OverSize(t)' = OverSize(t) /\ Shut(t)' = Shut(t) /\ Ground(t)' = Ground(t)
         /\ frames'[t] = fr /\ last_nodes'[t] = r
  <1>1. frames = [u \in Threads |-> frames[u]] /\ last_nodes \in [Threads -> Seq(NodeRecord)]
    BY DEF StacksInv, TeamInv, TypeOK
  <1>2. /\ pc' = pc /\ released' = released /\ team' = team /\ num_threads' = num_threads
        /\ region_nodes' = region_nodes /\ barrierCount' = barrierCount
        /\ pendingFinish' = pendingFinish
    BY DEF SameRuntime, runtime
  <1>3. \A u \in Threads : Held(u)' <=> Held(u)
    BY <1>2 DEF Held, Orphan, Active
  <1>4. Shut(t)' = Shut(t) /\ Ground(t)' = Ground(t)
    BY <1>2 DEF Shut, Ground, PhaseNode
  <1>5. OverSize(t)' = OverSize(t)
    BY <1>2, <1>3 DEF OverSize
  <1>6. \A u \in Threads \ {t} : frames'[u] = frames[u] /\ last_nodes'[u] = last_nodes[u]
    BY <1>1
  <1>7. frames'[t] = fr /\ last_nodes'[t] = r
    BY <1>1
  <1>8. \A u \in Threads \ {t} : OtherSame(u)
    BY <1>2, <1>3, <1>6 DEF OtherSame
  <1>9. QED
    BY <1>3, <1>4, <1>5, <1>7, <1>8

(* Its last context becomes another.                                       *)
LEMMA LastReplaced ==
  ASSUME NEW t \in Threads, IsSequence(frames[t]), frames[t] # <<>>,
         NEW f, frames'[t] = WithLast(frames[t], f), Ground(t)' = Ground(t), Shut(t)' = Shut(t)
  PROVE  /\ LowerKept(t, Len(frames[t]) - 1)
         /\ Len(frames'[t]) = (Len(frames[t]) - 1) + 1
         /\ frames'[t][(Len(frames[t]) - 1) + 1] = f
  <1> DEFINE r == frames'[t]
             s == frames[t]
  <1>1. r = WithLast(s, f)
    OBVIOUS
  <1> HIDE DEF r, s
  <1>2. /\ Len(r) = Len(s) /\ r[Len(r)] = f
        /\ \A i \in 1..Len(r) : i < Len(r) => r[i] = s[i]
    BY <1>1, ReplaceLast DEF s
  <1>3. Len(s) \in Nat \ {0}
    BY LengthType DEF s
  <1>4. \A i \in 1..(Len(s) - 1) : r[i] = s[i]
    BY <1>2, <1>3
  <1>5. (Len(s) - 1) + 1 = Len(s)
    BY <1>3
  <1>6. QED
    BY <1>2, <1>4, <1>5 DEF LowerKept, r, s

LEMMA WorkReplaced ==
  ASSUME OnlineInv, NEW t \in Threads, InWork(t), NEW lo, NEW m, AtPlace(t, lo, m), StacksInv',
         SameRuntime, NEW f, f.ctx = Cur(t).ctx, ~f.waiting,
         frames' = [frames EXCEPT ![t] = WithLast(frames[t], f)],
         NEW K, K \subseteq DOMAIN taskMap, NEW sh, sh = SharedSize(Cur(t), Shut(t)),
         NEW w, NEW r, Drawn(w, node_ctr', r, lo, m, sh, Origin(t, K)), Turns(t, w),
         \A u \in Threads \ {t} : open'[u] = open[u],
         last_nodes' = [last_nodes EXCEPT ![t] = r]
  PROVE  /\ OnlineStack(t)' /\ m <= Len(open[t])
         /\ \A u \in Threads \ {t} : OtherSame(u)
  <1>1. /\ Based(t, Len(frames[t]) - 1, lo, m) /\ IsSequence(frames[t]) /\ frames[t] # <<>>
        /\ m <= Len(open[t]) /\ IsContext(Cur(t))
    BY PlaceBased
  <1>2. OverSize(t) = 0 /\ ~Held(t)
    BY WorkPlace
  <1>3. StacksInv /\ MemoryInv /\ OnceInv
    BY DEF OnlineInv
  <1> DEFINE fr == WithLast(frames[t], f)
  <1>4. frames' = [frames EXCEPT ![t] = fr]
    OBVIOUS
  <1> HIDE DEF fr
  <1>5. /\ \A u \in Threads \ {t} : OtherSame(u)
        /\ Held(t)' <=> Held(t)
        /\ OverSize(t)' = OverSize(t) /\ Shut(t)' = Shut(t) /\ Ground(t)' = Ground(t)
        /\ frames'[t] = fr /\ last_nodes'[t] = r
    BY <1>3, <1>4, SameElsewhere
  <1>6. frames'[t] = WithLast(frames[t], f)
    BY <1>5 DEF fr
  <1> DEFINE n == Len(frames[t]) - 1
  <1>7. LowerKept(t, n) /\ Len(frames'[t]) = n + 1 /\ f = frames'[t][n + 1]
    BY <1>1, <1>5, <1>6, LastReplaced
  <1>8. sh <= SharedSize(f, Shut(t)')
    <2> DEFINE g == Shut(t)
    <2>1. SharedSize(f, g) = SharedSize(Cur(t), g)
      BY DEF SharedSize
    <2>2. SharedSize(Cur(t), g) \in 0..2
      <3> HIDE DEF g
      <3>1. QED
        BY <1>1, FrameSizes
    <2>3. Shut(t)' = g
      BY <1>5
    <2> HIDE DEF g
    <2>4. sh = SharedSize(Cur(t), g)
      BY DEF g
    <2>5. QED
      BY <2>1, <2>2, <2>3, <2>4
  <1>9. Based(t, n, lo, m)
    BY <1>1
  <1> HIDE DEF n
  <1>10. OnlineStack(t)'
    BY <1>2, <1>3, <1>5, <1>7, <1>8, <1>9, StackReplacedOn
  <1>11. QED
    BY <1>1, <1>5, <1>10

LEMMA WorkDone ==
  ASSUME OnlineInv, NEW t \in Threads, InWork(t), NEW lo, NEW m, AtPlace(t, lo, m), StacksInv',
         EventsInv', SameRuntime, NEW f, f.ctx = Cur(t).ctx, ~f.waiting,
         frames' = [frames EXCEPT ![t] = WithLast(frames[t], f)],
         NEW sh, sh = SharedSize(Cur(t), Shut(t)),
         NEW w, NEW r, Drawn(w, node_ctr', r, lo, m, sh, Origin(t, DOMAIN taskMap)), Shows(t, w),
         last_nodes' = [last_nodes EXCEPT ![t] = r], taskMap' = taskMap
  PROVE  OnlineInv'
  <1>1. MemoryInv
    BY DEF OnlineInv
  <1>2. Turns(t, w) /\ \A u \in Threads \ {t} : open'[u] = open[u]
    BY <1>1, ShowsTurns
  <1> DEFINE K == DOMAIN taskMap
  <1>3. K \subseteq DOMAIN taskMap /\ Drawn(w, node_ctr', r, lo, m, sh, Origin(t, K))
    OBVIOUS
  <1> HIDE DEF K
  <1>4. /\ OnlineStack(t)' /\ m <= Len(open[t])
        /\ \A u \in Threads \ {t} : OtherSame(u)
    BY <1>2, <1>3, WorkReplaced
  <1>5. pendingFinish' = pendingFinish
    BY DEF SameRuntime
  <1>6. QED
    BY <1>2, <1>4, <1>5, TurnDone

(* The nodes of the region are below those of the innermost level.         *)
LEMMA WorkSizes ==
  ASSUME NEW t \in Threads, InWork(t), NEW lo, NEW m, AtPlace(t, lo, m),
         NEW sh, sh = SharedSize(Cur(t), Shut(t)), NEW s, s = last_nodes[t],
         NEW l, l = Last(Cur(t).levels)
  PROVE  /\ sh \in 0..2 /\ lo \in Nat /\ Len(s) \in Nat /\ s \in Seq(NodeRecord)
         /\ Len(s) > lo /\ Len(s) - lo > sh
         /\ Len(Cleanup(s)) \in Nat /\ Len(Cleanup(s)) > lo
         /\ Opens(l.kind) # 0 => Len(Closed(s)) > lo
  <1> DEFINE f  == Cur(t)
             g  == Ground(t)
             at == LevelAt(f, lo, g)
             z  == Size(f, g)
             O  == Opens(l.kind)
  <1>1. /\ IsContext(f) /\ Topmost(f, s, lo, g) /\ lo \in Nat /\ Shut(t).closed = g.closed
    BY PlaceBased, ShutClosed
  <1>2. (f.ctx > MaxTasks => ~g.closed) /\ (IsTask(f.ctx) \/ f.ctx > MaxTasks)
    BY TaskContext DEF InWork, InTask, InOwn, Ground, InRegionControl
  <1>3. sh = (IF f.ctx > MaxTasks THEN 2 ELSE 0) /\ z = (IF f.ctx > MaxTasks THEN 3 ELSE 1)
    <2>1. sh = IF f.ctx > MaxTasks THEN IF g.closed THEN 1 ELSE 2 ELSE 0
      BY <1>1 DEF SharedSize
    <2>2. QED
      BY <1>2, <2>1 DEF Size
  <1>4. sh \in 0..2 /\ z \in 1..3 /\ sh < z
    BY <1>3
  <1>5. /\ Len(s) = at + O + IF l.unwaited THEN 1 ELSE 0
        /\ at \in Nat /\ O \in 0..2
        /\ Len(Cleanup(s)) = at + O
    BY <1>1, CleanedNodes
  <1>6. at = lo + z + (IF Len(f.levels) = 1 THEN 0 ELSE LevelSize(f.levels[1]))
        /\ LevelSize(f.levels[1]) \in 0..1
    BY <1>1, ContextSizes DEF LevelAt
  <1>7. s \in Seq(NodeRecord)
    BY <1>1 DEF Topmost
  <1>8. O # 0 => Len(Closed(s)) = at + O - 1
    BY <1>1, ClosedNodes
  <1> DEFINE e == LevelSize(f.levels[1])
             b == IF Len(f.levels) = 1 THEN 0 ELSE e
  <1>a. at = lo + z + b /\ (b = 0 \/ b = e)
    BY <1>6
  <1> HIDE DEF at, z, O, e, b
  <1>9. at = lo + z + b /\ (b = 0 \/ b = e)
    BY <1>a
  <1>10. e \in 0..1 /\ z \in Nat
    BY <1>4, <1>6 DEF e
  <1>11. at > lo + sh /\ at > lo
    BY <1>1, <1>4, <1>9, <1>10
  <1>12. Len(s) >= at /\ Len(s) \in Nat
    BY <1>5
  <1>13. Len(Cleanup(s)) \in Nat /\ Len(Cleanup(s)) >= at
    BY <1>5
  <1>14. O # 0 => Len(Closed(s)) >= at /\ Len(Closed(s)) \in Nat
    BY <1>5, <1>8
  <1>15. Len(s) > lo /\ Len(s) - lo > sh
    BY <1>1, <1>4, <1>5, <1>11, <1>12
  <1>16. Len(Cleanup(s)) > lo
    BY <1>1, <1>5, <1>11, <1>13
  <1>17. O # 0 => Len(Closed(s)) > lo
    BY <1>1, <1>5, <1>11, <1>14
  <1>18. QED
    BY <1>1, <1>4, <1>7, <1>12, <1>13, <1>15, <1>16, <1>17 DEF O

(* A thread that runs code of a region, at its next event.                 *)
AtWork(t, lo, m, sh) ==
  /\ AtPlace(t, lo, m) /\ sh = SharedSize(Cur(t), Shut(t))
  /\ Drawn(View(t), node_ctr, last_nodes[t], lo, m, sh, Origin(t, DOMAIN taskMap))
  /\ Drawn(Stepped(t), node_ctr, last_nodes[t], lo, m, sh, Origin(t, DOMAIN taskMap))

LEMMA WorkDrawn ==
  ASSUME OnlineInv, NEW t \in Threads, InRegionCode(t)
  PROVE  /\ InWork(t) /\ ~Cur(t).waiting /\ IsContext(Cur(t))
         /\ \E lo \in Nat, m \in Nat, sh \in Nat : AtWork(t, lo, m, sh)
  <1>1. InWork(t) /\ ~Cur(t).waiting
    BY CodeWhere DEF OnlineInv
  <1>2. PICK lo \in Nat, m \in Nat : AtPlace(t, lo, m)
    BY <1>1, WorkPlace
  <1> DEFINE sh == SharedSize(Cur(t), Shut(t))
  <1>3. IsContext(Cur(t))
    BY <1>1 DEF InWork
  <1>4. sh \in Nat /\ sh <= sh
    <2> DEFINE g == Shut(t)
    <2> HIDE DEF g
    <2>1. SharedSize(Cur(t), g) \in 0..2
      BY <1>3, FrameSizes
    <2>2. SharedSize(Cur(t), g) \in Nat
      BY <2>1
    <2>3. QED
      BY <2>2 DEF g
  <1> HIDE DEF sh
  <1>5. SharedSize(Cur(t), Shut(t)) <= sh
    BY <1>4 DEF sh
  <1>6. AtWork(t, lo, m, sh)
    BY <1>1, <1>2, <1>4, <1>5, PlaceDrawn DEF AtWork, sh
  <1>7. QED
    BY <1>1, <1>3, <1>4, <1>6

LEMMA HandleRuntime ==
  ASSUME NEW t, NEW n, NEW nodes, NEW s, Handle(t, n, nodes, s)
  PROVE  /\ SameRuntime /\ node_ctr' = node_ctr + 1 + n
         /\ last_nodes' = [last_nodes EXCEPT ![t] = s]
  BY DEF Handle, SameRuntime, profilerRest

(* The node of a construct, a chunk or a task: what pushNode gets and what *)
(* the tree has.                                                           *)
LEMMA FreshPushed ==
  ASSUME NEW ty, NEW site, site # "region", NEW i, NEW ty2, NEW p, NEW sh
  PROVE  /\ PushedFor(Fresh(ty, site), NewNode(i, ty2, p), sh)
         /\ NewNode(i, ty2, p).id = i
  <1>1. Fresh(ty, site).finish_flag = FALSE /\ NewNode(i, ty2, p).finish_flag = FALSE
    BY DEF Fresh, NewNode
  <1>2. NewNode(i, ty2, p).id = i
    BY DEF NewNode
  <1>3. QED
    <2> DEFINE n == Fresh(ty, site)
               y == NewNode(i, ty2, p)
    <2>1. /\ IsNode(n) /\ ~n.is_barrier_finish /\ n.callSiteId = site
          /\ n.finish_flag = y.finish_flag
      BY <1>1, FreshNode
    <2> HIDE DEF n, y
    <2>2. PushedFor(n, y, sh)
      BY <2>1 DEF PushedFor
    <2>3. QED
      BY <1>2, <2>2 DEF n, y

(* captureSingleBegin, captureMasterBegin and captureLoopBegin.            *)
LEMMA BlockBeginOnline ==
  ASSUME OnlineInv, StacksInv', EventsInv', NEW t \in Threads, NEW kind \in Kinds,
         OnBlockBegin(t, kind)
  PROVE  OnlineInv'
  <1> DEFINE s  == last_nodes[t]
             y  == NewNode(node_ctr + 2, "FINISH", Top(s))
             r  == Append(s, y)
             n  == Fresh("FINISH", SiteOf(kind))
             w  == PushNode(Stepped(t), node_ctr', n)
             f2 == WithStep(t)
             f3 == EnterLevel(f2, kind)
             from == Origin(t, DOMAIN taskMap)
  <1>1. BlockBegin(t, kind) /\ InRegionCode(t) /\ Shows(t, w)
    BY DEF OnBlockBegin, BlockBegin, InImplicitBody
  <1>2. InWork(t) /\ ~Cur(t).waiting /\ IsContext(Cur(t))
    BY <1>1, WorkDrawn
  <1>3. PICK lo \in Nat, m \in Nat, sh \in Nat : AtWork(t, lo, m, sh)
    BY <1>1, WorkDrawn
  <1>4. /\ AtPlace(t, lo, m) /\ sh = SharedSize(Cur(t), Shut(t))
        /\ Drawn(Stepped(t), node_ctr, s, lo, m, sh, from)
    BY <1>3 DEF AtWork
  <1>5. /\ SameRuntime /\ node_ctr' = node_ctr + 1 + 1
        /\ last_nodes' = [last_nodes EXCEPT ![t] = r]
    <2>1. Handle(t, 1, {y}, r)
      BY <1>1 DEF BlockBegin
    <2> HIDE DEF y, r
    <2>2. QED
      BY <2>1, HandleRuntime
  <1>6. f3.ctx = Cur(t).ctx /\ ~f3.waiting
    <2>1. IsContext(f2) /\ f2.ctx = Cur(t).ctx /\ f2.waiting = Cur(t).waiting
      BY <1>2, WithStepContext
    <2> HIDE DEF f2
    <2>2. f3.ctx = f2.ctx /\ f3.waiting = f2.waiting
      BY <2>1, LevelsFrame DEF IsContext, EnterLevel
    <2>3. QED
      BY <1>2, <2>1, <2>2
  <1>7. frames' = [frames EXCEPT ![t] = WithLast(frames[t], f3)]
    BY <1>1 DEF BlockBegin, SetFrame, WithLast, EnterLevel
  <1>8. node_ctr \in Nat /\ s \in Seq(NodeRecord)
    BY DEF OnlineInv, StacksInv, TeamInv, TypeOK
  <1>9. y \in NodeRecord /\ y.id = node_ctr' /\ node_ctr' \in Nat /\ node_ctr < node_ctr'
    <2>1. y \in NodeRecord /\ y.id = node_ctr + 2
      BY <1>8, NewNodeType, TopType DEF NewNode
    <2>2. QED
      BY <1>5, <1>8, <2>1
  <1>10. PushedFor(n, y, Len(s) - lo < sh)
    <2>1. SiteOf(kind) # "region"
      BY TaskAssumption DEF SiteOf, NoSite
    <2>2. QED
      BY <2>1, FreshPushed
  <1>11. taskMap' = taskMap
    BY <1>1 DEF BlockBegin
  <1> DEFINE v == Stepped(t)
             c == node_ctr'
  <1> HIDE DEF s, y, n, f2, f3, from, v, c
  <1>12. Drawn(w, c, r, lo, m, sh, from)
    BY <1>4, <1>9, <1>10, DrawnPush DEF v, c
  <1> HIDE DEF w, r
  <1>13. QED
    BY <1>1, <1>2, <1>4, <1>5, <1>6, <1>7, <1>11, <1>12, WorkDone DEF from, c

(* Stepped(t) as an operator that later steps need not look into.          *)
LEMMA DrawnClosed ==
  ASSUME NEW v, NEW c, NEW s, NEW lo, NEW m, NEW sh, NEW from,
         Drawn(v, c, s, lo, m, sh, from), Len(s) > lo, Len(s) - lo > sh, Len(Cleanup(s)) > lo,
         NEW w, w = PopNode(CleanupFinishNode(v))
  PROVE  Drawn(w, c, Closed(s), lo, m, sh, from)
  <1> DEFINE u == CleanupFinishNode(v)
             q == Cleanup(s)
  <1>1. u = CleanupFinishNode(v) /\ w = PopNode(u) /\ Len(q) > lo
    OBVIOUS
  <1> HIDE DEF u
  <1>2. Drawn(u, c, q, lo, m, sh, from)
    BY <1>1, DrawnCleanup
  <1> HIDE DEF q
  <1>3. Drawn(w, c, Pop(q), lo, m, sh, from)
    BY <1>1, <1>2, DrawnPop
  <1>4. QED
    BY <1>3 DEF q, Closed

(* captureSingleEnd, captureMasterEnd and captureLoopEnd.                  *)
LEMMA BlockEndOnline ==
  ASSUME OnlineInv, StacksInv', EventsInv', NEW t \in Threads, OnBlockEnd(t)
  PROVE  OnlineInv'
  <1> DEFINE s  == last_nodes[t]
             r  == Closed(s)
             w  == PopNode(CleanupFinishNode(Stepped(t)))
             f2 == WithStep(t)
             f3 == LeaveLevel(f2)
             from == Origin(t, DOMAIN taskMap)
  <1>1. /\ BlockEnd(t) /\ InRegionCode(t) /\ Shows(t, w)
        /\ Here(t).kind \in {"single", "master", "loop"}
    BY DEF OnBlockEnd, BlockEnd
  <1>2. InWork(t) /\ ~Cur(t).waiting /\ IsContext(Cur(t))
    BY <1>1, WorkDrawn
  <1>3. PICK lo \in Nat, m \in Nat, sh \in Nat : AtWork(t, lo, m, sh)
    BY <1>1, WorkDrawn
  <1>4. /\ AtPlace(t, lo, m) /\ sh = SharedSize(Cur(t), Shut(t))
        /\ Drawn(Stepped(t), node_ctr, s, lo, m, sh, from)
    BY <1>3 DEF AtWork
  <1>5. /\ SameRuntime /\ node_ctr' = node_ctr + 1 + 0
        /\ last_nodes' = [last_nodes EXCEPT ![t] = r]
    <2>1. Handle(t, 0, {}, r)
      BY <1>1 DEF BlockEnd
    <2> HIDE DEF r
    <2>2. QED
      BY <2>1, HandleRuntime
  <1>6. f3.ctx = Cur(t).ctx /\ ~f3.waiting
    <2>1. IsContext(f2) /\ f2.ctx = Cur(t).ctx /\ f2.waiting = Cur(t).waiting
      BY <1>2, WithStepContext
    <2> HIDE DEF f2
    <2>2. f3.ctx = f2.ctx /\ f3.waiting = f2.waiting
      BY <2>1, LevelsFrame DEF IsContext, LeaveLevel
    <2>3. QED
      BY <1>2, <2>1, <2>2
  <1>7. frames' = [frames EXCEPT ![t] = WithLast(frames[t], f3)]
    BY <1>1 DEF BlockEnd, SetFrame, WithLast
  <1>8. node_ctr' \in Nat /\ node_ctr <= node_ctr'
    BY <1>5 DEF OnlineInv, MemoryInv
  <1>9. Len(s) > lo /\ Len(s) - lo > sh /\ Len(Cleanup(s)) > lo
    <2> HIDE DEF s
    <2>1. s = last_nodes[t]
      BY DEF s
    <2>2. QED
      BY <1>2, <1>4, <2>1, WorkSizes
  <1>10. taskMap' = taskMap
    BY <1>1 DEF BlockEnd
  <1> DEFINE v == Stepped(t)
             c == node_ctr'
  <1> HIDE DEF s, f2, f3, from, v, c
  <1>11. Drawn(v, c, s, lo, m, sh, from)
    BY <1>4, <1>8, DrawnMore DEF v, c
  <1>12. Drawn(w, c, r, lo, m, sh, from)
    BY <1>9, <1>11, DrawnClosed DEF v
  <1> HIDE DEF w, r
  <1>13. QED
    BY <1>1, <1>2, <1>4, <1>5, <1>6, <1>7, <1>10, <1>12, WorkDone DEF from, c

(* captureLoopChunk.                                                       *)
LEMMA LoopChunkOnline ==
  ASSUME OnlineInv, StacksInv', EventsInv', NEW t \in Threads, OnLoopChunk(t)
  PROVE  OnlineInv'
  <1> DEFINE s  == last_nodes[t]
             q  == CloseChunk(t, s)
             y  == NewNode(node_ctr + 2, "ASYNC", Top(q))
             r  == Append(q, y)
             n  == Fresh("ASYNC", "loop")
             u  == ChunkClosed(t, Stepped(t))
             w  == PushNode(u, node_ctr', n)
             l  == Here(t)
             past == WithStep(t).past
             e  == IF l.kind = "loop" THEN past ELSE l.entry
             l2 == [l EXCEPT !.kind = "chunk", !.entry = e, !.all = @ \union past,
                             !.chunks = @ + 1]
             f2 == [Cur(t) EXCEPT !.past = e]
             f3 == SetLevel(f2, l2)
             from == Origin(t, DOMAIN taskMap)
  <1>1. LoopChunk(t) /\ InRegionCode(t) /\ Shows(t, w)
    BY DEF OnLoopChunk, LoopChunk
  <1>2. InWork(t) /\ ~Cur(t).waiting /\ IsContext(Cur(t))
    BY <1>1, WorkDrawn
  <1>3. PICK lo \in Nat, m \in Nat, sh \in Nat : AtWork(t, lo, m, sh)
    BY <1>1, WorkDrawn
  <1>4. /\ AtPlace(t, lo, m) /\ sh = SharedSize(Cur(t), Shut(t))
        /\ Drawn(Stepped(t), node_ctr, s, lo, m, sh, from)
    BY <1>3 DEF AtWork
  <1>5. /\ SameRuntime /\ node_ctr' = node_ctr + 1 + 1
        /\ last_nodes' = [last_nodes EXCEPT ![t] = r]
    <2>1. Handle(t, 1, {y}, r)
      BY <1>1 DEF LoopChunk
    <2> HIDE DEF y, r
    <2>2. QED
      BY <2>1, HandleRuntime
  <1>6. frames' = [frames EXCEPT ![t] = WithLast(frames[t], f3)]
    BY <1>1 DEF LoopChunk, SetFrame, WithLast
  <1>7. f3.ctx = Cur(t).ctx /\ ~f3.waiting
    <2>1. IsContext(f2) /\ f2.ctx = Cur(t).ctx /\ f2.waiting = Cur(t).waiting
      <3> HIDE DEF e
      <3>1. QED
        BY <1>2, ContextPast
    <2> HIDE DEF f2, l2
    <2>2. f3.ctx = f2.ctx /\ f3.waiting = f2.waiting
      BY <2>1, LevelsFrame DEF IsContext, SetLevel, IsFrame
    <2>3. QED
      BY <1>2, <2>1, <2>2
  <1>8. node_ctr \in Nat /\ s \in Seq(NodeRecord) /\ Len(s) > lo
    <2>1. node_ctr \in Nat /\ s \in Seq(NodeRecord)
      BY DEF OnlineInv, StacksInv, TeamInv, TypeOK
    <2>2. s = last_nodes[t]
      OBVIOUS
    <2> HIDE DEF s
    <2>3. Len(s) > lo
      BY <1>2, <1>4, <2>2, WorkSizes
    <2>4. QED
      BY <2>1, <2>3
  <1>9. taskMap' = taskMap
    BY <1>1 DEF LoopChunk
  <1> DEFINE v == Stepped(t)
             c == node_ctr'
  <1> HIDE DEF f2, f3, from, v, c
  <1>10. Drawn(u, node_ctr, q, lo, m, sh, from) /\ q \in Seq(NodeRecord)
    <2>1. CASE firstDispatch[t]
      <3>1. u = v /\ q = s
        BY <2>1 DEF ChunkClosed, CloseChunk, v
      <3>2. QED
        BY <1>4, <1>8, <3>1 DEF v
    <2>2. CASE ~firstDispatch[t]
      <3>1. u = PopNode(v) /\ q = Pop(s)
        BY <2>2 DEF ChunkClosed, CloseChunk, v
      <3>2. Drawn(v, node_ctr, s, lo, m, sh, from)
        BY <1>4 DEF v
      <3> HIDE DEF u, q, s
      <3>3. Drawn(u, node_ctr, q, lo, m, sh, from)
        BY <1>8, <3>1, <3>2, DrawnPop
      <3>4. QED
        BY <3>3 DEF Drawn, Aligned
    <2>3. QED
      BY <2>1, <2>2
  <1>11. y \in NodeRecord /\ y.id = c /\ c \in Nat /\ node_ctr < c
    <2> DEFINE p == Top(q)
    <2>3. p \in NodeRecord
      <3> HIDE DEF q
      <3>1. QED
        BY <1>10, TopType
    <2>4. y = NewNode(node_ctr + 2, "ASYNC", p) /\ y.id = node_ctr + 2
      BY DEF NewNode
    <2> HIDE DEF p, y
    <2>1. y \in NodeRecord /\ y.id = node_ctr + 2
      BY <1>8, <2>3, <2>4, NewNodeType
    <2>2. QED
      BY <1>5, <1>8, <2>1 DEF c
  <1>12. PushedFor(n, y, Len(q) - lo < sh)
    BY FreshPushed
  <1> HIDE DEF u, q, y, n
  <1>13. Drawn(w, c, r, lo, m, sh, from)
    BY <1>10, <1>11, <1>12, DrawnPush DEF c
  <1> HIDE DEF w, r
  <1>14. QED
    BY <1>1, <1>2, <1>4, <1>5, <1>6, <1>7, <1>9, <1>13, WorkDone DEF from, c

=============================================================================

--------------------------- MODULE TaskTreeProofs ---------------------------
(***************************************************************************)
(* Machine-checked proof that the analyzer can read the tree that          *)
(* OpenmpTasks writes, for every number of threads, tasks, constructs,     *)
(* chunks, barriers and regions.  That every node gets a child is not a    *)
(* matter of one handler: a node is opened by one event, on a stack or in  *)
(* taskMap, perhaps moved to another thread, and closed by a later event,  *)
(* which logs a step under the top of the stack and may take more than one *)
(* node off.  What a stack is, is the invariant of TaskStacksProofs.       *)
(***************************************************************************)
EXTENDS TaskStacksProofs

(* A node that a handler may still give a child.                           *)
IsOpen(n) ==
  \/ \E t \in Threads : \E j \in 1..Len(last_nodes[t]) : last_nodes[t][j] = n
  \/ \E k \in DOMAIN taskMap : taskMap[k] = n

HasChild(n) ==
  \/ \E m \in tree : m.parent = n.id
  \/ \E x \in steps : x.parent = n.id

(* Ids are given once.                                                     *)
IdsInv ==
  /\ IsFiniteSet(tree) /\ IsFiniteSet(steps)
  /\ \A n \in tree \union steps : n.id \in 1..node_ctr
  /\ \A m, n \in tree : m.id = n.id => m = n
  /\ \A x, y \in steps : x.id = y.id => x = y
  /\ \A n \in tree : \A x \in steps : n.id # x.id

(* Parents are known.                                                      *)
ParentsInv ==
  /\ Root \in tree
  /\ \A n \in tree : n = Root \/ \E m \in tree : m.id = n.parent
  /\ \A x \in steps : \E m \in tree : m.id = x.parent

(* What is open, or left for others, is in the tree.                       *)
PendingInTree == \A k \in 1..Len(pendingFinish) : pendingFinish[k] \in tree
OpenInv ==
  /\ \A n : IsOpen(n) => n \in tree
  /\ PendingInTree

(* Only an open node has no child.                                         *)
LeavesInv ==
  /\ \A n \in tree : HasChild(n) \/ IsOpen(n)
  /\ pc[Master] = "done" => HasChild(Root)

ReadableInv == IdsInv /\ ParentsInv /\ OpenInv /\ LeavesInv

----------------------------------------------------------------------------
(* What the invariant says at the end                                      *)

LEMMA AsManyIds ==
  ASSUME NEW S, IsFiniteSet(S), \A m, n \in S : m.id = n.id => m = n
  PROVE  /\ IsFiniteSet({n.id : n \in S})
         /\ Cardinality({n.id : n \in S}) = Cardinality(S)
  <1> DEFINE I == {n.id : n \in S}
             f == [n \in S |-> n.id]
  <1>1. f \in [S -> I] /\ \A i \in I : \E n \in S : f[n] = i
    OBVIOUS
  <1>2. \A m, n \in S : f[m] = f[n] => m = n
    OBVIOUS
  <1> HIDE DEF f, I
  <1>3. f \in Surjection(S, I)
    BY <1>1 DEF Surjection
  <1>4. f \in Injection(S, I)
    BY <1>1, <1>2 DEF Injection, IsInjective
  <1>5. QED
    BY <1>3, <1>4, FS_Surjection DEF I

LEMMA NothingOpenAtTheEnd ==
  ASSUME StacksInv, pc[Master] = "done", NEW n, IsOpen(n)
  PROVE  n = Root
  <1>1. Quiet
    BY SerialQuiet DEF Active
  <1>2. DOMAIN taskMap = {}
    <2>1. \A k \in 1..Len(tasks) : tasks[k].state = "done"
      <3>1. DOMAIN tasks = 1..Len(tasks)
        BY LengthType DEF StacksInv, RecordsInv
      <3>2. QED
        BY <1>1, <3>1 DEF Quiet, TasksDone
    <2>2. QED
      BY <2>1 DEF StacksInv, RecordsInv
  <1>3. PICK t \in Threads : \E j \in 1..Len(last_nodes[t]) : last_nodes[t][j] = n
    BY <1>2 DEF IsOpen
  <1>4. Len(last_nodes[t]) # 0
    BY <1>3
  <1>5. t = Master /\ last_nodes[t] = <<Root>>
    BY <1>1, <1>4, QuietNodes DEF Depth
  <1>6. QED
    BY <1>3, <1>5

LEMMA ReadableAtTheEnd == StacksInv /\ ReadableInv => TreeIsReadable
  <1> SUFFICES ASSUME StacksInv, ReadableInv, pc[Master] = "done" PROVE TreeIsReadable
    BY DEF TreeIsReadable
  <1> DEFINE nodes == {[id |-> n.id, parent |-> n.parent] : n \in tree}
             row == nodes \union steps
             ids == {n.id : n \in tree}
             logged == {x.id : x \in steps}
  <1>1. IdsInv /\ ParentsInv /\ LeavesInv /\ OpenInv /\ TypeOK
    BY DEF ReadableInv, StacksInv, TeamInv
  <1>2. /\ \A r \in row : \/ r \in steps
                          \/ \E n \in tree : r.id = n.id /\ r.parent = n.parent
        /\ \A x \in steps : x \in row
        /\ \A n \in tree : \E r \in row : r.id = n.id /\ r.parent = n.parent
    <2>1. ASSUME NEW n \in tree
          PROVE  \E r \in row : r.id = n.id /\ r.parent = n.parent
      <3>1. [id |-> n.id, parent |-> n.parent] \in row
        OBVIOUS
      <3>2. QED
        BY <3>1
    <2>2. QED
      BY <2>1
  <1>3. Cardinality({r.id : r \in row}) = Cardinality(tree) + Cardinality(steps)
    <2>1. {r.id : r \in row} = ids \union logged
      <3> HIDE DEF row
      <3>1. \A r \in row : r.id \in ids \union logged
        BY <1>2
      <3>2. \A i \in ids \union logged : \E r \in row : r.id = i
        BY <1>2
      <3> HIDE DEF ids, logged
      <3>3. QED
        BY <3>1, <3>2
    <2>2. IsFiniteSet(ids) /\ Cardinality(ids) = Cardinality(tree)
      BY <1>1, AsManyIds DEF IdsInv
    <2>3. IsFiniteSet(logged) /\ Cardinality(logged) = Cardinality(steps)
      BY <1>1, AsManyIds DEF IdsInv
    <2>4. ids \intersect logged = {}
      BY <1>1 DEF IdsInv
    <2> HIDE DEF ids, logged
    <2>5. Cardinality(ids \union logged)
            = Cardinality(ids) + Cardinality(logged) - Cardinality(ids \intersect logged)
      BY <2>2, <2>3, FS_Union
    <2>6. Cardinality(ids \intersect logged) = 0
      BY <2>4, FS_EmptySet
    <2>7. Cardinality(ids) \in Nat /\ Cardinality(logged) \in Nat
      BY <2>2, <2>3, FS_CardinalityType
    <2>8. Cardinality(ids \union logged) = Cardinality(ids) + Cardinality(logged)
      BY ONLY <2>5, <2>6, <2>7
    <2>9. QED
      BY ONLY <2>1, <2>2, <2>3, <2>8, Zenon
  <1>4. \A n \in tree : HasChild(n)
    BY <1>1, NothingOpenAtTheEnd DEF LeavesInv
  <1>5. {r.parent : r \in row} = ids \union {0}
    <2>1. ASSUME NEW r \in row PROVE r.parent \in ids \union {0}
      <3>1. CASE r \in steps
        BY <1>1, <3>1 DEF ParentsInv
      <3>2. CASE r \in nodes
        BY <1>1, <3>2 DEF ParentsInv, Root
      <3>3. QED
        BY <3>1, <3>2
    <2>2. ASSUME NEW i \in ids PROVE \E r \in row : r.parent = i
      <3>1. PICK n \in tree : n.id = i
        OBVIOUS
      <3> HIDE DEF row
      <3>2. CASE \E m \in tree : m.parent = n.id
        BY <1>2, <3>1, <3>2
      <3>3. CASE \E x \in steps : x.parent = n.id
        BY <1>2, <3>1, <3>3
      <3>4. QED
        BY <1>4, <3>1, <3>2, <3>3 DEF HasChild
    <2>3. \E r \in row : r.parent = 0
      <3>1. Root \in tree /\ Root.parent = 0
        BY <1>1 DEF ParentsInv, Root
      <3> HIDE DEF row
      <3>2. QED
        BY <1>2, <3>1
    <2> HIDE DEF row, ids
    <2>4. QED
      BY <2>1, <2>2, <2>3
  <1>6. ASSUME NEW r \in row PROVE r.parent = 0 <=> r.id = 1
    <2>1. Root \in tree /\ Root.id = 1 /\ Root.parent = 0
      BY <1>1 DEF ParentsInv, Root
    <2>2. \A m \in tree : m.id # 0
      BY <1>1 DEF IdsInv
    <2>3. CASE r \in steps
      BY <1>1, <2>1, <2>2, <2>3 DEF ParentsInv, IdsInv
    <2>4. CASE r \in nodes
      <3>1. PICK n \in tree : r = [id |-> n.id, parent |-> n.parent]
        BY <2>4
      <3>2. n = Root \/ n.parent # 0
        BY <1>1, <2>2 DEF ParentsInv
      <3>3. n.id = 1 => n = Root
        BY <1>1, <2>1 DEF IdsInv
      <3>4. QED
        BY <2>1, <3>1, <3>2, <3>3
    <2>5. QED
      BY <2>3, <2>4
  <1>7. QED
    BY <1>3, <1>5, <1>6 DEF TreeIsReadable

----------------------------------------------------------------------------
(* A step adds the nodes N and the steps S                                 *)

Adds(N, S) ==
  /\ tree' = tree \union N /\ steps' = steps \union S
  /\ IsFiniteSet(N) /\ IsFiniteSet(S)
  /\ node_ctr' \in Nat /\ node_ctr <= node_ctr'
  /\ \A n \in N \union S : n.id \in (node_ctr + 1)..node_ctr'
  /\ \A m, n \in N : m.id = n.id => m = n
  /\ \A x, y \in S : x.id = y.id => x = y
  /\ \A n \in N : \A x \in S : n.id # x.id
  /\ \A n \in N \union S : \E m \in tree \union N : m.id = n.parent

LEMMA HasChildKept ==
  ASSUME NEW N, NEW S, Adds(N, S), NEW n, HasChild(n)
  PROVE  HasChild(n)'
  BY DEF Adds, HasChild

LEMMA IdsGrow ==
  ASSUME IdsInv, ParentsInv, node_ctr \in Nat, NEW N, NEW S, Adds(N, S)
  PROVE  IdsInv' /\ ParentsInv'
  <1>1. IsFiniteSet(tree') /\ IsFiniteSet(steps')
    BY FS_Union DEF IdsInv, Adds
  <1>2. /\ \A n \in tree \union steps : n.id \in 1..node_ctr
        /\ \A n \in N \union S : n.id \in (node_ctr + 1)..node_ctr'
        /\ tree' = tree \union N /\ steps' = steps \union S
        /\ node_ctr' \in Nat /\ node_ctr <= node_ctr'
    BY DEF IdsInv, Adds
  <1>3. \A n \in tree' \union steps' : n.id \in 1..node_ctr'
    <2> SUFFICES ASSUME NEW n \in tree' \union steps' PROVE n.id \in 1..node_ctr'
      OBVIOUS
    <2>1. CASE n \in tree \union steps
      BY <1>2, <2>1
    <2>2. CASE n \in N \union S
      BY <1>2, <2>2
    <2>3. QED
      BY <1>2, <2>1, <2>2
  <1>4. \A n \in tree \union steps : \A m \in N \union S : n.id # m.id
    BY <1>2
  <1>5. \A m, n \in tree' : m.id = n.id => m = n
    BY <1>2, <1>4 DEF IdsInv, Adds
  <1>6. \A x, y \in steps' : x.id = y.id => x = y
    BY <1>2, <1>4 DEF IdsInv, Adds
  <1>7. \A n \in tree' : \A x \in steps' : n.id # x.id
    BY <1>2, <1>4 DEF IdsInv, Adds
  <1>8. ParentsInv'
    BY <1>2 DEF ParentsInv, Adds
  <1>9. QED
    BY <1>1, <1>3, <1>5, <1>6, <1>7, <1>8 DEF IdsInv

(* The new nodes are open, and a node is closed when it has a child.       *)
LEMMA TreeGrows ==
  ASSUME ReadableInv, node_ctr \in Nat, NEW N, NEW S, Adds(N, S),
         \A n \in N : IsOpen(n)',
         \A n : IsOpen(n) => IsOpen(n)' \/ HasChild(n)',
         \A n : IsOpen(n)' => n \in tree',
         PendingInTree',
         pc'[Master] = "done" => pc[Master] = "done" \/ HasChild(Root)'
  PROVE  ReadableInv'
  <1>1. IdsInv' /\ ParentsInv'
    BY IdsGrow DEF ReadableInv
  <1>2. OpenInv'
    BY DEF OpenInv
  <1>3. \A n \in tree' : HasChild(n)' \/ IsOpen(n)'
    <2> SUFFICES ASSUME NEW n \in tree' PROVE HasChild(n)' \/ IsOpen(n)'
      OBVIOUS
    <2>1. CASE n \in tree
      BY <2>1, HasChildKept DEF ReadableInv, LeavesInv
    <2>2. CASE n \in N
      BY <2>2
    <2>3. QED
      BY <2>1, <2>2 DEF Adds
  <1>4. pc'[Master] = "done" => HasChild(Root)'
    BY HasChildKept DEF ReadableInv, LeavesInv
  <1>5. QED
    BY <1>1, <1>2, <1>3, <1>4 DEF ReadableInv, LeavesInv

----------------------------------------------------------------------------
(* A step of one thread                                                    *)

(* r is what is left of stack s, q is r with the nodes M on it.            *)
Stump(r, s) ==
  r \in Seq(NodeRecord) /\ Len(r) <= Len(s) /\ Keeps(r, s, Len(r))

Carries(q, r, M) ==
  /\ q \in Seq(NodeRecord) /\ Len(r) <= Len(q) /\ Keeps(q, r, Len(r))
  /\ \A j \in 1..Len(q) : j > Len(r) => q[j] \in M
  /\ \A n \in M : \E j \in 1..Len(q) : q[j] = n

(* The nodes of taskMap are moved to the stack or stay.                    *)
Passes(M) ==
  /\ \A k \in DOMAIN taskMap :
       taskMap[k] \in M \/ (k \in DOMAIN taskMap' /\ taskMap'[k] = taskMap[k])
  /\ \A k \in DOMAIN taskMap' : taskMap'[k] \in tree'

(* The nodes of s that are not in r have a child.                          *)
Shed(s, r) == \A j \in 1..Len(s) : j > Len(r) => HasChild(s[j])

(* The new nodes N are among M or in taskMap.                              *)
Placed(N, M) == \A n \in N : n \in M \/ \E k \in DOMAIN taskMap' : taskMap'[k] = n

LEMMA ThreadGrows ==
  ASSUME ReadableInv, TypeOK, NEW t \in Threads, NEW N, NEW S, Adds(N, S),
         NEW r, Stump(r, last_nodes[t]), NEW M, M \subseteq tree',
         NEW q, Carries(q, r, M), last_nodes' = [last_nodes EXCEPT ![t] = q],
         NEW s, s = last_nodes[t], Shed(s, r)',
         Passes(M), Placed(N, M),
         PendingInTree',
         pc'[Master] = "done" => pc[Master] = "done"
  PROVE  ReadableInv'
  <1>1. /\ last_nodes'[t] = q /\ \A u \in Threads \ {t} : last_nodes'[u] = last_nodes[u]
        /\ node_ctr \in Nat /\ tree \subseteq tree' /\ s \in Seq(NodeRecord)
    BY DEF TypeOK, Adds
  <1>2. Len(r) \in Nat /\ Len(q) \in Nat /\ Len(s) \in Nat
    BY <1>1 DEF Stump, Carries
  <1>3. \A n \in M : IsOpen(n)'
    <2> SUFFICES ASSUME NEW n \in M PROVE IsOpen(n)'
      OBVIOUS
    <2>1. PICK j \in 1..Len(q) : q[j] = n
      BY DEF Carries
    <2>2. QED
      BY <1>1, <2>1 DEF IsOpen
  <1>4. \A n \in N : IsOpen(n)'
    BY <1>3 DEF IsOpen, Placed
  <1>5. ASSUME NEW n, IsOpen(n)
        PROVE  IsOpen(n)' \/ HasChild(n)'
    <2>1. CASE \E k \in DOMAIN taskMap : taskMap[k] = n
      <3>1. PICK k \in DOMAIN taskMap : taskMap[k] = n
        BY <2>1
      <3>2. n \in M \/ (k \in DOMAIN taskMap' /\ taskMap'[k] = n)
        BY <3>1 DEF Passes
      <3>3. QED
        BY <1>3, <3>2 DEF IsOpen
    <2>2. ASSUME NEW u \in Threads, NEW j \in 1..Len(last_nodes[u]), last_nodes[u][j] = n
          PROVE  IsOpen(n)' \/ HasChild(n)'
      <3>1. CASE u # t
        BY <1>1, <2>2, <3>1 DEF IsOpen
      <3>2. CASE u = t /\ j <= Len(r)
        <4>1. j \in 1..Len(r) /\ j \in 1..Len(q)
          BY <1>2, <3>2 DEF Carries
        <4>2. q[j] = n
          BY <2>2, <3>2, <4>1 DEF Carries, Stump, Keeps
        <4>3. QED
          BY <1>1, <4>1, <4>2 DEF IsOpen
      <3>3. CASE u = t /\ j > Len(r)
        BY <2>2, <3>3 DEF Shed
      <3>4. QED
        BY <1>2, <3>1, <3>2, <3>3
    <2>3. QED
      BY <1>5, <2>1, <2>2 DEF IsOpen
  <1>6. ASSUME NEW n, IsOpen(n)'
        PROVE  n \in tree'
    <2>1. CASE \E k \in DOMAIN taskMap' : taskMap'[k] = n
      BY <2>1 DEF Passes
    <2>2. ASSUME NEW u \in Threads, NEW j \in 1..Len(last_nodes'[u]), last_nodes'[u][j] = n
          PROVE  n \in tree'
      <3>1. CASE u # t
        <4>1. IsOpen(n)
          BY <1>1, <2>2, <3>1 DEF IsOpen
        <4>2. QED
          BY <1>1, <4>1 DEF ReadableInv, OpenInv
      <3>2. CASE u = t /\ j <= Len(r)
        <4>1. j \in 1..Len(r) /\ j \in 1..Len(s)
          BY <1>2, <3>2 DEF Stump
        <4>2. s[j] = n
          BY <1>1, <2>2, <3>2, <4>1 DEF Carries, Stump, Keeps
        <4>3. IsOpen(n)
          BY <4>1, <4>2 DEF IsOpen
        <4>4. QED
          BY <1>1, <4>3 DEF ReadableInv, OpenInv
      <3>3. CASE u = t /\ j > Len(r)
        BY <1>1, <2>2, <3>3 DEF Carries
      <3>4. QED
        BY <1>1, <1>2, <3>1, <3>2, <3>3
    <2>3. QED
      BY <1>6, <2>1, <2>2 DEF IsOpen
  <1>7. node_ctr \in Nat
    BY DEF TypeOK
  <1>8. \A n : IsOpen(n) => IsOpen(n)' \/ HasChild(n)'
    BY <1>5
  <1>9. \A n : IsOpen(n)' => n \in tree'
    BY <1>6
  <1>10. QED
    BY <1>4, <1>7, <1>8, <1>9, TreeGrows

----------------------------------------------------------------------------
(* Handlers that log a step                                                *)

(* The step is under the top of the stack, and each node of a context is   *)
(* the child of the one below it: all nodes of the context have a child.   *)
LEMMA CutHaveChildren ==
  ASSUME ReadableInv, NEW t \in Threads, NEW s, s = last_nodes[t],
         NEW f, NEW lo, NEW g, Topmost(f, s, lo, g),
         NEW N, NEW S, Adds(N, S), NEW x \in S, x.parent = Top(s).id,
         NEW j \in 1..Len(s), j > lo
  PROVE  HasChild(s[j])'
  <1>1. Chain(s, lo + 1, Len(s)) /\ lo \in Nat /\ s \in Seq(NodeRecord) /\ Top(s) = s[Len(s)]
    BY CleanedNodes DEF Topmost, FrameNodes
  <1>2. tree' = tree \union N /\ steps' = steps \union S
    BY DEF Adds
  <1>3. CASE j = Len(s)
    BY <1>1, <1>2, <1>3 DEF HasChild
  <1>4. CASE j # Len(s)
    <2>1. j \in (lo + 1)..(Len(s) - 1) /\ j + 1 \in 1..Len(s)
      BY <1>1, <1>4
    <2>2. s[j + 1].parent = s[j].id
      BY <1>1, <2>1 DEF Chain
    <2>3. IsOpen(s[j + 1])
      BY <2>1 DEF IsOpen
    <2>4. s[j + 1] \in tree'
      BY <1>2, <2>3 DEF ReadableInv, OpenInv
    <2>5. QED
      BY <2>2, <2>4 DEF HasChild
  <1>5. QED
    BY <1>3, <1>4

LEMMA TopInTree ==
  ASSUME ReadableInv, TypeOK, NEW t \in Threads, last_nodes[t] # <<>>
  PROVE  Top(last_nodes[t]) \in tree
  <1> DEFINE s == last_nodes[t]
  <1>1. s \in Seq(NodeRecord) /\ s # <<>>
    BY DEF TypeOK
  <1>2. Len(s) \in 1..Len(s) /\ Top(s) = s[Len(s)]
    BY <1>1 DEF Top
  <1>3. IsOpen(s[Len(s)])
    BY <1>2 DEF IsOpen
  <1>4. QED
    BY <1>2, <1>3 DEF ReadableInv, OpenInv

(* One step, under the top of the stack, and the nodes N.                  *)
LEMMA StepAdds ==
  ASSUME ReadableInv, TypeOK, NEW t \in Threads, last_nodes[t] # <<>>,
         NEW n \in Nat, NEW N, IsFiniteSet(N),
         steps' = steps \union {NewStep(node_ctr + 1, last_nodes[t])},
         tree' = tree \union N, node_ctr' = node_ctr + 1 + n,
         \A m \in N : m.id \in (node_ctr + 2)..(node_ctr + 1 + n),
         \A m, m2 \in N : m.id = m2.id => m = m2,
         \A m \in N : \E p \in tree \union N : p.id = m.parent
  PROVE  Adds(N, {NewStep(node_ctr + 1, last_nodes[t])})
  <1> DEFINE x == NewStep(node_ctr + 1, last_nodes[t])
  <1>1. node_ctr \in Nat
    BY DEF TypeOK
  <1>2. x.id = node_ctr + 1 /\ x.parent = Top(last_nodes[t]).id
    BY DEF NewStep
  <1>3. Top(last_nodes[t]) \in tree
    BY TopInTree
  <1> HIDE DEF x
  <1>4. IsFiniteSet({x})
    BY FS_Singleton
  <1>5. \A m \in N \union {x} : m.id \in (node_ctr + 1)..node_ctr'
    BY <1>1, <1>2
  <1>6. \A m \in N : m.id # x.id
    BY <1>1, <1>2
  <1>7. \A m \in N \union {x} : \E p \in tree \union N : p.id = m.parent
    BY <1>2, <1>3
  <1>8. node_ctr' \in Nat /\ node_ctr <= node_ctr'
    BY <1>1
  <1>9. steps' = steps \union {x}
    BY DEF x
  <1>10. Adds(N, {x})
    BY <1>4, <1>5, <1>6, <1>7, <1>8, <1>9 DEF Adds
  <1>11. QED
    BY <1>10 DEF x

LEMMA CarriesNone ==
  ASSUME NEW r, r \in Seq(NodeRecord)
  PROVE  Carries(r, r, {})
  BY DEF Carries, Keeps

LEMMA CarriesOne ==
  ASSUME NEW r, r \in Seq(NodeRecord), NEW n \in NodeRecord
  PROVE  Carries(Append(r, n), r, {n})
  <1> DEFINE q == Append(r, n)
  <1>1. /\ q \in Seq(NodeRecord) /\ Len(q) = Len(r) + 1 /\ q[Len(r) + 1] = n
        /\ \A i \in 1..Len(r) : q[i] = r[i]
    BY PushOne
  <1>2. Len(r) \in Nat
    OBVIOUS
  <1> HIDE DEF q
  <1>3. Carries(q, r, {n})
    BY <1>1, <1>2 DEF Carries, Keeps
  <1>4. QED
    BY <1>3 DEF q

(* The handler of thread t logs a step, takes nodes of the topmost context *)
(* off its stack, down to r, and opens the nodes M.                        *)
LEMMA HandlerGrows ==
  ASSUME ReadableInv, TypeOK, NEW t \in Threads, NEW s, s = last_nodes[t],
         NEW f, NEW lo, NEW g, Topmost(f, s, lo, g),
         NEW N, NEW S, Adds(N, S), NEW x \in S, x.parent = Top(s).id,
         NEW r, Stump(r, s), lo <= Len(r), NEW M, M \subseteq tree',
         NEW q, Carries(q, r, M), last_nodes' = [last_nodes EXCEPT ![t] = q],
         Passes(M), Placed(N, M),
         pendingFinish' = pendingFinish,
         pc'[Master] = "done" => pc[Master] = "done"
  PROVE  ReadableInv'
  <1>1. Stump(r, last_nodes[t])
    OBVIOUS
  <1>2. Len(r) \in Nat /\ lo \in Nat /\ Len(s) \in Nat
    BY DEF Stump, Topmost
  <1>3. Shed(s, r)'
    <2> SUFFICES ASSUME NEW j \in 1..Len(s), j > Len(r)
                 PROVE  HasChild(s[j])'
      BY DEF Shed
    <2>1. j > lo
      BY <1>2
    <2>2. QED
      BY <2>1, CutHaveChildren
  <1>4. PendingInTree'
    BY DEF Adds, ReadableInv, OpenInv, PendingInTree
  <1>5. QED
    BY <1>1, <1>3, <1>4, ThreadGrows

LEMMA MapStays ==
  ASSUME ReadableInv, NEW N, NEW S, Adds(N, S), taskMap' = taskMap, NEW M
  PROVE  Passes(M)
  <1>1. \A k \in DOMAIN taskMap : taskMap[k] \in tree
    BY DEF ReadableInv, OpenInv, IsOpen
  <1>2. QED
    BY <1>1 DEF Passes, Adds

(* A handler of a thread in a task or in its implicit task.                *)
LEMMA HandleGrows ==
  ASSUME StacksInv, ReadableInv, NEW t \in Threads, InWork(t),
         NEW s, s = last_nodes[t], NEW lo \in Nat, Topmost(Cur(t), s, lo, Ground(t)),
         NEW n \in Nat, NEW N, IsFiniteSet(N), NEW q, Handle(t, n, N, q),
         \A m \in N : m.id \in (node_ctr + 2)..(node_ctr + 1 + n),
         \A m, m2 \in N : m.id = m2.id => m = m2,
         \A m \in N : \E p \in tree \union N : p.id = m.parent,
         NEW r, Stump(r, s), lo <= Len(r), NEW M, M \subseteq tree \union N, Carries(q, r, M),
         Adds(N, {NewStep(node_ctr + 1, s)}) => Passes(M),
         Placed(N, M)
  PROVE  ReadableInv'
  <1> DEFINE x == NewStep(node_ctr + 1, s)
  <1>1. TypeOK /\ s # <<>>
    BY WorkStack DEF StacksInv, TeamInv
  <1>2. /\ steps' = steps \union {NewStep(node_ctr + 1, s)} /\ tree' = tree \union N
        /\ node_ctr' = node_ctr + 1 + n /\ last_nodes' = [last_nodes EXCEPT ![t] = q]
        /\ UNCHANGED <<profilerRest, runtime>>
    BY DEF Handle
  <1>3. pendingFinish' = pendingFinish /\ pc' = pc
    BY <1>2 DEF profilerRest, runtime
  <1>4. Adds(N, {NewStep(node_ctr + 1, last_nodes[t])})
    BY <1>1, <1>2, StepAdds
  <1>5. x.parent = Top(s).id
    BY DEF NewStep
  <1> HIDE DEF x
  <1>6. Adds(N, {x}) /\ x \in {x}
    BY <1>4 DEF x
  <1>7. Passes(M)
    BY <1>4
  <1>8. M \subseteq tree'
    BY <1>2
  <1>9. QED
    BY <1>1, <1>2, <1>3, <1>5, <1>6, <1>7, <1>8, HandlerGrows

(* What is left of the stack when Cleanup, and a Pop, have taken from it.  *)
LEMMA StumpOfPop ==
  ASSUME NEW s, NEW r, Stump(r, s), Len(r) > 0, s \in Seq(NodeRecord)
  PROVE  Stump(Pop(r), s) /\ Len(Pop(r)) = Len(r) - 1
  <1>1. r \in Seq(NodeRecord) /\ Len(r) <= Len(s) /\ Keeps(r, s, Len(r)) /\ Len(r) \in Nat
    BY DEF Stump
  <1>2. /\ Pop(r) \in Seq(NodeRecord) /\ Len(Pop(r)) = Len(r) - 1
        /\ \A i \in 1..(Len(r) - 1) : Pop(r)[i] = r[i]
    BY <1>1, PopStack
  <1> DEFINE p == Pop(r)
  <1> HIDE DEF p
  <1>3. p \in Seq(NodeRecord) /\ Len(p) = Len(r) - 1 /\ \A i \in 1..(Len(r) - 1) : p[i] = r[i]
    BY <1>2 DEF p
  <1>4. Len(s) \in Nat
    OBVIOUS
  <1>5. Stump(p, s)
    BY <1>1, <1>3, <1>4 DEF Stump, Keeps
  <1>6. QED
    BY <1>3, <1>5 DEF p

LEMMA StumpOfAll ==
  ASSUME NEW s, s \in Seq(NodeRecord)
  PROVE  Stump(s, s)
  BY DEF Stump, Keeps

LEMMA StumpOfTop ==
  ASSUME NEW f, NEW s, NEW lo, NEW g, Topmost(f, s, lo, g)
  PROVE  LET c == Cleanup(s) IN
         /\ Stump(c, s) /\ lo \in Nat /\ Len(c) \in Nat /\ Len(s) \in Nat
         /\ lo < Len(c) /\ Len(c) <= Len(s)
         /\ Opens(Last(f.levels).kind) # 0 => lo + 2 <= Len(c)
         /\ f.ctx > MaxTasks /\ ~g.closed => lo + 3 <= Len(c)
  <1> DEFINE c == Cleanup(s)
             at == LevelAt(f, lo, g)
             o == Opens(Last(f.levels).kind)
  <1>1. /\ Len(s) = at + o + IF Last(f.levels).unwaited THEN 1 ELSE 0
        /\ at \in Nat /\ lo < at /\ o \in 0..2
        /\ c \in Seq(NodeRecord) /\ Len(c) = at + o /\ Keeps(c, s, Len(c))
    BY CleanedNodes
  <1>2. lo \in Nat /\ IsContext(f)
    BY DEF Topmost
  <1>3. f.ctx > MaxTasks /\ ~g.closed => lo + 3 <= at
    <2> SUFFICES ASSUME f.ctx > MaxTasks, ~g.closed PROVE lo + 3 <= at
      OBVIOUS
    <2>1. Size(f, g) = 3
      BY DEF Size
    <2>2. LevelSize(f.levels[1]) \in 0..1
      BY <1>2, ContextSizes
    <2>3. QED
      BY <1>2, <2>1, <2>2 DEF LevelAt
  <1> HIDE DEF c, at, o
  <1>4. Stump(c, s)
    BY <1>1 DEF Stump
  <1>5. lo < Len(c) /\ Len(c) <= Len(s) /\ (o # 0 => lo + 2 <= Len(c))
    BY <1>1, <1>2
  <1>6. f.ctx > MaxTasks /\ ~g.closed => lo + 3 <= Len(c)
    BY <1>1, <1>2, <1>3
  <1>7. QED
    BY <1>1, <1>2, <1>4, <1>5, <1>6 DEF c, o

----------------------------------------------------------------------------
(* The handlers of tasks and constructs                                    *)

LEMMA SameKept ==
  ASSUME ReadableInv, TypeOK,
         UNCHANGED <<tree, steps, last_nodes, taskMap, pendingFinish>>,
         node_ctr' = node_ctr, pc'[Master] = "done" => pc[Master] = "done"
  PROVE  ReadableInv'
  <1>1. \A n : IsOpen(n)' <=> IsOpen(n)
    BY DEF IsOpen
  <1>2. \A n : HasChild(n)' <=> HasChild(n)
    BY DEF HasChild
  <1>3. IdsInv' /\ ParentsInv'
    BY DEF ReadableInv, IdsInv, ParentsInv
  <1>4. OpenInv' /\ LeavesInv'
    BY <1>1, <1>2 DEF ReadableInv, OpenInv, PendingInTree, LeavesInv
  <1>5. QED
    BY <1>3, <1>4 DEF ReadableInv

(* A handler that only takes nodes off.                                    *)
LEMMA TakesOff ==
  ASSUME StacksInv, ReadableInv, NEW t \in Threads, InWork(t),
         NEW s, s = last_nodes[t], NEW lo \in Nat, Topmost(Cur(t), s, lo, Ground(t)),
         NEW r, Stump(r, s), lo <= Len(r), Handle(t, 0, {}, r), taskMap' = taskMap
  PROVE  ReadableInv'
  <1>1. Carries(r, r, {})
    BY CarriesNone DEF Stump
  <1>2. IsFiniteSet({})
    BY FS_EmptySet
  <1>3. Adds({}, {NewStep(node_ctr + 1, s)}) => Passes({})
    BY MapStays
  <1>4. Placed({}, {})
    BY DEF Placed
  <1> DEFINE none == {}
  <1>5. /\ Carries(r, r, none) /\ Placed(none, none) /\ IsFiniteSet(none) /\ Handle(t, 0, none, r)
        /\ Adds(none, {NewStep(node_ctr + 1, s)}) => Passes(none)
        /\ none \subseteq tree \union none
        /\ \A m \in none : m.id \in (node_ctr + 2)..(node_ctr + 1 + 0)
        /\ \A m, m2 \in none : m.id = m2.id => m = m2
        /\ \A m \in none : \E p \in tree \union none : p.id = m.parent
    BY <1>1, <1>2, <1>3, <1>4
  <1> HIDE DEF none
  <1>6. 0 \in Nat
    OBVIOUS
  <1>7. QED
    BY <1>5, <1>6, HandleGrows

LEMMA TaskwaitBeginReads ==
  ASSUME StacksInv, ReadableInv, NEW t \in Threads, TaskwaitBegin(t)
  PROVE  ReadableInv'
  <1> DEFINE s == last_nodes[t]
             r == Cleanup(s)
  <1>1. InWork(t)
    BY CodeWhere DEF TaskwaitBegin
  <1>2. PICK lo \in 0..Len(s) : Topmost(Cur(t), s, lo, Ground(t))
    BY <1>1, WorkStack
  <1>3. Handle(t, 0, {}, r) /\ taskMap' = taskMap
    BY DEF TaskwaitBegin, AfterTaskwait
  <1>4. Stump(r, s) /\ lo \in Nat /\ lo <= Len(r)
    BY <1>2, StumpOfTop
  <1> HIDE DEF r
  <1>5. QED
    BY <1>1, <1>2, <1>3, <1>4, TakesOff

LEMMA ClosedStump ==
  ASSUME NEW f, NEW s, NEW lo, NEW g, Topmost(f, s, lo, g)
  PROVE  LET r == Closed(s) IN
         /\ Stump(r, s) /\ lo \in Nat /\ Len(r) \in Nat /\ lo <= Len(r)
         /\ Opens(Last(f.levels).kind) # 0 => lo < Len(r)
  <1> DEFINE c == Cleanup(s)
  <1>1. /\ Stump(c, s) /\ lo \in Nat /\ Len(c) \in Nat /\ lo < Len(c)
        /\ Opens(Last(f.levels).kind) # 0 => lo + 2 <= Len(c)
    BY StumpOfTop
  <1>2. s \in Seq(NodeRecord)
    BY DEF Topmost
  <1> HIDE DEF c
  <1>3. Len(c) > 0
    BY <1>1
  <1>4. Stump(Pop(c), s) /\ Len(Pop(c)) = Len(c) - 1
    BY <1>1, <1>2, <1>3, StumpOfPop
  <1>5. QED
    BY <1>1, <1>4 DEF Closed, c

LEMMA TaskEndReads ==
  ASSUME StacksInv, ReadableInv, NEW t \in Threads, TaskEnd(t) \/ BlockEnd(t)
  PROVE  ReadableInv'
  <1> DEFINE s == last_nodes[t]
             r == Closed(s)
  <1>1. InWork(t)
    BY CodeWhere DEF TaskEnd, BlockEnd
  <1>2. PICK lo \in 0..Len(s) : Topmost(Cur(t), s, lo, Ground(t))
    BY <1>1, WorkStack
  <1>3. Handle(t, 0, {}, r) /\ taskMap' = taskMap
    BY DEF TaskEnd, BlockEnd
  <1>4. Stump(r, s) /\ lo \in Nat /\ lo <= Len(r)
    BY <1>2, ClosedStump
  <1> HIDE DEF r
  <1>5. QED
    BY <1>1, <1>2, <1>3, <1>4, TakesOff

(* A handler that opens one node, under the top of what it leaves.         *)
LEMMA OpensOne ==
  ASSUME StacksInv, ReadableInv, NEW t \in Threads, InWork(t),
         NEW s, s = last_nodes[t], NEW lo \in Nat, Topmost(Cur(t), s, lo, Ground(t)),
         NEW r, Stump(r, s), lo <= Len(r), Len(r) > 0,
         NEW a, a \in NodeRecord, a.id = node_ctr + 2, a.parent = Top(r).id,
         Handle(t, 1, {a}, Append(r, a)), taskMap' = taskMap
  PROVE  ReadableInv'
  <1>1. r \in Seq(NodeRecord) /\ Len(r) \in Nat /\ Len(s) \in Nat /\ Len(r) <= Len(s)
        /\ Keeps(r, s, Len(r)) /\ node_ctr \in Nat
    BY DEF Stump, Topmost, StacksInv, TeamInv, TypeOK
  <1>2. Top(r) \in tree
    <2>1. Len(r) \in 1..Len(r) /\ Len(r) \in 1..Len(s) /\ r # <<>>
      BY <1>1
    <2>2. Top(r) = s[Len(r)]
      BY <1>1, <2>1 DEF Top, Keeps
    <2>3. IsOpen(s[Len(r)])
      BY <2>1 DEF IsOpen
    <2>4. QED
      BY <2>2, <2>3 DEF ReadableInv, OpenInv
  <1>3. Carries(Append(r, a), r, {a})
    BY <1>1, CarriesOne
  <1>4. IsFiniteSet({a})
    BY FS_Singleton
  <1>5. Adds({a}, {NewStep(node_ctr + 1, s)}) => Passes({a})
    BY MapStays
  <1>6. \A m \in {a} : m.id \in (node_ctr + 2)..(node_ctr + 1 + 1)
    BY <1>1
  <1>7. \A m \in {a} : \E p \in tree \union {a} : p.id = m.parent
    BY <1>2
  <1> DEFINE N == {a}
             q == Append(r, a)
  <1>8. /\ IsFiniteSet(N) /\ Handle(t, 1, N, q) /\ Carries(q, r, N) /\ N \subseteq tree \union N
        /\ \A m \in N : m.id \in (node_ctr + 2)..(node_ctr + 1 + 1)
        /\ \A m, m2 \in N : m.id = m2.id => m = m2
        /\ \A m \in N : \E p \in tree \union N : p.id = m.parent
        /\ Adds(N, {NewStep(node_ctr + 1, s)}) => Passes(N)
        /\ Placed(N, N)
    BY <1>3, <1>4, <1>5, <1>6, <1>7 DEF Placed
  <1> HIDE DEF N, q
  <1>9. 1 \in Nat
    OBVIOUS
  <1>10. QED
    BY <1>8, <1>9, HandleGrows

LEMMA NewNodeFields ==
  ASSUME NEW i, NEW ty, NEW p
  PROVE  NewNode(i, ty, p).id = i /\ NewNode(i, ty, p).parent = p.id
  BY DEF NewNode

LEMMA BlockBeginReads ==
  ASSUME StacksInv, ReadableInv, NEW t \in Threads, NEW kind, BlockBegin(t, kind)
  PROVE  ReadableInv'
  <1> DEFINE s == last_nodes[t]
             a == NewNode(node_ctr + 2, "FINISH", Top(s))
  <1>1. InWork(t)
    BY CodeWhere DEF BlockBegin, InImplicitBody
  <1>2. PICK lo \in 0..Len(s) : Topmost(Cur(t), s, lo, Ground(t))
    BY <1>1, WorkStack
  <1>3. Handle(t, 1, {a}, Append(s, a)) /\ taskMap' = taskMap
    BY DEF BlockBegin
  <1>4. s \in Seq(NodeRecord) /\ s # <<>> /\ node_ctr \in Nat /\ lo \in Nat /\ lo <= Len(s)
    <2>1. s \in Seq(NodeRecord) /\ s # <<>>
      BY <1>1, WorkStack
    <2>2. node_ctr \in Nat
      BY DEF StacksInv, TeamInv, TypeOK
    <2>3. QED
      BY <2>1, <2>2
  <1>5. Len(s) > 0 /\ Stump(s, s) /\ Top(s) \in NodeRecord
    BY <1>4, StumpOfAll, TopType
  <1>6. a \in NodeRecord /\ a.id = node_ctr + 2 /\ a.parent = Top(s).id
    BY <1>4, <1>5, NewNodeFields, NewNodeType
  <1> HIDE DEF a
  <1>7. QED
    BY <1>1, <1>2, <1>3, <1>4, <1>5, <1>6, OpensOne

LEMMA LoopChunkReads ==
  ASSUME StacksInv, ReadableInv, NEW t \in Threads, LoopChunk(t)
  PROVE  ReadableInv'
  <1> DEFINE s == last_nodes[t]
             r == CloseChunk(t, s)
             a == NewNode(node_ctr + 2, "ASYNC", Top(r))
  <1>1. InWork(t) /\ Here(t).kind \in {"loop", "chunk"}
    BY CodeWhere DEF LoopChunk
  <1>2. PICK lo \in 0..Len(s) : Topmost(Cur(t), s, lo, Ground(t))
    BY <1>1, WorkStack
  <1>3. Handle(t, 1, {a}, Append(r, a)) /\ taskMap' = taskMap
    BY DEF LoopChunk
  <1>4. s \in Seq(NodeRecord) /\ node_ctr \in Nat /\ lo \in Nat
    BY <1>1, WorkStack DEF StacksInv, TeamInv, TypeOK
  <1>5. lo + 2 <= Len(s) /\ Len(s) \in Nat
    <2>1. Here(t).kind # "body" /\ Opens(Here(t).kind) # 0
      BY <1>1 DEF Opens
    <2>2. Opens(Last(Cur(t).levels).kind) # 0
      BY <2>1 DEF Here
    <2>3. QED
      BY <1>2, <1>4, <2>2, StumpOfTop
  <1>6. Stump(r, s) /\ lo + 1 <= Len(r) /\ Len(r) \in Nat
    <2>1. CASE firstDispatch[t]
      <3>1. r = s
        BY <2>1 DEF CloseChunk
      <3>2. QED
        BY <1>4, <1>5, <3>1, StumpOfAll
    <2>2. CASE ~firstDispatch[t]
      <3>1. r = Pop(s)
        BY <2>2 DEF CloseChunk
      <3>2. Stump(s, s) /\ Len(s) > 0
        BY <1>4, <1>5, StumpOfAll
      <3>3. Stump(Pop(s), s) /\ Len(Pop(s)) = Len(s) - 1
        BY <1>4, <3>2, StumpOfPop
      <3>4. QED
        BY <1>4, <1>5, <3>1, <3>3
    <2>3. QED
      BY <2>1, <2>2
  <1> HIDE DEF r
  <1>7. Len(r) > 0 /\ lo <= Len(r) /\ r \in Seq(NodeRecord)
    BY <1>4, <1>6 DEF Stump
  <1>8. Top(r) \in NodeRecord
    BY <1>7, TopType
  <1>9. a \in NodeRecord /\ a.id = node_ctr + 2 /\ a.parent = Top(r).id
    BY <1>4, <1>8, NewNodeFields, NewNodeType
  <1> HIDE DEF a
  <1>10. QED
    BY <1>1, <1>2, <1>3, <1>4, <1>6, <1>7, <1>9, OpensOne

LEMMA StacksType ==
  ASSUME StacksInv
  PROVE  TypeOK /\ node_ctr \in Nat /\ \A t \in Threads : last_nodes[t] \in Seq(NodeRecord)
  BY DEF StacksInv, TeamInv, TypeOK

(* The same when nothing is opened.                                        *)
LEMMA HandlerTakesOff ==
  ASSUME ReadableInv, TypeOK, NEW t \in Threads, NEW s, s = last_nodes[t],
         NEW f, NEW lo, NEW g, Topmost(f, s, lo, g),
         NEW S, Adds({}, S), NEW x \in S, x.parent = Top(s).id,
         NEW r, Stump(r, s), lo <= Len(r), last_nodes' = [last_nodes EXCEPT ![t] = r],
         taskMap' = taskMap, pendingFinish' = pendingFinish,
         pc'[Master] = "done" => pc[Master] = "done"
  PROVE  ReadableInv'
  <1> DEFINE none == {}
  <1>1. /\ Carries(r, r, none) /\ Passes(none) /\ none \subseteq tree' /\ Adds(none, S)
        /\ Placed(none, none)
    BY CarriesNone, MapStays DEF Stump, Placed
  <1> HIDE DEF none
  <1>2. QED
    BY <1>1, HandlerGrows

(* The end of a dynamic loop logs two steps, the second under what the     *)
(* first has left.                                                         *)
LEMMA LoopDrainedReads ==
  ASSUME StacksInv, ReadableInv, NEW t \in Threads, LoopDrained(t)
  PROVE  ReadableInv'
  <1> DEFINE s == last_nodes[t]
             c == Closed(s)
             r == CloseChunk(t, c)
             x == NewStep(node_ctr + 1, s)
             y == NewStep(node_ctr + 1 + 1, c)
             S == {x, y}
  <1>1. InWork(t) /\ Here(t).kind \in {"loop", "chunk"}
    BY CodeWhere DEF LoopDrained
  <1>2. PICK lo \in 0..Len(s) : Topmost(Cur(t), s, lo, Ground(t))
    BY <1>1, WorkStack
  <1>3. TypeOK /\ node_ctr \in Nat /\ s \in Seq(NodeRecord) /\ s # <<>> /\ Len(s) \in Nat
    BY <1>1, StacksType, WorkStack
  <1>4. Stump(c, s) /\ lo \in Nat /\ Len(c) \in Nat /\ lo < Len(c)
    <2>1. Here(t).kind # "body" /\ Opens(Here(t).kind) # 0
      BY <1>1 DEF Opens
    <2>2. Opens(Last(Cur(t).levels).kind) # 0
      BY <2>1 DEF Here
    <2>3. QED
      BY <1>2, <2>2, ClosedStump
  <1>5. steps' = steps \union S /\ node_ctr' = node_ctr + 2 /\ tree' = tree
        /\ last_nodes' = [last_nodes EXCEPT ![t] = r] /\ taskMap' = taskMap
        /\ pendingFinish' = pendingFinish /\ pc' = pc
    <2>1. UNCHANGED <<tree, profilerRest, runtime, taskMap>>
      BY DEF LoopDrained
    <2>2. node_ctr' = node_ctr + 1 + 1
      BY DEF LoopDrained
    <2>3. QED
      BY <1>3, <2>1, <2>2 DEF LoopDrained, profilerRest, runtime
  <1> HIDE DEF c
  <1>6. /\ x.id = node_ctr + 1 /\ x.parent = Top(s).id
        /\ y.id = node_ctr + 2 /\ y.parent = Top(c).id
    BY <1>3 DEF NewStep
  <1> HIDE DEF x, y
  <1>7. Top(s) \in tree
    BY <1>3, TopInTree
  <1>8. Top(c) \in tree
    <2>1. c # <<>> /\ Len(c) \in 1..Len(c) /\ Len(c) \in 1..Len(s)
      BY <1>3, <1>4 DEF Stump
    <2>2. Top(c) = s[Len(c)]
      BY <1>4, <2>1 DEF Top, Stump, Keeps
    <2>3. IsOpen(s[Len(c)])
      BY <2>1 DEF IsOpen
    <2>4. QED
      BY <2>2, <2>3 DEF ReadableInv, OpenInv
  <1>9. Adds({}, S)
    <2>1. IsFiniteSet({}) /\ IsFiniteSet({x} \union {y})
      BY FS_EmptySet, FS_Singleton, FS_Union
    <2>2. S = {x} \union {y}
      OBVIOUS
    <2>3. IsFiniteSet(S)
      BY <2>1, <2>2
    <2>4. \A n \in {} \union S : n.id \in (node_ctr + 1)..node_ctr'
      BY <1>3, <1>5, <1>6
    <2>5. \A n, m \in S : n.id = m.id => n = m
      BY <1>3, <1>6
    <2>6. \A n \in {} \union S : \E m \in tree \union {} : m.id = n.parent
      BY <1>6, <1>7, <1>8
    <2>7. node_ctr' \in Nat /\ node_ctr <= node_ctr'
      BY <1>3, <1>5
    <2> HIDE DEF S
    <2>8. tree' = tree \union {} /\ steps' = steps \union S
      BY <1>5
    <2>9. QED
      BY <2>1, <2>3, <2>4, <2>5, <2>6, <2>7, <2>8 DEF Adds
  <1>10. x \in S
    OBVIOUS
  <1> HIDE DEF S
  <1>11. Stump(r, s) /\ lo <= Len(r) /\ r \in Seq(NodeRecord)
    <2>1. CASE firstDispatch[t]
      <3>1. r = c
        BY <2>1 DEF CloseChunk
      <3>2. QED
        BY <1>4, <3>1 DEF Stump
    <2>2. CASE ~firstDispatch[t]
      <3>1. r = Pop(c)
        BY <2>2 DEF CloseChunk
      <3>2. Len(c) > 0
        BY <1>4
      <3>3. Stump(Pop(c), s) /\ Len(Pop(c)) = Len(c) - 1
        BY <1>3, <1>4, <3>2, StumpOfPop
      <3>4. QED
        BY <1>4, <3>1, <3>3 DEF Stump
    <2>3. QED
      BY <2>1, <2>2
  <1> HIDE DEF r
  <1>12. QED
    BY <1>2, <1>3, <1>5, <1>6, <1>9, <1>10, <1>11, HandlerTakesOff

(* A region handler that logs a step and takes nodes off.                  *)
LEMMA RegionTakesOff ==
  ASSUME StacksInv, ReadableInv, NEW t \in Threads,
         NEW s, s = last_nodes[t], NEW f, NEW lo \in Nat, NEW g, Topmost(f, s, lo, g),
         steps' = steps \union {NewStep(node_ctr + 1, s)}, node_ctr' = node_ctr + 1,
         NEW r, Stump(r, s), lo <= Len(r), last_nodes' = [last_nodes EXCEPT ![t] = r],
         UNCHANGED <<tree, pendingFinish, taskMap>>,
         pc'[Master] = "done" => pc[Master] = "done"
  PROVE  ReadableInv'
  <1> DEFINE x == NewStep(node_ctr + 1, s)
  <1>1. TypeOK /\ node_ctr \in Nat /\ node_ctr' = node_ctr + 1 + 0
    BY StacksType
  <1>2. s # <<>>
    <2>1. lo < Len(Cleanup(s)) /\ Len(Cleanup(s)) <= Len(s) /\ Len(s) \in Nat
          /\ Len(Cleanup(s)) \in Nat
      BY StumpOfTop
    <2>2. Len(s) # 0
      BY <2>1
    <2>3. QED
      BY <2>2
  <1>3. IsFiniteSet({}) /\ 0 \in Nat /\ tree' = tree \union {}
    BY FS_EmptySet
  <1>4. Adds({}, {NewStep(node_ctr + 1, last_nodes[t])})
    <2>1. \A m \in {} : m.id \in (node_ctr + 2)..(node_ctr + 1 + 0)
      OBVIOUS
    <2>2. QED
      BY <1>1, <1>2, <1>3, <2>1, StepAdds
  <1>5. x.parent = Top(s).id
    BY DEF NewStep
  <1> HIDE DEF x
  <1>6. Adds({}, {x}) /\ x \in {x}
    BY <1>4 DEF x
  <1>7. QED
    BY <1>1, <1>5, <1>6, HandlerTakesOff

LEMMA BarrierBeginReads ==
  ASSUME StacksInv, ReadableInv, NEW t \in Threads, TPBarrierBegin(t)
  PROVE  ReadableInv'
  <1> DEFINE s == last_nodes[t]
             r == Pop(Pop(s))
             g == Ground(t)
  <1>1. InWork(t) /\ Cur(t).ctx = Implicit(t) /\ BarrierBegin(t) /\ pc[t] = "work"
    BY CodeWhere DEF TPBarrierBegin, InImplicitBody, BarrierBegin
  <1>2. PICK lo \in 0..Len(s) : Topmost(Cur(t), s, lo, g)
    BY <1>1, WorkStack
  <1>3. lo \in Nat /\ lo + 3 <= Len(s) /\ Len(s) \in Nat /\ s \in Seq(NodeRecord)
    <2>1. Cur(t).ctx > MaxTasks
      BY <1>1, TaskAssumption, RegionAssumption DEF Implicit, Threads
    <2>2. ~g.closed
      BY <1>1 DEF Ground, InRegionControl
    <2> HIDE DEF g
    <2>3. /\ Len(Cleanup(s)) \in Nat /\ Len(s) \in Nat /\ lo \in Nat
          /\ lo + 3 <= Len(Cleanup(s)) /\ Len(Cleanup(s)) <= Len(s)
      BY <1>2, <2>1, <2>2, StumpOfTop
    <2>4. QED
      BY <1>2, <2>3 DEF Topmost
  <1>4. Stump(r, s) /\ lo <= Len(r)
    <2>1. Stump(s, s) /\ Len(s) > 0
      BY <1>3, StumpOfAll
    <2>2. Stump(Pop(s), s) /\ Len(Pop(s)) = Len(s) - 1
      BY <1>3, <2>1, StumpOfPop
    <2>3. Len(Pop(s)) > 0
      BY <1>3, <2>2
    <2>4. Stump(Pop(Pop(s)), s) /\ Len(Pop(Pop(s))) = Len(Pop(s)) - 1
      <3> DEFINE p == Pop(s)
      <3>1. Stump(p, s) /\ Len(p) > 0
        BY <2>2, <2>3
      <3> HIDE DEF p
      <3>2. Stump(Pop(p), s) /\ Len(Pop(p)) = Len(p) - 1
        BY <1>3, <3>1, StumpOfPop
      <3>3. QED
        BY <3>2 DEF p
    <2>5. QED
      BY <1>3, <2>2, <2>4
  <1>5. /\ steps' = steps \union {NewStep(node_ctr + 1, s)} /\ node_ctr' = node_ctr + 1
        /\ last_nodes' = [last_nodes EXCEPT ![t] = r]
        /\ UNCHANGED <<tree, pendingFinish>> /\ pc' = [pc EXCEPT ![t] = "locking"]
    BY <1>1 DEF BarrierBegin
  <1>6. taskMap' = taskMap
    BY DEF TPBarrierBegin, Untouched
  <1>7. pc'[Master] = "done" => pc[Master] = "done"
    BY <1>5, StacksType DEF TypeOK
  <1> HIDE DEF r, g
  <1>8. QED
    BY <1>2, <1>3, <1>4, <1>5, <1>6, <1>7, RegionTakesOff

LEMMA ImplicitTaskEndReads ==
  ASSUME StacksInv, ReadableInv, NEW t \in Threads, TPImplicitTaskEnd(t)
  PROVE  ReadableInv'
  <1> DEFINE s == last_nodes[t]
             c == Cleanup(s)
             r == Pop(Pop(Pop(c)))
             g == Ground(t)
  <1>1. ImplicitTaskEnd(t) /\ frames[t] # <<>> /\ Cur(t).ctx = Implicit(t)
        /\ pc[t] \in {"work", "join"}
    BY DEF TPImplicitTaskEnd, ImplicitTaskEnd, MayEnd
  <1>2. ~Held(t) /\ Cur(t).ctx > MaxTasks
    BY <1>1, ImplicitOnTop
  <1>3. PICK lo \in 0..Len(s) : Topmost(Cur(t), s, lo, g)
    BY <1>1, <1>2, TopOfStack
  <1>4. Stump(c, s) /\ lo \in Nat /\ lo + 3 <= Len(c) /\ Len(c) \in Nat /\ s \in Seq(NodeRecord)
    <2>1. ~g.closed
      BY <1>1 DEF Ground, InRegionControl
    <2> HIDE DEF g
    <2>2. QED
      BY <1>2, <1>3, <2>1, StumpOfTop DEF Topmost
  <1>5. /\ steps' = steps \union {NewStep(node_ctr + 1, s)} /\ node_ctr' = node_ctr + 1
        /\ last_nodes' = [last_nodes EXCEPT ![t] = r]
        /\ UNCHANGED <<tree, pendingFinish>> /\ pc' = [pc EXCEPT ![t] = "ended"]
    BY <1>1 DEF ImplicitTaskEnd
  <1> HIDE DEF c
  <1>6. Stump(r, s) /\ lo <= Len(r)
    <2> DEFINE p1 == Pop(c)
               p2 == Pop(p1)
    <2>1. Stump(p1, s) /\ Len(p1) = Len(c) - 1
      <3>1. Len(c) > 0
        BY <1>4
      <3>2. QED
        BY <1>4, <3>1, StumpOfPop
    <2> HIDE DEF p1
    <2>2. Stump(p2, s) /\ Len(p2) = Len(p1) - 1
      <3>1. Len(p1) > 0
        BY <1>4, <2>1
      <3>2. QED
        BY <1>4, <2>1, <3>1, StumpOfPop
    <2> HIDE DEF p2
    <2>3. Stump(Pop(p2), s) /\ Len(Pop(p2)) = Len(p2) - 1
      <3>1. Len(p2) > 0
        BY <1>4, <2>1, <2>2
      <3>2. QED
        BY <1>4, <2>2, <3>1, StumpOfPop
    <2>4. lo <= Len(Pop(p2))
      BY <1>4, <2>1, <2>2, <2>3
    <2>5. QED
      BY <2>3, <2>4 DEF p1, p2
  <1>7. taskMap' = taskMap
    BY DEF TPImplicitTaskEnd, Untouched
  <1>8. pc'[Master] = "done" => pc[Master] = "done"
    BY <1>5, StacksType DEF TypeOK
  <1> HIDE DEF r, g
  <1>9. QED
    BY <1>3, <1>4, <1>5, <1>6, <1>7, <1>8, RegionTakesOff

----------------------------------------------------------------------------
(* Tasks move through taskMap                                              *)

LEMMA PushReads ==
  ASSUME StacksInv, ReadableInv, NEW t \in Threads, NEW N, Adds(N, {}),
         NEW M, M \subseteq tree', NEW q, Carries(q, last_nodes[t], M),
         last_nodes' = [last_nodes EXCEPT ![t] = q], Passes(M), Placed(N, M),
         PendingInTree',
         pc'[Master] = "done" => pc[Master] = "done"
  PROVE  ReadableInv'
  <1> SUFFICES ASSUME NEW s, s = last_nodes[t]
               PROVE  ReadableInv'
    OBVIOUS
  <1>1. TypeOK /\ s \in Seq(NodeRecord)
    BY StacksType
  <1>2. Stump(s, s) /\ Shed(s, s)'
    <2>1. Len(s) \in Nat
      BY <1>1
    <2>2. QED
      BY <1>1, <2>1, StumpOfAll DEF Shed
  <1>3. Stump(s, last_nodes[t]) /\ Carries(q, s, M)
    BY <1>2
  <1>4. QED
    BY <1>1, <1>2, <1>3, ThreadGrows

LEMMA AddsNone ==
  ASSUME node_ctr \in Nat, UNCHANGED <<tree, steps, node_ctr>>
  PROVE  Adds({}, {})
  <1>1. IsFiniteSet({})
    BY FS_EmptySet
  <1>2. QED
    BY <1>1 DEF Adds

LEMMA TaskBeginReads ==
  ASSUME StacksInv, ReadableInv, StacksInv', NEW t \in Threads, NEW k \in DOMAIN tasks,
         TaskBegin(t, k)
  PROVE  ReadableInv'
  <1> DEFINE s == last_nodes[t]
             a == taskMap[k]
  <1>1. node_ctr \in Nat /\ s \in Seq(NodeRecord)
    BY StacksType
  <1>2. k \in DOMAIN taskMap
    BY DEF TaskBegin, Require, StacksInv
  <1>3. a \in NodeRecord /\ a \in tree
    BY <1>2 DEF StacksInv, RecordsInv, ReadableInv, OpenInv, IsOpen
  <1>4. /\ last_nodes' = [last_nodes EXCEPT ![t] = Append(s, a)]
        /\ UNCHANGED <<tree, steps, node_ctr, pendingFinish, pc>>
    <2>1. UNCHANGED <<node_ctr, tree, steps, profilerRest, runtime>>
      BY DEF TaskBegin
    <2>2. last_nodes' = [last_nodes EXCEPT ![t] = Append(@, a)]
      BY DEF TaskBegin
    <2>3. QED
      BY <2>1, <2>2 DEF profilerRest, runtime
  <1>5. /\ DOMAIN taskMap' = DOMAIN taskMap \ {k}
        /\ \A j \in DOMAIN taskMap' : taskMap'[j] = taskMap[j]
    BY DEF TaskBegin, Erased, Restrict
  <1>6. \A j \in DOMAIN taskMap : taskMap[j] \in tree
    BY DEF ReadableInv, OpenInv, IsOpen
  <1>7. Carries(Append(s, a), s, {a})
    BY <1>1, <1>3, CarriesOne
  <1>8. Passes({a})
    BY <1>4, <1>5, <1>6 DEF Passes
  <1>9. Adds({}, {}) /\ Placed({}, {a}) /\ {a} \subseteq tree'
    BY <1>1, <1>3, <1>4, AddsNone DEF Placed
  <1>10. PendingInTree'
    BY <1>4 DEF ReadableInv, OpenInv, PendingInTree
  <1> DEFINE none == {}
             M == {a}
             q == Append(s, a)
  <1>11. /\ Adds(none, {}) /\ Placed(none, M) /\ M \subseteq tree' /\ Passes(M)
         /\ Carries(q, last_nodes[t], M) /\ last_nodes' = [last_nodes EXCEPT ![t] = q]
         /\ pc' = pc
    BY <1>4, <1>7, <1>8, <1>9
  <1> HIDE DEF none, M, q
  <1>12. QED
    BY <1>10, <1>11, PushReads

(* The task that is allocated gets a new place in taskMap, or none.        *)
LEMMA AllocPasses ==
  ASSUME StacksInv, ReadableInv, NEW N, NEW S, Adds(N, S), NEW a \in N, NEW M,
         \/ taskMap' = taskMap
         \/ taskMap' = [j \in DOMAIN taskMap \union {Len(tasks) + 1} |->
                          IF j = Len(tasks) + 1 THEN a ELSE taskMap[j]]
  PROVE  Passes(M)
  <1>1. CASE taskMap' = taskMap
    BY <1>1, MapStays
  <1>2. CASE taskMap' = [j \in DOMAIN taskMap \union {Len(tasks) + 1} |->
                          IF j = Len(tasks) + 1 THEN a ELSE taskMap[j]]
    <2>1. \A j \in DOMAIN taskMap : taskMap[j] \in tree /\ j # Len(tasks) + 1
      <3>1. DOMAIN taskMap \subseteq 1..Len(tasks) /\ Len(tasks) \in Nat
        BY LengthType DEF StacksInv, RecordsInv
      <3>2. \A j \in DOMAIN taskMap : taskMap[j] \in tree
        BY DEF ReadableInv, OpenInv, IsOpen
      <3>3. QED
        BY <3>1, <3>2
    <2>2. /\ DOMAIN taskMap' = DOMAIN taskMap \union {Len(tasks) + 1}
          /\ \A j \in DOMAIN taskMap : taskMap'[j] = taskMap[j]
          /\ taskMap'[Len(tasks) + 1] = a
      BY <1>2, <2>1
    <2>3. QED
      BY <2>1, <2>2 DEF Passes, Adds
  <1>3. QED
    BY <1>1, <1>2

LEMMA TwoNodes ==
  ASSUME NEW s \in Seq(NodeRecord), NEW f \in NodeRecord, NEW a \in NodeRecord
  PROVE  /\ IsFiniteSet({f, a})
         /\ Carries(s \o <<f, a>>, s, {f, a})
         /\ Append(Append(s, f), a) = s \o <<f, a>>
  <1>1. IsFiniteSet({f, a})
    <2>1. IsFiniteSet({f} \union {a}) /\ {f, a} = {f} \union {a}
      BY FS_Singleton, FS_Union
    <2>2. QED
      BY <2>1
  <1>2. Carries(s \o <<f, a>>, s, {f, a})
    <2> DEFINE q == s \o <<f, a>>
               n == Len(s)
    <2>1. /\ q \in Seq(NodeRecord) /\ Len(q) = n + 2 /\ \A i \in 1..n : q[i] = s[i]
          /\ q[n + 1] = f /\ q[n + 2] = a
      BY PushTwo
    <2>2. n \in Nat
      OBVIOUS
    <2> HIDE DEF q
    <2>3. Keeps(q, s, n) /\ n <= Len(q)
      BY <2>1, <2>2 DEF Keeps
    <2> HIDE DEF n
    <2>4. \A j \in 1..Len(q) : j > n => j = n + 1 \/ j = n + 2
      BY <2>1, <2>2
    <2>5. n + 1 \in 1..Len(q) /\ n + 2 \in 1..Len(q)
      BY <2>1, <2>2
    <2>6. /\ \A j \in 1..Len(q) : j > n => q[j] \in {f, a}
          /\ \A m \in {f, a} : \E j \in 1..Len(q) : q[j] = m
      BY <2>1, <2>4, <2>5
    <2>7. QED
      BY <2>1, <2>3, <2>6 DEF Carries, n, q
  <1>3. Append(Append(s, f), a) = s \o <<f, a>>
    OBVIOUS
  <1>4. QED
    BY <1>1, <1>2, <1>3

(* The nodes that captureTaskAlloc opens: the ASYNC node of the task and,  *)
(* when it is not open yet, the FINISH node of the context's tasks.        *)
LEMMA TaskAllocReads ==
  ASSUME StacksInv, ReadableInv, NEW t \in Threads, NEW now \in BOOLEAN, TaskAlloc(t, now)
  PROVE  ReadableInv'
  <1> DEFINE s == last_nodes[t]
             k == Len(tasks) + 1
             opened == Top(s).finish_flag
             f == IF opened THEN Top(s)
                  ELSE [NewNode(node_ctr + 2, "FINISH", Top(s)) EXCEPT !.finish_flag = TRUE]
             a == NewNode(IF opened THEN node_ctr + 2 ELSE node_ctr + 3, "ASYNC", f)
             s1 == IF opened THEN s ELSE Append(s, f)
  <1>1. InWork(t)
    BY CodeWhere DEF TaskAlloc
  <1>2. PICK lo \in 0..Len(s) : Topmost(Cur(t), s, lo, Ground(t))
    BY <1>1, WorkStack
  <1>3. /\ Handle(t, IF opened THEN 1 ELSE 2, {f, a}, IF now THEN Append(s1, a) ELSE s1)
        /\ taskMap' = IF now THEN taskMap
                      ELSE [j \in DOMAIN taskMap \union {k} |-> IF j = k THEN a ELSE taskMap[j]]
    BY DEF TaskAlloc
  <1>4. TypeOK /\ node_ctr \in Nat /\ s \in Seq(NodeRecord) /\ s # <<>>
    BY <1>1, StacksType, WorkStack
  <1>5. /\ Top(s) \in NodeRecord /\ Top(s) \in tree /\ Stump(s, s) /\ Len(s) > 0
        /\ lo \in Nat /\ lo <= Len(s)
    BY <1>4, TopType, TopInTree, StumpOfAll
  <1>6. /\ f \in NodeRecord
        /\ ~opened => f.id = node_ctr + 2 /\ f.parent = Top(s).id
    <2>1. CASE opened
      BY <1>5, <2>1
    <2>2. CASE ~opened
      <3>1. f = [id |-> node_ctr + 2, type |-> "FINISH", parent |-> Top(s).id,
                 finish_flag |-> TRUE]
        BY <2>2 DEF NewNode
      <3>2. node_ctr + 2 \in Nat /\ Top(s).id \in Nat
        BY <1>4, <1>5 DEF NodeRecord
      <3> HIDE DEF f
      <3>3. f \in NodeRecord /\ f.id = node_ctr + 2 /\ f.parent = Top(s).id
        BY <3>1, <3>2 DEF NodeRecord
      <3>4. QED
        BY <3>3
    <2>3. QED
      BY <2>1, <2>2
  <1>7. opened => f = Top(s)
    OBVIOUS
  <1>8. s1 = (IF opened THEN s ELSE Append(s, f)) /\ opened \in BOOLEAN
    BY <1>5 DEF NodeRecord
  <1>9. a = NewNode(IF opened THEN node_ctr + 2 ELSE node_ctr + 3, "ASYNC", f)
    OBVIOUS
  <1> HIDE DEF f
  <1>10. a \in NodeRecord /\ a.parent = f.id /\ a.id = IF opened THEN node_ctr + 2 ELSE node_ctr + 3
    BY <1>4, <1>6, NewNodeFields, NewNodeType
  <1>11. /\ now => taskMap' = taskMap
         /\ ~now => /\ taskMap' = [j \in DOMAIN taskMap \union {Len(tasks) + 1} |->
                                    IF j = Len(tasks) + 1 THEN a ELSE taskMap[j]]
                    /\ \E j \in DOMAIN taskMap' : taskMap'[j] = a
    <2>1. ~now => taskMap' = [j \in DOMAIN taskMap \union {k} |-> IF j = k THEN a ELSE taskMap[j]]
      BY <1>3
    <2> HIDE DEF a, k
    <2>2. ~now => k \in DOMAIN taskMap' /\ taskMap'[k] = a
      BY <2>1
    <2>3. QED
      BY <1>3, <2>1, <2>2 DEF k
  <1> HIDE DEF s1, a, opened
  <1>12. CASE opened
    <2>1. tree \union {f, a} = tree \union {a} /\ a.id = node_ctr + 2 /\ a.parent = Top(s).id
          /\ s1 = s
      BY <1>5, <1>7, <1>8, <1>10, <1>12
    <2>2. Handle(t, 1, {a}, IF now THEN Append(s, a) ELSE s)
      <3>1. Handle(t, 1, {f, a}, IF now THEN Append(s, a) ELSE s)
        BY <1>3, <1>12, <2>1
      <3>2. QED
        BY <2>1, <3>1 DEF Handle
    <2>3. CASE now
      <3>1. Handle(t, 1, {a}, Append(s, a)) /\ taskMap' = taskMap
        BY <1>11, <2>2, <2>3
      <3>2. QED
        BY <1>1, <1>2, <1>5, <1>10, <2>1, <3>1, OpensOne
    <2>4. CASE ~now
      <3> DEFINE N == {a}
                 none == {}
      <3>1. IsFiniteSet(N) /\ a \in N
        BY FS_Singleton
      <3>2. /\ Handle(t, 1, N, s) /\ Placed(N, none) /\ none \subseteq tree \union N
            /\ Carries(s, s, none)
            /\ \A m \in N : m.id \in (node_ctr + 2)..(node_ctr + 1 + 1)
            /\ \A m, m2 \in N : m.id = m2.id => m = m2
            /\ \A m \in N : \E p \in tree \union N : p.id = m.parent
        <4>1. Handle(t, 1, N, s)
          BY <2>2, <2>4
        <4>2. Placed(N, none)
          BY <1>11, <2>4 DEF Placed
        <4>3. Carries(s, s, none)
          BY <1>4, CarriesNone
        <4>4. \A m \in N : \E p \in tree \union N : p.id = m.parent
          BY <1>5, <2>1
        <4>5. \A m \in N : m.id \in (node_ctr + 2)..(node_ctr + 1 + 1)
          BY <1>4, <2>1
        <4>6. QED
          BY <4>1, <4>2, <4>3, <4>4, <4>5
      <3> HIDE DEF N, none
      <3>3. Adds(N, {NewStep(node_ctr + 1, s)}) => Passes(none)
        BY <1>11, <2>4, <3>1, AllocPasses
      <3>4. 1 \in Nat
        OBVIOUS
      <3>5. QED
        BY <1>1, <1>2, <1>5, <3>1, <3>2, <3>3, <3>4, HandleGrows
    <2>5. QED
      BY <2>3, <2>4
  <1>13. CASE ~opened
    <2> DEFINE N == {f, a}
               M == IF now THEN {f, a} ELSE {f}
               q == IF now THEN s \o <<f, a>> ELSE Append(s, f)
    <2>1. f.id = node_ctr + 2 /\ f.parent = Top(s).id /\ a.id = node_ctr + 3 /\ a.parent = f.id
          /\ s1 = Append(s, f)
      BY <1>6, <1>8, <1>10, <1>13
    <2>2. IsFiniteSet(N) /\ a \in N
      BY <1>4, <1>6, <1>10, TwoNodes
    <2>3. Handle(t, 2, N, q)
      <3>1. Handle(t, 2, N, IF now THEN Append(Append(s, f), a) ELSE Append(s, f))
        BY <1>3, <1>13, <2>1
      <3>2. q = IF now THEN Append(Append(s, f), a) ELSE Append(s, f)
        BY <1>4, <1>6, <1>10, TwoNodes
      <3>3. QED
        BY <3>1, <3>2
    <2>4. Carries(q, s, M)
      <3>1. CASE now
        BY <1>4, <1>6, <1>10, <3>1, TwoNodes
      <3>2. CASE ~now
        BY <1>4, <1>6, <3>2, CarriesOne
      <3>3. QED
        BY <3>1, <3>2
    <2>5. Placed(N, M) /\ M \subseteq tree \union N
      BY <1>11 DEF Placed
    <2>6. \A m \in N : m.id \in (node_ctr + 2)..(node_ctr + 1 + 2)
      BY <1>4, <2>1
    <2>7. \A m, m2 \in N : m.id = m2.id => m = m2
      BY <1>4, <2>1
    <2>8. \A m \in N : \E p \in tree \union N : p.id = m.parent
      BY <1>5, <2>1
    <2> HIDE DEF N, M, q
    <2>9. Adds(N, {NewStep(node_ctr + 1, s)}) => Passes(M)
      BY <1>11, <2>2, AllocPasses
    <2>10. 2 \in Nat
      OBVIOUS
    <2>11. QED
      BY <1>1, <1>2, <1>5, <2>2, <2>3, <2>4, <2>5, <2>6, <2>7, <2>8, <2>9, <2>10, HandleGrows
  <1>14. QED
    BY <1>8, <1>12, <1>13

----------------------------------------------------------------------------
(* The handlers of regions                                                 *)

LEMMA NodesAdd ==
  ASSUME node_ctr \in Nat, NEW N, IsFiniteSet(N), NEW n \in Nat,
         tree' = tree \union N, steps' = steps, node_ctr' = node_ctr + n,
         \A m \in N : m.id \in (node_ctr + 1)..(node_ctr + n),
         \A m, m2 \in N : m.id = m2.id => m = m2,
         \A m \in N : \E p \in tree \union N : p.id = m.parent
  PROVE  Adds(N, {})
  <1>1. IsFiniteSet({})
    BY FS_EmptySet
  <1>2. node_ctr' \in Nat /\ node_ctr <= node_ctr'
    OBVIOUS
  <1>3. QED
    BY <1>1, <1>2 DEF Adds

LEMMA NodeAdds ==
  ASSUME node_ctr \in Nat, NEW p \in tree, NEW a, a.id = node_ctr + 1, a.parent = p.id,
         tree' = tree \union {a}, steps' = steps, node_ctr' = node_ctr + 1
  PROVE  Adds({a}, {})
  <1> DEFINE N == {a}
  <1>1. IsFiniteSet(N)
    BY FS_Singleton
  <1>2. /\ \A m \in N : m = a
        /\ tree' = tree \union N
    OBVIOUS
  <1> HIDE DEF N
  <1>3. \A m \in N : m.id \in (node_ctr + 1)..(node_ctr + 1)
    BY <1>2
  <1>4. \A m, m2 \in N : m.id = m2.id => m = m2
    BY <1>2
  <1>5. \A m \in N : \E q \in tree \union N : q.id = m.parent
    BY <1>2
  <1>6. Adds(N, {})
    BY <1>1, <1>2, <1>3, <1>4, <1>5, NodesAdd
  <1>7. QED
    BY <1>6 DEF N

LEMMA ImplicitTaskBeginReads ==
  ASSUME StacksInv, ReadableInv, NEW t \in Threads, TPImplicitTaskBegin(t)
  PROVE  ReadableInv'
  <1> DEFINE s == last_nodes[t]
             a == NewNode(node_ctr + 1, "ASYNC", Top(s))
  <1>1. ImplicitTaskBegin(t) /\ t \in released /\ taskMap' = taskMap
    BY DEF TPImplicitTaskBegin, ImplicitTaskBegin, Untouched
  <1>2. TypeOK /\ node_ctr \in Nat /\ s \in Seq(NodeRecord)
    BY StacksType
  <1>3. s # <<>>
    <2>1. StackInv(t) /\ Held(t)
      BY <1>1 DEF StacksInv, ThreadOK, Held
    <2>2. PICK r \in Seq(NodeRecord) : s = r \o <<region_nodes[1], region_nodes[2]>>
      BY <2>1 DEF StackInv
    <2>3. Len(<<region_nodes[1], region_nodes[2]>>) = 2
      OBVIOUS
    <2>4. region_nodes \in NodeRecord \X NodeRecord
      BY <1>2 DEF TypeOK
    <2>5. region_nodes[1] \in NodeRecord /\ region_nodes[2] \in NodeRecord
      BY <2>4
    <2>6. Len(s) = Len(r) + 2 /\ Len(r) \in Nat
      BY <2>2, <2>5, PushTwo
    <2>7. Len(s) # 0
      BY <2>6
    <2>8. QED
      BY <2>7
  <1>4. Top(s) \in tree /\ Top(s) \in NodeRecord
    BY <1>2, <1>3, TopInTree, TopType
  <1>5. a \in NodeRecord /\ a.id = node_ctr + 1 /\ a.parent = Top(s).id
    BY <1>2, <1>4, NewNodeFields, NewNodeType
  <1>6. /\ tree' = tree \union {a} /\ steps' = steps /\ node_ctr' = node_ctr + 1
        /\ last_nodes' = [last_nodes EXCEPT ![t] = Append(s, a)]
        /\ pendingFinish' = pendingFinish /\ pc' = [pc EXCEPT ![t] = "work"]
    BY <1>1 DEF ImplicitTaskBegin
  <1> HIDE DEF a
  <1> DEFINE N == {a}
             q == Append(s, a)
  <1>7. Carries(q, s, N)
    BY <1>2, <1>5, CarriesOne
  <1>8. N \subseteq tree' /\ Placed(N, N)
    BY <1>6 DEF Placed
  <1>9. Adds(N, {})
    BY <1>2, <1>4, <1>5, <1>6, NodeAdds
  <1> HIDE DEF N, q
  <1>10. Passes(N)
    BY <1>1, <1>9, MapStays
  <1>11. PendingInTree'
    BY <1>6 DEF PendingInTree, ReadableInv, OpenInv
  <1>12. pc'[Master] = "done" => pc[Master] = "done"
    BY <1>2, <1>6 DEF TypeOK
  <1>13. last_nodes' = [last_nodes EXCEPT ![t] = q]
    BY <1>6 DEF q
  <1>14. QED
    BY <1>7, <1>8, <1>9, <1>10, <1>11, <1>12, <1>13, PushReads

(* A thread arrives: it opens the next phase f and its ASYNC node a.       *)
LEMMA ArriveReads ==
  ASSUME StacksInv, ReadableInv, NEW t \in Threads, NEW f \in NodeRecord, NEW a \in NodeRecord,
         NEW N, Adds(N, {}), a \in tree', f \in tree', N \subseteq {f, a},
         last_nodes' = [last_nodes EXCEPT ![t] = @ \o <<f, a>>],
         pendingFinish' = pendingFinish \/ pendingFinish' = Append(pendingFinish, f),
         taskMap' = taskMap, Arrive(t)
  PROVE  ReadableInv'
  <1> DEFINE s == last_nodes[t]
             q == s \o <<f, a>>
             M == {f, a}
  <1>1. TypeOK /\ s \in Seq(NodeRecord)
    BY StacksType
  <1>2. Carries(q, s, M)
    BY <1>1, TwoNodes
  <1>3. Placed(N, M) /\ M \subseteq tree' /\ last_nodes' = [last_nodes EXCEPT ![t] = q]
    BY DEF Placed
  <1> HIDE DEF M, q
  <1>4. Passes(M)
    BY MapStays
  <1>5. PendingInTree'
    <2>1. pendingFinish \in Seq(NodeRecord)
      BY <1>1 DEF TypeOK
    <2>2. \A k \in 1..Len(pendingFinish) : pendingFinish[k] \in tree'
      BY DEF ReadableInv, OpenInv, PendingInTree, Adds
    <2>3. CASE pendingFinish' = pendingFinish
      BY <2>2, <2>3 DEF PendingInTree
    <2>4. CASE pendingFinish' = Append(pendingFinish, f)
      <3>1. /\ Len(pendingFinish') = Len(pendingFinish) + 1 /\ Len(pendingFinish) \in Nat
            /\ \A i \in 1..Len(pendingFinish) : pendingFinish'[i] = pendingFinish[i]
            /\ pendingFinish'[Len(pendingFinish) + 1] = f
        BY <2>1, <2>4, PushOne
      <3>2. QED
        BY <2>2, <3>1 DEF PendingInTree
    <2>5. QED
      BY <2>3, <2>4
  <1>6. pc'[Master] = "done" => pc[Master] = "done"
    BY <1>1 DEF TypeOK, Arrive
  <1>7. QED
    BY <1>2, <1>3, <1>4, <1>5, <1>6, PushReads

LEMMA BarrierFirstReads ==
  ASSUME StacksInv, ReadableInv, NEW t \in Threads, BarrierFirst(t), taskMap' = taskMap
  PROVE  ReadableInv'
  <1> DEFINE s == last_nodes[t]
             f == NewNode(node_ctr + 1, "FINISH", Top(s))
             a == NewNode(node_ctr + 2, "ASYNC", f)
             N == {f, a}
  <1>1. TypeOK /\ node_ctr \in Nat /\ s \in Seq(NodeRecord) /\ s # <<>>
    <2>1. pc[t] = "locking"
      BY DEF BarrierFirst
    <2>2. Len(s) # 0
      BY <2>1, LockingStack
    <2>3. QED
      BY <2>2, StacksType
  <1>2. Top(s) \in tree /\ Top(s) \in NodeRecord
    BY <1>1, TopInTree, TopType
  <1>3. f \in NodeRecord /\ f.id = node_ctr + 1 /\ f.parent = Top(s).id
    BY <1>1, <1>2, NewNodeFields, NewNodeType
  <1>4. a \in NodeRecord /\ a.id = node_ctr + 2 /\ a.parent = f.id
    <2> HIDE DEF f
    <2>1. QED
      BY <1>1, <1>3, NewNodeFields, NewNodeType
  <1>5. /\ tree' = tree \union {f, a} /\ steps' = steps /\ node_ctr' = node_ctr + 2
        /\ last_nodes' = [last_nodes EXCEPT ![t] = @ \o <<f, a>>]
        /\ pendingFinish' = Append(pendingFinish, f) /\ Arrive(t)
    BY DEF BarrierFirst
  <1> HIDE DEF f, a
  <1>6. IsFiniteSet(N)
    BY <1>1, <1>3, <1>4, TwoNodes
  <1>7. /\ \A m \in N : m.id \in (node_ctr + 1)..(node_ctr + 2)
        /\ \A m, m2 \in N : m.id = m2.id => m = m2
        /\ \A m \in N : \E p \in tree \union N : p.id = m.parent
    BY <1>1, <1>2, <1>3, <1>4
  <1>8. tree' = tree \union N /\ N \subseteq {f, a} /\ f \in tree' /\ a \in tree'
    BY <1>5
  <1> HIDE DEF N
  <1>9. Adds(N, {})
    <2>1. 2 \in Nat
      OBVIOUS
    <2>2. QED
      BY <1>1, <1>5, <1>6, <1>7, <1>8, <2>1, NodesAdd
  <1>10. QED
    BY <1>3, <1>4, <1>5, <1>8, <1>9, ArriveReads

LEMMA BarrierOtherReads ==
  ASSUME StacksInv, ReadableInv, NEW t \in Threads, BarrierOther(t), abort' = "no",
         taskMap' = taskMap
  PROVE  ReadableInv'
  <1> DEFINE k == barrierCount[t] + 1
             f == LeftNode(k)
             a == NewNode(node_ctr + 1, "ASYNC", f)
             N == {a}
  <1>1. TypeOK /\ node_ctr \in Nat /\ barrierCount[t] \in Nat /\ pendingFinish \in Seq(NodeRecord)
    BY StacksType DEF TypeOK
  <1>2. k \in 1..Len(pendingFinish)
    <2>1. Len(pendingFinish) >= k
      BY DEF BarrierOther, Require, StacksInv
    <2>2. QED
      BY <1>1, <2>1
  <1>3. f = pendingFinish[k] /\ f \in NodeRecord /\ f \in tree
    <2>1. k \in DOMAIN pendingFinish
      BY <1>1, <1>2
    <2> HIDE DEF k
    <2>2. QED
      BY <1>1, <1>2, <2>1 DEF LeftNode, ReadableInv, OpenInv, PendingInTree
  <1>4. /\ tree' = tree \union {a} /\ steps' = steps /\ node_ctr' = node_ctr + 1
        /\ last_nodes' = [last_nodes EXCEPT ![t] = @ \o <<f, a>>]
        /\ pendingFinish' = pendingFinish /\ Arrive(t)
    BY DEF BarrierOther
  <1> HIDE DEF f, k
  <1>5. a \in NodeRecord /\ a.id = node_ctr + 1 /\ a.parent = f.id
    <2>1. node_ctr + 1 \in Nat /\ f \in NodeRecord
      BY <1>1, <1>3
    <2>2. QED
      BY <2>1, NewNodeFields, NewNodeType
  <1> HIDE DEF a
  <1>6. N \subseteq {f, a} /\ f \in tree' /\ a \in tree'
    BY <1>3, <1>4
  <1>7. Adds(N, {})
    BY <1>1, <1>3, <1>4, <1>5, NodeAdds
  <1> HIDE DEF N
  <1>8. QED
    BY <1>3, <1>4, <1>5, <1>6, <1>7, ArriveReads

LEMMA StillReads ==
  ASSUME StacksInv, ReadableInv, NEW t \in Threads,
         TPBarrierEnd(t) \/ TPCountImplicitEnd(t) \/ TaskwaitEnd(t) \/ TPParallelEnd
  PROVE  ReadableInv'
  <1>1. TypeOK
    BY StacksType
  <1>2. /\ UNCHANGED <<tree, steps, last_nodes, node_ctr, pendingFinish>>
        /\ taskMap' = taskMap /\ (pc'[Master] = "done" => pc[Master] = "done")
    <2>1. CASE TPBarrierEnd(t)
      <3>1. BarrierEnd(t) /\ taskMap' = taskMap
        BY <2>1 DEF TPBarrierEnd, Untouched
      <3>2. UNCHANGED profiler /\ pc' = [pc EXCEPT ![t] = "work"]
        BY <3>1 DEF BarrierEnd
      <3>3. QED
        BY <1>1, <3>1, <3>2 DEF profiler, TypeOK
    <2>2. CASE TPCountImplicitEnd(t)
      <3>1. CountImplicitEnd(t) /\ taskMap' = taskMap
        BY <2>2 DEF TPCountImplicitEnd, Untouched
      <3>2. pc' = [pc EXCEPT ![t] = IF t = Master THEN "spin" ELSE "idle"]
        BY <3>1 DEF CountImplicitEnd
      <3>3. pc'[Master] = "done" => pc[Master] = "done"
        BY <1>1, <3>2 DEF TypeOK
      <3>4. QED
        BY <3>1, <3>3 DEF CountImplicitEnd
    <2>3. CASE TaskwaitEnd(t)
      <3>1. UNCHANGED <<profiler, runtime, taskMap>>
        BY <2>3 DEF TaskwaitEnd
      <3>2. QED
        BY <3>1 DEF profiler, runtime
    <2>4. CASE TPParallelEnd
      <3>1. ParallelEnd /\ taskMap' = taskMap
        BY <2>4 DEF TPParallelEnd, Untouched
      <3>2. pc' = [pc EXCEPT ![Master] = "idle"]
        BY <3>1 DEF ParallelEnd
      <3>3. pc'[Master] = "done" => pc[Master] = "done"
        BY <1>1, <3>2 DEF TypeOK
      <3>4. QED
        BY <3>1, <3>3 DEF ParallelEnd
    <2>5. QED
      BY <2>1, <2>2, <2>3, <2>4
  <1>3. QED
    BY <1>1, <1>2, SameKept

(* The last step of the run is the child of the root.                      *)
LEMMA FinishProfileReads ==
  ASSUME StacksInv, ReadableInv, TPFinishProfile
  PROVE  ReadableInv'
  <1>1. FinishProfile /\ taskMap' = taskMap /\ pc[Master] = "idle"
    BY DEF TPFinishProfile, FinishProfile, Untouched
  <1>2. Master \in Threads /\ TypeOK /\ node_ctr \in Nat
    BY StacksType, RegionAssumption DEF Threads, Master
  <1>3. last_nodes[Master] = <<Root>>
    <2>1. Quiet
      BY <1>1, SerialQuiet DEF Active
    <2>2. QED
      BY <1>2, <2>1, QuietNodes
  <1>4. last_nodes[Master] # <<>> /\ Top(last_nodes[Master]) = Root
    <2>1. <<Root>> # <<>> /\ Len(<<Root>>) = 1 /\ <<Root>>[1] = Root
      OBVIOUS
    <2>2. QED
      BY <1>3, <2>1 DEF Top
  <1> DEFINE x == NewStep(node_ctr + 1, last_nodes[Master])
             none == {}
             S == {x}
  <1>5. /\ steps' = steps \union S /\ node_ctr' = node_ctr + 1 + 0
        /\ UNCHANGED <<last_nodes, tree, pendingFinish>> /\ tree' = tree \union none
    <2>1. steps' = steps \union S /\ node_ctr' = node_ctr + 1 /\ UNCHANGED <<last_nodes, tree, pendingFinish>>
      BY <1>1 DEF FinishProfile
    <2>2. QED
      BY <1>2, <2>1
  <1>6. Adds(none, S)
    <2>1. IsFiniteSet(none) /\ 0 \in Nat
      BY FS_EmptySet
    <2>2. /\ \A m \in none : m.id \in (node_ctr + 2)..(node_ctr + 1 + 0)
          /\ \A m, m2 \in none : m.id = m2.id => m = m2
          /\ \A m \in none : \E p \in tree \union none : p.id = m.parent
      OBVIOUS
    <2> HIDE DEF none
    <2>3. QED
      BY <1>2, <1>4, <1>5, <2>1, <2>2, StepAdds
  <1>7. HasChild(Root)'
    <2>1. x.parent = Root.id /\ x \in steps'
      BY <1>4, <1>5 DEF NewStep
    <2> HIDE DEF x
    <2>2. \E y \in steps' : y.parent = Root.id
      BY <2>1
    <2>3. QED
      BY <2>2 DEF HasChild, Root
  <1>8. \A n : IsOpen(n)' <=> IsOpen(n)
    BY <1>1, <1>5 DEF IsOpen
  <1>9. \A n \in none : IsOpen(n)'
    OBVIOUS
  <1> HIDE DEF none, S
  <1>10. /\ \A n : IsOpen(n) => IsOpen(n)' \/ HasChild(n)'
         /\ \A n : IsOpen(n)' => n \in tree'
         /\ PendingInTree'
    BY <1>5, <1>8 DEF ReadableInv, OpenInv, PendingInTree
  <1>11. QED
    BY <1>2, <1>6, <1>7, <1>9, <1>10, TreeGrows

(* A region is opened: both its FINISH nodes on the stacks of the team the *)
(* profiler expects, of which the master is one.                           *)
LEMMA ParallelBeginReads ==
  ASSUME StacksInv, ReadableInv, StacksInv', NEW req, NEW b, TPParallelBegin(req, b)
  PROVE  ReadableInv'
  <1> DEFINE n == ExpectedTeam(req)
             f1 == NewNode(node_ctr + 2, "FINISH", Top(last_nodes[Master]))
             f2 == NewNode(node_ctr + 3, "FINISH", f1)
             N == {f1, f2}
             x == NewStep(node_ctr + 1, last_nodes[Master])
  <1>1. ParallelBegin(req, b) /\ taskMap' = taskMap /\ pc[Master] = "idle"
    BY DEF TPParallelBegin, ParallelBegin, Untouched
  <1>2. TypeOK /\ node_ctr \in Nat /\ Master \in Threads
        /\ \A t \in Threads : last_nodes[t] \in Seq(NodeRecord)
    BY StacksType, RegionAssumption DEF Threads, Master
  <1>3. last_nodes[Master] # <<>>
    <2>1. Quiet
      BY <1>1, SerialQuiet DEF Active
    <2>2. last_nodes[Master] = <<Root>> /\ <<Root>> # <<>>
      BY <1>2, <2>1, QuietNodes
    <2>3. QED
      BY <2>2
  <1>4. Top(last_nodes[Master]) \in tree /\ Top(last_nodes[Master]) \in NodeRecord
    BY <1>2, <1>3, TopInTree, TopType
  <1>5. f1 \in NodeRecord /\ f1.id = node_ctr + 2 /\ f1.parent = Top(last_nodes[Master]).id
    <2>1. node_ctr + 2 \in Nat
      BY <1>2
    <2>2. QED
      BY <1>4, <2>1, NewNodeFields, NewNodeType
  <1>6. f2 \in NodeRecord /\ f2.id = node_ctr + 3 /\ f2.parent = f1.id
    <2> HIDE DEF f1
    <2>1. node_ctr + 3 \in Nat
      BY <1>2
    <2>2. QED
      BY <1>5, <2>1, NewNodeFields, NewNodeType
  <1>7. /\ steps' = steps \union {x} /\ tree' = tree \union {f1, f2} /\ node_ctr' = node_ctr + 3
        /\ last_nodes' = [t \in Threads |->
             IF t \in 1..n THEN last_nodes[t] \o <<f1, f2>> ELSE last_nodes[t]]
        /\ num_threads' = n /\ pendingFinish' = <<>>
        /\ pc' = [pc EXCEPT ![Master] = "forked"]
    BY <1>1 DEF ParallelBegin, ForgetBarriers
  <1>8. n \in Nat /\ Master \in 1..n
    <2>1. num_threads' \in Threads
      BY DEF StacksInv, TeamInv, TypeOK
    <2> HIDE DEF n
    <2>2. QED
      BY <1>7, <2>1, RegionAssumption DEF Threads, Master
  <1> HIDE DEF f1, f2, n
  <1>9. Adds(N, {x})
    <2>1. IsFiniteSet(N)
      BY <1>5, <1>6, <1>2, TwoNodes
    <2>2. /\ \A m \in N : m.id \in (node_ctr + 2)..(node_ctr + 1 + 2)
          /\ \A m, m2 \in N : m.id = m2.id => m = m2
          /\ \A m \in N : \E p \in tree \union N : p.id = m.parent
      BY <1>2, <1>4, <1>5, <1>6
    <2>3. 2 \in Nat /\ node_ctr' = node_ctr + 1 + 2
      BY <1>2, <1>7
    <2>4. tree' = tree \union N
      BY <1>7
    <2> HIDE DEF N
    <2>5. QED
      BY <1>2, <1>3, <1>7, <2>1, <2>2, <2>3, <2>4, StepAdds
  <1>10. \A t \in Threads :
           /\ Len(last_nodes'[t]) \in Nat /\ Len(last_nodes[t]) \in Nat
           /\ Len(last_nodes[t]) <= Len(last_nodes'[t])
           /\ \A j \in 1..Len(last_nodes[t]) : last_nodes'[t][j] = last_nodes[t][j]
           /\ \A j \in 1..Len(last_nodes'[t]) :
                j > Len(last_nodes[t]) => last_nodes'[t][j] \in {f1, f2}
    <2> SUFFICES ASSUME NEW t \in Threads
                 PROVE  /\ Len(last_nodes'[t]) \in Nat /\ Len(last_nodes[t]) \in Nat
                        /\ Len(last_nodes[t]) <= Len(last_nodes'[t])
                        /\ \A j \in 1..Len(last_nodes[t]) : last_nodes'[t][j] = last_nodes[t][j]
                        /\ \A j \in 1..Len(last_nodes'[t]) :
                             j > Len(last_nodes[t]) => last_nodes'[t][j] \in {f1, f2}
      OBVIOUS
    <2>1. CASE t \notin 1..n
      <3>1. last_nodes'[t] = last_nodes[t]
        BY <1>7, <2>1
      <3>2. Len(last_nodes[t]) \in Nat
        BY <1>2
      <3>3. QED
        BY <3>1, <3>2
    <2>2. CASE t \in 1..n
      <3>1. last_nodes'[t] = last_nodes[t] \o <<f1, f2>>
        BY <1>7, <2>2
      <3>2. Carries(last_nodes[t] \o <<f1, f2>>, last_nodes[t], {f1, f2})
        BY <1>2, <1>5, <1>6, TwoNodes
      <3>3. Carries(last_nodes'[t], last_nodes[t], {f1, f2})
        BY <3>1, <3>2
      <3>4. Len(last_nodes[t]) \in Nat
        BY <1>2
      <3>5. QED
        BY <3>3, <3>4 DEF Carries, Keeps
    <2>3. QED
      BY <2>1, <2>2
  <1>11. \A m \in N : IsOpen(m)'
    <2>1. last_nodes'[Master] = last_nodes[Master] \o <<f1, f2>>
      BY <1>2, <1>7, <1>8
    <2>2. Carries(last_nodes[Master] \o <<f1, f2>>, last_nodes[Master], {f1, f2})
      BY <1>2, <1>5, <1>6, TwoNodes
    <2>3. \A m \in N : \E j \in 1..Len(last_nodes'[Master]) : last_nodes'[Master][j] = m
      BY <2>1, <2>2 DEF Carries
    <2> HIDE DEF N
    <2>4. QED
      BY <1>2, <2>3 DEF IsOpen
  <1>12. ASSUME NEW m, IsOpen(m)
         PROVE  IsOpen(m)'
    <2>1. CASE \E k \in DOMAIN taskMap : taskMap[k] = m
      BY <1>1, <2>1 DEF IsOpen
    <2>2. CASE \E t \in Threads : \E j \in 1..Len(last_nodes[t]) : last_nodes[t][j] = m
      <3>1. PICK t \in Threads : \E j \in 1..Len(last_nodes[t]) : last_nodes[t][j] = m
        BY <2>2
      <3>2. PICK j \in 1..Len(last_nodes[t]) : last_nodes[t][j] = m
        BY <3>1
      <3>3. j \in 1..Len(last_nodes'[t]) /\ last_nodes'[t][j] = m
        BY <1>10, <3>2
      <3>4. QED
        BY <3>3 DEF IsOpen
    <2>3. QED
      BY <1>12, <2>1, <2>2 DEF IsOpen
  <1>13. ASSUME NEW m, IsOpen(m)'
         PROVE  m \in tree'
    <2>1. \A p : IsOpen(p) => p \in tree'
      BY <1>7 DEF ReadableInv, OpenInv
    <2>2. CASE \E k \in DOMAIN taskMap' : taskMap'[k] = m
      BY <1>1, <2>1, <2>2 DEF IsOpen
    <2>3. CASE \E t \in Threads : \E j \in 1..Len(last_nodes'[t]) : last_nodes'[t][j] = m
      <3>1. PICK t \in Threads : \E j \in 1..Len(last_nodes'[t]) : last_nodes'[t][j] = m
        BY <2>3
      <3>2. PICK j \in 1..Len(last_nodes'[t]) : last_nodes'[t][j] = m
        BY <3>1
      <3>3. CASE j > Len(last_nodes[t])
        BY <1>7, <1>10, <3>2, <3>3
      <3>4. CASE j <= Len(last_nodes[t])
        <4>1. j \in 1..Len(last_nodes[t]) /\ last_nodes[t][j] = m
          BY <1>10, <3>2, <3>4
        <4>2. IsOpen(m)
          BY <4>1 DEF IsOpen
        <4>3. QED
          BY <2>1, <4>2
      <3>5. QED
        BY <1>10, <3>3, <3>4
    <2>4. QED
      BY <1>13, <2>2, <2>3 DEF IsOpen
  <1>14. PendingInTree'
    BY <1>7 DEF PendingInTree
  <1>15. pc'[Master] = "done" => pc[Master] = "done"
    BY <1>2, <1>7 DEF TypeOK
  <1>16. /\ \A m : IsOpen(m) => IsOpen(m)' \/ HasChild(m)'
         /\ \A m : IsOpen(m)' => m \in tree'
    BY <1>12, <1>13
  <1> DEFINE S == {x}
  <1>17. Adds(N, S)
    BY <1>9
  <1> HIDE DEF N, S
  <1>18. QED
    BY <1>2, <1>11, <1>14, <1>15, <1>16, <1>17, TreeGrows

----------------------------------------------------------------------------
(* The theorem                                                             *)

LEMMA ReadableInit == TasksInit => ReadableInv
  <1> SUFFICES ASSUME TasksInit PROVE ReadableInv
    OBVIOUS
  <1>1. /\ tree = {Root} /\ steps = {} /\ node_ctr = 1 /\ pendingFinish = <<>>
        /\ last_nodes = [t \in Threads |-> IF t = Master THEN <<Root>> ELSE <<>>]
        /\ pc = [t \in Threads |-> "idle"] /\ taskMap = <<>>
    BY DEF TasksInit, Init
  <1>2. Root.id = 1 /\ Master \in Threads
    BY RegionAssumption DEF Root, Threads, Master
  <1>3. IdsInv
    <2>1. IsFiniteSet(tree) /\ IsFiniteSet(steps)
      BY <1>1, FS_Singleton, FS_EmptySet
    <2>2. /\ \A n \in tree \union steps : n.id \in 1..node_ctr
          /\ \A m, n \in tree : m.id = n.id => m = n
          /\ \A y, z \in steps : y.id = z.id => y = z
          /\ \A n \in tree : \A y \in steps : n.id # y.id
      BY <1>1, <1>2
    <2>3. QED
      BY <2>1, <2>2 DEF IdsInv
  <1>4. ParentsInv
    BY <1>1 DEF ParentsInv
  <1>5. \A n : IsOpen(n) <=> n = Root
    <2>1. DOMAIN taskMap = {}
      BY <1>1
    <2>2. last_nodes[Master] = <<Root>> /\ Len(<<Root>>) = 1 /\ <<Root>>[1] = Root
      BY <1>1, <1>2
    <2>3. \A t \in Threads : t # Master => Len(last_nodes[t]) = 0
      BY <1>1
    <2>4. ASSUME NEW n, IsOpen(n) PROVE n = Root
      <3>1. PICK t \in Threads : \E j \in 1..Len(last_nodes[t]) : last_nodes[t][j] = n
        BY <2>1, <2>4 DEF IsOpen
      <3>2. t = Master
        BY <2>3, <3>1
      <3>3. QED
        BY <2>2, <3>1, <3>2
    <2>5. IsOpen(Root)
      <3>1. 1 \in 1..Len(last_nodes[Master]) /\ last_nodes[Master][1] = Root
        BY <2>2
      <3>2. QED
        BY <1>2, <3>1 DEF IsOpen
    <2>6. QED
      BY <2>4, <2>5
  <1>6. OpenInv /\ LeavesInv
    BY <1>1, <1>2, <1>5 DEF OpenInv, PendingInTree, LeavesInv
  <1>7. QED
    BY <1>3, <1>4, <1>6 DEF ReadableInv

LEMMA ReadableThreadStep ==
  ASSUME StacksInv, ReadableInv, StacksInv', NEW t \in Threads, TaskThreadStep(t)
  PROVE  ReadableInv'
  <1>1. CASE TPBarrierArrive(t)
    <2>1. taskMap' = taskMap /\ (BarrierFirst(t) \/ BarrierOther(t))
      BY <1>1 DEF TPBarrierArrive, Untouched
    <2>2. abort' = "no"
      BY DEF StacksInv
    <2>3. QED
      BY <2>1, <2>2, BarrierFirstReads, BarrierOtherReads
  <1>2. QED
    BY <1>1, ImplicitTaskBeginReads, BarrierBeginReads, StillReads, ImplicitTaskEndReads,
       TaskAllocReads, TaskBeginReads, TaskEndReads, TaskwaitBeginReads, BlockBeginReads,
       LoopChunkReads, LoopDrainedReads DEF TaskThreadStep

LEMMA ReadableStep ==
  ASSUME StacksInv, ReadableInv, StacksInv', [TasksNext]_allVars
  PROVE  ReadableInv'
  <1>1. TypeOK
    BY StacksType
  <1>2. CASE UNCHANGED allVars
    <2>1. UNCHANGED <<tree, steps, last_nodes, taskMap, pendingFinish, node_ctr, pc>>
      BY <1>2 DEF allVars, vars, taskVars, profiler, runtime
    <2>2. QED
      BY <1>1, <2>1, SameKept
  <1>3. CASE Finished /\ UNCHANGED taskVars
    BY <1>2, <1>3 DEF Finished, allVars
  <1>4. CASE TPParallelEnd
    <2>1. Master \in Threads
      BY RegionAssumption DEF Threads, Master
    <2>2. QED
      BY <1>4, <2>1, StillReads
  <1>5. QED
    BY <1>2, <1>3, <1>4, ParallelBeginReads, ReadableThreadStep, FinishProfileReads
    DEF TasksNext

(* The analyzer can read every tree the profiler writes, in a program that *)
(* waits for its tasks before each barrier and at the end of the chunks of *)
(* a loop: ids are given once to nodes and steps together, the parent of   *)
(* every node and step has been written, and, what ComputeNodeWork relies  *)
(* on, no node is left without a child, whichever thread opened it and     *)
(* whichever closed it.                                                    *)
THEOREM TreeStaysReadable ==
  ASSUME WaitsAreThere
  PROVE  TasksSpec => []TreeIsReadable
  <1>1. StacksInv /\ ReadableInv /\ StacksInv' /\ [TasksNext]_allVars => ReadableInv'
    BY ReadableStep
  <1>2. TasksInit => ReadableInv
    BY ReadableInit
  <1>3. StacksInv /\ ReadableInv => TreeIsReadable
    BY ReadableAtTheEnd
  <1>4. QED
    BY <1>1, <1>2, <1>3, StacksInvariant, PTL DEF TasksSpec

=============================================================================

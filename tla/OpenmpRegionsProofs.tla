------------------------ MODULE OpenmpRegionsProofs ------------------------
(***************************************************************************)
(* Machine-checked proofs about OpenmpRegions, for every number of         *)
(* threads, processors, regions and barriers the assumption allows.        *)
(***************************************************************************)
EXTENDS OpenmpRegions, FiniteSetTheorems, SequenceTheorems, TLAPS

(* What the helpers on stacks return.                                      *)
LEMMA TopType ==
  ASSUME NEW s \in Seq(NodeRecord)
  PROVE  Top(s) \in NodeRecord
  <1>1. NoNode \in NodeRecord
    BY DEF NoNode, NodeRecord
  <1>2. s # <<>> => s[Len(s)] \in NodeRecord
    BY EmptySeq, ElementOfSeq
  <1>3. QED
    BY <1>1, <1>2 DEF Top

LEMMA PopType ==
  ASSUME NEW s \in Seq(NodeRecord)
  PROVE  Pop(s) \in Seq(NodeRecord)
  BY DEF Pop

LEMMA CleanupType ==
  ASSUME NEW s \in Seq(NodeRecord)
  PROVE  Cleanup(s) \in Seq(NodeRecord)
  BY PopType DEF Cleanup

LEMMA NewNodeType ==
  ASSUME NEW i \in Nat, NEW ty \in {"ASYNC", "FINISH"}, NEW p \in NodeRecord
  PROVE  NewNode(i, ty, p) \in NodeRecord
  BY DEF NewNode, NodeRecord

LEMMA NewStepType ==
  ASSUME NEW i \in Nat, NEW s \in Seq(NodeRecord)
  PROVE  NewStep(i, s) \in [id : Nat, parent : Nat]
  <1>1. Top(s).id \in Nat
    BY TopType DEF NodeRecord
  <1>2. QED
    BY <1>1 DEF NewStep

LEMMA RootType == Root \in NodeRecord
  BY DEF Root, NodeRecord

(* A push of one or two nodes, and a pop, by length and by index.          *)
LEMMA PopStack ==
  ASSUME NEW s \in Seq(NodeRecord), Len(s) > 0
  PROVE  /\ Pop(s) \in Seq(NodeRecord)
         /\ Len(Pop(s)) = Len(s) - 1
         /\ \A i \in 1..(Len(s) - 1) : Pop(s)[i] = s[i]
         /\ Top(s) = s[Len(s)]
  <1>1. s # <<>>
    BY EmptySeq
  <1>2. Top(s) = s[Len(s)]
    BY <1>1 DEF Top
  <1>3. \A i \in 1..(Len(s) - 1) : s[i] \in NodeRecord
    BY ElementOfSeq, LenProperties
  <1>4. Len(s) \in Nat /\ Len(s) - 1 \in Int
    BY LenProperties
  <1>5. /\ SubSeq(s, 1, Len(s) - 1) \in Seq(NodeRecord)
        /\ Len(SubSeq(s, 1, Len(s) - 1)) = IF 1 <= Len(s) - 1 THEN Len(s) - 1 - 1 + 1 ELSE 0
        /\ \A i \in 1..(Len(s) - 1 - 1 + 1) : SubSeq(s, 1, Len(s) - 1)[i] = s[1 + i - 1]
    BY <1>3, <1>4, SubSeqProperties
  <1>6. Len(Pop(s)) = Len(s) - 1
    <2>1. \A n \in Nat : n > 0 => (IF 1 <= n - 1 THEN n - 1 - 1 + 1 ELSE 0) = n - 1
      OBVIOUS
    <2>2. QED
      BY <1>4, <1>5, <2>1 DEF Pop
  <1>7. ASSUME NEW i \in 1..(Len(s) - 1)
        PROVE  Pop(s)[i] = s[i]
    <2>1. i \in 1..(Len(s) - 1 - 1 + 1) /\ 1 + i - 1 = i
      BY <1>4
    <2>2. QED
      BY <1>5, <2>1 DEF Pop
  <1>8. QED
    BY <1>2, <1>5, <1>6, <1>7 DEF Pop

LEMMA PushOne ==
  ASSUME NEW s \in Seq(NodeRecord), NEW a \in NodeRecord
  PROVE  /\ Append(s, a) \in Seq(NodeRecord)
         /\ Len(Append(s, a)) = Len(s) + 1
         /\ \A i \in 1..Len(s) : Append(s, a)[i] = s[i]
         /\ Append(s, a)[Len(s) + 1] = a
  OBVIOUS

LEMMA PushTwo ==
  ASSUME NEW s \in Seq(NodeRecord), NEW f \in NodeRecord, NEW a \in NodeRecord
  PROVE  /\ s \o <<f, a>> \in Seq(NodeRecord)
         /\ Len(s \o <<f, a>>) = Len(s) + 2
         /\ \A i \in 1..Len(s) : (s \o <<f, a>>)[i] = s[i]
         /\ (s \o <<f, a>>)[Len(s) + 1] = f
         /\ (s \o <<f, a>>)[Len(s) + 2] = a
  <1>1. <<f, a>> \in Seq(NodeRecord) /\ Len(<<f, a>>) = 2
    OBVIOUS
  <1>2. QED
    BY <1>1

----------------------------------------------------------------------------
LEMMA TypeInit == Init => TypeOK
<1> SUFFICES ASSUME Init PROVE TypeOK
  OBVIOUS
<1>1. last_nodes \in [Threads -> Seq(NodeRecord)]
  BY RootType DEF Init
<1>2. pc \in [Threads -> Control]
  BY DEF Init, Control
<1>3. num_threads \in Threads /\ team \in Threads
  BY RegionAssumption DEF Init, Threads
<1>4. region_nodes \in NodeRecord \X NodeRecord /\ tree \subseteq NodeRecord
  BY RootType DEF Init
<1>5. QED
  BY <1>1, <1>2, <1>3, <1>4, RegionAssumption DEF Init, TypeOK

LEMMA TypeStep == TypeOK /\ [Next]_vars => TypeOK'
<1> SUFFICES ASSUME TypeOK, [Next]_vars PROVE TypeOK'
  OBVIOUS
<1> USE DEF TypeOK
<1>a. Master \in Threads
  BY RegionAssumption DEF Master, Threads
<1>b. \A t \in Threads : last_nodes[t] \in Seq(NodeRecord)
  OBVIOUS
<1>c. \A t \in Threads : NewStep(node_ctr + 1, last_nodes[t]) \in [id : Nat, parent : Nat]
  <2>1. node_ctr + 1 \in Nat
    OBVIOUS
  <2>2. QED
    BY <1>b, <2>1, NewStepType
<1>1. ASSUME NEW req \in Requests, NEW b \in 0..MaxBarriers, ParallelBegin(req, b)
      PROVE  TypeOK'
  <2> DEFINE f1 == NewNode(node_ctr + 2, "FINISH", Top(last_nodes[Master]))
             f2 == NewNode(node_ctr + 3, "FINISH", f1)
             n  == ExpectedTeam(req)
             m  == ForkedTeam(req)
  <2>1. f1 \in NodeRecord
    BY <1>a, <1>b, TopType, NewNodeType
  <2> HIDE DEF f1
  <2>2. f2 \in NodeRecord
    BY <2>1, NewNodeType
  <2> HIDE DEF f2
  <2>3. NewStep(node_ctr + 1, last_nodes[Master]) \in [id : Nat, parent : Nat]
    BY <1>a, <1>c
  <2>4. n \in Threads /\ m \in Threads
    BY RegionAssumption DEF Threads, ExpectedTeam, ForkedTeam
  <2> HIDE DEF n, m
  <2>5. last_nodes' \in [Threads -> Seq(NodeRecord)]
    <3>1. \A t \in Threads : last_nodes[t] \o <<f1, f2>> \in Seq(NodeRecord)
      BY <1>b, <2>1, <2>2, PushTwo
    <3>2. last_nodes' = [t \in Threads |->
             IF t \in 1..n THEN last_nodes[t] \o <<f1, f2>> ELSE last_nodes[t]]
      BY <1>1 DEF ParallelBegin, f1, f2, n
    <3>3. QED
      BY <3>1, <3>2
  <2>6. tree' \subseteq NodeRecord /\ steps' \subseteq [id : Nat, parent : Nat]
    BY <1>1, <2>1, <2>2, <2>3 DEF ParallelBegin, f1, f2
  <2>7. num_threads' \in Threads /\ team' \in Threads /\ released' \subseteq Threads
    <3>1. num_threads' = n /\ team' = m /\ released' = released \union 1..m
      BY <1>1 DEF ParallelBegin, n, m
    <3>2. 1..m \subseteq Threads
      BY <2>4, RegionAssumption DEF Threads
    <3>3. QED
      BY <3>1, <3>2, <2>4
  <2>8. region_nodes' \in NodeRecord \X NodeRecord
    BY <1>1, <2>1, <2>2 DEF ParallelBegin, f1, f2
  <2>9. pc' \in [Threads -> Control]
    BY <1>1 DEF ParallelBegin, Control
  <2>10. /\ node_ctr' \in Nat /\ barrierCount' \in [Threads -> Nat]
         /\ pendingFinish' \in Seq(NodeRecord) /\ implEndCount' \in Nat
         /\ barriers' \in 0..MaxBarriers /\ arrived' \in [Threads -> Nat]
         /\ region' \in 0..MaxRegions
    BY <1>1, RegionAssumption DEF ParallelBegin, ForgetBarriers
  <2>11. abort' \in {"no", "stack_not_empty", "barrier_stack", "first_pending",
                     "other_pending", "no_region_node"}
    BY <1>1 DEF ParallelBegin, Require
  <2>12. QED
    BY <2>5, <2>6, <2>7, <2>8, <2>9, <2>10, <2>11
<1>2. ASSUME NEW t \in Threads, ImplicitTaskBegin(t)
      PROVE  TypeOK'
  <2> DEFINE a == NewNode(node_ctr + 1, "ASYNC", Top(last_nodes[t]))
  <2>1. a \in NodeRecord
    BY <1>b, TopType, NewNodeType
  <2> HIDE DEF a
  <2>2. last_nodes' \in [Threads -> Seq(NodeRecord)] /\ tree' \subseteq NodeRecord
    <3>1. Append(last_nodes[t], a) \in Seq(NodeRecord)
      BY <1>b, <2>1, PushOne
    <3>2. QED
      BY <1>2, <2>1, <3>1 DEF ImplicitTaskBegin, a
  <2>3. pc' \in [Threads -> Control] /\ released' \subseteq Threads
    BY <1>2 DEF ImplicitTaskBegin, Control
  <2>4. QED
    BY SMTT(30), <1>2, <2>2, <2>3 DEF ImplicitTaskBegin
<1>3. ASSUME NEW t \in Threads, BarrierBegin(t)
      PROVE  TypeOK'
  <2>1. NewStep(node_ctr + 1, last_nodes[t]) \in [id : Nat, parent : Nat]
    BY <1>c
  <2>2. Pop(Pop(last_nodes[t])) \in Seq(NodeRecord)
    BY <1>b, PopType
  <2>3. last_nodes' \in [Threads -> Seq(NodeRecord)]
    BY <1>3, <2>2 DEF BarrierBegin
  <2>4. abort' \in {"no", "stack_not_empty", "barrier_stack", "first_pending",
                    "other_pending", "no_region_node"}
    BY <1>3 DEF BarrierBegin, Require
  <2>5. pc' \in [Threads -> Control] /\ steps' \subseteq [id : Nat, parent : Nat]
    BY <1>3, <2>1 DEF BarrierBegin, Control
  <2>6. QED
    BY SMTT(30), <1>3, <2>3, <2>4, <2>5 DEF BarrierBegin
<1>4. ASSUME NEW t \in Threads, BarrierFirst(t)
      PROVE  TypeOK'
  <2> DEFINE f == NewNode(node_ctr + 1, "FINISH", Top(last_nodes[t]))
             a == NewNode(node_ctr + 2, "ASYNC", f)
  <2>1. f \in NodeRecord
    BY <1>b, TopType, NewNodeType
  <2> HIDE DEF f
  <2>2. a \in NodeRecord
    BY <2>1, NewNodeType
  <2> HIDE DEF a
  <2>3. last_nodes' \in [Threads -> Seq(NodeRecord)]
    <3>1. last_nodes[t] \o <<f, a>> \in Seq(NodeRecord)
      BY <1>b, <2>1, <2>2, PushTwo
    <3>2. last_nodes' = [last_nodes EXCEPT ![t] = @ \o <<f, a>>]
      BY <1>4 DEF BarrierFirst, a, f
    <3>3. QED
      BY <3>1, <3>2
  <2>4. tree' \subseteq NodeRecord /\ pendingFinish' \in Seq(NodeRecord)
    <3>1. tree' = tree \union {f, a} /\ pendingFinish' = Append(pendingFinish, f)
      BY <1>4 DEF BarrierFirst, a, f
    <3>2. tree' \subseteq NodeRecord
      BY <3>1, <2>1, <2>2
    <3>3. pendingFinish' \in Seq(NodeRecord)
      BY <3>1, <2>1
    <3>4. QED
      BY <3>2, <3>3
  <2>5. pc' \in [Threads -> Control] /\ arrived' \in [Threads -> Nat]
    <3>1. Arrive(t)
      BY <1>4 DEF BarrierFirst
    <3>2. QED
      BY <3>1 DEF Arrive, Control
  <2>6. abort' \in {"no", "stack_not_empty", "barrier_stack", "first_pending",
                    "other_pending", "no_region_node"}
    BY <1>4 DEF BarrierFirst, Require
  <2>7. barrierCount' \in [Threads -> Nat] /\ node_ctr' \in Nat
    <3>1. barrierCount' = [barrierCount EXCEPT ![t] = barrierCount[t] + 1]
      BY <1>4 DEF BarrierFirst
    <3>2. node_ctr' = node_ctr + 2
      BY <1>4 DEF BarrierFirst
    <3>3. QED
      BY <3>1, <3>2
  <2>8. UNCHANGED <<num_threads, implEndCount, released, team, barriers,
                    region, region_nodes, steps>>
    BY <1>4 DEF BarrierFirst
  <2>9. QED
    BY <2>3, <2>4, <2>5, <2>6, <2>7, <2>8
<1>5. ASSUME NEW t \in Threads, BarrierOther(t)
      PROVE  TypeOK'
  <2> DEFINE k == barrierCount[t] + 1
             f == LeftNode(k)
             a == NewNode(node_ctr + 1, "ASYNC", f)
  <2>1. f \in NodeRecord
    <3>1. NoNode \in NodeRecord
      BY DEF NoNode, NodeRecord
    <3>2. k \in DOMAIN pendingFinish => pendingFinish[k] \in NodeRecord
      BY LenProperties, ElementOfSeq
    <3>3. QED
      BY <3>1, <3>2 DEF LeftNode
  <2> HIDE DEF f
  <2>2. a \in NodeRecord
    BY <2>1, NewNodeType
  <2> HIDE DEF a
  <2>3. last_nodes' \in [Threads -> Seq(NodeRecord)]
    BY <1>5, <1>b, <2>1, <2>2, PushTwo DEF BarrierOther, a, f
  <2>4. tree' \subseteq NodeRecord
    BY <1>5, <2>2 DEF BarrierOther, a, f
  <2>5. pc' \in [Threads -> Control] /\ arrived' \in [Threads -> Nat]
    <3>1. Arrive(t)
      BY <1>5 DEF BarrierOther
    <3>2. QED
      BY <3>1 DEF Arrive, Control
  <2>6. abort' \in {"no", "stack_not_empty", "barrier_stack", "first_pending",
                    "other_pending", "no_region_node"}
    BY <1>5 DEF BarrierOther, Require
  <2>7. barrierCount' \in [Threads -> Nat] /\ node_ctr' \in Nat
    <3>1. barrierCount' = [barrierCount EXCEPT ![t] = barrierCount[t] + 1]
      BY <1>5 DEF BarrierOther
    <3>2. node_ctr' = node_ctr + 1
      BY <1>5 DEF BarrierOther
    <3>3. QED
      BY <3>1, <3>2
  <2>8. UNCHANGED <<pendingFinish, num_threads, implEndCount, released, team, barriers,
                    region, region_nodes, steps>>
    BY <1>5 DEF BarrierOther
  <2>9. QED
    BY <2>3, <2>4, <2>5, <2>6, <2>7, <2>8
<1>6. ASSUME NEW t \in Threads, BarrierEnd(t)
      PROVE  TypeOK'
  BY <1>6 DEF BarrierEnd, Control, profiler
<1>8. ASSUME NEW t \in Threads, ImplicitTaskEnd(t)
      PROVE  TypeOK'
  <2>1. NewStep(node_ctr + 1, last_nodes[t]) \in [id : Nat, parent : Nat]
    BY <1>c
  <2>2. Pop(Pop(Pop(Cleanup(last_nodes[t])))) \in Seq(NodeRecord)
    BY <1>b, PopType, CleanupType
  <2>3. last_nodes' \in [Threads -> Seq(NodeRecord)]
    BY <1>8, <2>2 DEF ImplicitTaskEnd
  <2>4. abort' \in {"no", "stack_not_empty", "barrier_stack", "first_pending",
                    "other_pending", "no_region_node"}
    BY <1>8 DEF ImplicitTaskEnd, Require
  <2>5. pc' \in [Threads -> Control] /\ steps' \subseteq [id : Nat, parent : Nat]
    BY <1>8, <2>1 DEF ImplicitTaskEnd, Control
  <2>6. QED
    BY SMTT(30), <1>8, <2>3, <2>4, <2>5 DEF ImplicitTaskEnd
<1>9. ASSUME NEW t \in Threads, CountImplicitEnd(t)
      PROVE  TypeOK'
  <2>1. pc' \in [Threads -> Control] /\ implEndCount' \in Nat
    BY <1>9 DEF CountImplicitEnd, Control
  <2>2. QED
    BY SMTT(30), <1>9, <2>1 DEF CountImplicitEnd
<1>10. CASE ParallelEnd
  BY <1>10 DEF ParallelEnd, Control
<1>11. CASE FinishProfile
  <2>1. NewStep(node_ctr + 1, last_nodes[Master]) \in [id : Nat, parent : Nat]
    BY <1>a, <1>c
  <2>2. QED
    <3>1. pc' \in [Threads -> Control] /\ steps' \subseteq [id : Nat, parent : Nat]
      BY <1>11, <2>1 DEF FinishProfile, Control
    <3>2. QED
      BY SMTT(30), <1>11, <3>1 DEF FinishProfile
<1>12. CASE UNCHANGED vars
  BY <1>12 DEF vars, profiler, runtime
<1>13. QED
  BY <1>1, <1>2, <1>3, <1>4, <1>5, <1>6, <1>8, <1>9, <1>10, <1>11, <1>12
  DEF Next, ThreadStep, Finished

(* Every variable keeps its type.                                          *)
THEOREM TypeCorrect == Spec => []TypeOK
  BY TypeInit, TypeStep, PTL DEF Spec

----------------------------------------------------------------------------
(* What a step that leaves a thread alone keeps of the invariant.          *)

LEMMA StackShapeKept ==
  ASSUME NEW t \in Threads, StackShape(t),
         last_nodes'[t] = last_nodes[t],
         pc'[t] = pc[t],
         t \in released' <=> t \in released,
         ~Orphan(t)' => ~Orphan(t),
         region_nodes' = region_nodes,
         InPhase(t) => PhaseNode(barrierCount[t])' = PhaseNode(barrierCount[t])
  PROVE  StackShape(t)'
  BY DEF StackShape, InPhase, Depth

LEMMA CountedAreThreads ==
  ASSUME TypeOK
  PROVE  1..num_threads \subseteq Threads
  BY RegionAssumption DEF TypeOK, Threads

LEMMA NodeInvKept ==
  ASSUME TypeOK, NodeInv, UNCHANGED <<region_nodes, pendingFinish, region>>,
         node_ctr' \in Nat, node_ctr <= node_ctr', Active' => Active
  PROVE  NodeInv'
  <1>1. \A i \in 1..2 : region_nodes[i].id \in Nat
    BY SMTT(30) DEF TypeOK, NodeRecord
  <1>2. \A k \in 1..Len(pendingFinish) : pendingFinish[k].id \in Nat
    <2>1. pendingFinish \in Seq(NodeRecord)
      BY DEF TypeOK
    <2>2. \A k \in 1..Len(pendingFinish) : pendingFinish[k] \in NodeRecord
      BY <2>1, ElementOfSeq
    <2>3. QED
      BY <2>2 DEF NodeRecord
  <1>3. \A i \in 1..2 : region_nodes[i].id <= node_ctr'
    BY SMTT(30), <1>1 DEF NodeInv, TypeOK
  <1>4. \A k \in 1..Len(pendingFinish) : pendingFinish[k].id <= node_ctr'
    BY <1>2 DEF NodeInv, TypeOK
  <1>5. QED
    BY <1>3, <1>4 DEF NodeInv

LEMMA CountedKept ==
  ASSUME CountInv, UNCHANGED <<team, implEndCount>>, Active' => Active,
         \A t \in Team : t \in Counted' <=> t \in Counted
  PROVE  CountInv'
  <1>1. Counted' = Counted
    BY DEF Counted, Team
  <1>2. QED
    BY <1>1 DEF CountInv

LEMMA CountedFinite ==
  ASSUME TypeOK
  PROVE  /\ IsFiniteSet(Team) /\ Cardinality(Team) = team
         /\ IsFiniteSet(Counted) /\ Counted \subseteq Team
         /\ Cardinality(Counted) \in Nat /\ Cardinality(Counted) <= team
         /\ Cardinality(Counted) = team => Counted = Team
  <1>1. team \in Nat /\ team >= 1
    BY RegionAssumption DEF TypeOK, Threads
  <1>2. IsFiniteSet(Team) /\ Cardinality(Team) = team
    BY <1>1, FS_Interval DEF Team
  <1>3. Counted \subseteq Team
    BY DEF Counted
  <1>4. QED
    BY <1>2, <1>3, FS_Subset, FS_CardinalityType

----------------------------------------------------------------------------
(* The invariant holds at first and every action keeps it: first the part  *)
(* that does not speak of the stacks, then the shape of the stacks.        *)

TeamInv == TypeOK /\ ControlInv /\ CountInv /\ PhaseInv /\ NodeInv

LEMMA RegionTeam ==
  ASSUME RegionInv
  PROVE  TeamInv
  BY DEF RegionInv, TeamInv

LEMMA TeamInvInit == Init => TeamInv /\ ~Active
  <1> SUFFICES ASSUME Init PROVE TeamInv /\ ~Active
    OBVIOUS
  <1>1. TypeOK
    BY TypeInit
  <1>2. ~Active
    BY RegionAssumption DEF Init, Active, Threads, Master
  <1>3. ControlInv
    <2>1. Master \in Team /\ pc[Master] = "idle"
      BY RegionAssumption DEF Init, Team, Threads, Master
    <2>2. team <= num_threads
      BY RegionAssumption DEF Init
    <2>3. QED
      BY <2>1, <2>2, <1>2 DEF Init, ControlInv
  <1>4. CountInv
    BY <1>2 DEF CountInv
  <1>5. PhaseInv
    BY RegionAssumption DEF Init, PhaseInv, InPhase, Threads
  <1>6. NodeInv
    BY <1>2 DEF Init, NodeInv, Root
  <1>7. QED
    BY <1>1, <1>2, <1>3, <1>4, <1>5, <1>6 DEF TeamInv

LEMMA RegionInvInit == Init => RegionInv
  <1> SUFFICES ASSUME Init PROVE RegionInv
    OBVIOUS
  <1>1. TypeOK /\ TeamInv
    BY TypeInit, TeamInvInit
  <1>2. ASSUME NEW t \in Threads
        PROVE  StackShape(t)
    <2>1. CASE t = Master
      <3>1. last_nodes[t] = <<Root>>
        BY <2>1 DEF Init
      <3>2. QED
        BY <2>1, <3>1 DEF Init, StackShape, InPhase, Depth
    <2>2. CASE t # Master
      <3>1. last_nodes[t] = <<>>
        BY <2>2 DEF Init
      <3>2. QED
        BY <2>2, <3>1 DEF Init, StackShape, InPhase, Depth
    <2>3. QED
      BY <2>1, <2>2
  <1>3. QED
    BY <1>1, <1>2 DEF RegionInv, TeamInv, Init

LEMMA ImplicitTaskBeginTeam ==
  ASSUME TeamInv, TypeOK', NEW t \in Threads, ImplicitTaskBegin(t)
  PROVE  /\ TeamInv' /\ Active /\ Active' /\ t \in Team
         /\ barrierCount[t] = 0
  <1>1. TypeOK /\ ControlInv /\ PhaseInv /\ NodeInv /\ CountInv
    BY DEF TeamInv
  <1>2. /\ t \in released
        /\ pc[t] = IF t = Master THEN "forked" ELSE "idle"
        /\ released' = released \ {t}
        /\ pc' = [pc EXCEPT ![t] = "work"]
        /\ node_ctr' = node_ctr + 1
        /\ UNCHANGED <<num_threads, barrierCount, pendingFinish, implEndCount,
                       abort, team, arrived, region, region_nodes>>
    BY DEF ImplicitTaskBegin
  <1>3. Active' /\ Active /\ Master \in Threads
    <2>1. Active
      BY <1>1, <1>2 DEF ControlInv
    <2>2. QED
      BY <2>1, <1>1, <1>2, RegionAssumption DEF Active, TypeOK, Master, Threads
  <1>4. ControlInv'
    BY <1>1, <1>2, <1>3 DEF ControlInv, TypeOK, Team
  <1>5. CountInv'
    <2>1. \A u \in Team : u \in Counted' <=> u \in Counted
      BY <1>1, <1>2 DEF Counted, TypeOK, Team, Threads
    <2>2. QED
      BY <2>1, <1>1, <1>2, <1>3, CountedKept
  <1>6. PhaseInv'
    BY <1>1, <1>2 DEF PhaseInv, InPhase, TypeOK
  <1>7. NodeInv'
    <2>1. node_ctr' \in Nat /\ node_ctr <= node_ctr'
      BY <1>1, <1>2 DEF TypeOK
    <2>2. QED
      BY <2>1, <1>1, <1>2, <1>3, NodeInvKept
  <1>8. t \in Team /\ barrierCount[t] = 0
    BY <1>1, <1>2 DEF ControlInv, PhaseInv
  <1>9. QED
    BY <1>3, <1>8, <1>4, <1>5, <1>6, <1>7 DEF TeamInv

LEMMA ImplicitTaskBeginInv ==
  ASSUME RegionInv, TypeOK', NEW t \in Threads, ImplicitTaskBegin(t)
  PROVE  RegionInv'
  <1> DEFINE a == NewNode(node_ctr + 1, "ASYNC", Top(last_nodes[t]))
             s == last_nodes[t]
  <1>1. TypeOK /\ TeamInv
    BY RegionTeam DEF RegionInv
  <1>2. /\ t \in released
        /\ pc[t] = IF t = Master THEN "forked" ELSE "idle"
        /\ released' = released \ {t}
        /\ pc' = [pc EXCEPT ![t] = "work"]
        /\ last_nodes' = [last_nodes EXCEPT ![t] = Append(s, a)]
        /\ node_ctr' = node_ctr + 1
        /\ UNCHANGED <<num_threads, barrierCount, pendingFinish, implEndCount,
                       abort, team, arrived, region, region_nodes>>
    BY DEF ImplicitTaskBegin
  <1>3. a \in NodeRecord /\ a.type = "ASYNC" /\ ~a.finish_flag
    <2>1. s \in Seq(NodeRecord) /\ node_ctr + 1 \in Nat
      BY <1>1 DEF TypeOK
    <2>2. QED
      BY <2>1, TopType, NewNodeType DEF NewNode
  <1> HIDE DEF a
  <1>4. TeamInv' /\ Active' /\ Active /\ barrierCount[t] = 0
    BY <1>1, ImplicitTaskBeginTeam
  <1>5. ASSUME NEW u \in Threads
        PROVE  StackShape(u)'
    <2>1. CASE u = t
      <3>1. /\ StackShape(t) /\ s \in Seq(NodeRecord)
        BY <1>1 DEF RegionInv, TypeOK
      <3>2. /\ Len(s) = Depth(t) + 2
            /\ s[Depth(t) + 1] = region_nodes[1]
            /\ s[Depth(t) + 2] = region_nodes[2]
            /\ t = Master => s[1] = Root
        BY <3>1, <1>2 DEF StackShape
      <3>3. /\ Len(Append(s, a)) = Len(s) + 1
            /\ \A i \in 1..Len(s) : Append(s, a)[i] = s[i]
            /\ Append(s, a)[Len(s) + 1] = a
        BY <3>1, <1>3, PushOne
      <3>4. /\ last_nodes'[t] = Append(s, a) /\ pc'[t] = "work" /\ t \notin released'
        BY <1>1, <1>2 DEF TypeOK
      <3>5. barrierCount'[t] = 0 /\ PhaseNode(barrierCount[t])' = region_nodes[2]
        BY <1>2, <1>4 DEF PhaseNode
      <3>6. Depth(t) \in {0, 1} /\ (t = Master => Depth(t) = 1)
        BY DEF Depth
      <3>7. /\ Len(last_nodes'[t]) = Depth(t) + 3
            /\ last_nodes'[t][Depth(t) + 1] = region_nodes[1]
            /\ last_nodes'[t][Depth(t) + 2] = region_nodes[2]
            /\ last_nodes'[t][Depth(t) + 3] = a
            /\ t = Master => last_nodes'[t][1] = Root
        BY <3>2, <3>3, <3>4, <3>6
      <3>8. QED
        BY <2>1, <3>4, <3>5, <3>6, <3>7, <1>2, <1>3 DEF StackShape, InPhase, Depth
    <2>2. CASE u # t
      <3>1. StackShape(u)
        BY DEF RegionInv
      <3>2. last_nodes'[u] = last_nodes[u] /\ pc'[u] = pc[u]
        BY <2>2, <1>1, <1>2 DEF TypeOK
      <3>3. u \in released' <=> u \in released
        BY <2>2, <1>2
      <3>4. PhaseNode(barrierCount[u])' = PhaseNode(barrierCount[u])
        BY <1>2 DEF PhaseNode
      <3>5. Orphan(u)' <=> Orphan(u)
        BY <1>2, <1>4 DEF Orphan
      <3>6. QED
        BY <3>1, <3>2, <3>3, <3>4, <3>5, <1>2, StackShapeKept
    <2>3. QED
      BY <2>1, <2>2
  <1>6. QED
    BY <1>2, <1>4, <1>5 DEF RegionInv, TeamInv

(* A thread inside the region belongs to the team and to the threads the   *)
(* profiler counts, and its phase has a FINISH node.                       *)
LEMMA InTeam ==
  ASSUME TeamInv, NEW t \in Threads, InPhase(t) \/ pc[t] = "locking"
  PROVE  /\ t \in Team /\ t \in 1..num_threads
         /\ t \notin released
         /\ barrierCount[t] \in 0..Len(pendingFinish)
         /\ PhaseNode(barrierCount[t]).type = "FINISH"
         /\ ~PhaseNode(barrierCount[t]).finish_flag
         /\ Active
         /\ pc[t] # "idle"
  <1>1. TypeOK /\ ControlInv /\ PhaseInv /\ NodeInv
    BY DEF TeamInv
  <1>2. t \in Team /\ pc[t] # "idle" /\ pc[t] # "forked" /\ t \notin released
    BY <1>1 DEF ControlInv, InPhase
  <1>3. t \in 1..num_threads
    BY <1>1, <1>2 DEF ControlInv, Team, TypeOK, Threads
  <1>4. barrierCount[t] \in 0..Len(pendingFinish)
    <2>1. barrierCount[t] \in Nat /\ Len(pendingFinish) \in Nat
      BY <1>1, LenProperties DEF TypeOK
    <2>2. barrierCount[t] <= Len(pendingFinish)
      BY <1>1, <1>3 DEF PhaseInv
    <2>3. QED
      BY <2>1, <2>2
  <1>5. /\ PhaseNode(barrierCount[t]).type = "FINISH"
        /\ ~PhaseNode(barrierCount[t]).finish_flag
    <2>1. CASE barrierCount[t] = 0
      BY <2>1, <1>1 DEF PhaseNode, NodeInv
    <2>2. CASE barrierCount[t] # 0
      <3>1. barrierCount[t] \in 1..Len(pendingFinish)
        BY <2>2, <1>4
      <3>2. QED
        BY <2>2, <3>1, <1>1 DEF PhaseNode, NodeInv
    <2>3. QED
      BY <2>1, <2>2
  <1>6. Active
    BY <1>1, <1>2, RegionAssumption DEF ControlInv, Active, InPhase
  <1>7. QED
    BY <1>2, <1>3, <1>4, <1>5, <1>6

LEMMA InRegion ==
  ASSUME RegionInv, NEW t \in Threads, InPhase(t) \/ pc[t] = "locking"
  PROVE  /\ t \in Team /\ t \in 1..num_threads
         /\ t \notin released
         /\ barrierCount[t] \in 0..Len(pendingFinish)
         /\ PhaseNode(barrierCount[t]).type = "FINISH"
         /\ ~PhaseNode(barrierCount[t]).finish_flag
         /\ Active
         /\ pc[t] # "idle"
  BY RegionTeam, InTeam

(* The steps that move one thread inside the region and change neither the *)
(* team nor the counted threads keep who may be where.                     *)
LEMMA MoveInRegion ==
  ASSUME TypeOK, ControlInv, CountInv, Active,
         NEW t \in Team, t \notin released, pc[t] \notin {"idle", "forked", "spin", "done"},
         NEW c \in Control \ {"idle", "forked", "spin", "done"},
         pc' = [pc EXCEPT ![t] = c],
         UNCHANGED <<released, team, num_threads, implEndCount>>
  PROVE  ControlInv' /\ CountInv' /\ Active'
  <1>1. t \in Threads /\ Master \in Threads
    BY RegionAssumption DEF TypeOK, Team, Threads, Master
  <1>2. Active'
    BY <1>1 DEF TypeOK, Active
  <1>3. ControlInv'
    BY <1>1, <1>2 DEF TypeOK, ControlInv, Team
  <1>4. \A u \in Team : u \in Counted' <=> u \in Counted
    BY <1>1 DEF TypeOK, Counted, Team, Threads
  <1>5. CountInv'
    BY <1>2, <1>4, CountedKept
  <1>6. QED
    BY <1>2, <1>3, <1>5

LEMMA BarrierBeginTeam ==
  ASSUME TeamInv, TypeOK', NEW t \in Threads, BarrierBegin(t)
  PROVE  TeamInv' /\ Active /\ Active' /\ t \in Team
  <1>1. TypeOK /\ ControlInv /\ PhaseInv /\ NodeInv /\ CountInv
    BY DEF TeamInv
  <1>2. /\ pc[t] = "work"
        /\ node_ctr' = node_ctr + 1
        /\ pc' = [pc EXCEPT ![t] = "locking"]
        /\ UNCHANGED <<num_threads, barrierCount, pendingFinish, implEndCount,
                       released, team, arrived, region, region_nodes>>
    BY DEF BarrierBegin
  <1>3. InPhase(t)
    BY <1>2 DEF InPhase
  <1>4. /\ t \in Team /\ t \notin released /\ Active
    BY <1>3, InTeam
  <1>5. ControlInv' /\ CountInv' /\ Active'
    BY <1>1, <1>2, <1>4, MoveInRegion DEF Control
  <1>6. PhaseInv'
    BY <1>1, <1>2, <1>3 DEF PhaseInv, InPhase, TypeOK
  <1>7. NodeInv'
    <2>1. node_ctr' \in Nat /\ node_ctr <= node_ctr'
      BY <1>1, <1>2 DEF TypeOK
    <2>2. QED
      BY <2>1, <1>1, <1>2, <1>4, NodeInvKept
  <1>8. QED
    BY <1>4, <1>5, <1>6, <1>7 DEF TeamInv

LEMMA BarrierBeginInv ==
  ASSUME RegionInv, TypeOK', NEW t \in Threads, BarrierBegin(t)
  PROVE  RegionInv'
  <1> DEFINE s == last_nodes[t]
  <1>1. TypeOK /\ TeamInv /\ StackShape(t)
    BY RegionTeam DEF RegionInv
  <1>2. /\ pc[t] = "work"
        /\ Require(Top(s).type = "ASYNC" /\ Top(Pop(s)).type = "FINISH",
                   "barrier_stack")
        /\ node_ctr' = node_ctr + 1
        /\ last_nodes' = [last_nodes EXCEPT ![t] = Pop(Pop(s))]
        /\ pc' = [pc EXCEPT ![t] = "locking"]
        /\ UNCHANGED <<num_threads, barrierCount, pendingFinish, implEndCount,
                       released, team, arrived, region, region_nodes>>
    BY DEF BarrierBegin
  <1>3. InPhase(t)
    BY <1>2 DEF InPhase
  <1>4. /\ t \in Team /\ t \notin released /\ Active
        /\ PhaseNode(barrierCount[t]).type = "FINISH"
    BY <1>3, InRegion
  <1>5. TeamInv' /\ Active'
    BY <1>1, BarrierBeginTeam
  <1>6. Depth(t) \in {0, 1} /\ (t = Master => Depth(t) = 1)
    BY DEF Depth
  <1>7. s \in Seq(NodeRecord) /\ Len(s) = Depth(t) + 3
    BY <1>1, <1>3 DEF TypeOK, StackShape
  <1>8. /\ Pop(s) \in Seq(NodeRecord) /\ Len(Pop(s)) = Depth(t) + 2
        /\ \A i \in 1..(Depth(t) + 2) : Pop(s)[i] = s[i]
        /\ Top(s) = s[Depth(t) + 3]
    <2>1. Len(s) > 0 /\ Len(s) - 1 = Depth(t) + 2
      BY <1>6, <1>7
    <2>2. QED
      BY <1>7, <2>1, PopStack
  <1>9. /\ Len(Pop(Pop(s))) = Depth(t) + 1
        /\ \A i \in 1..(Depth(t) + 1) : Pop(Pop(s))[i] = s[i]
        /\ Top(Pop(s)) = s[Depth(t) + 2]
    BY <1>6, <1>8, PopStack
  <1>10. abort' = "no"
    <2>1. Top(s).type = "ASYNC" /\ Top(Pop(s)).type = "FINISH"
      BY <1>1, <1>3, <1>4, <1>8, <1>9 DEF StackShape
    <2>2. QED
      BY <1>2, <2>1 DEF Require, RegionInv
  <1>11. ASSUME NEW u \in Threads
         PROVE  StackShape(u)'
    <2>1. CASE u = t
      <3>1. last_nodes'[t] = Pop(Pop(s)) /\ pc'[t] = "locking" /\ t \notin released'
        BY <1>1, <1>2, <1>4 DEF TypeOK
      <3>2. /\ s[Depth(t) + 1] = region_nodes[1]
            /\ t = Master => s[1] = Root
        BY <1>1, <1>3 DEF StackShape
      <3>3. /\ Len(last_nodes'[t]) = Depth(t) + 1
            /\ last_nodes'[t][Depth(t) + 1] = region_nodes[1]
            /\ t = Master => last_nodes'[t][1] = Root
        BY <1>6, <1>9, <3>1, <3>2
      <3>4. QED
        BY <2>1, <1>2, <1>6, <3>1, <3>3 DEF StackShape, InPhase, Depth
    <2>2. CASE u # t
      <3>1. StackShape(u)
        BY DEF RegionInv
      <3>2. last_nodes'[u] = last_nodes[u] /\ pc'[u] = pc[u]
        BY <2>2, <1>1, <1>2 DEF TypeOK
      <3>3. PhaseNode(barrierCount[u])' = PhaseNode(barrierCount[u])
        BY <1>2 DEF PhaseNode
      <3>4. Orphan(u)' <=> Orphan(u)
        BY <1>2, <1>4, <1>5 DEF Orphan
      <3>5. QED
        BY <3>1, <3>2, <3>3, <3>4, <1>2, StackShapeKept
    <2>3. QED
      BY <2>1, <2>2
  <1>12. QED
    BY <1>5, <1>10, <1>11 DEF RegionInv, TeamInv

(* What the two halves of the locked section of captureBarrierBegin share: *)
(* the thread pushes the FINISH node f of its next phase and an ASYNC.     *)
LEMMA EnterPhaseTeam ==
  ASSUME TeamInv, TypeOK', NEW t \in Threads, pc[t] = "locking",
         barrierCount' = [barrierCount EXCEPT ![t] = barrierCount[t] + 1],
         Arrive(t),
         UNCHANGED <<num_threads, implEndCount, released, team, region, region_nodes>>
  PROVE  /\ ControlInv' /\ CountInv' /\ Active /\ Active'
         /\ \A u \in released' : barrierCount'[u] = 0 /\ arrived'[u] = 0
         /\ \A u \in Threads : (InPhase(u) \/ pc[u] = "locking")'
                                 => barrierCount'[u] = arrived'[u]
  <1>1. TypeOK /\ ControlInv /\ PhaseInv /\ CountInv
    BY DEF TeamInv
  <1>2. /\ t \in Team /\ t \notin released /\ Active
        /\ barrierCount[t] \in Nat
    BY <1>1, InTeam DEF TypeOK
  <1>3. PICK c \in {"join", "barrier"} : pc' = [pc EXCEPT ![t] = c]
    BY DEF Arrive
  <1>4. ControlInv' /\ CountInv' /\ Active'
    BY <1>1, <1>2, <1>3, MoveInRegion DEF Control
  <1>5. arrived' = [arrived EXCEPT ![t] = arrived[t] + 1]
    BY DEF Arrive
  <1>6. \A u \in released' : barrierCount'[u] = 0 /\ arrived'[u] = 0
    BY <1>1, <1>2, <1>5 DEF PhaseInv, TypeOK
  <1>7. \A u \in Threads : (InPhase(u) \/ pc[u] = "locking")'
                               => barrierCount'[u] = arrived'[u]
    BY <1>1, <1>3, <1>5 DEF PhaseInv, TypeOK, InPhase
  <1>8. QED
    BY <1>2, <1>4, <1>6, <1>7

LEMMA EnterPhase ==
  ASSUME RegionInv, TypeOK', NEW t \in Threads, pc[t] = "locking",
         NEW f \in NodeRecord, NEW a \in NodeRecord,
         a.type = "ASYNC", ~a.finish_flag,
         last_nodes' = [last_nodes EXCEPT ![t] = last_nodes[t] \o <<f, a>>],
         barrierCount' = [barrierCount EXCEPT ![t] = barrierCount[t] + 1],
         PhaseNode(barrierCount[t])' = f,
         \A k \in 0..Len(pendingFinish) : PhaseNode(k)' = PhaseNode(k),
         Arrive(t),
         UNCHANGED <<num_threads, implEndCount, released, team, region, region_nodes>>
  PROVE  \A u \in Threads : StackShape(u)'
  <1> DEFINE s == last_nodes[t]
  <1>1. TypeOK /\ TeamInv /\ StackShape(t)
    BY RegionTeam DEF RegionInv
  <1>2. /\ t \in Team /\ t \notin released /\ Active
    BY InRegion
  <1>3. PICK c \in {"join", "barrier"} : pc' = [pc EXCEPT ![t] = c]
    BY DEF Arrive
  <1>4. Active'
    BY <1>1, EnterPhaseTeam
  <1>5. Depth(t) \in {0, 1} /\ (t = Master => Depth(t) = 1)
    BY DEF Depth
  <1>6. s \in Seq(NodeRecord) /\ Len(s) = Depth(t) + 1
    BY <1>1 DEF TypeOK, StackShape
  <1>7. /\ Len(s \o <<f, a>>) = Len(s) + 2
        /\ \A i \in 1..Len(s) : (s \o <<f, a>>)[i] = s[i]
        /\ (s \o <<f, a>>)[Len(s) + 1] = f
        /\ (s \o <<f, a>>)[Len(s) + 2] = a
    BY <1>6, PushTwo
  <1>8. ASSUME NEW u \in Threads
        PROVE  StackShape(u)'
    <2>1. CASE u = t
      <3>1. last_nodes'[t] = s \o <<f, a>> /\ pc'[t] = c /\ t \notin released'
        BY <1>1, <1>2, <1>3 DEF TypeOK
      <3>2. /\ s[Depth(t) + 1] = region_nodes[1]
            /\ t = Master => s[1] = Root
        BY <1>1 DEF StackShape
      <3>3. /\ Len(last_nodes'[t]) = Depth(t) + 3
            /\ last_nodes'[t][Depth(t) + 1] = region_nodes[1]
            /\ last_nodes'[t][Depth(t) + 2] = f
            /\ last_nodes'[t][Depth(t) + 3] = a
            /\ t = Master => last_nodes'[t][1] = Root
        <4>1. /\ Depth(t) + 1 \in 1..Len(s) /\ 1 \in 1..Len(s)
              /\ Len(s) + 1 = Depth(t) + 2 /\ Len(s) + 2 = Depth(t) + 3
          BY <1>5, <1>6
        <4>2. QED
          BY <4>1, <1>7, <3>1, <3>2
      <3>4. QED
        BY <2>1, <1>3, <1>5, <3>1, <3>3 DEF StackShape, InPhase, Depth
    <2>2. CASE u # t
      <3>1. StackShape(u)
        BY DEF RegionInv
      <3>2. last_nodes'[u] = last_nodes[u] /\ pc'[u] = pc[u]
        BY <2>2, <1>1, <1>3 DEF TypeOK
      <3>3. InPhase(u) => PhaseNode(barrierCount[u])' = PhaseNode(barrierCount[u])
        <4>1. barrierCount'[u] = barrierCount[u]
          BY <2>2, <1>1 DEF TypeOK
        <4>2. InPhase(u) => barrierCount[u] \in 0..Len(pendingFinish)
          BY InRegion
        <4>3. QED
          BY <4>1, <4>2 DEF PhaseNode
      <3>4. Orphan(u)' <=> Orphan(u)
        BY <1>2, <1>4 DEF Orphan
      <3>5. QED
        BY <3>1, <3>2, <3>3, <3>4, StackShapeKept
    <2>3. QED
      BY <2>1, <2>2
  <1>9. QED
    BY <1>8

LEMMA BarrierFirstTeam ==
  ASSUME TeamInv, abort = "no", TypeOK', NEW t \in Threads, BarrierFirst(t),
         Top(last_nodes[t]) = region_nodes[1]
  PROVE  /\ TeamInv' /\ abort' = "no" /\ Active /\ Active'
         /\ PhaseNode(barrierCount[t])' = NewNode(node_ctr + 1, "FINISH", Top(last_nodes[t]))
         /\ \A k \in 0..Len(pendingFinish) : PhaseNode(k)' = PhaseNode(k)
  <1> DEFINE k == barrierCount[t] + 1
             f == NewNode(node_ctr + 1, "FINISH", Top(last_nodes[t]))
             L == Len(pendingFinish)
  <1>1. TypeOK /\ ControlInv /\ PhaseInv /\ NodeInv /\ abort = "no"
    BY DEF TeamInv
  <1>2. /\ pc[t] = "locking" /\ IsFirst(t)
        /\ Require(Len(pendingFinish) + 1 = k, "first_pending")
        /\ barrierCount' = [barrierCount EXCEPT ![t] = k]
        /\ pendingFinish' = Append(pendingFinish, f)
        /\ node_ctr' = node_ctr + 2
        /\ Arrive(t)
        /\ UNCHANGED <<num_threads, implEndCount, released, team, region, region_nodes>>
    BY DEF BarrierFirst
  <1>3. /\ t \in 1..num_threads /\ barrierCount[t] \in 0..L
        /\ barrierCount[t] \in Nat /\ L \in Nat /\ node_ctr \in Nat
        /\ pendingFinish \in Seq(NodeRecord)
    BY <1>1, <1>2, InTeam, LenProperties DEF TypeOK
  <1>4. L + 1 = k
    <2>1. \A u \in 1..num_threads : barrierCount[u] \in Nat
      BY <1>1, CountedAreThreads DEF TypeOK
    <2>2. ASSUME NEW u \in 1..num_threads, barrierCount[u] = L
          PROVE  L <= barrierCount[t]
      BY <2>1, <2>2, <1>2, <1>3 DEF IsFirst
    <2>3. L <= barrierCount[t]
      BY <2>2, <1>1, <1>3 DEF PhaseInv
    <2>4. QED
      BY <2>3, <1>3
  <1>5. abort' = "no"
    BY <1>1, <1>2, <1>4 DEF Require
  <1>6. Top(last_nodes[t]) = region_nodes[1] /\ Top(last_nodes[t]) \in NodeRecord
    BY <1>1, TopType DEF TypeOK
  <1>7. /\ f \in NodeRecord /\ f.type = "FINISH" /\ ~f.finish_flag
        /\ f.id = node_ctr + 1 /\ f.parent = region_nodes[1].id
    <2>1. node_ctr + 1 \in Nat
      BY <1>3
    <2>2. QED
      BY <2>1, <1>6, NewNodeType DEF NewNode
  <1> HIDE DEF f
  <1>8. /\ Len(pendingFinish') = L + 1 /\ pendingFinish'[L + 1] = f
        /\ \A i \in 1..L : pendingFinish'[i] = pendingFinish[i]
    BY <1>2, <1>3, <1>7, PushOne
  <1>9. barrierCount'[t] = L + 1
    BY <1>1, <1>2, <1>4 DEF TypeOK
  <1>10. /\ PhaseNode(barrierCount[t])' = f
         /\ \A j \in 0..L : PhaseNode(j)' = PhaseNode(j)
    BY <1>2, <1>3, <1>8, <1>9 DEF PhaseNode
  <1>11. /\ ControlInv' /\ CountInv' /\ Active /\ Active'
         /\ \A u \in released' : barrierCount'[u] = 0 /\ arrived'[u] = 0
         /\ \A u \in Threads : (InPhase(u) \/ pc[u] = "locking")'
                                 => barrierCount'[u] = arrived'[u]
    BY <1>2, EnterPhaseTeam
  <1>12. PhaseInv'
    <2>1. \A u \in 1..num_threads : barrierCount'[u] <= L + 1
      <3>1. \A u \in 1..num_threads : barrierCount[u] \in Nat /\ barrierCount[u] <= L
        BY <1>1, CountedAreThreads DEF PhaseInv, TypeOK
      <3>2. ASSUME NEW u \in 1..num_threads
            PROVE  barrierCount'[u] = IF u = t THEN L + 1 ELSE barrierCount[u]
        BY <1>1, <1>2, <1>9, CountedAreThreads DEF TypeOK
      <3>3. QED
        BY <3>1, <3>2, <1>3
    <2>2. \E u \in 1..num_threads : barrierCount'[u] = L + 1
      BY <1>3, <1>9
    <2>3. QED
      BY <2>1, <2>2, <1>2, <1>8, <1>11 DEF PhaseInv
  <1>13. NodeInv'
    <2>1. /\ region_nodes[1].id \in Nat /\ region_nodes[2].id \in Nat
          /\ region_nodes[1].id <= node_ctr /\ region_nodes[2].id <= node_ctr
      <3>1. region_nodes[1] \in NodeRecord /\ region_nodes[2] \in NodeRecord
        BY <1>1 DEF TypeOK
      <3>2. QED
        BY <3>1, <1>1 DEF NodeRecord, NodeInv
    <2>2. ASSUME NEW j \in 1..(L + 1)
          PROVE  /\ pendingFinish'[j].type = "FINISH"
                 /\ ~pendingFinish'[j].finish_flag
                 /\ pendingFinish'[j].parent = region_nodes[1].id
                 /\ region_nodes[2].id < pendingFinish'[j].id
                 /\ pendingFinish'[j].id <= node_ctr + 2
                 /\ \A i \in 1..(j - 1) : pendingFinish'[i].id < pendingFinish'[j].id
      <3>1. \A i \in 1..L : /\ pendingFinish[i].id \in Nat
                            /\ pendingFinish[i].id <= node_ctr
        <4>1. \A i \in 1..L : pendingFinish[i] \in NodeRecord
          BY <1>3, ElementOfSeq
        <4>2. QED
          BY <4>1, <1>1 DEF NodeRecord, NodeInv
      <3>2. CASE j \in 1..L
        <4>1. /\ pendingFinish[j].type = "FINISH"
              /\ ~pendingFinish[j].finish_flag
              /\ pendingFinish[j].parent = region_nodes[1].id
              /\ region_nodes[2].id < pendingFinish[j].id
              /\ \A i \in 1..(j - 1) : pendingFinish[i].id < pendingFinish[j].id
          BY <3>2, <1>1 DEF NodeInv
        <4>2. \A i \in 1..(j - 1) : i \in 1..L
          BY <3>2, <1>3
        <4>3. pendingFinish[j].id <= node_ctr + 2
          BY <3>1, <3>2, <1>3
        <4>4. QED
          BY <3>2, <4>1, <4>2, <4>3, <1>8
      <3>3. CASE j = L + 1
        <4>1. \A i \in 1..(j - 1) : i \in 1..L
          BY <3>3, <1>3
        <4>2. \A i \in 1..L : pendingFinish[i].id < node_ctr + 1
          BY <3>1, <1>3
        <4>3. \A i \in 1..(j - 1) : pendingFinish'[i].id < f.id
          BY <4>1, <4>2, <1>7, <1>8
        <4>4. region_nodes[2].id < f.id /\ f.id <= node_ctr + 2
          BY <2>1, <1>3, <1>7
        <4>5. QED
          BY <3>3, <4>3, <4>4, <1>7, <1>8
      <3>4. QED
        BY <3>2, <3>3, <1>3
    <2>3. \A i \in 1..2 : region_nodes[i].id <= node_ctr + 2
      BY <2>1, <1>3
    <2>4. QED
      BY <2>2, <2>3, <1>1, <1>2, <1>8, <1>11 DEF NodeInv
  <1>14. f = NewNode(node_ctr + 1, "FINISH", Top(last_nodes[t]))
    BY DEF f
  <1>15. QED
    BY <1>5, <1>10, <1>11, <1>12, <1>13, <1>14 DEF TeamInv

LEMMA BarrierFirstInv ==
  ASSUME RegionInv, TypeOK', NEW t \in Threads, BarrierFirst(t)
  PROVE  RegionInv'
  <1> DEFINE f == NewNode(node_ctr + 1, "FINISH", Top(last_nodes[t]))
             a == NewNode(node_ctr + 2, "ASYNC", f)
  <1>1. TypeOK /\ TeamInv /\ abort = "no" /\ StackShape(t)
    BY RegionTeam DEF RegionInv
  <1>2. /\ pc[t] = "locking"
        /\ barrierCount' = [barrierCount EXCEPT ![t] = barrierCount[t] + 1]
        /\ last_nodes' = [last_nodes EXCEPT ![t] = last_nodes[t] \o <<f, a>>]
        /\ Arrive(t)
        /\ UNCHANGED <<num_threads, implEndCount, released, team, region, region_nodes>>
    BY DEF BarrierFirst
  <1>3. /\ Top(last_nodes[t]) = region_nodes[1] /\ Top(last_nodes[t]) \in NodeRecord
    <2>1. last_nodes[t] \in Seq(NodeRecord) /\ Len(last_nodes[t]) = Depth(t) + 1
      BY <1>1, <1>2 DEF TypeOK, StackShape
    <2>2. Depth(t) \in {0, 1}
      BY DEF Depth
    <2>3. Len(last_nodes[t]) > 0
      BY <2>1, <2>2
    <2>4. Top(last_nodes[t]) = last_nodes[t][Depth(t) + 1]
      BY <2>1, <2>3, PopStack
    <2>5. QED
      BY <2>1, <2>4, <1>1, <1>2, TopType DEF StackShape
  <1>4. f \in NodeRecord
    <2>1. node_ctr + 1 \in Nat
      BY <1>1 DEF TypeOK
    <2>2. QED
      BY <2>1, <1>3, NewNodeType
  <1>5. /\ TeamInv' /\ abort' = "no"
        /\ PhaseNode(barrierCount[t])' = f
        /\ \A k \in 0..Len(pendingFinish) : PhaseNode(k)' = PhaseNode(k)
    BY <1>1, <1>3, BarrierFirstTeam
  <1>6. a \in NodeRecord /\ a.type = "ASYNC" /\ ~a.finish_flag
    <2>1. node_ctr + 2 \in Nat
      BY <1>1 DEF TypeOK
    <2>2. QED
      BY <2>1, <1>4, NewNodeType DEF NewNode
  <1> HIDE DEF f, a
  <1>7. \A u \in Threads : StackShape(u)'
    BY <1>2, <1>5, <1>4, <1>6, EnterPhase
  <1>8. QED
    BY <1>5, <1>7 DEF RegionInv, TeamInv

LEMMA BarrierOtherTeam ==
  ASSUME TeamInv, abort = "no", TypeOK', NEW t \in Threads, BarrierOther(t)
  PROVE  /\ TeamInv' /\ abort' = "no" /\ Active /\ Active'
         /\ PhaseNode(barrierCount[t])' = LeftNode(barrierCount[t] + 1)
         /\ LeftNode(barrierCount[t] + 1) \in NodeRecord
         /\ LeftNode(barrierCount[t] + 1).parent = region_nodes[1].id
         /\ \A k \in 0..Len(pendingFinish) : PhaseNode(k)' = PhaseNode(k)
  <1> DEFINE k == barrierCount[t] + 1
             f == LeftNode(k)
             L == Len(pendingFinish)
  <1>1. TypeOK /\ ControlInv /\ PhaseInv /\ NodeInv /\ abort = "no"
    BY DEF TeamInv
  <1>2. /\ pc[t] = "locking" /\ ~IsFirst(t)
        /\ Require(Len(pendingFinish) >= k, "other_pending")
        /\ barrierCount' = [barrierCount EXCEPT ![t] = k]
        /\ node_ctr' = node_ctr + 1
        /\ Arrive(t)
        /\ UNCHANGED <<num_threads, implEndCount, released, team, region, region_nodes,
                       pendingFinish>>
    BY DEF BarrierOther
  <1>3. /\ t \in 1..num_threads /\ barrierCount[t] \in 0..L
        /\ barrierCount[t] \in Nat /\ L \in Nat /\ node_ctr \in Nat
        /\ pendingFinish \in Seq(NodeRecord) /\ DOMAIN pendingFinish = 1..L
    BY <1>1, <1>2, InTeam, LenProperties DEF TypeOK
  <1>4. k <= L
    <2>1. PICK u \in (1..num_threads) \ {t} : ~(barrierCount[u] < k)
      BY <1>2 DEF IsFirst
    <2>2. barrierCount[u] \in Nat /\ barrierCount[u] <= L
      BY <1>1, CountedAreThreads DEF PhaseInv, TypeOK
    <2>3. QED
      BY <2>1, <2>2, <1>3
  <1>5. abort' = "no"
    BY <1>1, <1>2, <1>3, <1>4 DEF Require
  <1>6. k \in 1..L /\ f = pendingFinish[k] /\ f \in NodeRecord
    <2>1. k \in 1..L
      BY <1>3, <1>4
    <2>2. pendingFinish[k] \in NodeRecord
      BY <2>1, <1>3, ElementOfSeq
    <2>3. QED
      BY <2>1, <2>2, <1>3 DEF LeftNode
  <1> HIDE DEF f
  <1>7. f.parent = region_nodes[1].id
    BY <1>1, <1>6 DEF NodeInv
  <1>8. barrierCount'[t] = k /\ k # 0
    BY <1>1, <1>2, <1>3 DEF TypeOK
  <1>9. /\ PhaseNode(barrierCount[t])' = f
        /\ \A j \in 0..L : PhaseNode(j)' = PhaseNode(j)
    BY <1>2, <1>6, <1>8 DEF PhaseNode
  <1>10. /\ ControlInv' /\ CountInv' /\ Active /\ Active'
         /\ \A u \in released' : barrierCount'[u] = 0 /\ arrived'[u] = 0
         /\ \A u \in Threads : (InPhase(u) \/ pc[u] = "locking")'
                                 => barrierCount'[u] = arrived'[u]
    BY <1>2, EnterPhaseTeam
  <1>11. PhaseInv'
    <2>1. ASSUME NEW u \in 1..num_threads
          PROVE  barrierCount'[u] = IF u = t THEN k ELSE barrierCount[u]
      BY <1>1, <1>2, <1>8, CountedAreThreads DEF TypeOK
    <2>2. \A u \in 1..num_threads : barrierCount'[u] <= L
      BY <2>1, <1>1, <1>4 DEF PhaseInv
    <2>3. ASSUME NEW u \in 1..num_threads, barrierCount[u] = L
          PROVE  u # t
      BY <2>3, <1>3, <1>4
    <2>4. L = 0 \/ \E u \in 1..num_threads : barrierCount'[u] = L
      BY <2>1, <2>3, <1>1 DEF PhaseInv
    <2>5. QED
      BY <2>2, <2>4, <1>2, <1>10 DEF PhaseInv
  <1>12. NodeInv'
    <2>1. node_ctr' \in Nat /\ node_ctr <= node_ctr'
      BY <1>2, <1>3
    <2>2. QED
      BY <2>1, <1>1, <1>2, <1>10, NodeInvKept
  <1>13. f = LeftNode(barrierCount[t] + 1)
    BY DEF f
  <1>14. QED
    BY <1>5, <1>6, <1>7, <1>9, <1>10, <1>11, <1>12, <1>13 DEF TeamInv

LEMMA BarrierOtherInv ==
  ASSUME RegionInv, TypeOK', NEW t \in Threads, BarrierOther(t)
  PROVE  RegionInv'
  <1> DEFINE f == LeftNode(barrierCount[t] + 1)
             a == NewNode(node_ctr + 1, "ASYNC", f)
  <1>1. TypeOK /\ TeamInv /\ abort = "no"
    BY RegionTeam DEF RegionInv
  <1>2. /\ pc[t] = "locking"
        /\ barrierCount' = [barrierCount EXCEPT ![t] = barrierCount[t] + 1]
        /\ last_nodes' = [last_nodes EXCEPT ![t] = last_nodes[t] \o <<f, a>>]
        /\ Arrive(t)
        /\ UNCHANGED <<num_threads, implEndCount, released, team, region, region_nodes>>
    BY DEF BarrierOther
  <1>3. /\ TeamInv' /\ abort' = "no" /\ f \in NodeRecord
        /\ PhaseNode(barrierCount[t])' = f
        /\ \A k \in 0..Len(pendingFinish) : PhaseNode(k)' = PhaseNode(k)
    BY <1>1, BarrierOtherTeam
  <1> HIDE DEF f
  <1>4. a \in NodeRecord /\ a.type = "ASYNC" /\ ~a.finish_flag
    <2>1. node_ctr + 1 \in Nat
      BY <1>1 DEF TypeOK
    <2>2. QED
      BY <2>1, <1>3, NewNodeType DEF NewNode
  <1> HIDE DEF a
  <1>5. \A u \in Threads : StackShape(u)'
    BY <1>2, <1>3, <1>4, EnterPhase
  <1>6. QED
    BY <1>3, <1>5 DEF RegionInv, TeamInv

(* Leaving a barrier moves a thread and nothing else.                      *)
LEMMA LeaveBarrierTeam ==
  ASSUME TeamInv, TypeOK', NEW t \in Threads, BarrierEnd(t)
  PROVE  TeamInv' /\ Active /\ Active' /\ t \in Team
  <1>1. TypeOK /\ ControlInv /\ PhaseInv /\ NodeInv /\ CountInv
    BY DEF TeamInv
  <1>2. pc' = [pc EXCEPT ![t] = "work"]
    BY DEF BarrierEnd
  <1>3. /\ InPhase(t)
        /\ UNCHANGED <<profiler, released, team, arrived, region, region_nodes>>
    BY DEF BarrierEnd, InPhase
  <1>4. UNCHANGED <<last_nodes, node_ctr, num_threads, barrierCount, pendingFinish,
                    implEndCount, abort>>
    BY <1>3 DEF profiler
  <1>5. t \in Team /\ t \notin released /\ Active
    BY <1>3, InTeam
  <1>6. ControlInv' /\ CountInv' /\ Active'
    <2>1. pc[t] \notin {"idle", "forked", "spin", "done"}
      BY <1>3 DEF InPhase
    <2>2. QED
      BY <2>1, <1>1, <1>2, <1>3, <1>4, <1>5, MoveInRegion DEF Control
  <1>7. \A u \in Threads : InPhase(u)' <=> InPhase(u)
    BY <1>1, <1>2, <1>3 DEF InPhase, TypeOK
  <1>8. PhaseInv'
    <2>1. \A u \in Threads : (InPhase(u) \/ pc[u] = "locking")'
             => InPhase(u) \/ pc[u] = "locking"
      BY <1>1, <1>2, <1>7 DEF TypeOK
    <2>2. QED
      BY <2>1, <1>1, <1>3, <1>4 DEF PhaseInv
  <1>9. NodeInv'
    <2>1. node_ctr' \in Nat /\ node_ctr <= node_ctr'
      BY <1>1, <1>4 DEF TypeOK
    <2>2. QED
      BY <2>1, <1>1, <1>3, <1>4, <1>5, NodeInvKept
  <1>10. QED
    BY <1>5, <1>6, <1>8, <1>9 DEF TeamInv

LEMMA LeaveBarrierInv ==
  ASSUME RegionInv, TypeOK', NEW t \in Threads, BarrierEnd(t)
  PROVE  RegionInv'
  <1>1. TypeOK /\ TeamInv /\ abort = "no"
    BY RegionTeam DEF RegionInv
  <1>2. pc' = [pc EXCEPT ![t] = "work"]
    BY DEF BarrierEnd
  <1>3. /\ InPhase(t)
        /\ UNCHANGED <<profiler, released, team, arrived, region, region_nodes>>
    BY DEF BarrierEnd, InPhase
  <1>4. UNCHANGED <<last_nodes, node_ctr, num_threads, barrierCount, pendingFinish,
                    implEndCount, abort>>
    BY <1>3 DEF profiler
  <1>5. t \in Team /\ t \notin released /\ Active
    BY <1>3, InRegion
  <1>6. TeamInv' /\ Active'
    BY <1>1, LeaveBarrierTeam
  <1>7. \A u \in Threads : InPhase(u)' <=> InPhase(u)
    BY <1>1, <1>2, <1>3 DEF InPhase, TypeOK
  <1>8. ASSUME NEW u \in Threads
        PROVE  StackShape(u)'
    <2>1. StackShape(u)
      BY DEF RegionInv
    <2>2. CASE u = t
      <3>1. pc'[t] = "work" /\ InPhase(t)' /\ t \notin released'
        BY <1>1, <1>2, <1>3, <1>5, <1>7 DEF TypeOK
      <3>2. PhaseNode(barrierCount[t])' = PhaseNode(barrierCount[t])
        BY <1>3, <1>4 DEF PhaseNode
      <3>3. QED
        BY <2>1, <2>2, <3>1, <3>2, <1>2, <1>3, <1>4 DEF StackShape, Depth
    <2>3. CASE u # t
      <3>1. pc'[u] = pc[u]
        BY <2>3, <1>1, <1>2 DEF TypeOK
      <3>2. PhaseNode(barrierCount[u])' = PhaseNode(barrierCount[u])
        BY <1>3, <1>4 DEF PhaseNode
      <3>3. Orphan(u)' <=> Orphan(u)
        BY <1>3, <1>4, <1>5, <1>6 DEF Orphan
      <3>4. QED
        BY <2>1, <3>1, <3>2, <3>3, <1>3, <1>4, StackShapeKept
    <2>4. QED
      BY <2>2, <2>3
  <1>9. QED
    BY <1>1, <1>4, <1>6, <1>8 DEF RegionInv, TeamInv

LEMMA ImplicitTaskEndTeam ==
  ASSUME TeamInv, TypeOK', NEW t \in Threads, ImplicitTaskEnd(t)
  PROVE  TeamInv' /\ Active /\ Active' /\ t \in Team
  <1>1. TypeOK /\ ControlInv /\ PhaseInv /\ NodeInv /\ CountInv
    BY DEF TeamInv
  <1>2. /\ InPhase(t)
        /\ node_ctr' = node_ctr + 1
        /\ pc' = [pc EXCEPT ![t] = "ended"]
        /\ UNCHANGED <<num_threads, barrierCount, pendingFinish, implEndCount,
                       released, team, arrived, region, region_nodes>>
    BY DEF ImplicitTaskEnd, MayEnd, InPhase
  <1>3. t \in Team /\ t \notin released /\ Active
    BY <1>2, InTeam
  <1>4. ControlInv' /\ CountInv' /\ Active'
    <2>1. pc[t] \notin {"idle", "forked", "spin", "done"}
      BY <1>2 DEF InPhase
    <2>2. QED
      BY <2>1, <1>1, <1>2, <1>3, MoveInRegion DEF Control
  <1>5. PhaseInv'
    BY <1>1, <1>2 DEF PhaseInv, InPhase, TypeOK
  <1>6. NodeInv'
    <2>1. node_ctr' \in Nat /\ node_ctr <= node_ctr'
      BY <1>1, <1>2 DEF TypeOK
    <2>2. QED
      BY <2>1, <1>1, <1>2, <1>3, NodeInvKept
  <1>7. QED
    BY <1>3, <1>4, <1>5, <1>6 DEF TeamInv

LEMMA ImplicitTaskEndInv ==
  ASSUME RegionInv, TypeOK', NEW t \in Threads, ImplicitTaskEnd(t)
  PROVE  RegionInv'
  <1> DEFINE s == last_nodes[t]
             d == Depth(t)
  <1>1. TypeOK /\ TeamInv /\ StackShape(t)
    BY RegionTeam DEF RegionInv
  <1>2. /\ InPhase(t)
        /\ Require(Pop(Pop(Cleanup(s))) # <<>>, "no_region_node")
        /\ node_ctr' = node_ctr + 1
        /\ last_nodes' = [last_nodes EXCEPT ![t] = Pop(Pop(Pop(Cleanup(s))))]
        /\ pc' = [pc EXCEPT ![t] = "ended"]
        /\ UNCHANGED <<num_threads, barrierCount, pendingFinish, implEndCount,
                       released, team, arrived, region, region_nodes>>
    BY DEF ImplicitTaskEnd, MayEnd, InPhase
  <1>3. t \in Team /\ t \notin released /\ Active
    BY <1>2, InRegion
  <1>4. TeamInv' /\ Active'
    BY <1>1, ImplicitTaskEndTeam
  <1>5. d \in {0, 1} /\ (t = Master => d = 1)
    BY DEF Depth
  <1>6. s \in Seq(NodeRecord) /\ Len(s) = d + 3 /\ ~s[d + 3].finish_flag
        /\ (t = Master => s[1] = Root)
    BY <1>1, <1>2 DEF TypeOK, StackShape
  <1> HIDE DEF d
  <1>7. /\ Pop(s) \in Seq(NodeRecord) /\ Len(Pop(s)) = d + 2
        /\ \A i \in 1..(d + 2) : Pop(s)[i] = s[i]
        /\ Top(s) = s[d + 3]
    <2>1. Len(s) > 0 /\ Len(s) - 1 = d + 2
      BY <1>5, <1>6
    <2>2. QED
      BY <1>6, <2>1, PopStack
  <1>8. Cleanup(s) = s
    BY <1>6, <1>7 DEF Cleanup
  <1>9. /\ Pop(Pop(s)) \in Seq(NodeRecord) /\ Len(Pop(Pop(s))) = d + 1
        /\ \A i \in 1..(d + 1) : Pop(Pop(s))[i] = s[i]
    <2>1. Len(Pop(s)) > 0 /\ Len(Pop(s)) - 1 = d + 1
      BY <1>5, <1>7
    <2>2. \A i \in 1..(d + 1) : i \in 1..(d + 2)
      BY <1>5
    <2>3. QED
      BY <1>7, <2>1, <2>2, PopStack
  <1>10. /\ Len(Pop(Pop(Pop(s)))) = d
         /\ \A i \in 1..d : Pop(Pop(Pop(s)))[i] = s[i]
    <2>1. Len(Pop(Pop(s))) > 0 /\ Len(Pop(Pop(s))) - 1 = d
      BY <1>5, <1>9
    <2>2. \A i \in 1..d : i \in 1..(d + 1)
      BY <1>5
    <2>3. QED
      BY <1>9, <2>1, <2>2, PopStack
  <1>11. abort' = "no"
    <2>1. Pop(Pop(s)) # <<>>
      <3>1. Len(Pop(Pop(s))) # 0
        BY <1>5, <1>9
      <3>2. QED
        BY <3>1, EmptySeq
    <2>2. QED
      BY <1>2, <1>8, <2>1 DEF Require, RegionInv
  <1>12. ASSUME NEW u \in Threads
         PROVE  StackShape(u)'
    <2>1. CASE u = t
      <3>1. last_nodes'[t] = Pop(Pop(Pop(s))) /\ pc'[t] = "ended" /\ t \notin released'
        BY <1>1, <1>2, <1>3, <1>8 DEF TypeOK
      <3>2. Len(last_nodes'[t]) = Depth(t)
        BY <1>10, <3>1 DEF d
      <3>3. t = Master => Len(last_nodes'[t]) >= 1 /\ last_nodes'[t][1] = Root
        BY <1>5, <1>6, <1>10, <3>1
      <3>4. QED
        BY <2>1, <3>1, <3>2, <3>3 DEF StackShape, InPhase, Depth
    <2>2. CASE u # t
      <3>1. StackShape(u)
        BY DEF RegionInv
      <3>2. last_nodes'[u] = last_nodes[u] /\ pc'[u] = pc[u]
        BY <2>2, <1>1, <1>2 DEF TypeOK
      <3>3. PhaseNode(barrierCount[u])' = PhaseNode(barrierCount[u])
        BY <1>2 DEF PhaseNode
      <3>4. Orphan(u)' <=> Orphan(u)
        BY <1>2, <1>3, <1>4 DEF Orphan
      <3>5. QED
        BY <3>1, <3>2, <3>3, <3>4, <1>2, StackShapeKept
    <2>3. QED
      BY <2>1, <2>2
  <1>13. QED
    BY <1>4, <1>11, <1>12 DEF RegionInv, TeamInv

LEMMA CountImplicitEndTeam ==
  ASSUME TeamInv, TypeOK', NEW t \in Threads, CountImplicitEnd(t)
  PROVE  TeamInv' /\ Active /\ Active' /\ t \in Team /\ t \notin released
  <1>1. TypeOK /\ ControlInv /\ PhaseInv /\ NodeInv /\ CountInv
    BY DEF TeamInv
  <1>2. /\ pc[t] = "ended"
        /\ implEndCount' = implEndCount + 1
        /\ pc' = [pc EXCEPT ![t] = IF t = Master THEN "spin" ELSE "idle"]
        /\ UNCHANGED <<last_nodes, node_ctr, num_threads, barrierCount, pendingFinish,
                       abort, released, team, arrived, region, region_nodes>>
    BY DEF CountImplicitEnd
  <1>3. Master \in Threads
    BY RegionAssumption DEF Threads, Master
  <1>4. t \in Team /\ t \notin released
    BY <1>1, <1>2 DEF ControlInv
  <1>5. Active
    <2>1. CASE t = Master
      BY <2>1, <1>2 DEF Active
    <2>2. CASE t # Master
      BY <2>2, <1>1, <1>2 DEF ControlInv
    <2>3. QED
      BY <2>1, <2>2
  <1>6. Active'
    BY <1>1, <1>2, <1>3, <1>5 DEF Active, TypeOK
  <1>7. ControlInv'
    BY <1>1, <1>2, <1>3, <1>4, <1>6 DEF ControlInv, TypeOK, Team
  <1>8. CountInv'
    <2>1. t \notin Counted
      BY <1>2 DEF Counted
    <2>2. Counted' = Counted \union {t}
      <3>1. \A u \in Threads : pc'[u] = IF u = t THEN (IF t = Master THEN "spin" ELSE "idle")
                                                 ELSE pc[u]
        BY <1>1, <1>2 DEF TypeOK
      <3>2. Team' = Team /\ Team \subseteq Threads
        BY <1>1, <1>2, RegionAssumption DEF Team, TypeOK, Threads
      <3>3. QED
        BY <3>1, <3>2, <1>2, <1>4 DEF Counted
    <2>3. IsFiniteSet(Counted) /\ Cardinality(Counted) \in Nat
      BY <1>1, CountedFinite
    <2>4. Cardinality(Counted') = Cardinality(Counted) + 1
      BY <2>1, <2>2, <2>3, FS_AddElement
    <2>5. QED
      BY <2>4, <1>1, <1>2, <1>5 DEF CountInv
  <1>9. PhaseInv'
    BY <1>1, <1>2 DEF PhaseInv, InPhase, TypeOK
  <1>10. NodeInv'
    <2>1. node_ctr' \in Nat /\ node_ctr <= node_ctr'
      BY <1>1, <1>2 DEF TypeOK
    <2>2. QED
      BY <2>1, <1>1, <1>2, <1>5, NodeInvKept
  <1>11. QED
    BY <1>4, <1>5, <1>6, <1>7, <1>8, <1>9, <1>10 DEF TeamInv

LEMMA CountImplicitEndInv ==
  ASSUME RegionInv, TypeOK', NEW t \in Threads, CountImplicitEnd(t)
  PROVE  RegionInv'
  <1>1. TypeOK /\ TeamInv /\ abort = "no"
    BY RegionTeam DEF RegionInv
  <1>2. /\ pc[t] = "ended"
        /\ implEndCount' = implEndCount + 1
        /\ pc' = [pc EXCEPT ![t] = IF t = Master THEN "spin" ELSE "idle"]
        /\ UNCHANGED <<last_nodes, node_ctr, num_threads, barrierCount, pendingFinish,
                       abort, released, team, arrived, region, region_nodes>>
    BY DEF CountImplicitEnd
  <1>3. TeamInv' /\ Active /\ Active' /\ t \in Team /\ t \notin released
    BY <1>1, CountImplicitEndTeam
  <1>4. ASSUME NEW u \in Threads
        PROVE  StackShape(u)'
    <2>1. StackShape(u)
      BY DEF RegionInv
    <2>2. Orphan(u)' <=> Orphan(u)
      BY <1>2, <1>3 DEF Orphan
    <2>3. CASE u = t
      <3>1. pc'[t] \in {"spin", "idle"} /\ t \notin released'
        BY <1>1, <1>2, <1>3 DEF TypeOK
      <3>2. QED
        BY <2>1, <2>2, <2>3, <3>1, <1>2, <1>3 DEF StackShape, InPhase, Depth
    <2>4. CASE u # t
      <3>1. pc'[u] = pc[u]
        BY <2>4, <1>1, <1>2 DEF TypeOK
      <3>2. PhaseNode(barrierCount[u])' = PhaseNode(barrierCount[u])
        BY <1>2 DEF PhaseNode
      <3>3. QED
        BY <2>1, <2>2, <3>1, <3>2, <1>2, StackShapeKept
    <2>5. QED
      BY <2>3, <2>4
  <1>5. QED
    BY <1>1, <1>2, <1>3, <1>4 DEF RegionInv, TeamInv

(* In serial code every stack but the master's is empty.                   *)
LEMMA SerialStacks ==
  ASSUME RegionInv, ~Active, NEW t \in Threads
  PROVE  /\ Len(last_nodes[t]) = Depth(t)
         /\ t # Master => last_nodes[t] = <<>> /\ pc[t] = "idle"
         /\ t = Master => last_nodes[t] = <<Root>>
         /\ t \notin released /\ implEndCount = 0
  <1>1. TypeOK /\ ControlInv /\ StackShape(t)
    BY DEF RegionInv
  <1>2. t \notin released /\ implEndCount = 0 /\ ~Orphan(t)
    BY <1>1 DEF ControlInv, Orphan
  <1>3. pc[t] \in {"idle", "done"} /\ (t # Master => pc[t] = "idle")
    BY <1>1 DEF ControlInv, Active
  <1>4. Len(last_nodes[t]) = Depth(t)
    BY <1>1, <1>2, <1>3 DEF StackShape
  <1>5. last_nodes[t] \in Seq(NodeRecord)
    BY <1>1 DEF TypeOK
  <1>6. t # Master => last_nodes[t] = <<>>
    <2>1. t # Master => Len(last_nodes[t]) = 0
      BY <1>4 DEF Depth
    <2>2. QED
      BY <2>1, <1>5, EmptySeq
  <1>7. t = Master => last_nodes[t] = <<Root>>
    <2>1. SUFFICES ASSUME t = Master PROVE last_nodes[t] = <<Root>>
      OBVIOUS
    <2>2. Len(last_nodes[t]) = 1 /\ last_nodes[t][1] = Root
      BY <1>1, <1>4, <2>1 DEF Depth, StackShape
    <2>3. QED
      BY <2>2, <1>5
  <1>8. QED
    BY <1>2, <1>3, <1>4, <1>6, <1>7

LEMMA ParallelEndTeam ==
  ASSUME TeamInv, TypeOK', ParallelEnd
  PROVE  /\ TeamInv' /\ Active /\ ~Active' /\ team = num_threads /\ released = {}
         /\ \A u \in Threads : pc'[u] = "idle" /\ pc[u] \in {"idle", "spin"}
  <1>1. TypeOK /\ ControlInv /\ PhaseInv /\ NodeInv /\ CountInv
    BY DEF TeamInv
  <1>2. /\ pc[Master] = "spin"
        /\ implEndCount >= num_threads
        /\ implEndCount' = 0
        /\ pc' = [pc EXCEPT ![Master] = "idle"]
        /\ UNCHANGED <<last_nodes, node_ctr, num_threads, barrierCount, pendingFinish,
                       abort, released, team, arrived, region, region_nodes>>
    BY DEF ParallelEnd, EndsCounted
  <1>3. Master \in Threads /\ Active
    BY <1>2, RegionAssumption DEF Threads, Master, Active
  <1>4. Counted = Team /\ team = num_threads
    <2>1. implEndCount = Cardinality(Counted) /\ team <= num_threads
      BY <1>1, <1>3 DEF CountInv, ControlInv
    <2>2. Cardinality(Counted) \in Nat /\ Cardinality(Counted) <= team
      BY <1>1, CountedFinite
    <2>3. team \in Nat /\ num_threads \in Nat
      BY <1>1, RegionAssumption DEF TypeOK, Threads
    <2>4. Cardinality(Counted) = team /\ team = num_threads
      BY <2>1, <2>2, <2>3, <1>2
    <2>5. QED
      BY <2>4, <1>1, CountedFinite
  <1>5. pc'[Master] = "idle" /\ ~Active'
    BY <1>1, <1>2, <1>3 DEF TypeOK, Active
  <1>6. \A u \in Threads : u \notin released /\ (u # Master => pc[u] = "idle")
    BY <1>1, <1>4 DEF Counted, ControlInv
  <1>7. released = {}
    BY <1>1, <1>6 DEF TypeOK
  <1>8. \A u \in Threads : pc'[u] = "idle"
    BY <1>1, <1>2, <1>3, <1>6 DEF TypeOK
  <1>9. ControlInv'
    BY <1>1, <1>2, <1>5, <1>7, <1>8 DEF ControlInv
  <1>10. CountInv'
    BY <1>5 DEF CountInv
  <1>11. PhaseInv'
    <2>1. \A u \in Threads : ~(InPhase(u) \/ pc[u] = "locking")'
      BY <1>8 DEF InPhase
    <2>2. QED
      BY <2>1, <1>1, <1>2 DEF PhaseInv
  <1>12. NodeInv'
    <2>1. node_ctr' \in Nat /\ node_ctr <= node_ctr'
      BY <1>1, <1>2 DEF TypeOK
    <2>2. QED
      BY <2>1, <1>1, <1>2, <1>5, NodeInvKept
  <1>13. QED
    BY <1>2, <1>3, <1>4, <1>5, <1>6, <1>7, <1>8, <1>9, <1>10, <1>11, <1>12 DEF TeamInv

LEMMA ParallelEndInv ==
  ASSUME RegionInv, TypeOK', ParallelEnd
  PROVE  RegionInv'
  <1>1. TypeOK /\ TeamInv /\ abort = "no"
    BY RegionTeam DEF RegionInv
  <1>2. UNCHANGED <<last_nodes, abort>>
    BY DEF ParallelEnd
  <1>3. /\ TeamInv' /\ team = num_threads /\ released = {} /\ released' = {}
        /\ \A u \in Threads : pc'[u] = "idle" /\ pc[u] \in {"idle", "spin"}
    BY <1>1, ParallelEndTeam DEF ParallelEnd
  <1>4. ASSUME NEW u \in Threads
         PROVE  StackShape(u)'
    <2>1. StackShape(u)
      BY DEF RegionInv
    <2>2. ~Orphan(u)
      BY <1>1, <1>3, RegionAssumption DEF Orphan, TypeOK, Threads
    <2>3. pc[u] \in {"idle", "spin"} /\ u \notin released
      BY <1>3
    <2>4. Len(last_nodes[u]) = Depth(u)
      BY <2>1, <2>2, <2>3 DEF StackShape
    <2>5. u = Master => Len(last_nodes[u]) >= 1 /\ last_nodes[u][1] = Root
      BY <2>1 DEF StackShape
    <2>6. pc'[u] = "idle" /\ u \notin released' /\ last_nodes'[u] = last_nodes[u]
      BY <1>2, <1>3
    <2>7. QED
      BY <2>4, <2>5, <2>6 DEF StackShape, InPhase, Depth
  <1>5. QED
    BY <1>1, <1>2, <1>3, <1>4 DEF RegionInv, TeamInv

LEMMA FinishProfileTeam ==
  ASSUME TeamInv, TypeOK', FinishProfile
  PROVE  /\ TeamInv' /\ ~Active /\ ~Active'
         /\ pc'[Master] = "done" /\ \A u \in Threads \ {Master} : pc'[u] = "idle" /\ pc[u] = "idle"
  <1>1. TypeOK /\ ControlInv /\ PhaseInv /\ NodeInv /\ CountInv
    BY DEF TeamInv
  <1>2. /\ pc[Master] = "idle"
        /\ node_ctr' = node_ctr + 1
        /\ pc' = [pc EXCEPT ![Master] = "done"]
        /\ UNCHANGED <<last_nodes, num_threads, barrierCount, pendingFinish, implEndCount,
                       abort, released, team, arrived, region, region_nodes>>
    BY DEF FinishProfile
  <1>3. Master \in Threads /\ ~Active
    BY <1>2, RegionAssumption DEF Threads, Master, Active
  <1>4. pc'[Master] = "done" /\ ~Active' /\ \A u \in Threads \ {Master} : pc'[u] = pc[u]
    BY <1>1, <1>2, <1>3 DEF TypeOK, Active
  <1>5. Master \in Team /\ \A u \in Threads \ {Master} : pc[u] = "idle"
    <2>1. \A u \in Threads \ {Master} : pc[u] = "idle"
      BY <1>1, <1>3 DEF ControlInv
    <2>2. QED
      BY <2>1, <1>1, RegionAssumption DEF TypeOK, Team, Threads, Master
  <1>6. ControlInv'
    BY <1>1, <1>2, <1>3, <1>4, <1>5 DEF ControlInv, Team
  <1>7. CountInv'
    BY <1>4 DEF CountInv
  <1>8. PhaseInv'
    <2>1. \A u \in Threads : ~(InPhase(u) \/ pc[u] = "locking")'
      BY <1>4, <1>5 DEF InPhase
    <2>2. QED
      BY <2>1, <1>1, <1>2 DEF PhaseInv
  <1>9. NodeInv'
    <2>1. node_ctr' \in Nat /\ node_ctr <= node_ctr'
      BY <1>1, <1>2 DEF TypeOK
    <2>2. QED
      BY <2>1, <1>1, <1>2, <1>4, NodeInvKept
  <1>10. QED
    BY <1>3, <1>4, <1>5, <1>6, <1>7, <1>8, <1>9 DEF TeamInv

LEMMA FinishProfileInv ==
  ASSUME RegionInv, TypeOK', FinishProfile
  PROVE  RegionInv'
  <1>1. TypeOK /\ TeamInv /\ abort = "no"
    BY RegionTeam DEF RegionInv
  <1>2. UNCHANGED <<last_nodes, abort, released>>
    BY DEF FinishProfile
  <1>3. /\ TeamInv' /\ ~Active
        /\ pc'[Master] = "done" /\ \A u \in Threads \ {Master} : pc'[u] = "idle"
    BY <1>1, FinishProfileTeam
  <1>4. ASSUME NEW u \in Threads
        PROVE  StackShape(u)'
    <2>1. Len(last_nodes'[u]) = Depth(u) /\ u \notin released'
      BY <1>2, <1>3, SerialStacks
    <2>2. pc'[u] \in {"idle", "done"}
      BY <1>3
    <2>3. u = Master => Len(last_nodes'[u]) >= 1 /\ last_nodes'[u][1] = Root
      BY <1>2 DEF RegionInv, StackShape
    <2>4. QED
      BY <2>1, <2>2, <2>3 DEF StackShape, InPhase, Depth
  <1>5. QED
    BY <1>1, <1>2, <1>3, <1>4 DEF RegionInv, TeamInv

LEMMA ParallelBeginTeam ==
  ASSUME TeamInv, TypeOK', NEW req \in Requests, NEW b \in 0..MaxBarriers,
         ParallelBegin(req, b)
  PROVE  /\ TeamInv' /\ ~Active /\ Active'
         /\ pc'[Master] = "forked" /\ \A t \in Threads \ {Master} : pc[t] = "idle" /\ pc'[t] = "idle"
         /\ released = {} /\ released' = 1..team' /\ team' <= num_threads'
         /\ num_threads' = ExpectedTeam(req) /\ ExpectedTeam(req) \in Threads
         /\ region_nodes'[1] \in NodeRecord /\ region_nodes'[2] \in NodeRecord
  <1> DEFINE f1 == NewNode(node_ctr + 2, "FINISH", Top(last_nodes[Master]))
             f2 == NewNode(node_ctr + 3, "FINISH", f1)
             n  == ExpectedTeam(req)
             m  == ForkedTeam(req)
  <1>1. TypeOK /\ ControlInv
    BY DEF TeamInv
  <1>2. /\ pc[Master] = "idle"
        /\ node_ctr' = node_ctr + 3
        /\ num_threads' = n
        /\ barrierCount' = [t \in Threads |-> IF t \in 1..n THEN 0 ELSE barrierCount[t]]
        /\ pendingFinish' = <<>>
        /\ pc' = [pc EXCEPT ![Master] = "forked"]
        /\ released' = released \union 1..m
        /\ team' = m
        /\ arrived' = [t \in Threads |-> 0]
        /\ region' = region + 1
        /\ region_nodes' = <<f1, f2>>
        /\ implEndCount' = implEndCount
    BY DEF ParallelBegin, ForgetBarriers
  <1>3. n \in Threads /\ m \in Threads /\ m <= n
    BY RegionAssumption DEF Threads, ExpectedTeam, ForkedTeam
  <1>4. 1..n \subseteq Threads /\ 1..m \subseteq 1..n /\ Master \in 1..m
    BY <1>3, RegionAssumption DEF Threads, Master
  <1> HIDE DEF n, m
  <1>5. /\ f1 \in NodeRecord /\ f1.type = "FINISH" /\ ~f1.finish_flag
        /\ f1.id = node_ctr + 2
    <2>1. Master \in Threads
      BY <1>4
    <2>2. last_nodes[Master] \in Seq(NodeRecord) /\ node_ctr + 2 \in Nat
      BY <1>1, <2>1 DEF TypeOK
    <2>3. Top(last_nodes[Master]) \in NodeRecord
      BY <2>2, TopType
    <2>4. f1 \in NodeRecord
      BY <2>2, <2>3, NewNodeType
    <2>5. QED
      BY <2>4 DEF NewNode
  <1>6. f2.parent = f1.id
    BY DEF NewNode
  <1> HIDE DEF f1
  <1>7. /\ f2 \in NodeRecord /\ f2.type = "FINISH" /\ ~f2.finish_flag
        /\ f2.id = node_ctr + 3
    <2>1. node_ctr + 3 \in Nat
      BY <1>1 DEF TypeOK
    <2>2. QED
      BY <2>1, <1>5, NewNodeType DEF NewNode
  <1> HIDE DEF f2
  <1>8. ~Active /\ Master \in Threads
    BY <1>2, <1>4, <1>3 DEF Active
  <1>9. /\ \A t \in Threads \ {Master} : pc[t] = "idle"
        /\ released = {} /\ implEndCount = 0
    BY <1>1, <1>8 DEF ControlInv
  <1>10. released' = 1..m /\ implEndCount' = 0
    BY <1>2, <1>9
  <1>11. /\ pc'[Master] = "forked" /\ Active'
         /\ \A t \in Threads \ {Master} : pc'[t] = "idle"
    BY <1>1, <1>2, <1>8, <1>9 DEF TypeOK, Active
  <1>12. ControlInv'
    BY <1>2, <1>3, <1>4, <1>10, <1>11 DEF ControlInv, Team
  <1>13. CountInv'
    <2>1. Counted' = {}
      BY <1>2, <1>10 DEF Counted, Team
    <2>2. QED
      BY <2>1, <1>10, FS_EmptySet DEF CountInv
  <1>14. PhaseInv'
    <2>1. \A t \in 1..n : barrierCount'[t] = 0
      BY <1>2, <1>4
    <2>2. \A t \in Threads : arrived'[t] = 0 /\ ~(InPhase(t) \/ pc[t] = "locking")'
      BY <1>2, <1>11 DEF InPhase
    <2>3. Len(pendingFinish') = 0
      BY <1>2
    <2>4. \A t \in 1..num_threads' : barrierCount'[t] <= Len(pendingFinish')
      BY <2>1, <2>3, <1>2
    <2>5. \A t \in released' : barrierCount'[t] = 0 /\ arrived'[t] = 0
      BY <2>1, <2>2, <1>4, <1>10
    <2>6. QED
      BY <2>2, <2>3, <2>4, <2>5 DEF PhaseInv
  <1>15. NodeInv'
    <2>1. region_nodes'[1] = f1 /\ region_nodes'[2] = f2 /\ region' > 0
      BY <1>1, <1>2 DEF TypeOK
    <2>2. node_ctr + 2 <= node_ctr' /\ node_ctr + 3 <= node_ctr'
      BY <1>1, <1>2 DEF TypeOK
    <2>3. 1..Len(pendingFinish') = {}
      BY <1>2
    <2>4. \A i \in 1..2 : i = 1 \/ i = 2
      OBVIOUS
    <2>5. QED
      BY <2>1, <2>2, <2>3, <2>4, <1>5, <1>6, <1>7 DEF NodeInv
  <1>16. QED
    <2>1. /\ num_threads' = ExpectedTeam(req) /\ ExpectedTeam(req) \in Threads
          /\ released' = 1..team' /\ team' <= num_threads'
      BY <1>2, <1>3, <1>10 DEF n
    <2>2. region_nodes'[1] \in NodeRecord /\ region_nodes'[2] \in NodeRecord
      BY <1>2, <1>5, <1>7
    <2>3. QED
      BY <2>1, <2>2, <1>8, <1>9, <1>11, <1>12, <1>13, <1>14, <1>15 DEF TeamInv

LEMMA ParallelBeginInv ==
  ASSUME RegionInv, TypeOK', NEW req \in Requests, NEW b \in 0..MaxBarriers,
         ParallelBegin(req, b)
  PROVE  RegionInv'
  <1> DEFINE f1 == NewNode(node_ctr + 2, "FINISH", Top(last_nodes[Master]))
             f2 == NewNode(node_ctr + 3, "FINISH", f1)
             n  == ExpectedTeam(req)
  <1>1. TypeOK /\ TeamInv /\ abort = "no"
    BY RegionTeam DEF RegionInv
  <1>2. /\ Require(\A t \in (1..n) \ {Master} : last_nodes[t] = <<>>, "stack_not_empty")
        /\ last_nodes' = [t \in Threads |->
             IF t \in 1..n THEN last_nodes[t] \o <<f1, f2>> ELSE last_nodes[t]]
        /\ region_nodes' = <<f1, f2>>
    BY DEF ParallelBegin
  <1>3. /\ TeamInv' /\ ~Active /\ Active'
        /\ pc'[Master] = "forked" /\ \A t \in Threads \ {Master} : pc'[t] = "idle"
        /\ released' = 1..team' /\ team' <= num_threads' /\ num_threads' = n
        /\ n \in Threads
        /\ region_nodes'[1] \in NodeRecord /\ region_nodes'[2] \in NodeRecord
    BY <1>1, ParallelBeginTeam
  <1> HIDE DEF n, f1, f2
  <1>4. /\ f1 \in NodeRecord /\ f2 \in NodeRecord
        /\ 1..n \subseteq Threads /\ Master \in 1..n
    BY <1>2, <1>3, RegionAssumption DEF Threads, Master
  <1>5. ASSUME NEW t \in Threads
        PROVE  /\ Len(last_nodes[t]) = Depth(t)
               /\ t # Master => last_nodes[t] = <<>> /\ pc[t] = "idle"
               /\ t = Master => last_nodes[t] = <<Root>>
    BY <1>3, SerialStacks
  <1>6. abort' = "no"
    <2>1. \A t \in (1..n) \ {Master} : last_nodes[t] = <<>>
      BY <1>4, <1>5
    <2>2. QED
      BY <2>1, <1>1, <1>2 DEF Require
  <1>7. ASSUME NEW t \in Threads
         PROVE  StackShape(t)'
    <2>1. Depth(t) \in {0, 1} /\ (t = Master => Depth(t) = 1)
      BY DEF Depth
    <2>2. ~InPhase(t)' /\ pc'[t] \in {"idle", "forked"}
      BY <1>3 DEF InPhase
    <2>3. CASE t \in 1..n
      <3>1. last_nodes'[t] = last_nodes[t] \o <<f1, f2>>
        BY <2>3, <1>2
      <3>2. last_nodes[t] \in Seq(NodeRecord)
        BY <1>1 DEF TypeOK
      <3>3. /\ Len(last_nodes'[t]) = Len(last_nodes[t]) + 2
            /\ \A i \in 1..Len(last_nodes[t]) : last_nodes'[t][i] = last_nodes[t][i]
            /\ last_nodes'[t][Len(last_nodes[t]) + 1] = f1
            /\ last_nodes'[t][Len(last_nodes[t]) + 2] = f2
        BY <3>1, <3>2, <1>4, PushTwo
      <3>4. /\ Len(last_nodes'[t]) = Depth(t) + 2
            /\ last_nodes'[t][Depth(t) + 1] = f1
            /\ last_nodes'[t][Depth(t) + 2] = f2
        BY <3>3, <1>5
      <3>5. t = Master => last_nodes'[t][1] = Root
        <4>1. SUFFICES ASSUME t = Master PROVE last_nodes'[t][1] = Root
          OBVIOUS
        <4>2. 1 \in 1..Len(last_nodes[t]) /\ last_nodes[t][1] = Root
          BY <4>1, <2>1, <1>5
        <4>3. QED
          BY <4>2, <3>3
      <3>6. t \in released' \/ Orphan(t)' \/ t \notin 1..n
        <4>1. team' \in Nat /\ n \in Nat
          BY <1>3 DEF TypeOK, Threads
        <4>2. t \in 1..team' \/ t \in (team' + 1)..n
          <5>1. \A x, y \in Nat : \A z \in 1..y : z \in 1..x \/ z \in (x + 1)..y
            OBVIOUS
          <5>2. QED
            BY <5>1, <4>1, <2>3
        <4>3. QED
          BY <4>2, <1>3 DEF Orphan
      <3>7. region_nodes'[1] = f1 /\ region_nodes'[2] = f2
        BY <1>2
      <3>8. t = Master => Len(last_nodes'[t]) >= 1
        BY <3>4, <2>1
      <3>9. QED
        BY <2>2, <2>3, <3>4, <3>5, <3>6, <3>7, <3>8 DEF StackShape, Depth
    <2>4. CASE t \notin 1..n
      <3>1. last_nodes'[t] = last_nodes[t] /\ t # Master /\ t \notin released'
        <4>1. t \notin 1..team'
          <5>1. team' \in Nat /\ n \in Nat /\ team' <= n
            BY <1>3 DEF TypeOK, Threads
          <5>2. QED
            BY <5>1, <2>4
        <4>2. QED
          BY <4>1, <2>4, <1>2, <1>3, <1>4
      <3>2. QED
        BY <2>2, <3>1, <1>5 DEF StackShape, Depth
    <2>5. QED
      BY <2>3, <2>4
  <1>8. QED
    BY <1>3, <1>6, <1>7 DEF RegionInv, TeamInv

LEMMA RegionInvStep == RegionInv /\ [Next]_vars => RegionInv'
<1> SUFFICES ASSUME RegionInv, [Next]_vars PROVE RegionInv'
  OBVIOUS
<1>1. TypeOK'
  BY TypeStep DEF RegionInv
<1>2. CASE \E req \in Requests, b \in 0..MaxBarriers : ParallelBegin(req, b)
  BY <1>1, <1>2, ParallelBeginInv
<1>3. CASE \E t \in Threads : ThreadStep(t)
  <2>1. PICK t \in Threads : ThreadStep(t)
    BY <1>3
  <2>2. CASE ImplicitTaskBegin(t)
    BY <2>2, <1>1, ImplicitTaskBeginInv
  <2>3. CASE BarrierBegin(t)
    BY <2>3, <1>1, BarrierBeginInv
  <2>4. CASE BarrierFirst(t)
    BY <2>4, <1>1, BarrierFirstInv
  <2>5. CASE BarrierOther(t)
    BY <2>5, <1>1, BarrierOtherInv
  <2>6. CASE BarrierEnd(t)
    BY <2>6, <1>1, LeaveBarrierInv
  <2>7. CASE ImplicitTaskEnd(t)
    BY <2>7, <1>1, ImplicitTaskEndInv
  <2>8. CASE CountImplicitEnd(t)
    BY <2>8, <1>1, CountImplicitEndInv
  <2>9. QED
    BY <2>1, <2>2, <2>3, <2>4, <2>5, <2>6, <2>7, <2>8 DEF ThreadStep
<1>4. CASE ParallelEnd
  BY <1>1, <1>4, ParallelEndInv
<1>5. CASE FinishProfile
  BY <1>1, <1>5, FinishProfileInv
<1>6. CASE UNCHANGED vars
  BY <1>6 DEF vars, profiler, runtime, RegionInv, TypeOK, StackShape, ControlInv,
     CountInv, PhaseInv, NodeInv, Active, Orphan, PhaseNode, Depth, InPhase, Counted,
     Team
<1>7. QED
  BY <1>2, <1>3, <1>4, <1>5, <1>6 DEF Next, Finished

----------------------------------------------------------------------------
(* The inductive invariant holds in every reachable state: what each       *)
(* thread's stack holds is a function of its place in the region, of the   *)
(* barriers it has counted and of the FINISH nodes the barriers created.   *)
THEOREM RegionInvariant == Spec => []RegionInv
  BY RegionInvInit, RegionInvStep, PTL DEF Spec

(* No assertion of the handlers of parallel regions, barriers and implicit *)
(* tasks fails, whatever the number of threads and the interleaving.       *)
THEOREM NoAssertionFails == Spec => []NoAssertFails
  <1>1. RegionInv => NoAssertFails
    BY DEF RegionInv, NoAssertFails
  <1>2. QED
    BY <1>1, RegionInvariant, PTL

(* Between regions nothing of the last region is left: no handler, no      *)
(* open node but the root, no count.                                       *)
THEOREM SerialCodeIsClean == Spec => []SerialAfterRegion
  <1>1. RegionInv => SerialAfterRegion
    <2>1. SUFFICES ASSUME RegionInv, ~Active PROVE SerialAfterRegion
      BY DEF SerialAfterRegion, Active
    <2>2. Master \in Threads
      BY RegionAssumption DEF Master, Threads
    <2>3. released = {}
      BY <2>1, SerialStacks DEF RegionInv, TypeOK
    <2>4. QED
      BY <2>1, <2>2, <2>3, SerialStacks DEF SerialAfterRegion
  <1>2. QED
    BY <1>1, RegionInvariant, PTL

(* Threads that have passed the same number of barriers log their steps    *)
(* under the same FINISH node, and a later phase has a later node: the     *)
(* tree's phases and the runtime's barriers agree for every team size.     *)
THEOREM PhasesStayInStep == Spec => []PhasesAgree
  <1>1. RegionInv => PhasesAgree
    <2>1. SUFFICES ASSUME RegionInv, NEW t \in Threads, NEW u \in Threads,
                          InPhase(t), InPhase(u)
                   PROVE  /\ arrived[t] = arrived[u] => Enclosing(t) = Enclosing(u)
                          /\ arrived[t] < arrived[u] => Enclosing(t).id < Enclosing(u).id
                          /\ Enclosing(t).parent = Enclosing(u).parent
      BY DEF PhasesAgree
    <2>2. RegionInv /\ TypeOK /\ PhaseInv /\ NodeInv
      BY <2>1 DEF RegionInv
    <2>3. ASSUME NEW v \in Threads, InPhase(v)
          PROVE  /\ Enclosing(v) = PhaseNode(arrived[v])
                 /\ arrived[v] \in 0..Len(pendingFinish)
                 /\ PhaseNode(arrived[v]).parent = region_nodes[1].id
      <3>1. /\ Len(last_nodes[v]) = Depth(v) + 3
            /\ last_nodes[v][Depth(v) + 2] = PhaseNode(barrierCount[v])
        BY <2>2, <2>3 DEF RegionInv, StackShape
      <3>2. Depth(v) \in {0, 1}
        BY DEF Depth
      <3>3. Len(last_nodes[v]) - 1 = Depth(v) + 2
        BY <3>1, <3>2
      <3>4. Enclosing(v) = PhaseNode(barrierCount[v])
        BY <3>1, <3>3 DEF Enclosing
      <3>5. barrierCount[v] = arrived[v] /\ barrierCount[v] \in 0..Len(pendingFinish)
            /\ Active
        BY <2>2, <2>3, InRegion DEF PhaseInv
      <3>6. PhaseNode(arrived[v]).parent = region_nodes[1].id
        <4>1. CASE arrived[v] = 0
          BY <4>1, <3>5, <2>2 DEF PhaseNode, NodeInv
        <4>2. CASE arrived[v] # 0
          <5>1. arrived[v] \in 1..Len(pendingFinish)
            BY <4>2, <3>5
          <5>2. QED
            BY <4>2, <5>1, <2>2 DEF PhaseNode, NodeInv
        <4>3. QED
          BY <4>1, <4>2
      <3>7. QED
        BY <3>4, <3>5, <3>6
    <2>4. arrived[t] < arrived[u] => PhaseNode(arrived[t]).id < PhaseNode(arrived[u]).id
      <3>1. SUFFICES ASSUME arrived[t] < arrived[u]
                     PROVE  PhaseNode(arrived[t]).id < PhaseNode(arrived[u]).id
        OBVIOUS
      <3>2. arrived[u] \in 1..Len(pendingFinish) /\ arrived[t] \in 0..(arrived[u] - 1)
        BY <3>1, <2>1, <2>3
      <3>3. PhaseNode(arrived[u]) = pendingFinish[arrived[u]]
        BY <3>2 DEF PhaseNode
      <3>4. CASE arrived[t] = 0
        BY <3>2, <3>3, <3>4, <2>2 DEF PhaseNode, NodeInv
      <3>5. CASE arrived[t] # 0
        <4>1. arrived[t] \in 1..(arrived[u] - 1)
          BY <3>2, <3>5
        <4>2. QED
          BY <4>1, <3>2, <3>3, <3>5, <2>2 DEF PhaseNode, NodeInv
      <3>6. QED
        BY <3>4, <3>5
    <2>5. QED
      BY <2>1, <2>3, <2>4
  <1>2. QED
    BY <1>1, RegionInvariant, PTL

=============================================================================

---------------------------- MODULE PhasesProofs ----------------------------
(***************************************************************************)
(* Proofs about how far the threads of a region are apart and what they    *)
(* leave in the tree: no step is logged in a phase that is over, the       *)
(* stacks of OpenmpRegions implement BulkSynchronous, and the tree of a    *)
(* region is complete when it has ended.  The first two rest on RegionInv, *)
(* LagInv and TreeInv, the last on BranchInv as well.                      *)
(***************************************************************************)
EXTENDS OpenmpRegionsProofs

(* The numbers LagInv is about.                                            *)
LEMMA LagTypes ==
  ASSUME TypeOK
  PROVE  /\ Team \subseteq Threads /\ Master \in Team
         /\ team \in Nat /\ num_threads \in Nat /\ BarriersDue \in Nat
         /\ \A t \in Threads : arrived[t] \in Nat /\ barrierCount[t] \in Nat
  <1>1. team \in Nat /\ team >= 1 /\ num_threads \in Nat /\ barriers \in Nat
    BY RegionAssumption DEF TypeOK, Threads
  <1>2. Team \subseteq Threads /\ Master \in Team
    BY <1>1, RegionAssumption DEF TypeOK, Threads, Team, Master
  <1>3. QED
    BY SMTT(30), <1>1, <1>2 DEF TypeOK, BarriersDue

LEMMA LagInit == Init => LagInv
<1> SUFFICES ASSUME Init PROVE LagInv
  OBVIOUS
<1>1. Team = {1} /\ BarriersDue = 0 /\ 1 \in Threads
  BY RegionAssumption DEF Init, Team, BarriersDue, Threads
<1>2. \A t \in Threads : arrived[t] = 0 /\ barrierCount[t] = 0 /\ pc[t] = "idle"
  BY DEF Init
<1>3. (team + 1)..num_threads \subseteq Threads
  BY RegionAssumption DEF Init, Threads
<1>4. QED
  BY <1>1, <1>2, <1>3 DEF LagInv, Gone

(* A step that leaves the counts alone, and that moves threads only where  *)
(* their counts allow.                                                     *)
LEMMA LagKept ==
  ASSUME TypeOK, LagInv, UNCHANGED <<arrived, barrierCount, num_threads, team, barriers>>,
         \A t \in Threads :
           /\ pc'[t] = "locking" => arrived[t] < BarriersDue
           /\ t \in Team /\ (pc'[t] = "join" \/ t \in Gone') => arrived[t] = BarriersDue
           /\ t \in Team /\ pc'[t] \in {"work", "locking"}
                => \A u \in Team : arrived[t] <= arrived[u]
  PROVE  LagInv'
  <1>1. Team' = Team /\ BarriersDue' = BarriersDue /\ Team \subseteq Threads
    BY LagTypes DEF Team, BarriersDue
  <1>2. QED
    BY <1>1 DEF LagInv

(* A thread that leaves captureBarrierBegin has arrived once more.         *)
LEMMA LagArrive ==
  ASSUME RegionInv, LagInv, NEW t \in Threads, pc[t] = "locking", Arrive(t),
         barrierCount' = [barrierCount EXCEPT ![t] = barrierCount[t] + 1],
         UNCHANGED <<num_threads, team, barriers, released>>
  PROVE  LagInv'
  <1>1. /\ TypeOK /\ t \in Team
        /\ Team \subseteq Threads /\ \A u \in Threads : arrived[u] \in Nat
        /\ team \in Nat /\ num_threads \in Nat /\ BarriersDue \in Nat
    BY InRegion, LagTypes DEF RegionInv
  <1>2. Team' = Team /\ BarriersDue' = BarriersDue
    BY DEF Team, BarriersDue
  <1>3. arrived' = [arrived EXCEPT ![t] = arrived[t] + 1]
    BY DEF Arrive
  <1>4. pc' = [pc EXCEPT ![t] = IF team > 1 /\ arrived[t] + 1 = BarriersDue
                                  THEN "join" ELSE "barrier"]
    BY DEF Arrive
  <1>5. \A u \in Threads : u # t => /\ arrived'[u] = arrived[u] /\ pc'[u] = pc[u]
                                    /\ barrierCount'[u] = barrierCount[u]
    BY <1>1, <1>3, <1>4 DEF TypeOK
  <1>6. /\ arrived'[t] = arrived[t] + 1 /\ barrierCount'[t] = barrierCount[t] + 1
        /\ pc'[t] \in {"join", "barrier"}
        /\ pc'[t] = "join" => arrived[t] + 1 = BarriersDue
    BY <1>1, <1>3, <1>4 DEF TypeOK
  <1>7. arrived[t] < BarriersDue /\ \A u \in Team : arrived[t] <= arrived[u]
    BY <1>1 DEF LagInv
  <1>8. \A u \in Threads : arrived'[u] \in 0..BarriersDue
    BY <1>1, <1>5, <1>6, <1>7 DEF LagInv
  <1>9. \A u \in Team : barrierCount'[u] = arrived'[u]
    BY <1>1, <1>5, <1>6 DEF LagInv
  <1>10. \A u \in (team + 1)..num_threads : barrierCount'[u] = 0
    <2>1. (team + 1)..num_threads \subseteq Threads /\ t \notin (team + 1)..num_threads
      BY <1>1, RegionAssumption DEF TypeOK, Threads, Team
    <2>2. QED
      BY <2>1, <1>5 DEF LagInv
  <1>11. \A u \in Threads : pc'[u] = "locking" => arrived'[u] < BarriersDue
    BY <1>5, <1>6 DEF LagInv
  <1>12. \A u \in Team : pc'[u] = "join" \/ u \in Gone' => arrived'[u] = BarriersDue
    BY <1>1, <1>2, <1>5, <1>6 DEF LagInv, Gone
  <1>13. ASSUME NEW u \in Team, NEW v \in Team
         PROVE  /\ arrived'[u] <= arrived'[v] + 1
                /\ pc'[u] \in {"work", "locking"} => arrived'[u] <= arrived'[v]
    <2>1. /\ arrived[u] <= arrived[v] + 1
          /\ pc[u] \in {"work", "locking"} => arrived[u] <= arrived[v]
          /\ arrived[t] <= arrived[v]
          /\ arrived[u] \in Nat /\ arrived[v] \in Nat /\ arrived[t] \in Nat
      BY <1>1, <1>7 DEF LagInv
    <2>2. CASE u = t
      BY <2>1, <2>2, <1>1, <1>5, <1>6
    <2>3. CASE u # t
      BY <2>1, <2>3, <1>1, <1>5, <1>6
    <2>4. QED
      BY <2>2, <2>3
  <1>14. QED
    BY <1>2, <1>8, <1>9, <1>10, <1>11, <1>12, <1>13 DEF LagInv

LEMMA BarriersDueType == TypeOK' => (BarriersDue \in Nat)'
  <1>1. TypeOK => BarriersDue \in Nat
    BY LagTypes
  <1>2. QED
    BY <1>1, PTL

LEMMA TeamNext == TypeOK' => (Team \subseteq Threads /\ Master \in Team)'
  <1>1. TypeOK => Team \subseteq Threads /\ Master \in Team
    BY LagTypes
  <1>2. QED
    BY <1>1, PTL

LEMMA SmallerInterval ==
  ASSUME NEW m \in Nat, NEW n \in Nat
  PROVE  \A t \in (m + 1)..n : t \in 1..n
  OBVIOUS

LEMMA LagParallelBegin ==
  ASSUME RegionInv, RegionInv', NEW req \in Requests, NEW b \in 0..MaxBarriers,
         ParallelBegin(req, b)
  PROVE  LagInv' /\ Gone' = {}
  <1>1. TypeOK /\ TypeOK' /\ ControlInv /\ ControlInv' /\ PhaseInv'
    BY DEF RegionInv
  <1>2. /\ pc[Master] = "idle" /\ pc' = [pc EXCEPT ![Master] = "forked"]
        /\ arrived' = [t \in Threads |-> 0]
        /\ released' = released \union 1..team'
        /\ num_threads' = ExpectedTeam(req)
        /\ ForgetBarriers(ExpectedTeam(req))
    BY DEF ParallelBegin
  <1>a. /\ num_threads' \in Nat /\ team' \in Nat /\ num_threads' <= NumThreads
        /\ team' <= num_threads' /\ NumThreads \in Nat /\ barriers' \in Nat
    BY <1>1, RegionAssumption DEF ControlInv, TypeOK, Threads
  <1>3. \A t \in 1..num_threads' : t \in Threads /\ barrierCount'[t] = 0
    BY <1>1, <1>2, <1>a DEF ForgetBarriers, Threads
  <1>4. Team' = 1..team' /\ Team' \subseteq released' /\ Team' \subseteq 1..num_threads'
    BY <1>2, <1>a DEF Team
  <1>5. Gone' = {}
    <2>1. Gone' = {t \in Team' : t \notin released' /\ pc'[t] \in {"ended", "spin", "idle"}}
      BY DEF Gone
    <2>2. QED
      BY <1>4, <2>1
  <1>6. \A t \in Threads : pc'[t] \in {"idle", "forked"}
    BY <1>1, <1>2 DEF ControlInv, Active, TypeOK
  <1>7. BarriersDue' \in Nat
    BY <1>1, BarriersDueType
  <1>8. \A t \in (team' + 1)..num_threads' : t \in 1..num_threads'
    BY <1>a, SmallerInterval
  <1>9. \A t \in Team' : t \in Threads /\ t \in 1..num_threads'
    BY <1>3, <1>4
  <1>10. \A t \in Threads : arrived'[t] = 0
    BY <1>2
  <1>11. \A t \in Threads : arrived'[t] \in 0..BarriersDue'
    BY <1>7, <1>10
  <1>12. \A t \in Team' : barrierCount'[t] = arrived'[t]
    BY <1>3, <1>9, <1>10
  <1>13. \A t \in (team' + 1)..num_threads' : barrierCount'[t] = 0
    BY <1>3, <1>8
  <1>14. \A t \in Team' : ~(pc'[t] = "join" \/ t \in Gone')
    BY <1>5, <1>6, <1>9
  <1>15. QED
    BY <1>5, <1>6, <1>9, <1>10, <1>11, <1>12, <1>13, <1>14 DEF LagInv

LEMMA LagStep == RegionInv /\ RegionInv' /\ LagInv /\ [Next]_vars => LagInv'
<1> SUFFICES ASSUME RegionInv, RegionInv', LagInv, [Next]_vars PROVE LagInv'
  OBVIOUS
<1>a. /\ TypeOK /\ ControlInv
      /\ Team \subseteq Threads /\ Master \in Team
      /\ \A u \in Threads : arrived[u] \in Nat
  BY LagTypes DEF RegionInv
<1>1. CASE \E req \in Requests, b \in 0..MaxBarriers : ParallelBegin(req, b)
  BY <1>1, LagParallelBegin
<1>2. CASE \E t \in Threads : ThreadStep(t)
  <2>1. PICK t \in Threads : ThreadStep(t)
    BY <1>2
  <2>2. CASE ImplicitTaskBegin(t)
    <3>1. /\ t \in released /\ released' = released \ {t}
          /\ pc' = [pc EXCEPT ![t] = "work"]
          /\ UNCHANGED <<arrived, barrierCount, num_threads, team, barriers>>
      BY <2>2 DEF ImplicitTaskBegin
    <3>2. arrived[t] = 0
      BY <3>1 DEF RegionInv, PhaseInv
    <3>3. ASSUME NEW u \in Threads
          PROVE  /\ pc'[u] = "locking" => arrived[u] < BarriersDue
                 /\ u \in Team /\ (pc'[u] = "join" \/ u \in Gone') => arrived[u] = BarriersDue
                 /\ u \in Team /\ pc'[u] \in {"work", "locking"}
                      => \A v \in Team : arrived[u] <= arrived[v]
      <4>1. CASE u = t
        BY <4>1, <3>1, <3>2, <1>a DEF TypeOK, Gone
      <4>2. CASE u # t
        BY <4>2, <3>1, <1>a DEF TypeOK, Gone, Team, LagInv
      <4>3. QED
        BY <4>1, <4>2
    <3>4. QED
      BY <3>1, <3>3, <1>a, LagKept
  <2>3. CASE BarrierBegin(t)
    <3>1. /\ pc[t] = "work" /\ arrived[t] < BarriersDue
          /\ pc' = [pc EXCEPT ![t] = "locking"]
          /\ UNCHANGED <<arrived, barrierCount, num_threads, team, barriers, released>>
      BY <2>3 DEF BarrierBegin
    <3>2. ASSUME NEW u \in Threads
          PROVE  /\ pc'[u] = "locking" => arrived[u] < BarriersDue
                 /\ u \in Team /\ (pc'[u] = "join" \/ u \in Gone') => arrived[u] = BarriersDue
                 /\ u \in Team /\ pc'[u] \in {"work", "locking"}
                      => \A v \in Team : arrived[u] <= arrived[v]
      BY <3>1, <1>a DEF TypeOK, Gone, Team, LagInv
    <3>3. QED
      BY <3>1, <3>2, <1>a, LagKept
  <2>4. CASE BarrierFirst(t)
    BY <2>4, LagArrive DEF BarrierFirst
  <2>5. CASE BarrierOther(t)
    BY <2>5, LagArrive DEF BarrierOther
  <2>6. CASE BarrierEnd(t)
    <3>1. /\ pc[t] = "barrier" /\ \A u \in Team : arrived[u] >= arrived[t]
          /\ pc' = [pc EXCEPT ![t] = "work"]
          /\ UNCHANGED <<arrived, barrierCount, num_threads, team, barriers, released>>
      BY <2>6 DEF BarrierEnd, profiler, AllArrived
    <3>2. ASSUME NEW u \in Threads
          PROVE  /\ pc'[u] = "locking" => arrived[u] < BarriersDue
                 /\ u \in Team /\ (pc'[u] = "join" \/ u \in Gone') => arrived[u] = BarriersDue
                 /\ u \in Team /\ pc'[u] \in {"work", "locking"}
                      => \A v \in Team : arrived[u] <= arrived[v]
      BY <3>1, <1>a DEF TypeOK, Gone, Team, LagInv
    <3>3. QED
      BY <3>1, <3>2, <1>a, LagKept
  <2>7. CASE ImplicitTaskEnd(t)
    <3>1. /\ MayEnd(t) /\ pc' = [pc EXCEPT ![t] = "ended"]
          /\ UNCHANGED <<arrived, barrierCount, num_threads, team, barriers, released>>
      BY <2>7 DEF ImplicitTaskEnd
    <3>2. t \in Team => arrived[t] = BarriersDue
      BY <3>1 DEF MayEnd, LagInv
    <3>3. ASSUME NEW u \in Threads
          PROVE  /\ pc'[u] = "locking" => arrived[u] < BarriersDue
                 /\ u \in Team /\ (pc'[u] = "join" \/ u \in Gone') => arrived[u] = BarriersDue
                 /\ u \in Team /\ pc'[u] \in {"work", "locking"}
                      => \A v \in Team : arrived[u] <= arrived[v]
      BY <3>1, <3>2, <1>a DEF TypeOK, Gone, Team, LagInv
    <3>4. QED
      BY <3>1, <3>3, <1>a, LagKept
  <2>8. CASE CountImplicitEnd(t)
    <3>1. /\ pc[t] = "ended" /\ pc' = [pc EXCEPT ![t] = IF t = Master THEN "spin" ELSE "idle"]
          /\ UNCHANGED <<arrived, barrierCount, num_threads, team, barriers, released>>
      BY <2>8 DEF CountImplicitEnd
    <3>2. ASSUME NEW u \in Threads
          PROVE  /\ pc'[u] = "locking" => arrived[u] < BarriersDue
                 /\ u \in Team /\ (pc'[u] = "join" \/ u \in Gone') => arrived[u] = BarriersDue
                 /\ u \in Team /\ pc'[u] \in {"work", "locking"}
                      => \A v \in Team : arrived[u] <= arrived[v]
      BY <3>1, <1>a DEF TypeOK, Gone, Team, LagInv
    <3>3. QED
      BY <3>1, <3>2, <1>a, LagKept
  <2>9. QED
    BY <2>1, <2>2, <2>3, <2>4, <2>5, <2>6, <2>7, <2>8 DEF ThreadStep
<1>3. CASE ParallelEnd
  <2>1. /\ pc[Master] = "spin" /\ pc' = [pc EXCEPT ![Master] = "idle"]
        /\ UNCHANGED <<arrived, barrierCount, num_threads, team, barriers, released>>
    BY <1>3 DEF ParallelEnd
  <2>2. ASSUME NEW u \in Threads
        PROVE  /\ pc'[u] = "locking" => arrived[u] < BarriersDue
               /\ u \in Team /\ (pc'[u] = "join" \/ u \in Gone') => arrived[u] = BarriersDue
               /\ u \in Team /\ pc'[u] \in {"work", "locking"}
                    => \A v \in Team : arrived[u] <= arrived[v]
    BY <2>1, <1>a DEF TypeOK, Gone, Team, LagInv
  <2>3. QED
    BY <2>1, <2>2, <1>a, LagKept
<1>4. CASE FinishProfile
  <2>1. /\ pc[Master] = "idle" /\ pc' = [pc EXCEPT ![Master] = "done"]
        /\ UNCHANGED <<arrived, barrierCount, num_threads, team, barriers, released>>
    BY <1>4 DEF FinishProfile
  <2>2. ASSUME NEW u \in Threads
        PROVE  /\ pc'[u] = "locking" => arrived[u] < BarriersDue
               /\ u \in Team /\ (pc'[u] = "join" \/ u \in Gone') => arrived[u] = BarriersDue
               /\ u \in Team /\ pc'[u] \in {"work", "locking"}
                    => \A v \in Team : arrived[u] <= arrived[v]
    BY <2>1, <1>a DEF TypeOK, Gone, Team, LagInv
  <2>3. QED
    BY <2>1, <2>2, <1>a, LagKept
<1>5. CASE UNCHANGED vars
  BY <1>5 DEF vars, profiler, runtime, LagInv, Gone, Team, BarriersDue
<1>6. QED
  BY <1>1, <1>2, <1>3, <1>4, <1>5 DEF Next, Finished

----------------------------------------------------------------------------
(* The phases of the region, by number.                                    *)
LEMMA PhasesAreNodes ==
  ASSUME TypeOK
  PROVE  /\ Len(pendingFinish) \in Nat /\ Len(Phases) = Len(pendingFinish) + 1
         /\ DOMAIN Phases = 1..(Len(pendingFinish) + 1)
         /\ Phases[1] = region_nodes[2]
         /\ \A k \in 1..Len(pendingFinish) : Phases[k + 1] = pendingFinish[k]
         /\ \A k \in DOMAIN Phases : Phases[k] \in NodeRecord /\ Phases[k] = PhaseNode(k - 1)
  <1> DEFINE L == Len(pendingFinish)
  <1>1. pendingFinish \in Seq(NodeRecord) /\ L \in Nat /\ region_nodes[2] \in NodeRecord
    BY LenProperties DEF TypeOK
  <1>2. <<region_nodes[2]>> \in Seq(NodeRecord) /\ Len(<<region_nodes[2]>>) = 1
    BY <1>1
  <1>3. /\ Phases \in Seq(NodeRecord) /\ Len(Phases) = L + 1
        /\ Phases[1] = region_nodes[2]
        /\ \A i \in 2..(L + 1) : Phases[i] = pendingFinish[i - 1]
    BY <1>1, <1>2, ConcatProperties DEF Phases
  <1>4. DOMAIN Phases = 1..(L + 1)
    BY <1>1, <1>3, LenProperties
  <1>5. ASSUME NEW k \in 1..L PROVE Phases[k + 1] = pendingFinish[k]
    <2>1. k + 1 \in 2..(L + 1) /\ (k + 1) - 1 = k
      BY <1>1
    <2>2. QED
      BY <2>1, <1>3
  <1>6. ASSUME NEW k \in DOMAIN Phases
        PROVE  Phases[k] \in NodeRecord /\ Phases[k] = PhaseNode(k - 1)
    <2>1. Phases[k] \in NodeRecord
      BY <1>3, <1>4, ElementOfSeq
    <2>2. CASE k = 1
      BY <2>1, <2>2, <1>3 DEF PhaseNode
    <2>3. CASE k # 1
      <3>1. k \in 2..(L + 1) /\ k - 1 # 0
        BY <2>3, <1>1, <1>4
      <3>2. QED
        BY <2>1, <3>1, <1>3 DEF PhaseNode
    <2>4. QED
      BY <2>2, <2>3
  <1>7. QED
    BY <1>1, <1>3, <1>4, <1>5, <1>6

LEMMA PhaseDomain == TypeOK' => (DOMAIN Phases = 1..(Len(pendingFinish) + 1))'
  <1>1. TypeOK => DOMAIN Phases = 1..(Len(pendingFinish) + 1)
    BY PhasesAreNodes
  <1>2. QED
    BY <1>1, PTL

(* A phase is known by the id of its node.                                 *)
LEMMA PhaseIdsDiffer ==
  ASSUME TypeOK, NodeInv, NEW j \in DOMAIN Phases, NEW k \in DOMAIN Phases,
         Phases[j].id = Phases[k].id
  PROVE  j = k
  <1>1. ASSUME NEW a \in DOMAIN Phases, NEW b \in DOMAIN Phases, a < b
        PROVE  Phases[a].id < Phases[b].id
    <2>1. /\ b - 1 \in 1..Len(pendingFinish) /\ Phases[b] = pendingFinish[b - 1]
          /\ a - 1 \in 0..(b - 2)
      <3>1. a \in 1..(Len(pendingFinish) + 1) /\ b \in 1..(Len(pendingFinish) + 1)
            /\ Len(pendingFinish) \in Nat
        BY PhasesAreNodes
      <3>2. b - 1 \in 1..Len(pendingFinish) /\ a - 1 \in 0..(b - 2) /\ (b - 1) + 1 = b
        BY <1>1, <3>1
      <3>3. QED
        BY <3>2, PhasesAreNodes
    <2>2. CASE a = 1
      <3>1. Phases[a] = region_nodes[2]
        BY <2>2, PhasesAreNodes
      <3>2. QED
        BY <2>1, <3>1 DEF NodeInv
    <2>3. CASE a # 1
      <3>1. a - 1 \in 1..Len(pendingFinish) /\ a - 1 \in 1..((b - 1) - 1)
            /\ (a - 1) + 1 = a
        BY SMTT(30), <2>1, <2>3, PhasesAreNodes
      <3>2. Phases[a] = pendingFinish[a - 1]
        BY <3>1, PhasesAreNodes
      <3>3. QED
        BY <2>1, <3>1, <3>2 DEF NodeInv
    <2>4. QED
      BY <2>2, <2>3
  <1>2. /\ j \in Nat /\ k \in Nat /\ Phases[j].id \in Nat
    BY PhasesAreNodes DEF NodeRecord
  <1>3. ~(j < k) /\ ~(k < j)
    BY <1>1, <1>2
  <1>4. QED
    BY <1>2, <1>3

(* No thread of the team is more than one phase behind the last.           *)
LEMMA BehindByOne ==
  ASSUME RegionInv, LagInv, NEW t \in Team
  PROVE  /\ Len(pendingFinish) \in Nat /\ barrierCount[t] \in Nat
         /\ barrierCount[t] <= Len(pendingFinish)
         /\ Len(pendingFinish) <= barrierCount[t] + 1
         /\ Len(pendingFinish) <= BarriersDue
  <1>1. /\ TypeOK /\ ControlInv /\ PhaseInv
        /\ Len(pendingFinish) \in Nat /\ BarriersDue \in Nat
        /\ team \in Nat /\ num_threads \in Nat
        /\ Team \subseteq Threads
    BY LagTypes, PhasesAreNodes DEF RegionInv
  <1>2. t \in 1..num_threads /\ t \in Threads /\ barrierCount[t] \in Nat
        /\ arrived[t] \in Nat
    BY <1>1, LagTypes DEF ControlInv, Team
  <1>3. barrierCount[t] <= Len(pendingFinish)
    BY <1>1, <1>2 DEF PhaseInv
  <1>4. CASE Len(pendingFinish) = 0
    BY <1>1, <1>2, <1>3, <1>4
  <1>5. CASE Len(pendingFinish) # 0
    <2>1. PICK u \in 1..num_threads : barrierCount[u] = Len(pendingFinish)
      BY <1>1, <1>5 DEF PhaseInv
    <2>2. u \in Team
      <3>1. u \notin Team => u \in (team + 1)..num_threads
        BY <1>1 DEF Team
      <3>2. QED
        BY <3>1, <2>1, <1>5 DEF LagInv
    <2>3. /\ arrived[u] = barrierCount[u] /\ arrived[t] = barrierCount[t]
          /\ arrived[u] <= arrived[t] + 1 /\ arrived[u] \in 0..BarriersDue
      BY <1>1, <2>2 DEF LagInv
    <2>4. QED
      BY <1>1, <1>2, <1>3, <2>1, <2>3
  <1>6. QED
    BY <1>4, <1>5

----------------------------------------------------------------------------
(* The nodes written so far.                                               *)

LEMMA TreeInit == Init => TreeInv
<1> SUFFICES ASSUME Init PROVE TreeInv
  OBVIOUS
<1>1. TypeOK
  BY TypeInit
<1>2. tree = {Root} /\ node_ctr = 1 /\ Root.id = 1
  BY DEF Init, Root
<1>3. pendingFinish = <<>> /\ region_nodes[2] = Root
  BY DEF Init
<1>4. \A k \in DOMAIN Phases : Phases[k] = Root
  <2>1. Len(pendingFinish) = 0
    BY <1>3
  <2>2. DOMAIN Phases = 1..1
    BY <2>1, <1>1, PhasesAreNodes
  <2>3. QED
    BY <2>2, <1>1, <1>3, PhasesAreNodes
<1>5. \A t \in Threads : ~InPhase(t)
  BY DEF Init, InPhase
<1>6. QED
  BY <1>2, <1>4, <1>5 DEF TreeInv

(* New nodes have new ids.                                                 *)
LEMMA TreeGrows ==
  ASSUME TypeOK, TreeInv, NEW x, NEW y, tree' = tree \union {x, y},
         node_ctr' \in Nat, node_ctr <= node_ctr',
         x.id \in (node_ctr + 1)..node_ctr', y.id \in (node_ctr + 1)..node_ctr',
         x.id = y.id => x = y
  PROVE  /\ \A a \in tree' : a.id \in 1..node_ctr'
         /\ \A a, b \in tree' : a.id = b.id => a = b
         /\ Root \in tree'
  <1>1. node_ctr \in Nat
    BY DEF TypeOK
  <1>2. \A a \in tree : a.id \in 1..node_ctr
    BY DEF TreeInv
  <1>3. \A a \in tree, b \in {x, y} : a.id # b.id
    BY <1>1, <1>2
  <1>4. \A a \in tree' : a.id \in 1..node_ctr'
    BY <1>1, <1>2
  <1>5. \A a, b \in tree' : a.id = b.id => a = b
    BY <1>3 DEF TreeInv
  <1>6. QED
    BY <1>4, <1>5 DEF TreeInv

(* A step that opens no node and no phase.                                 *)
LEMMA TreeKept ==
  ASSUME TypeOK, TreeInv, UNCHANGED <<tree, barrierCount, pendingFinish, region_nodes>>,
         node_ctr' \in Nat, node_ctr <= node_ctr',
         \A u \in Threads : InPhase(u)' => InPhase(u) /\ last_nodes'[u] = last_nodes[u]
  PROVE  TreeInv'
  <1>1. \A a \in tree : a.id \in 1..node_ctr'
    BY DEF TreeInv, TypeOK
  <1>2. /\ \A a \in tree' : a.id \in 1..node_ctr'
        /\ \A a, b \in tree' : a.id = b.id => a = b
        /\ Root \in tree'
    BY <1>1 DEF TreeInv
  <1>3. Phases' = Phases /\ \A u \in Threads : PhaseNode(barrierCount[u])' = PhaseNode(barrierCount[u])
    BY DEF Phases, PhaseNode
  <1>4. ASSUME NEW u \in Threads, InPhase(u)'
        PROVE  /\ last_nodes'[u][Depth(u) + 3] \in tree'
               /\ last_nodes'[u][Depth(u) + 3].parent = PhaseNode(barrierCount[u])'.id
    BY <1>3, <1>4 DEF TreeInv
  <1>5. QED
    BY <1>2, <1>3, <1>4 DEF TreeInv, Depth

LEMMA TreeParallelBegin ==
  ASSUME RegionInv, RegionInv', TreeInv, NEW req \in Requests, NEW b \in 0..MaxBarriers,
         ParallelBegin(req, b)
  PROVE  TreeInv'
  <1> DEFINE f1 == NewNode(node_ctr + 2, "FINISH", Top(last_nodes[Master]))
             f2 == NewNode(node_ctr + 3, "FINISH", f1)
  <1>1. /\ tree' = tree \union {f1, f2} /\ node_ctr' = node_ctr + 3
        /\ pendingFinish' = <<>> /\ region_nodes' = <<f1, f2>>
        /\ pc[Master] = "idle" /\ pc' = [pc EXCEPT ![Master] = "forked"]
    BY DEF ParallelBegin, ForgetBarriers
  <1>2. f1.id = node_ctr + 2 /\ f2.id = node_ctr + 3
    BY DEF NewNode
  <1>3. /\ node_ctr \in Nat /\ TypeOK /\ TypeOK' /\ ControlInv
    BY DEF RegionInv, TypeOK
  <1> HIDE DEF f1, f2
  <1>4. /\ \A a \in tree' : a.id \in 1..node_ctr'
        /\ \A a, c \in tree' : a.id = c.id => a = c
        /\ Root \in tree'
    <2>1. /\ f1.id \in (node_ctr + 1)..node_ctr' /\ f2.id \in (node_ctr + 1)..node_ctr'
          /\ f1.id # f2.id /\ node_ctr' \in Nat /\ node_ctr <= node_ctr'
      BY <1>1, <1>2, <1>3
    <2>2. QED
      BY <1>1, <1>3, <2>1, TreeGrows
  <1>5. \A k \in DOMAIN Phases' : Phases'[k] = f2
    BY <1>1 DEF Phases
  <1>6. \A u \in Threads : ~InPhase(u)'
    BY <1>1, <1>3 DEF InPhase, ControlInv, Active, TypeOK
  <1>7. QED
    BY <1>1, <1>4, <1>5, <1>6 DEF TreeInv

LEMMA TreeImplicitTaskBegin ==
  ASSUME RegionInv, RegionInv', TreeInv, NEW t \in Threads, ImplicitTaskBegin(t)
  PROVE  TreeInv'
  <1> DEFINE a == NewNode(node_ctr + 1, "ASYNC", Top(last_nodes[t]))
             s == last_nodes[t]
  <1>1. /\ tree' = tree \union {a} /\ node_ctr' = node_ctr + 1 /\ t \in released
        /\ last_nodes' = [last_nodes EXCEPT ![t] = Append(s, a)]
        /\ pc' = [pc EXCEPT ![t] = "work"]
        /\ UNCHANGED <<barrierCount, pendingFinish, region_nodes>>
    BY DEF ImplicitTaskBegin
  <1>2. /\ node_ctr \in Nat /\ TypeOK /\ PhaseInv /\ StackShape(t) /\ s \in Seq(NodeRecord)
    BY DEF RegionInv, TypeOK
  <1>3. a.id = node_ctr + 1 /\ a.parent = Top(s).id
    BY DEF NewNode
  <1>4. a \in NodeRecord
    <2>1. node_ctr + 1 \in Nat
      BY <1>2
    <2>2. QED
      BY <1>2, <2>1, TopType, NewNodeType
  <1> HIDE DEF a
  <1>5. /\ \A c \in tree' : c.id \in 1..node_ctr'
        /\ \A c, e \in tree' : c.id = e.id => c = e
        /\ Root \in tree'
    <2>1. /\ a.id \in (node_ctr + 1)..node_ctr' /\ node_ctr' \in Nat /\ node_ctr <= node_ctr'
          /\ tree' = tree \union {a, a}
      BY <1>1, <1>2, <1>3
    <2>2. QED
      BY <1>2, <2>1, TreeGrows
  <1>6. Phases' = Phases /\ \A u \in Threads : PhaseNode(barrierCount[u])' = PhaseNode(barrierCount[u])
    BY <1>1 DEF Phases, PhaseNode
  <1>7. ASSUME NEW u \in Threads, InPhase(u)'
        PROVE  /\ last_nodes'[u][Depth(u) + 3] \in tree'
               /\ last_nodes'[u][Depth(u) + 3].parent = PhaseNode(barrierCount[u])'.id
    <2>1. CASE u = t
      <3>1. Depth(t) \in {0, 1} /\ Len(s) = Depth(t) + 2 /\ s[Depth(t) + 2] = region_nodes[2]
        BY <1>1, <1>2 DEF StackShape, Depth
      <3>2. Len(s) > 0 /\ Len(s) + 1 = Depth(t) + 3
        BY <3>1
      <3>3. Top(s) = region_nodes[2]
        BY <3>1, <3>2, <1>2, PopStack
      <3>4. last_nodes'[t] = Append(s, a) /\ Append(s, a)[Len(s) + 1] = a
        BY <1>1, <1>2, <1>4, PushOne DEF TypeOK
      <3>5. PhaseNode(barrierCount[t]) = region_nodes[2]
        BY <1>1, <1>2 DEF PhaseInv, PhaseNode
      <3>6. QED
        BY <2>1, <3>2, <3>3, <3>4, <3>5, <1>1, <1>3, <1>6
    <2>2. CASE u # t
      <3>1. InPhase(u) /\ last_nodes'[u] = last_nodes[u]
        BY <2>2, <1>1, <1>2, <1>7 DEF InPhase, TypeOK
      <3>2. QED
        BY <3>1, <1>1, <1>6 DEF TreeInv
    <2>3. QED
      BY <2>1, <2>2
  <1>8. QED
    BY <1>1, <1>5, <1>6, <1>7 DEF TreeInv, Depth

(* The threads that stay where they are while t enters its next phase.     *)
LEMMA OthersStay ==
  ASSUME RegionInv, TreeInv, NEW t \in Threads, NEW u \in Threads, u # t, InPhase(u)',
         Arrive(t), tree \subseteq tree',
         barrierCount' = [barrierCount EXCEPT ![t] = barrierCount[t] + 1],
         last_nodes'[u] = last_nodes[u], region_nodes' = region_nodes,
         \A k \in 1..Len(pendingFinish) : pendingFinish'[k] = pendingFinish[k]
  PROVE  /\ last_nodes'[u][Depth(u) + 3] \in tree'
         /\ last_nodes'[u][Depth(u) + 3].parent = PhaseNode(barrierCount[u])'.id
  <1>1. pc'[u] = pc[u] /\ barrierCount'[u] = barrierCount[u]
    BY DEF Arrive, RegionInv, TypeOK
  <1>2. InPhase(u)
    BY <1>1 DEF InPhase
  <1>3. barrierCount[u] \in 0..Len(pendingFinish)
    BY <1>2, InRegion
  <1>4. PhaseNode(barrierCount[u])' = PhaseNode(barrierCount[u])
    BY <1>1, <1>3 DEF PhaseNode
  <1>5. QED
    BY <1>2, <1>4 DEF TreeInv

LEMMA TreeBarrierFirst ==
  ASSUME RegionInv, RegionInv', TreeInv, NEW t \in Threads, BarrierFirst(t)
  PROVE  TreeInv'
  <1> DEFINE k == barrierCount[t] + 1
             f == NewNode(node_ctr + 1, "FINISH", Top(last_nodes[t]))
             a == NewNode(node_ctr + 2, "ASYNC", f)
             s == last_nodes[t]
             L == Len(pendingFinish)
  <1>1. /\ pc[t] = "locking" /\ tree' = tree \union {f, a} /\ node_ctr' = node_ctr + 2
        /\ Require(L + 1 = k, "first_pending")
        /\ last_nodes' = [last_nodes EXCEPT ![t] = s \o <<f, a>>]
        /\ barrierCount' = [barrierCount EXCEPT ![t] = k]
        /\ pendingFinish' = Append(pendingFinish, f)
        /\ Arrive(t)
        /\ UNCHANGED region_nodes
    BY DEF BarrierFirst
  <1>2. /\ node_ctr \in Nat /\ TypeOK /\ TypeOK' /\ StackShape(t) /\ s \in Seq(NodeRecord)
        /\ pendingFinish \in Seq(NodeRecord) /\ L \in Nat
    BY LenProperties DEF RegionInv, TypeOK
  <1>3. f.id = node_ctr + 1 /\ a.id = node_ctr + 2 /\ a.parent = f.id
    BY DEF NewNode
  <1>4. f \in NodeRecord /\ a \in NodeRecord
    <2>1. node_ctr + 1 \in Nat /\ node_ctr + 2 \in Nat
      BY <1>2
    <2>2. f \in NodeRecord
      BY <1>2, <2>1, TopType, NewNodeType
    <2>3. QED
      BY <2>1, <2>2, NewNodeType
  <1>5. L + 1 = k
    BY <1>1 DEF Require, RegionInv
  <1> HIDE DEF f, a, k, L
  <1>6. /\ \A c \in tree' : c.id \in 1..node_ctr'
        /\ \A c, e \in tree' : c.id = e.id => c = e
        /\ Root \in tree'
    <2>1. /\ f.id \in (node_ctr + 1)..node_ctr' /\ a.id \in (node_ctr + 1)..node_ctr'
          /\ f.id # a.id /\ node_ctr' \in Nat /\ node_ctr <= node_ctr'
      BY <1>1, <1>2, <1>3
    <2>2. QED
      BY <1>1, <1>2, <2>1, TreeGrows
  <1>7. /\ Len(pendingFinish') = L + 1 /\ pendingFinish'[L + 1] = f
        /\ \A i \in 1..L : pendingFinish'[i] = pendingFinish[i]
    BY <1>1, <1>2, <1>4, PushOne DEF L
  <1>9. \A j \in DOMAIN Phases' : Phases'[j] \in tree'
    <2>1. SUFFICES ASSUME NEW j \in 1..(L + 2) PROVE Phases'[j] \in tree'
      <3>1. DOMAIN Phases' = 1..(L + 2)
        <4>1. TypeOK' => (DOMAIN Phases = 1..(Len(pendingFinish) + 1))'
          BY PhaseDomain
        <4>2. QED
          BY <4>1, <1>2, <1>7
      <3>2. QED
        BY <3>1
    <2>2. Phases' = Append(Phases, f)
      BY <1>1, <1>2, <1>4 DEF Phases
    <2>3. Phases \in Seq(NodeRecord) /\ Len(Phases) = L + 1 /\ DOMAIN Phases = 1..(L + 1)
      BY <1>2, PhasesAreNodes DEF L, Phases, TypeOK
    <2>4. CASE j \in 1..(L + 1)
      <3>1. Phases'[j] = Phases[j] /\ j \in DOMAIN Phases
        BY <2>2, <2>3, <2>4, <1>4, PushOne
      <3>2. QED
        BY <3>1, <1>1 DEF TreeInv
    <2>5. CASE j = L + 2
      <3>1. Phases'[j] = f
        BY <2>2, <2>3, <2>5, <1>2, <1>4
      <3>2. QED
        BY <3>1, <1>1
    <2>6. QED
      BY <2>4, <2>5, <1>2
  <1>10. ASSUME NEW u \in Threads, InPhase(u)'
         PROVE  /\ last_nodes'[u][Depth(u) + 3] \in tree'
                /\ last_nodes'[u][Depth(u) + 3].parent = PhaseNode(barrierCount[u])'.id
    <2>1. CASE u = t
      <3>1. Depth(t) \in {0, 1} /\ Len(s) = Depth(t) + 1
        BY <1>1, <1>2 DEF StackShape, Depth
      <3>2. Len(s) + 2 = Depth(t) + 3
        BY <3>1
      <3>3. last_nodes'[t] = s \o <<f, a>>
        BY <1>1, <1>2 DEF TypeOK
      <3>4. (s \o <<f, a>>)[Len(s) + 2] = a
        BY <1>2, <1>4, PushTwo
      <3>5. barrierCount'[t] = L + 1 /\ L + 1 # 0
        BY <1>1, <1>2, <1>5 DEF TypeOK
      <3>6. PhaseNode(barrierCount[t])' = f
        BY <3>5, <1>7 DEF PhaseNode
      <3>7. QED
        BY <2>1, <3>2, <3>3, <3>4, <3>6, <1>1, <1>3
    <2>2. CASE u # t
      <3>1. last_nodes'[u] = last_nodes[u] /\ tree \subseteq tree'
        BY <2>2, <1>1, <1>2 DEF TypeOK
      <3>2. /\ barrierCount' = [barrierCount EXCEPT ![t] = barrierCount[t] + 1]
            /\ \A i \in 1..Len(pendingFinish) : pendingFinish'[i] = pendingFinish[i]
        BY <1>1, <1>7 DEF L, k
      <3>3. QED
        BY <2>2, <3>1, <3>2, <1>1, <1>10, OthersStay
    <2>3. QED
      BY <2>1, <2>2
  <1>11. QED
    BY <1>6, <1>9, <1>10 DEF TreeInv, Depth

LEMMA TreeBarrierOther ==
  ASSUME RegionInv, RegionInv', TreeInv, NEW t \in Threads, BarrierOther(t)
  PROVE  TreeInv'
  <1> DEFINE k == barrierCount[t] + 1
             f == LeftNode(k)
             a == NewNode(node_ctr + 1, "ASYNC", f)
             s == last_nodes[t]
             L == Len(pendingFinish)
  <1>1. /\ pc[t] = "locking" /\ tree' = tree \union {a} /\ node_ctr' = node_ctr + 1
        /\ Require(L >= k, "other_pending")
        /\ last_nodes' = [last_nodes EXCEPT ![t] = s \o <<f, a>>]
        /\ barrierCount' = [barrierCount EXCEPT ![t] = k]
        /\ Arrive(t)
        /\ UNCHANGED <<pendingFinish, region_nodes>>
    BY DEF BarrierOther
  <1>2. /\ node_ctr \in Nat /\ TypeOK /\ StackShape(t) /\ s \in Seq(NodeRecord)
        /\ pendingFinish \in Seq(NodeRecord) /\ L \in Nat /\ DOMAIN pendingFinish = 1..L
        /\ barrierCount[t] \in Nat
    BY LenProperties DEF RegionInv, TypeOK
  <1>3. a.id = node_ctr + 1 /\ a.parent = f.id
    BY DEF NewNode
  <1>4. L >= k
    BY <1>1 DEF Require, RegionInv
  <1>5. k \in 1..L /\ f = pendingFinish[k] /\ f \in NodeRecord
    <2>1. k \in 1..L
      BY <1>2, <1>4
    <2>2. pendingFinish[k] \in NodeRecord
      BY <2>1, <1>2, ElementOfSeq
    <2>3. QED
      BY <2>1, <2>2, <1>2 DEF LeftNode
  <1> HIDE DEF f
  <1>6. a \in NodeRecord
    <2>1. node_ctr + 1 \in Nat
      BY <1>2
    <2>2. QED
      BY <2>1, <1>5, NewNodeType
  <1> HIDE DEF a
  <1>7. /\ \A c \in tree' : c.id \in 1..node_ctr'
        /\ \A c, e \in tree' : c.id = e.id => c = e
        /\ Root \in tree'
    <2>1. /\ a.id \in (node_ctr + 1)..node_ctr' /\ node_ctr' \in Nat /\ node_ctr <= node_ctr'
          /\ tree' = tree \union {a, a}
      BY <1>1, <1>2, <1>3
    <2>2. QED
      BY <1>2, <2>1, TreeGrows
  <1>8. Phases' = Phases
    BY <1>1 DEF Phases
  <1>9. ASSUME NEW u \in Threads, InPhase(u)'
        PROVE  /\ last_nodes'[u][Depth(u) + 3] \in tree'
               /\ last_nodes'[u][Depth(u) + 3].parent = PhaseNode(barrierCount[u])'.id
    <2>1. CASE u = t
      <3>1. Depth(t) \in {0, 1} /\ Len(s) = Depth(t) + 1
        BY <1>1, <1>2 DEF StackShape, Depth
      <3>2. Len(s) + 2 = Depth(t) + 3
        BY <3>1
      <3>3. last_nodes'[t] = s \o <<f, a>>
        BY <1>1, <1>2 DEF TypeOK
      <3>4. (s \o <<f, a>>)[Len(s) + 2] = a
        BY <1>2, <1>5, <1>6, PushTwo
      <3>5. barrierCount'[t] = k /\ k # 0
        BY <1>1, <1>2, <1>5 DEF TypeOK
      <3>6. PhaseNode(barrierCount[t])' = f
        BY <3>5, <1>1, <1>5 DEF PhaseNode
      <3>7. QED
        BY <2>1, <3>2, <3>3, <3>4, <3>6, <1>1, <1>3
    <2>2. CASE u # t
      <3>1. last_nodes'[u] = last_nodes[u] /\ tree \subseteq tree'
        BY <2>2, <1>1, <1>2 DEF TypeOK
      <3>2. QED
        BY <2>2, <3>1, <1>1, <1>9, OthersStay
    <2>3. QED
      BY <2>1, <2>2
  <1>10. QED
    BY <1>1, <1>7, <1>8, <1>9 DEF TreeInv, Depth

LEMMA TreeStep == RegionInv /\ RegionInv' /\ TreeInv /\ [Next]_vars => TreeInv'
<1> SUFFICES ASSUME RegionInv, RegionInv', TreeInv, [Next]_vars PROVE TreeInv'
  OBVIOUS
<1>a. /\ TypeOK /\ node_ctr \in Nat /\ node_ctr' \in Nat
      /\ pc \in [Threads -> Control] /\ last_nodes \in [Threads -> Seq(NodeRecord)]
  BY DEF RegionInv, TypeOK
<1>1. CASE \E req \in Requests, b \in 0..MaxBarriers : ParallelBegin(req, b)
  BY <1>1, TreeParallelBegin
<1>2. CASE \E t \in Threads : ThreadStep(t)
  <2>1. PICK t \in Threads : ThreadStep(t)
    BY <1>2
  <2>2. CASE ImplicitTaskBegin(t)
    BY <2>2, TreeImplicitTaskBegin
  <2>3. CASE BarrierBegin(t)
    <3>1. /\ UNCHANGED <<tree, barrierCount, pendingFinish, region_nodes>>
          /\ node_ctr' = node_ctr + 1 /\ pc' = [pc EXCEPT ![t] = "locking"]
          /\ last_nodes' = [last_nodes EXCEPT ![t] = Pop(Pop(last_nodes[t]))]
      BY <2>3 DEF BarrierBegin
    <3>2. \A u \in Threads : InPhase(u)' => InPhase(u) /\ last_nodes'[u] = last_nodes[u]
      BY <3>1, <1>a DEF InPhase
    <3>3. QED
      BY <3>1, <3>2, <1>a, TreeKept
  <2>4. CASE BarrierFirst(t)
    BY <2>4, TreeBarrierFirst
  <2>5. CASE BarrierOther(t)
    BY <2>5, TreeBarrierOther
  <2>6. CASE BarrierEnd(t)
    <3>1. /\ UNCHANGED <<tree, barrierCount, pendingFinish, region_nodes, node_ctr, last_nodes>>
          /\ pc[t] = "barrier" /\ pc' = [pc EXCEPT ![t] = "work"]
      BY <2>6 DEF BarrierEnd, profiler
    <3>2. \A u \in Threads : InPhase(u)' => InPhase(u) /\ last_nodes'[u] = last_nodes[u]
      BY <3>1, <1>a DEF InPhase
    <3>3. QED
      BY <3>1, <3>2, <1>a, TreeKept
  <2>7. CASE ImplicitTaskEnd(t)
    <3>1. /\ UNCHANGED <<tree, barrierCount, pendingFinish, region_nodes>>
          /\ node_ctr' = node_ctr + 1 /\ pc' = [pc EXCEPT ![t] = "ended"]
          /\ last_nodes' = [last_nodes EXCEPT ![t] = Pop(Pop(Pop(Cleanup(last_nodes[t]))))]
      BY <2>7 DEF ImplicitTaskEnd
    <3>2. \A u \in Threads : InPhase(u)' => InPhase(u) /\ last_nodes'[u] = last_nodes[u]
      BY <3>1, <1>a DEF InPhase
    <3>3. QED
      BY <3>1, <3>2, <1>a, TreeKept
  <2>8. CASE CountImplicitEnd(t)
    <3>1. /\ UNCHANGED <<tree, barrierCount, pendingFinish, region_nodes, node_ctr, last_nodes>>
          /\ pc' = [pc EXCEPT ![t] = IF t = Master THEN "spin" ELSE "idle"]
      BY <2>8 DEF CountImplicitEnd
    <3>2. \A u \in Threads : InPhase(u)' => InPhase(u) /\ last_nodes'[u] = last_nodes[u]
      BY <3>1, <1>a DEF InPhase
    <3>3. QED
      BY <3>1, <3>2, <1>a, TreeKept
  <2>9. QED
    BY <2>1, <2>2, <2>3, <2>4, <2>5, <2>6, <2>7, <2>8 DEF ThreadStep
<1>3. CASE ParallelEnd
  <2>1. /\ UNCHANGED <<tree, barrierCount, pendingFinish, region_nodes, node_ctr, last_nodes>>
        /\ pc' = [pc EXCEPT ![Master] = "idle"]
    BY <1>3 DEF ParallelEnd
  <2>2. \A u \in Threads : InPhase(u)' => InPhase(u) /\ last_nodes'[u] = last_nodes[u]
    BY <2>1, <1>a DEF InPhase
  <2>3. QED
    BY <2>1, <2>2, <1>a, TreeKept
<1>4. CASE FinishProfile
  <2>1. /\ UNCHANGED <<tree, barrierCount, pendingFinish, region_nodes, last_nodes>>
        /\ node_ctr' = node_ctr + 1 /\ pc' = [pc EXCEPT ![Master] = "done"]
    BY <1>4 DEF FinishProfile
  <2>2. \A u \in Threads : InPhase(u)' => InPhase(u) /\ last_nodes'[u] = last_nodes[u]
    BY <2>1, <1>a DEF InPhase
  <2>3. QED
    BY <2>1, <2>2, <1>a, TreeKept
<1>5. CASE UNCHANGED vars
  <2>1. /\ UNCHANGED <<tree, barrierCount, pendingFinish, region_nodes, node_ctr, last_nodes, pc>>
    BY <1>5 DEF vars, profiler, runtime
  <2>2. \A u \in Threads : InPhase(u)' => InPhase(u) /\ last_nodes'[u] = last_nodes[u]
    BY <2>1 DEF InPhase
  <2>3. QED
    BY <2>1, <2>2, <1>a, TreeKept
<1>6. QED
  BY <1>1, <1>2, <1>3, <1>4, <1>5 DEF Next, Finished

(* In every reachable state the counts follow the barriers of the runtime, *)
(* no thread is more than one barrier ahead of another, and the node of    *)
(* every implicit task hangs under the phase the thread's count names.     *)
THEOREM LagInvariant == Spec => [](RegionInv /\ LagInv /\ TreeInv)
  <1> DEFINE J == RegionInv /\ LagInv /\ TreeInv
  <1>1. Init => J
    BY RegionInvInit, LagInit, TreeInit
  <1>2. J /\ [Next]_vars => J'
    BY RegionInvStep, LagStep, TreeStep
  <1>3. QED
    BY <1>1, <1>2, PTL DEF Spec

----------------------------------------------------------------------------
(* No step of a closed phase                                               *)

ClosedPhase ==
  \A s \in steps' \ steps : \A a \in tree : \A k \in DOMAIN Phases :
    s.parent = a.id /\ a.parent = Phases[k].id => k + 1 >= Len(Phases)

(* A step logged by a thread of the team in its phase.                     *)
LEMMA StepInPhase ==
  ASSUME RegionInv, LagInv, TreeInv, NEW t \in Threads, InPhase(t),
         steps' = steps \union {NewStep(node_ctr + 1, last_nodes[t])}
  PROVE  ClosedPhase
  <1> DEFINE top == last_nodes[t][Depth(t) + 3]
             c   == barrierCount[t]
  <1>1. /\ TypeOK /\ NodeInv /\ StackShape(t) /\ t \in Team
        /\ last_nodes[t] \in Seq(NodeRecord)
    BY InRegion DEF RegionInv, TypeOK
  <1>2. Top(last_nodes[t]) = top
    <2>1. Depth(t) \in {0, 1} /\ Len(last_nodes[t]) = Depth(t) + 3
      BY <1>1 DEF StackShape, Depth
    <2>2. Len(last_nodes[t]) > 0
      BY <2>1
    <2>3. QED
      BY <1>1, <2>1, <2>2, PopStack
  <1>3. top \in tree /\ top.parent = PhaseNode(c).id
    BY DEF TreeInv
  <1> HIDE DEF top
  <1>4. /\ c \in 0..Len(pendingFinish) /\ Len(pendingFinish) \in Nat
        /\ Len(pendingFinish) <= c + 1
    BY <1>1, InRegion, BehindByOne
  <1>5. c + 1 \in DOMAIN Phases /\ Phases[c + 1] = PhaseNode(c)
        /\ Len(Phases) = Len(pendingFinish) + 1
    <2>1. c + 1 \in DOMAIN Phases /\ (c + 1) - 1 = c
      BY <1>1, <1>4, PhasesAreNodes
    <2>2. QED
      BY <1>1, <2>1, PhasesAreNodes
  <1>6. ASSUME NEW s \in steps' \ steps, NEW a \in tree, NEW k \in DOMAIN Phases,
               s.parent = a.id, a.parent = Phases[k].id
        PROVE  k + 1 >= Len(Phases)
    <2>1. s.parent = top.id
      BY <1>2 DEF NewStep
    <2>2. a = top
      BY <1>3, <1>6, <2>1 DEF TreeInv
    <2>3. k = c + 1
      BY <1>1, <1>3, <1>5, <1>6, <2>2, PhaseIdsDiffer
    <2>4. QED
      BY <1>4, <1>5, <2>3
  <1>7. QED
    BY <1>6 DEF ClosedPhase

(* A step logged in serial code belongs to no phase.                       *)
LEMMA StepInSerialCode ==
  ASSUME RegionInv, TreeInv, ~Active,
         steps' = steps \union {NewStep(node_ctr + 1, last_nodes[Master])}
  PROVE  ClosedPhase
  <1>1. last_nodes[Master] = <<Root>>
    <2>1. Master \in Threads
      BY RegionAssumption DEF Master, Threads
    <2>2. QED
      BY <2>1, SerialStacks
  <1>2. Top(last_nodes[Master]) = Root
    BY <1>1 DEF Top
  <1>3. ASSUME NEW s \in steps' \ steps, NEW a \in tree, NEW k \in DOMAIN Phases,
               s.parent = a.id, a.parent = Phases[k].id
        PROVE  FALSE
    <2>1. s.parent = Root.id
      BY <1>2 DEF NewStep
    <2>2. a = Root
      BY <1>3, <2>1 DEF TreeInv
    <2>3. Phases[k].id = 0
      BY <1>3, <2>2 DEF Root
    <2>4. Phases[k].id \in 1..node_ctr
      BY DEF TreeInv
    <2>5. QED
      BY <2>3, <2>4
  <1>4. QED
    BY <1>3 DEF ClosedPhase

LEMMA ClosedPhaseStep ==
  RegionInv /\ LagInv /\ TreeInv /\ [Next]_vars => ClosedPhase
<1> SUFFICES ASSUME RegionInv, LagInv, TreeInv, [Next]_vars PROVE ClosedPhase
  OBVIOUS
<1>1. CASE \E req \in Requests, b \in 0..MaxBarriers : ParallelBegin(req, b)
  BY <1>1, StepInSerialCode DEF ParallelBegin, Active
<1>2. CASE \E t \in Threads : BarrierBegin(t)
  BY <1>2, StepInPhase DEF BarrierBegin, InPhase
<1>3. CASE \E t \in Threads : ImplicitTaskEnd(t)
  <2>1. PICK t \in Threads : ImplicitTaskEnd(t)
    BY <1>3
  <2>2. /\ InPhase(t) /\ steps' = steps \union {NewStep(node_ctr + 1, last_nodes[t])}
    BY <2>1 DEF ImplicitTaskEnd, MayEnd, InPhase
  <2>3. QED
    BY <2>2, StepInPhase
<1>4. CASE FinishProfile
  BY <1>4, StepInSerialCode DEF FinishProfile, Active
<1>5. CASE UNCHANGED steps
  BY <1>5 DEF ClosedPhase
<1>6. QED
  <2>1. CASE \E t \in Threads : ThreadStep(t)
    BY <2>1, <1>2, <1>3, <1>5 DEF ThreadStep, ImplicitTaskBegin, BarrierFirst, BarrierOther,
       BarrierEnd, CountImplicitEnd, profiler
  <2>2. CASE ParallelEnd
    BY <2>2, <1>5 DEF ParallelEnd
  <2>3. CASE UNCHANGED vars
    BY <2>3, <1>5 DEF vars, profiler
  <2>4. QED
    BY <2>1, <2>2, <2>3, <1>1, <1>4 DEF Next, Finished

(* No step is logged in a phase that two later phases have followed,       *)
(* whatever the number of threads and barriers: the work before a barrier  *)
(* is in the tree before any thread is past the next barrier.              *)
THEOREM ClosedPhasesStayClosed == Spec => ClosedPhaseStaysClosed
  <1>1. RegionInv /\ LagInv /\ TreeInv /\ [Next]_vars => [ClosedPhase]_vars
    BY ClosedPhaseStep
  <1>2. QED
    BY <1>1, LagInvariant, PTL DEF Spec, ClosedPhaseStaysClosed, ClosedPhase

----------------------------------------------------------------------------
(* The stacks implement the phases                                         *)

(* A thread of the team that has not ended is forked, in its phase or      *)
(* between two.                                                            *)
LEMMA Staying ==
  ASSUME RegionInv, Active, NEW t \in Team \ Gone
  PROVE  /\ t \in Threads
         /\ \/ t \in released /\ pc[t] # "locking" /\ barrierCount[t] = 0
            \/ InPhase(t)
            \/ pc[t] = "locking"
  <1>1. TypeOK /\ ControlInv /\ PhaseInv /\ t \in Threads
    BY LagTypes DEF RegionInv
  <1>2. t \in released => pc[t] # "locking" /\ barrierCount[t] = 0
    BY <1>1 DEF ControlInv, PhaseInv
  <1>3. t \notin released => pc[t] \in {"work", "barrier", "join", "locking"}
    <2>1. pc[t] \in Control /\ (t \notin released => pc[t] \notin {"ended", "spin", "idle"})
      BY <1>1 DEF Gone, TypeOK
    <2>2. pc[t] # "done"
      BY <1>1 DEF Active, ControlInv
    <2>3. t \notin released => pc[t] # "forked"
      BY <1>1 DEF ControlInv
    <2>4. QED
      BY <2>1, <2>2, <2>3 DEF Control
  <1>4. QED
    BY <1>1, <1>2, <1>3 DEF InPhase

(* The phase of a thread is the number of barriers it has counted, plus    *)
(* one.                                                                    *)
LEMMA PhaseIsCount ==
  ASSUME RegionInv, NEW t \in Threads
  PROVE  PhaseOf(t) = IF Active /\ t \in Team \ Gone THEN barrierCount[t] + 1 ELSE 0
  <1>1. TypeOK /\ NodeInv /\ StackShape(t)
    BY DEF RegionInv
  <1>2. CASE ~(Active /\ t \in Team \ Gone)
    BY <1>2 DEF PhaseOf
  <1>3. CASE Active /\ t \in Team \ Gone /\ pc[t] = "locking"
    BY <1>3 DEF PhaseOf
  <1>4. CASE Active /\ t \in Team \ Gone /\ pc[t] # "locking"
    <2> DEFINE k == barrierCount[t] + 1
               n == last_nodes[t][Depth(t) + 2]
    <2>1. k \in DOMAIN Phases /\ Phases[k] = n
      <3>1. CASE InPhase(t)
        <4>1. n = PhaseNode(barrierCount[t]) /\ barrierCount[t] \in 0..Len(pendingFinish)
          BY <3>1, <1>1, InRegion DEF StackShape
        <4>2. k \in 1..(Len(pendingFinish) + 1) /\ k - 1 = barrierCount[t]
          BY <4>1, <1>1, PhasesAreNodes
        <4>3. QED
          BY <4>1, <4>2, <1>1, PhasesAreNodes
      <3>2. CASE ~InPhase(t)
        <4>1. t \in released /\ barrierCount[t] = 0
          BY <3>2, <1>4, Staying
        <4>2. n = region_nodes[2] /\ k = 1
          BY <4>1, <1>1 DEF StackShape
        <4>3. 1 \in DOMAIN Phases
          BY <1>1, PhasesAreNodes
        <4>4. QED
          BY <4>2, <4>3, <1>1, PhasesAreNodes
      <3>3. QED
        BY <3>1, <3>2
    <2> HIDE DEF k, n
    <2>2. \A j \in DOMAIN Phases : Phases[j] = n => j = k
      BY <2>1, <1>1, PhaseIdsDiffer
    <2>3. (CHOOSE j \in DOMAIN Phases : Phases[j] = n) = k
      BY <2>1, <2>2
    <2>4. PhaseOf(t) = k
      BY <1>4, <2>3 DEF PhaseOf, n
    <2>5. QED
      BY <1>4, <2>4 DEF k
  <1>5. QED
    BY <1>2, <1>3, <1>4

(* The state BulkSynchronous sees, in a region and in serial code.         *)
InRegionView ==
  /\ Members = Team /\ Opened = Len(pendingFinish) + 1 /\ Left = Gone
  /\ PhaseOfEach = [t \in Threads |-> IF t \in Team \ Gone THEN barrierCount[t] + 1 ELSE 0]

SerialView ==
  Members = {} /\ Opened = 0 /\ Left = {} /\ PhaseOfEach = [t \in Threads |-> 0]

LEMMA RegionView == RegionInv /\ Active => InRegionView
<1> SUFFICES ASSUME RegionInv, Active PROVE InRegionView
  OBVIOUS
<1>1. Opened = Len(pendingFinish) + 1
  BY PhasesAreNodes DEF RegionInv, Opened
<1>2. \A t \in Threads : PhaseOf(t) = IF t \in Team \ Gone THEN barrierCount[t] + 1 ELSE 0
  BY PhaseIsCount
<1>3. QED
  BY <1>1, <1>2 DEF InRegionView, Members, Left, PhaseOfEach

LEMMA NoRegionView == RegionInv /\ ~Active => SerialView
  BY DEF SerialView, Members, Opened, Left, PhaseOfEach, PhaseOf

LEMMA RegionViewNext == RegionInv' /\ Active' => InRegionView'
  BY RegionView, PTL

LEMMA NoRegionViewNext == RegionInv' /\ ~Active' => SerialView'
  BY NoRegionView, PTL

(* A step that changes neither the team nor the phases is a stutter.       *)
LEMMA Stutter ==
  ASSUME RegionInv, RegionInv', Active, Active',
         UNCHANGED <<team, pendingFinish, barrierCount>>, Gone' = Gone
  PROVE  UNCHANGED <<Members, Opened, PhaseOfEach, Left>>
  <1>1. InRegionView /\ InRegionView'
    BY RegionView, RegionViewNext
  <1>2. Team' = Team
    BY DEF Team
  <1>3. PhaseOfEach' = PhaseOfEach
    BY <1>1, <1>2 DEF InRegionView
  <1>4. QED
    BY <1>1, <1>2, <1>3 DEF InRegionView

LEMMA ForkStep ==
  ASSUME RegionInv, RegionInv', NEW req \in Requests, NEW b \in 0..MaxBarriers,
         ParallelBegin(req, b)
  PROVE  PhasesOfRegion!Fork(Team') /\ Team' \subseteq Threads /\ Team' # {}
  <1>1. /\ pc[Master] = "idle" /\ pc' = [pc EXCEPT ![Master] = "forked"]
        /\ num_threads' = ExpectedTeam(req) /\ ForgetBarriers(ExpectedTeam(req))
    BY DEF ParallelBegin
  <1>2. TypeOK /\ TypeOK' /\ ControlInv'
    BY DEF RegionInv
  <1>3. ~Active /\ Active'
    BY <1>1, <1>2, RegionAssumption DEF Active, TypeOK, Master, Threads
  <1>4. SerialView /\ InRegionView' /\ Gone' = {}
    BY <1>3, NoRegionView, RegionViewNext, LagParallelBegin
  <1>5. Team' \subseteq Threads /\ Master \in Team'
    BY <1>2, TeamNext
  <1>6. \A t \in Team' : barrierCount'[t] = 0
    <2>1. /\ team' \in Nat /\ num_threads' \in Nat /\ team' <= num_threads'
      BY <1>2, RegionAssumption DEF ControlInv, TypeOK, Threads
    <2>2. \A t \in Team' : t \in 1..num_threads'
      BY <2>1 DEF Team
    <2>3. QED
      BY <2>2, <1>1, <1>5 DEF ForgetBarriers
  <1>7. Len(pendingFinish') = 0
    BY <1>1 DEF ForgetBarriers
  <1>8. PhaseOfEach' = [t \in Threads |-> IF t \in Team' THEN 1 ELSE 0]
    BY <1>4, <1>6 DEF InRegionView
  <1>9. /\ Members = {} /\ Members' = Team' /\ Opened' = 1 /\ Left' = Left
    BY <1>4, <1>7 DEF SerialView, InRegionView
  <1>10. QED
    BY <1>5, <1>8, <1>9 DEF PhasesOfRegion!Fork

(* The end of captureBarrierBegin takes a thread to its next phase.        *)
LEMMA AdvanceStep ==
  ASSUME RegionInv, RegionInv', LagInv, NEW t \in Threads, pc[t] = "locking", Arrive(t),
         barrierCount' = [barrierCount EXCEPT ![t] = barrierCount[t] + 1],
         UNCHANGED <<team, released>>,
         \/ /\ barrierCount[t] < Len(pendingFinish)
            /\ UNCHANGED pendingFinish
         \/ /\ barrierCount[t] = Len(pendingFinish)
            /\ Len(pendingFinish') = Len(pendingFinish) + 1
  PROVE  PhasesOfRegion!Advance(t)
  <1>1. /\ TypeOK /\ t \in Team /\ t \notin Gone /\ Active /\ Team' = Team
        /\ barrierCount[t] \in Nat /\ barrierCount[t] <= Len(pendingFinish)
        /\ Len(pendingFinish) \in Nat
    BY InRegion, BehindByOne DEF RegionInv, Gone, Team
  <1>2. PICK c \in {"join", "barrier"} : pc' = [pc EXCEPT ![t] = c]
    BY DEF Arrive
  <1>3. /\ pc \in [Threads -> Control] /\ Team \subseteq Threads /\ Master \in Threads
        /\ barrierCount \in [Threads -> Nat]
    BY <1>1, LagTypes DEF TypeOK
  <1>4. Active'
    BY <1>1, <1>2, <1>3 DEF Active
  <1>5. Gone' = Gone
    BY <1>1, <1>2, <1>3 DEF Gone
  <1>6. InRegionView /\ InRegionView'
    BY <1>1, <1>4, RegionView, RegionViewNext
  <1>7. ASSUME NEW u \in Team PROVE barrierCount[u] >= barrierCount[t]
    <2>1. arrived[t] <= arrived[u] /\ barrierCount[t] = arrived[t] /\ barrierCount[u] = arrived[u]
      BY <1>1 DEF LagInv
    <2>2. QED
      BY <2>1, <1>1, <1>3
  <1>8. barrierCount[t] = Len(pendingFinish) => Gone = {}
    <2>1. SUFFICES ASSUME NEW u \in Gone PROVE barrierCount[t] < Len(pendingFinish)
      BY <1>1
    <2>2. u \in Team /\ arrived[u] = BarriersDue /\ barrierCount[u] = arrived[u]
          /\ barrierCount[t] = arrived[t] /\ arrived[t] < BarriersDue
      BY <1>1 DEF LagInv, Gone
    <2>3. barrierCount[u] <= Len(pendingFinish) /\ barrierCount[u] \in Nat
      BY <2>2, BehindByOne
    <2>4. QED
      BY <2>2, <2>3, <1>1
  <1>9. PhaseOfEach' = [PhaseOfEach EXCEPT ![t] = PhaseOfEach[t] + 1]
    <2>1. \A u \in Threads : barrierCount'[u] = IF u = t THEN barrierCount[t] + 1
                                                         ELSE barrierCount[u]
      BY <1>3
    <2>2. \A u \in Threads : PhaseOfEach'[u] = IF u = t THEN PhaseOfEach[t] + 1
                                                        ELSE PhaseOfEach[u]
      BY <2>1, <1>1, <1>5, <1>6 DEF InRegionView
    <2>3. PhaseOfEach' = [u \in Threads |-> PhaseOfEach'[u]]
      BY <1>6 DEF InRegionView
    <2>4. PhaseOfEach = [u \in Threads |-> PhaseOfEach[u]]
      BY <1>6 DEF InRegionView
    <2>5. QED
      BY <2>2, <2>3, <2>4
  <1>10. \A u \in Members \ Left : PhaseOfEach[u] >= PhaseOfEach[t]
    BY <1>1, <1>3, <1>6, <1>7 DEF InRegionView
  <1>11. PhaseOfEach[t] = barrierCount[t] + 1 /\ t \in Members \ Left
    BY <1>1, <1>6 DEF InRegionView
  <1>12. \/ PhaseOfEach[t] < Opened /\ UNCHANGED Opened
         \/ PhaseOfEach[t] = Opened /\ Left = {} /\ Opened' = Opened + 1
    BY <1>1, <1>6, <1>8, <1>11 DEF InRegionView
  <1>13. UNCHANGED <<Members, Left>>
    BY <1>1, <1>5, <1>6 DEF InRegionView
  <1>14. QED
    BY <1>9, <1>10, <1>11, <1>12, <1>13 DEF PhasesOfRegion!Advance

(* The end of an implicit task leaves the last phase.                      *)
LEMMA LeaveStep ==
  ASSUME RegionInv, RegionInv', LagInv, NEW t \in Threads, ImplicitTaskEnd(t)
  PROVE  PhasesOfRegion!Leave(t)
  <1>1. /\ MayEnd(t) /\ InPhase(t) /\ pc' = [pc EXCEPT ![t] = "ended"]
        /\ UNCHANGED <<team, released, barrierCount, pendingFinish>>
    BY DEF ImplicitTaskEnd, MayEnd, InPhase
  <1>2. /\ TypeOK /\ t \in Team /\ t \notin released /\ t \notin Gone /\ Active
        /\ barrierCount[t] \in Nat /\ barrierCount[t] <= Len(pendingFinish)
        /\ Len(pendingFinish) \in Nat /\ Len(pendingFinish) <= BarriersDue
    BY <1>1, InRegion, BehindByOne DEF RegionInv, Gone, InPhase
  <1>3. /\ pc \in [Threads -> Control] /\ Team \subseteq Threads /\ Master \in Threads
        /\ BarriersDue \in Nat /\ Team' = Team
    BY <1>1, <1>2, LagTypes DEF TypeOK, Team
  <1>4. Active'
    BY <1>1, <1>2, <1>3 DEF Active
  <1>5. Gone' = Gone \union {t}
    BY <1>1, <1>2, <1>3 DEF Gone
  <1>6. InRegionView /\ InRegionView'
    BY <1>2, <1>4, RegionView, RegionViewNext
  <1>7. barrierCount[t] = Len(pendingFinish)
    <2>1. arrived[t] = BarriersDue /\ barrierCount[t] = arrived[t]
      BY <1>1, <1>2 DEF MayEnd, LagInv
    <2>2. QED
      BY <2>1, <1>2, <1>3
  <1>8. PhaseOfEach' = [PhaseOfEach EXCEPT ![t] = 0]
    <2>1. \A u \in Threads : PhaseOfEach'[u] = IF u = t THEN 0 ELSE PhaseOfEach[u]
      BY <1>1, <1>2, <1>3, <1>5, <1>6 DEF InRegionView
    <2>2. PhaseOfEach' = [u \in Threads |-> PhaseOfEach'[u]]
      BY <1>6 DEF InRegionView
    <2>3. PhaseOfEach = [u \in Threads |-> PhaseOfEach[u]]
      BY <1>6 DEF InRegionView
    <2>4. QED
      BY <2>1, <2>2, <2>3
  <1>9. /\ t \in Members \ Left /\ PhaseOfEach[t] = Opened
    BY <1>2, <1>6, <1>7 DEF InRegionView
  <1>10. UNCHANGED <<Members, Opened>> /\ Left' = Left \union {t}
    BY <1>1, <1>3, <1>5, <1>6 DEF InRegionView
  <1>11. QED
    BY <1>8, <1>9, <1>10 DEF PhasesOfRegion!Leave

(* captureParallelEnd finds that every member has left.                    *)
LEMMA JoinStep ==
  ASSUME RegionInv, RegionInv', ParallelEnd
  PROVE  PhasesOfRegion!Join
  <1>1. /\ pc[Master] = "spin" /\ implEndCount >= num_threads
        /\ pc' = [pc EXCEPT ![Master] = "idle"]
    BY DEF ParallelEnd, EndsCounted
  <1>2. TypeOK /\ ControlInv /\ CountInv /\ Master \in Team /\ Master \in Threads
    BY LagTypes DEF RegionInv
  <1>3. Active /\ ~Active'
    BY <1>1, <1>2 DEF Active, TypeOK
  <1>4. Counted = Team
    <2>1. implEndCount = Cardinality(Counted) /\ team <= num_threads
      BY <1>2, <1>3 DEF CountInv, ControlInv
    <2>2. /\ Cardinality(Counted) \in Nat /\ Cardinality(Counted) <= team
          /\ team \in Nat /\ num_threads \in Nat
      BY <1>2, CountedFinite, LagTypes
    <2>3. Cardinality(Counted) = team
      BY <2>1, <2>2, <1>1
    <2>4. QED
      BY <2>3, <1>2, CountedFinite
  <1>5. Gone = Team
    BY <1>4 DEF Gone, Counted
  <1>6. InRegionView /\ SerialView'
    BY <1>3, RegionView, NoRegionViewNext
  <1>7. PhaseOfEach' = PhaseOfEach
    BY <1>5, <1>6 DEF InRegionView, SerialView
  <1>8. /\ Members # {} /\ Left = Members
        /\ Members' = {} /\ Opened' = 0 /\ Left' = {}
    BY <1>2, <1>5, <1>6 DEF InRegionView, SerialView
  <1>9. QED
    BY <1>7, <1>8 DEF PhasesOfRegion!Join

(* Moves inside a region that the phases do not see.                       *)
LEMMA InvisibleStep ==
  ASSUME RegionInv, RegionInv', NEW t \in Threads,
         \/ ImplicitTaskBegin(t) \/ BarrierBegin(t)
         \/ BarrierEnd(t) \/ CountImplicitEnd(t)
  PROVE  UNCHANGED <<Members, Opened, PhaseOfEach, Left>>
  <1>1. /\ TypeOK /\ ControlInv /\ ControlInv' /\ Master \in Team /\ Team \subseteq Threads
        /\ pc \in [Threads -> Control]
    BY LagTypes DEF RegionInv, TypeOK
  <1>2. /\ UNCHANGED <<team, pendingFinish, barrierCount>> /\ Team' = Team
    BY DEF ImplicitTaskBegin, BarrierBegin, BarrierEnd, CountImplicitEnd, profiler, Team
  <1>3. Gone' = Gone /\ Active /\ Active'
    <2>1. CASE ImplicitTaskBegin(t)
      <3>1. /\ t \in released /\ released' = released \ {t} /\ pc' = [pc EXCEPT ![t] = "work"]
        BY <2>1 DEF ImplicitTaskBegin
      <3>2. Gone' = Gone
        BY <3>1, <1>1, <1>2 DEF Gone
      <3>3. QED
        BY <3>1, <3>2, <1>1 DEF ControlInv, Active
    <2>2. CASE BarrierBegin(t)
      <3>1. /\ pc[t] = "work" /\ released' = released /\ pc' = [pc EXCEPT ![t] = "locking"]
        BY <2>2 DEF BarrierBegin
      <3>2. Gone' = Gone
        <4>1. t \notin released
          BY <3>1, <1>1 DEF ControlInv
        <4>2. QED
          BY <4>1, <3>1, <1>1, <1>2 DEF Gone
      <3>3. QED
        BY <3>1, <3>2, <1>1 DEF ControlInv, Active
    <2>3. CASE BarrierEnd(t)
      <3>1. /\ pc[t] = "barrier" /\ released' = released /\ pc' = [pc EXCEPT ![t] = "work"]
        BY <2>3 DEF BarrierEnd
      <3>2. Gone' = Gone
        BY <3>1, <1>1, <1>2 DEF Gone
      <3>3. QED
        BY <3>1, <3>2, <1>1 DEF ControlInv, Active
    <2>4. CASE CountImplicitEnd(t)
      <3>1. /\ pc[t] = "ended" /\ released' = released
            /\ pc' = [pc EXCEPT ![t] = IF t = Master THEN "spin" ELSE "idle"]
        BY <2>4 DEF CountImplicitEnd
      <3>2. Gone' = Gone
        BY <3>1, <1>1, <1>2 DEF Gone
      <3>3. QED
        BY <3>1, <3>2, <1>1 DEF ControlInv, Active
    <2>5. QED
      BY <2>1, <2>2, <2>3, <2>4
  <1>4. QED
    BY <1>2, <1>3, Stutter

LEMMA PhasesInit == Init => PhasesOfRegion!Serial
<1> SUFFICES ASSUME Init PROVE PhasesOfRegion!Serial
  OBVIOUS
<1>1. RegionInv /\ ~Active
  BY RegionInvInit, RegionAssumption DEF Init, Active, Threads, Master
<1>2. SerialView
  BY <1>1, NoRegionView
<1>3. QED
  BY <1>2 DEF SerialView, PhasesOfRegion!Serial, PhasesOfRegion!Nobody

LEMMA PhasesStep ==
  RegionInv /\ RegionInv' /\ LagInv /\ [Next]_vars
    => [PhasesOfRegion!PhaseNext]_(PhasesOfRegion!phaseVars)
<1> SUFFICES ASSUME RegionInv, RegionInv', LagInv, [Next]_vars
             PROVE  \/ PhasesOfRegion!PhaseNext
                    \/ UNCHANGED <<Members, Opened, PhaseOfEach, Left>>
  BY DEF PhasesOfRegion!phaseVars
<1>1. CASE \E req \in Requests, b \in 0..MaxBarriers : ParallelBegin(req, b)
  BY <1>1, ForkStep DEF PhasesOfRegion!PhaseNext
<1>2. CASE \E t \in Threads : ThreadStep(t)
  <2>1. PICK t \in Threads : ThreadStep(t)
    BY <1>2
  <2>2. CASE ImplicitTaskBegin(t) \/ BarrierBegin(t) \/ BarrierEnd(t) \/ CountImplicitEnd(t)
    BY <2>2, InvisibleStep
  <2>3. CASE BarrierFirst(t)
    <3>1. /\ pc[t] = "locking" /\ Arrive(t)
          /\ Require(Len(pendingFinish) + 1 = barrierCount[t] + 1, "first_pending")
          /\ barrierCount' = [barrierCount EXCEPT ![t] = barrierCount[t] + 1]
          /\ UNCHANGED <<team, released>>
      BY <2>3 DEF BarrierFirst
    <3>2. Len(pendingFinish) + 1 = barrierCount[t] + 1
      BY <3>1 DEF Require, RegionInv
    <3>3. /\ barrierCount[t] \in Nat /\ Len(pendingFinish) \in Nat
          /\ pendingFinish \in Seq(NodeRecord)
      BY LenProperties DEF RegionInv, TypeOK
    <3>4. Len(pendingFinish') = Len(pendingFinish) + 1
      <4>1. PICK f : pendingFinish' = Append(pendingFinish, f)
        BY <2>3 DEF BarrierFirst
      <4>2. QED
        BY <4>1, <3>3
    <3>5. barrierCount[t] = Len(pendingFinish)
      BY <3>2, <3>3
    <3>6. QED
      BY <3>1, <3>4, <3>5, AdvanceStep DEF PhasesOfRegion!PhaseNext
  <2>4. CASE BarrierOther(t)
    <3>1. /\ pc[t] = "locking" /\ Arrive(t)
          /\ Require(Len(pendingFinish) >= barrierCount[t] + 1, "other_pending")
          /\ barrierCount' = [barrierCount EXCEPT ![t] = barrierCount[t] + 1]
          /\ UNCHANGED <<team, released, pendingFinish>>
      BY <2>4 DEF BarrierOther
    <3>2. Len(pendingFinish) >= barrierCount[t] + 1
      BY <3>1 DEF Require, RegionInv
    <3>3. /\ barrierCount[t] \in Nat /\ Len(pendingFinish) \in Nat
      BY LenProperties DEF RegionInv, TypeOK
    <3>4. barrierCount[t] < Len(pendingFinish)
      BY <3>2, <3>3
    <3>5. QED
      BY <3>1, <3>4, AdvanceStep DEF PhasesOfRegion!PhaseNext
  <2>5. CASE ImplicitTaskEnd(t)
    BY <2>5, LeaveStep DEF PhasesOfRegion!PhaseNext
  <2>6. QED
    BY <2>1, <2>2, <2>3, <2>4, <2>5 DEF ThreadStep
<1>3. CASE ParallelEnd
  BY <1>3, JoinStep DEF PhasesOfRegion!PhaseNext
<1>4. CASE FinishProfile
  <2>1. ~Active /\ ~Active'
    BY <1>4, RegionAssumption DEF FinishProfile, Active, RegionInv, TypeOK, Master, Threads
  <2>2. SerialView /\ SerialView'
    BY <2>1, NoRegionView, NoRegionViewNext
  <2>3. QED
    BY <2>2 DEF SerialView
<1>5. CASE UNCHANGED vars
  <2>1. /\ UNCHANGED <<team, pendingFinish, barrierCount>> /\ Gone' = Gone
        /\ Active' = Active
    BY <1>5 DEF vars, profiler, runtime, Gone, Team, Active
  <2>2. CASE Active
    BY <2>1, <2>2, Stutter
  <2>3. CASE ~Active
    BY <2>1, <2>3, NoRegionView, NoRegionViewNext DEF SerialView
  <2>4. QED
    BY <2>2, <2>3
<1>6. QED
  BY <1>1, <1>2, <1>3, <1>4, <1>5 DEF Next, Finished

(* The stacks of the threads, seen as the phase each thread is in, behave  *)
(* as BulkSynchronous says, for every number of threads, regions and       *)
(* barriers: the FINISH nodes are the intervals between the barriers.      *)
THEOREM PhasesImplemented == Spec => ImplementsPhases
  BY PhasesInit, PhasesStep, LagInvariant, PTL
  DEF Spec, ImplementsPhases, PhasesOfRegion!PhaseSpec

----------------------------------------------------------------------------
(* The tree of a region: complete when the region has ended, for every     *)
(* number of threads, regions and barriers and every race of threads to a  *)
(* barrier.                                                                *)

LEMMA EnteredFinite ==
  ASSUME TypeOK, NEW k
  PROVE  IsFiniteSet(Entered(k)) /\ Entered(k) \subseteq Team
  <1>1. IsFiniteSet(Team)
    BY CountedFinite
  <1>2. Entered(k) \subseteq Team
    BY DEF Entered
  <1>3. QED
    BY <1>1, <1>2, FS_Subset

(* Ids of nodes that are in the tree or open are numbers.                  *)
LEMMA NodeIds ==
  ASSUME TypeOK, TreeInv
  PROVE  /\ node_ctr \in Nat
         /\ \A a \in tree : a \in NodeRecord /\ a.id \in Nat /\ a.parent \in Nat
                            /\ a.id <= node_ctr
         /\ \A s \in steps : s.parent \in Nat
         /\ \A k \in DOMAIN Phases : Phases[k] \in tree
  <1>1. \A a \in tree : a \in NodeRecord /\ a.id \in 1..node_ctr
    BY DEF TypeOK, TreeInv
  <1>2. node_ctr \in Nat /\ \A s \in steps : s.parent \in Nat
    BY DEF TypeOK
  <1>3. \A k \in DOMAIN Phases : Phases[k] \in tree
    BY DEF TreeInv
  <1>4. \A a \in NodeRecord : a.id \in Nat /\ a.parent \in Nat
    BY DEF NodeRecord
  <1>5. \A a \in tree : a.id <= node_ctr
    BY <1>1, <1>2
  <1>6. QED
    BY <1>1, <1>2, <1>3, <1>4, <1>5

----------------------------------------------------------------------------
LEMMA BranchInit == Init => BranchInv
  <1> SUFFICES ASSUME Init PROVE BranchInv
    OBVIOUS
  <1>1. \A t \in Threads : ~InPhase(t)
    BY DEF Init, InPhase
  <1>2. tree = {Root} /\ steps = {} /\ region = 0 /\ Root.parent = 0 /\ Root.id = 1
    BY DEF Init, Root
  <1>3. QED
    BY <1>1, <1>2 DEF BranchInv

(* A phase whose threads are neither joined nor left, and whose nodes and  *)
(* steps do not change, stays as it is.                                    *)
LEMMA BranchKept ==
  ASSUME NEW k, BranchOf(k),
         Phases'[k] = Phases[k],
         Children(Phases[k])' = Children(Phases[k]),
         Entered(k)' = Entered(k),
         \A a \in Children(Phases[k]) :
           /\ StepsOf(a)' = StepsOf(a)
           /\ (\E t \in Threads : InPhase(t)' /\ a = TaskNode(t)')
                <=> \E t \in Threads : InPhase(t) /\ a = TaskNode(t)
  PROVE  BranchOf(k)'
  <1>1. ASSUME NEW a \in Children(Phases[k]), NEW s, StepsOf(a) = {s}
        PROVE  \E r \in steps' : StepsOf(a)' = {r}
    <2>1. StepsOf(a)' = {s} /\ s \in StepsOf(a)'
      BY <1>1
    <2>2. s \in steps'
      BY <2>1 DEF StepsOf
    <2>3. QED
      BY <2>1, <2>2
  <1>2. QED
    BY <1>1 DEF BranchOf

(* Steps that leave the tree, the steps and the phases alone.              *)
LEMMA BranchInvKept ==
  ASSUME TypeOK, BranchInv,
         UNCHANGED <<tree, steps, last_nodes, node_ctr, barrierCount, pendingFinish, released,
                     team, region, region_nodes>>,
         \A t \in Threads : InPhase(t)' <=> InPhase(t)
  PROVE  BranchInv'
  <1>1. Phases' = Phases
    BY DEF Phases
  <1>2. ASSUME NEW k \in DOMAIN Phases, BranchOf(k)
        PROVE  BranchOf(k)'
    <2>1. Children(Phases[k])' = Children(Phases[k]) /\ Entered(k)' = Entered(k)
      BY <1>1 DEF Children, Entered, Team
    <2>2. \A a : StepsOf(a)' = StepsOf(a)
      BY DEF StepsOf
    <2>3. \A t \in Threads : TaskNode(t)' = TaskNode(t)
      BY DEF TaskNode, Depth
    <2>4. QED
      BY <1>1, <1>2, <2>1, <2>2, <2>3, BranchKept
  <1>3. Children(region_nodes[1])' = Children(region_nodes[1])
    BY DEF Children
  <1>4. \A t \in Threads : TaskNode(t)' = TaskNode(t)
    BY DEF TaskNode, Depth
  <1>5. QED
    BY <1>1, <1>2, <1>3, <1>4 DEF BranchInv

(* A step of a thread inside the region: its node gets the step and is no  *)
(* longer anybody's.                                                       *)
LEMMA BranchStep ==
  ASSUME RegionInv, TreeInv, BranchInv, NEW t \in Threads, InPhase(t),
         NEW i, steps' = steps \union {[id |-> i, parent |-> TaskNode(t).id]},
         node_ctr' \in Nat, node_ctr <= node_ctr',
         UNCHANGED <<tree, barrierCount, pendingFinish, released, team, region, region_nodes>>,
         ~InPhase(t)',
         \A u \in Threads \ {t} : /\ InPhase(u)' <=> InPhase(u)
                                  /\ last_nodes'[u] = last_nodes[u]
  PROVE  BranchInv'
  <1>1. Phases' = Phases
    BY DEF Phases
  <1>2. /\ TypeOK /\ TaskNode(t) \in tree
        /\ \A u \in Threads \ {t} : TaskNode(u)' = TaskNode(u)
    BY DEF RegionInv, TreeInv, TaskNode, Depth
  <1>3. /\ node_ctr \in Nat /\ \A a \in tree : a.id \in Nat /\ a.parent \in Nat /\ a.id <= node_ctr
        /\ \A s \in steps : s.parent \in Nat
    BY <1>2, NodeIds
  <1>4. \A s \in steps' : s.parent <= node_ctr'
    BY <1>2, <1>3 DEF BranchInv
  <1>5. \A u, v \in Threads : InPhase(u)' /\ InPhase(v)' /\ u # v => TaskNode(u)' # TaskNode(v)'
    BY <1>2 DEF BranchInv
  <1>6. ASSUME NEW k \in DOMAIN Phases, BranchOf(k)
        PROVE  BranchOf(k)'
    <2>1. Children(Phases[k])' = Children(Phases[k]) /\ Entered(k)' = Entered(k)
      BY <1>1 DEF Children, Entered, Team
    <2>2. ASSUME NEW a \in Children(Phases[k])
          PROVE  /\ a.type = "ASYNC"
                 /\ IF \E u \in Threads : InPhase(u)' /\ a = TaskNode(u)'
                      THEN StepsOf(a)' = {}
                      ELSE \E s \in steps' : StepsOf(a)' = {s}
      <3>1. a \in tree /\ a.type = "ASYNC"
        BY <1>6, <2>2 DEF BranchOf, Children
      <3>2. CASE a = TaskNode(t)
        <4>1. ~\E u \in Threads : InPhase(u)' /\ a = TaskNode(u)'
          BY <3>2, <1>2 DEF BranchInv
        <4>2. StepsOf(a) = {}
          BY <1>6, <3>2 DEF BranchOf
        <4>3. StepsOf(a)' = {[id |-> i, parent |-> TaskNode(t).id]}
          BY <3>2, <4>2 DEF StepsOf
        <4>4. QED
          BY <3>1, <4>1, <4>3
      <3>3. CASE a # TaskNode(t)
        <4>1. a.id # TaskNode(t).id
          BY <3>1, <3>3, <1>2 DEF TreeInv
        <4>2. StepsOf(a)' = StepsOf(a)
          BY <4>1 DEF StepsOf
        <4>3. (\E u \in Threads : InPhase(u)' /\ a = TaskNode(u)')
                <=> \E u \in Threads : InPhase(u) /\ a = TaskNode(u)
          BY <3>3, <1>2
        <4>4. QED
          BY <3>1, <4>2, <4>3, <1>6 DEF BranchOf
      <3>4. QED
        BY <3>2, <3>3
    <2>3. QED
      BY <1>1, <1>6, <2>1, <2>2 DEF BranchOf
  <1>7. Children(region_nodes[1])' = Children(region_nodes[1])
    BY DEF Children
  <1>8. QED
    BY <1>1, <1>4, <1>5, <1>6, <1>7 DEF BranchInv

(* A step of the master in serial code is under the root.                  *)
LEMMA BranchSerialStep ==
  ASSUME RegionInv, TreeInv, BranchInv,
         NEW i, steps' = steps \union {[id |-> i, parent |-> Root.id]},
         node_ctr' \in Nat, node_ctr <= node_ctr',
         UNCHANGED <<tree, last_nodes, barrierCount, pendingFinish, released, team, region,
                     region_nodes>>,
         \A u \in Threads : InPhase(u)' <=> InPhase(u)
  PROVE  BranchInv'
  <1>1. Phases' = Phases
    BY DEF Phases
  <1>2. /\ TypeOK /\ Root \in tree /\ Root.type = "FINISH"
        /\ \A u \in Threads : TaskNode(u)' = TaskNode(u)
    BY DEF RegionInv, TreeInv, TaskNode, Depth, Root
  <1>3. /\ node_ctr \in Nat /\ \A a \in tree : a.id \in Nat /\ a.parent \in Nat /\ a.id <= node_ctr
        /\ \A s \in steps : s.parent \in Nat
    BY <1>2, NodeIds
  <1>4. \A s \in steps' : s.parent <= node_ctr'
    BY <1>2, <1>3 DEF BranchInv
  <1>5. \A u, v \in Threads : InPhase(u)' /\ InPhase(v)' /\ u # v => TaskNode(u)' # TaskNode(v)'
    BY <1>2 DEF BranchInv
  <1>6. ASSUME NEW k \in DOMAIN Phases, BranchOf(k)
        PROVE  BranchOf(k)'
    <2>1. Children(Phases[k])' = Children(Phases[k]) /\ Entered(k)' = Entered(k)
      BY <1>1 DEF Children, Entered, Team
    <2>2. ASSUME NEW a \in Children(Phases[k])
          PROVE  StepsOf(a)' = StepsOf(a)
      <3>1. a \in tree /\ a.type = "ASYNC"
        BY <1>6, <2>2 DEF BranchOf, Children
      <3>2. a.id # Root.id
        BY <3>1, <1>2 DEF TreeInv
      <3>3. QED
        BY <3>2 DEF StepsOf
    <2>3. QED
      BY <1>1, <1>2, <1>6, <2>1, <2>2, BranchKept
  <1>7. Children(region_nodes[1])' = Children(region_nodes[1])
    BY DEF Children
  <1>8. QED
    BY <1>1, <1>4, <1>5, <1>6, <1>7 DEF BranchInv

(* A thread enters a phase: what the new node a changes for the phases.    *)
NewLeaf(t, a) ==
  /\ a \in NodeRecord /\ a.type = "ASYNC" /\ a.id > node_ctr
  /\ ~InPhase(t) /\ InPhase(t)' /\ TaskNode(t)' = a
  /\ UNCHANGED <<steps, team, region, region_nodes>>
  /\ \A u \in Threads \ {t} : /\ InPhase(u)' <=> InPhase(u)
                              /\ last_nodes'[u] = last_nodes[u]

LEMMA NewLeafOpen ==
  ASSUME RegionInv, TreeInv, BranchInv, NEW t \in Threads, NEW a, NewLeaf(t, a)
  PROVE  /\ a \notin tree /\ StepsOf(a)' = {} /\ StepsOf(a) = {}
         /\ \A c : StepsOf(c)' = StepsOf(c)
         /\ \A c \in tree : (\E u \in Threads : InPhase(u)' /\ c = TaskNode(u)')
                              <=> \E u \in Threads : InPhase(u) /\ c = TaskNode(u)
         /\ \A u, v \in Threads :
              InPhase(u)' /\ InPhase(v)' /\ u # v => TaskNode(u)' # TaskNode(v)'
  <1>1. /\ TypeOK /\ \A u \in Threads \ {t} : TaskNode(u)' = TaskNode(u)
        /\ \A u \in Threads : InPhase(u) => TaskNode(u) \in tree
    <2>1. TypeOK
      BY DEF RegionInv
    <2>2. \A u \in Threads \ {t} : TaskNode(u)' = TaskNode(u)
      BY DEF TaskNode, Depth, NewLeaf
    <2>3. \A u \in Threads : InPhase(u) => TaskNode(u) \in tree
      BY DEF TreeInv, TaskNode
    <2>4. QED
      BY <2>1, <2>2, <2>3
  <1>2. /\ node_ctr \in Nat /\ a.id \in Nat /\ a.id > node_ctr
        /\ \A c \in tree : c.id \in Nat /\ c.id <= node_ctr
        /\ \A s \in steps : s.parent \in Nat /\ s.parent <= node_ctr
    BY <1>1, NodeIds DEF NewLeaf, NodeRecord, BranchInv
  <1>3. a \notin tree
    BY <1>2
  <1>4. \A s \in steps : s.parent # a.id
    BY <1>2
  <1>5. StepsOf(a) = {} /\ \A c : StepsOf(c)' = StepsOf(c)
    BY <1>4 DEF StepsOf, NewLeaf
  <1>6. \A c \in tree : (\E u \in Threads : InPhase(u)' /\ c = TaskNode(u)')
                        <=> \E u \in Threads : InPhase(u) /\ c = TaskNode(u)
    <2>1. ASSUME NEW c \in tree, NEW u \in Threads, InPhase(u), c = TaskNode(u)
          PROVE  InPhase(u)' /\ c = TaskNode(u)'
      BY <2>1, <1>1 DEF NewLeaf
    <2>2. ASSUME NEW c \in tree, NEW u \in Threads, InPhase(u)', c = TaskNode(u)'
          PROVE  InPhase(u) /\ c = TaskNode(u)
      <3>1. u # t
        BY <2>2, <1>3 DEF NewLeaf
      <3>2. QED
        BY <2>2, <3>1, <1>1 DEF NewLeaf
    <2>3. QED
      BY <2>1, <2>2
  <1>7. \A u, v \in Threads :
          InPhase(u)' /\ InPhase(v)' /\ u # v => TaskNode(u)' # TaskNode(v)'
    BY <1>1, <1>3 DEF NewLeaf, BranchInv
  <1>8. QED
    BY <1>3, <1>5, <1>6, <1>7

LEMMA BranchGrows ==
  ASSUME RegionInv, TreeInv, BranchInv, NEW t \in Threads, NEW a, NewLeaf(t, a),
         NEW k \in DOMAIN Phases, BranchOf(k), Phases'[k] = Phases[k], TypeOK',
         \/ /\ Children(Phases[k])' = Children(Phases[k])
            /\ Entered(k)' = Entered(k)
         \/ /\ Children(Phases[k])' = Children(Phases[k]) \union {a}
            /\ Entered(k)' = Entered(k) \union {t}
            /\ t \notin Entered(k)
  PROVE  BranchOf(k)'
  <1>1. /\ a \notin tree /\ StepsOf(a)' = {} /\ \A c : StepsOf(c)' = StepsOf(c)
        /\ \A c \in tree : (\E u \in Threads : InPhase(u)' /\ c = TaskNode(u)')
                             <=> \E u \in Threads : InPhase(u) /\ c = TaskNode(u)
    BY NewLeafOpen
  <1>2. CASE /\ Children(Phases[k])' = Children(Phases[k])
             /\ Entered(k)' = Entered(k)
    BY <1>1, <1>2, BranchKept DEF Children
  <1>3. CASE /\ Children(Phases[k])' = Children(Phases[k]) \union {a}
             /\ Entered(k)' = Entered(k) \union {t}
             /\ t \notin Entered(k)
    <2>1. /\ TypeOK /\ IsFiniteSet(Children(Phases[k])) /\ a \notin Children(Phases[k])
          /\ IsFiniteSet(Entered(k)) /\ Cardinality(Children(Phases[k])) = Cardinality(Entered(k))
      BY <1>1, EnteredFinite DEF BranchOf, Children, RegionInv
    <2>2. /\ IsFiniteSet(Children(Phases[k]) \union {a})
          /\ Cardinality(Children(Phases[k]) \union {a}) = Cardinality(Children(Phases[k])) + 1
          /\ Cardinality(Entered(k) \union {t}) = Cardinality(Entered(k)) + 1
      BY <2>1, <1>3, FS_AddElement
    <2>3. /\ IsFiniteSet(Children(Phases[k])')
          /\ Cardinality(Children(Phases[k])') = Cardinality(Entered(k)')
      BY <2>1, <2>2, <1>3
    <2>4. ASSUME NEW c \in Children(Phases[k])
          PROVE  /\ c.type = "ASYNC"
                 /\ IF \E u \in Threads : InPhase(u)' /\ c = TaskNode(u)'
                      THEN StepsOf(c)' = {}
                      ELSE \E s \in steps' : StepsOf(c)' = {s}
      BY <1>1 DEF BranchOf, Children, NewLeaf
    <2>5. /\ a.type = "ASYNC"
          /\ IF \E u \in Threads : InPhase(u)' /\ a = TaskNode(u)'
               THEN StepsOf(a)' = {}
               ELSE \E s \in steps' : StepsOf(a)' = {s}
      BY <1>1 DEF NewLeaf
    <2>6. QED
      BY <2>3, <2>4, <2>5, <1>3 DEF BranchOf
  <1>4. QED
    BY <1>2, <1>3

LEMMA BranchParallelBegin ==
  ASSUME RegionInv, RegionInv', TreeInv, TreeInv', BranchInv,
         NEW req \in Requests, NEW b \in 0..MaxBarriers, ParallelBegin(req, b)
  PROVE  BranchInv'
  <1> DEFINE f1 == NewNode(node_ctr + 2, "FINISH", Top(last_nodes[Master]))
             f2 == NewNode(node_ctr + 3, "FINISH", f1)
  <1>1. /\ pc[Master] = "idle" /\ tree' = tree \union {f1, f2} /\ node_ctr' = node_ctr + 3
        /\ steps' = steps \union {NewStep(node_ctr + 1, last_nodes[Master])}
        /\ region_nodes' = <<f1, f2>> /\ region' = region + 1
        /\ pc' = [pc EXCEPT ![Master] = "forked"]
        /\ team' = ForkedTeam(req) /\ released' = released \union 1..team'
        /\ pendingFinish' = <<>>
    BY DEF ParallelBegin, ForgetBarriers
  <1>2. /\ TypeOK /\ TypeOK' /\ node_ctr \in Nat /\ region \in Nat /\ ~Active
        /\ Root \in tree /\ Master \in Threads
    <2>1. TypeOK /\ TypeOK' /\ Root \in tree
      BY DEF RegionInv, TreeInv
    <2>2. Master \in Threads
      BY RegionAssumption DEF Threads, Master
    <2>3. node_ctr \in Nat /\ region \in Nat
      BY <2>1, RegionAssumption DEF TypeOK
    <2>4. ~Active
      BY <1>1 DEF Active
    <2>5. QED
      BY <2>1, <2>2, <2>3, <2>4
  <1>3. Top(last_nodes[Master]) = Root
    <2>1. last_nodes[Master] = <<Root>>
      BY <1>2, SerialStacks
    <2>2. QED
      BY <2>1 DEF Top
  <1>4. /\ f1.id = node_ctr + 2 /\ f2.id = node_ctr + 3
        /\ f1.parent = 1 /\ f2.parent = f1.id /\ Root.id = 1
    BY <1>3 DEF NewNode, Root
  <1>5. NewStep(node_ctr + 1, last_nodes[Master]).parent = 1
    BY <1>3 DEF NewStep, Root
  <1> HIDE DEF f1, f2
  <1>6. /\ \A a \in tree : a.id \in Nat /\ a.parent \in Nat /\ a.id <= node_ctr /\ a.parent < a.id
        /\ \A s \in steps : s.parent \in Nat /\ s.parent <= node_ctr
        /\ 1 <= node_ctr
    BY <1>2, <1>4, NodeIds DEF BranchInv
  <1>7. \A a \in tree' : a.parent < a.id
    BY <1>1, <1>2, <1>4, <1>6
  <1>8. \A s \in steps' : s.parent <= node_ctr'
    BY <1>1, <1>2, <1>5, <1>6
  <1>9. \A t \in Threads : ~InPhase(t)'
    <2>1. \A t \in Threads : pc'[t] \in {"idle", "forked"}
      BY <1>1, <1>2, SerialStacks DEF TypeOK
    <2>2. QED
      BY <2>1 DEF InPhase
  <1>10. Phases' = <<f2>>
    BY <1>1 DEF Phases
  <1>11. Children(region_nodes[1])' = {f2}
    BY <1>1, <1>2, <1>4, <1>6 DEF Children
  <1>12. {c \in tree' : c.parent = f2.id} = {}
    BY <1>1, <1>2, <1>4, <1>6
  <1>13. Entered(1)' = {}
    BY <1>1 DEF Entered, Team
  <1>14. BranchOf(1)'
    <2>1. Phases'[1] = f2
      BY <1>10
    <2>2. Children(Phases[1])' = {}
      BY <2>1, <1>12 DEF Children
    <2>3. QED
      BY <2>2, <1>13, FS_EmptySet DEF BranchOf
  <1>15. DOMAIN Phases' = {1} /\ {Phases'[k] : k \in DOMAIN Phases'} = {f2}
    BY <1>10
  <1>16. QED
    BY <1>7, <1>8, <1>9, <1>11, <1>14, <1>15 DEF BranchInv

LEMMA BranchImplicitTaskBegin ==
  ASSUME RegionInv, RegionInv', TreeInv, BranchInv, NEW t \in Threads, ImplicitTaskBegin(t)
  PROVE  BranchInv'
  <1> DEFINE a == NewNode(node_ctr + 1, "ASYNC", Top(last_nodes[t]))
  <1>1. /\ t \in released /\ released' = released \ {t} /\ node_ctr' = node_ctr + 1
        /\ pc' = [pc EXCEPT ![t] = "work"] /\ tree' = tree \union {a}
        /\ pc[t] \in {"forked", "idle"}
        /\ last_nodes' = [last_nodes EXCEPT ![t] = Append(last_nodes[t], a)]
        /\ UNCHANGED <<steps, barrierCount, pendingFinish, team, region, region_nodes>>
    BY DEF ImplicitTaskBegin
  <1>2. /\ TypeOK /\ TypeOK' /\ node_ctr \in Nat /\ last_nodes[t] \in Seq(NodeRecord)
        /\ StackShape(t) /\ ControlInv /\ PhaseInv /\ NodeInv
    BY DEF RegionInv, TypeOK
  <1>3. t \in Team /\ Active /\ region > 0
    BY <1>1, <1>2 DEF ControlInv, NodeInv
  <1>4. /\ Len(last_nodes[t]) = Depth(t) + 2 /\ last_nodes[t][Depth(t) + 2] = region_nodes[2]
        /\ Depth(t) \in {0, 1}
    BY <1>1, <1>2 DEF StackShape, Depth
  <1>5. Top(last_nodes[t]) = region_nodes[2]
    BY <1>2, <1>4, PopStack
  <1>6. /\ Phases[1] = region_nodes[2] /\ Phases' = Phases /\ 1 \in DOMAIN Phases
        /\ DOMAIN Phases = 1..(Len(pendingFinish) + 1) /\ Len(pendingFinish) \in Nat
    <2>1. Phases' = Phases
      BY <1>1 DEF Phases
    <2>2. QED
      BY <1>2, <2>1, PhasesAreNodes
  <1>7. a.id = node_ctr + 1 /\ a.parent = Phases[1].id /\ a.type = "ASYNC"
    BY <1>5, <1>6 DEF NewNode
  <1>8. a \in NodeRecord
    BY <1>2, TopType, NewNodeType
  <1> HIDE DEF a
  <1>9. /\ Phases[1] \in tree /\ Phases[1].id \in Nat /\ Phases[1].id <= node_ctr
        /\ Phases[1].parent < Phases[1].id /\ Phases[1].parent = region_nodes[1].id
        /\ \A s \in steps : s.parent \in Nat /\ s.parent <= node_ctr
    BY <1>2, <1>3, <1>6, NodeIds DEF BranchInv, NodeInv
  <1>10. NewLeaf(t, a)
    <2>1. TaskNode(t)' = a
      <3>1. Append(last_nodes[t], a)[Len(last_nodes[t]) + 1] = a
        BY <1>2, <1>8, PushOne
      <3>2. Len(last_nodes[t]) + 1 = Depth(t) + 3
        BY <1>4
      <3>3. last_nodes'[t] = Append(last_nodes[t], a)
        BY <1>1, <1>2 DEF TypeOK
      <3>4. QED
        BY <3>1, <3>2, <3>3 DEF TaskNode, Depth
    <2>2. ~InPhase(t) /\ InPhase(t)'
      BY <1>1, <1>2 DEF InPhase, TypeOK
    <2>3. \A u \in Threads \ {t} : /\ InPhase(u)' <=> InPhase(u)
                                   /\ last_nodes'[u] = last_nodes[u]
      BY <1>1, <1>2 DEF InPhase, TypeOK
    <2>4. a.id > node_ctr
      BY <1>2, <1>7
    <2>5. QED
      BY <1>1, <1>7, <1>8, <2>1, <2>2, <2>3, <2>4 DEF NewLeaf
  <1>11. ASSUME NEW k \in DOMAIN Phases, BranchOf(k)
         PROVE  BranchOf(k)'
    <2>1. CASE k = 1
      <3>1. Children(Phases[k])' = Children(Phases[k]) \union {a}
        BY <2>1, <1>1, <1>6, <1>7 DEF Children
      <3>2. Entered(k)' = Entered(k) \union {t} /\ t \notin Entered(k)
        BY <2>1, <1>1, <1>2, <1>3 DEF Entered, Team, PhaseInv
      <3>3. QED
        BY <3>1, <3>2, <1>2, <1>6, <1>10, <1>11, BranchGrows
    <2>2. CASE k # 1
      <3>1. Phases[k].id # Phases[1].id
        BY <2>2, <1>2, <1>6, PhaseIdsDiffer
      <3>2. Children(Phases[k])' = Children(Phases[k])
        BY <3>1, <1>1, <1>6, <1>7 DEF Children
      <3>3. ~(0 + 1 >= k) /\ barrierCount[t] = 0
        BY <2>2, <1>1, <1>2, <1>6 DEF PhaseInv
      <3>4. Entered(k)' = Entered(k)
        BY <3>3, <1>1 DEF Entered, Team
      <3>5. QED
        BY <3>2, <3>4, <1>2, <1>6, <1>10, <1>11, BranchGrows
    <2>3. QED
      BY <2>1, <2>2
  <1>12. Children(region_nodes[1])' = Children(region_nodes[1])
    <2>1. region_nodes[1].id \in Nat
      BY <1>2, <1>9 DEF TypeOK, NodeRecord
    <2>2. a.parent # region_nodes[1].id
      BY <2>1, <1>7, <1>9
    <2>3. QED
      BY <2>2, <1>1 DEF Children
  <1>13. \A c \in tree' : c.parent < c.id
    BY <1>1, <1>2, <1>7, <1>9 DEF BranchInv
  <1>14. \A s \in steps' : s.parent <= node_ctr'
    BY <1>1, <1>2, <1>9
  <1>15. \A u, v \in Threads :
           InPhase(u)' /\ InPhase(v)' /\ u # v => TaskNode(u)' # TaskNode(v)'
    BY <1>10, NewLeafOpen
  <1>16. QED
    BY <1>1, <1>3, <1>6, <1>11, <1>12, <1>13, <1>14, <1>15 DEF BranchInv

(* What the thread that enters a new phase at a barrier changes, for both  *)
(* halves of the locked section of captureBarrierBegin.                    *)
LEMMA EntersPhase ==
  ASSUME RegionInv, NEW t \in Threads, pc[t] = "locking", Arrive(t),
         NEW f \in NodeRecord, NEW a \in NodeRecord, a.type = "ASYNC", a.id > node_ctr,
         last_nodes' = [last_nodes EXCEPT ![t] = last_nodes[t] \o <<f, a>>],
         barrierCount' = [barrierCount EXCEPT ![t] = barrierCount[t] + 1],
         UNCHANGED <<steps, released, team, region, region_nodes>>
  PROVE  /\ NewLeaf(t, a)
         /\ t \in Team \ released /\ barrierCount[t] \in 0..Len(pendingFinish)
         /\ \A u \in Team \ {t} : barrierCount'[u] = barrierCount[u]
         /\ barrierCount'[t] = barrierCount[t] + 1
  <1>1. /\ TypeOK /\ StackShape(t) /\ last_nodes[t] \in Seq(NodeRecord)
        /\ Team \subseteq Threads
    BY LagTypes DEF RegionInv, TypeOK
  <1>2. t \in Team \ released /\ barrierCount[t] \in 0..Len(pendingFinish)
    BY InRegion
  <1>3. /\ barrierCount'[t] = barrierCount[t] + 1
        /\ \A u \in Team \ {t} : barrierCount'[u] = barrierCount[u]
    BY <1>1 DEF TypeOK
  <1>4. TaskNode(t)' = a
    <2>1. Len(last_nodes[t]) = Depth(t) + 1 /\ Depth(t) \in {0, 1}
      BY <1>1 DEF StackShape, Depth
    <2>2. (last_nodes[t] \o <<f, a>>)[Len(last_nodes[t]) + 2] = a
      BY <1>1, PushTwo
    <2>3. Len(last_nodes[t]) + 2 = Depth(t) + 3
      BY <2>1
    <2>4. last_nodes'[t] = last_nodes[t] \o <<f, a>>
      BY <1>1 DEF TypeOK
    <2>5. QED
      BY <2>2, <2>3, <2>4 DEF TaskNode, Depth
  <1>5. ~InPhase(t) /\ InPhase(t)'
    BY <1>1 DEF Arrive, InPhase, TypeOK
  <1>6. \A u \in Threads \ {t} : /\ InPhase(u)' <=> InPhase(u)
                                 /\ last_nodes'[u] = last_nodes[u]
    BY <1>1 DEF Arrive, InPhase, TypeOK
  <1>7. NewLeaf(t, a)
    BY <1>4, <1>5, <1>6 DEF NewLeaf
  <1>8. QED
    BY <1>2, <1>3, <1>7

(* The parents of the nodes a barrier creates, and the steps so far.       *)
LEMMA BranchIds ==
  ASSUME RegionInv, TreeInv, BranchInv, region > 0
  PROVE  /\ node_ctr \in Nat /\ region_nodes[1].id \in Nat /\ region_nodes[1].id <= node_ctr
         /\ \A c \in tree : c.id \in Nat /\ c.parent \in Nat /\ c.id <= node_ctr
                            /\ c.parent < c.id /\ c.parent < node_ctr
         /\ \A s \in steps : s.parent \in Nat /\ s.parent <= node_ctr
         /\ \A k \in DOMAIN Phases : /\ Phases[k] \in tree /\ Phases[k] \in NodeRecord
                                     /\ Phases[k].parent = region_nodes[1].id
                                     /\ Phases[k].id # region_nodes[1].id
         /\ Len(pendingFinish) \in Nat /\ DOMAIN Phases = 1..(Len(pendingFinish) + 1)
  <1>1. TypeOK /\ NodeInv /\ region_nodes[1] \in NodeRecord
    BY DEF RegionInv, TypeOK
  <1>2. /\ node_ctr \in Nat
        /\ \A c \in tree : c.id \in Nat /\ c.parent \in Nat /\ c.id <= node_ctr
                           /\ c.parent < c.id /\ c.parent < node_ctr
        /\ \A s \in steps : s.parent \in Nat /\ s.parent <= node_ctr
    BY <1>1, NodeIds DEF BranchInv
  <1>3. /\ region_nodes[1].id \in Nat /\ region_nodes[1].id <= node_ctr
    BY <1>1 DEF NodeInv, NodeRecord
  <1>4. /\ Len(pendingFinish) \in Nat /\ DOMAIN Phases = 1..(Len(pendingFinish) + 1)
        /\ \A k \in DOMAIN Phases : Phases[k] \in tree /\ Phases[k] \in NodeRecord
    BY <1>1, PhasesAreNodes, NodeIds
  <1>5. ASSUME NEW k \in DOMAIN Phases
        PROVE  Phases[k].parent = region_nodes[1].id
    <2>1. Phases[k] \in Children(region_nodes[1])
      BY DEF BranchInv
    <2>2. QED
      BY <2>1 DEF Children
  <1>6. \A k \in DOMAIN Phases : Phases[k].id # region_nodes[1].id
    BY <1>2, <1>3, <1>4, <1>5
  <1>7. QED
    BY <1>2, <1>3, <1>4, <1>5, <1>6

LEMMA BranchBarrierOther ==
  ASSUME RegionInv, RegionInv', TreeInv, BranchInv, NEW t \in Threads, BarrierOther(t)
  PROVE  BranchInv'
  <1> DEFINE k == barrierCount[t] + 1
             f == LeftNode(k)
             a == NewNode(node_ctr + 1, "ASYNC", f)
             L == Len(pendingFinish)
  <1>1. /\ pc[t] = "locking" /\ tree' = tree \union {a} /\ node_ctr' = node_ctr + 1
        /\ Require(L >= k, "other_pending")
        /\ last_nodes' = [last_nodes EXCEPT ![t] = last_nodes[t] \o <<f, a>>]
        /\ barrierCount' = [barrierCount EXCEPT ![t] = barrierCount[t] + 1]
        /\ Arrive(t)
        /\ UNCHANGED <<pendingFinish, region_nodes, steps, released, team, region>>
    BY DEF BarrierOther
  <1>2. TypeOK /\ TypeOK' /\ NodeInv /\ Active /\ region > 0
    BY <1>1, InRegion DEF RegionInv, NodeInv
  <1>3. /\ node_ctr \in Nat /\ region_nodes[1].id \in Nat /\ region_nodes[1].id <= node_ctr
        /\ \A c \in tree : c.id \in Nat /\ c.parent \in Nat /\ c.id <= node_ctr
                           /\ c.parent < c.id /\ c.parent < node_ctr
        /\ \A s \in steps : s.parent \in Nat /\ s.parent <= node_ctr
        /\ \A j \in DOMAIN Phases : /\ Phases[j] \in tree /\ Phases[j] \in NodeRecord
                                    /\ Phases[j].parent = region_nodes[1].id
                                    /\ Phases[j].id # region_nodes[1].id
        /\ L \in Nat /\ DOMAIN Phases = 1..(L + 1)
    BY <1>2, BranchIds
  <1>4. L >= k
    BY <1>1 DEF Require, RegionInv
  <1>5. barrierCount[t] \in Nat /\ k \in 1..L /\ k \in Nat
    <2>1. barrierCount[t] \in Nat
      BY <1>2 DEF TypeOK
    <2>2. QED
      BY <2>1, <1>3, <1>4
  <1>6. k + 1 \in DOMAIN Phases /\ f = Phases[k + 1] /\ f \in NodeRecord
    <2>1. DOMAIN pendingFinish = 1..L
      BY <1>2, LenProperties DEF TypeOK
    <2>2. f = pendingFinish[k]
      BY <2>1, <1>5 DEF LeftNode
    <2>3. Phases[k + 1] = pendingFinish[k]
      BY <1>2, <1>5, PhasesAreNodes
    <2>4. QED
      BY <2>2, <2>3, <1>3, <1>5
  <1>7. a.id = node_ctr + 1 /\ a.parent = f.id /\ a.type = "ASYNC"
    BY DEF NewNode
  <1>8. a \in NodeRecord
    <2>1. node_ctr + 1 \in Nat
      BY <1>3
    <2>2. QED
      BY <2>1, <1>6, NewNodeType
  <1> HIDE DEF f, a, L
  <1>9. a.id > node_ctr /\ Phases' = Phases /\ f.id \in Nat /\ f.id <= node_ctr
    <2>1. Phases' = Phases
      BY <1>1 DEF Phases
    <2>2. QED
      BY <2>1, <1>3, <1>6, <1>7
  <1>10. /\ NewLeaf(t, a) /\ t \in Team \ released
         /\ \A u \in Team \ {t} : barrierCount'[u] = barrierCount[u]
         /\ barrierCount'[t] = barrierCount[t] + 1
    BY <1>1, <1>6, <1>7, <1>8, <1>9, EntersPhase
  <1>11. ASSUME NEW j \in DOMAIN Phases, BranchOf(j)
         PROVE  BranchOf(j)'
    <2>1. CASE j = k + 1
      <3>1. Children(Phases[j])' = Children(Phases[j]) \union {a}
        BY <2>1, <1>1, <1>6, <1>7, <1>9 DEF Children
      <3>2. Entered(j)' = Entered(j) \union {t} /\ t \notin Entered(j)
        <4>1. ~(barrierCount[t] + 1 >= j) /\ barrierCount'[t] + 1 >= j
          BY <2>1, <1>5, <1>10
        <4>2. QED
          BY <4>1, <1>1, <1>10 DEF Entered, Team
      <3>3. QED
        BY <3>1, <3>2, <1>2, <1>9, <1>10, <1>11, BranchGrows
    <2>2. CASE j # k + 1
      <3>1. Phases[j].id # f.id
        BY <2>2, <1>2, <1>6, PhaseIdsDiffer
      <3>2. Children(Phases[j])' = Children(Phases[j])
        BY <3>1, <1>1, <1>7, <1>9 DEF Children
      <3>3. barrierCount[t] + 1 >= j <=> barrierCount'[t] + 1 >= j
        BY <2>2, <1>3, <1>5, <1>10
      <3>4. Entered(j)' = Entered(j)
        BY <3>3, <1>1, <1>10 DEF Entered, Team
      <3>5. QED
        BY <3>2, <3>4, <1>2, <1>9, <1>10, <1>11, BranchGrows
    <2>3. QED
      BY <2>1, <2>2
  <1>12. Children(region_nodes[1])' = Children(region_nodes[1])
    <2>1. a.parent # region_nodes[1].id
      BY <1>3, <1>6, <1>7
    <2>2. QED
      BY <2>1, <1>1 DEF Children
  <1>13. \A c \in tree' : c.parent < c.id
    BY <1>1, <1>3, <1>7, <1>9
  <1>14. \A s \in steps' : s.parent <= node_ctr'
    BY <1>1, <1>3
  <1>15. \A u, v \in Threads :
           InPhase(u)' /\ InPhase(v)' /\ u # v => TaskNode(u)' # TaskNode(v)'
    BY <1>10, NewLeafOpen
  <1>16. QED
    BY <1>1, <1>2, <1>9, <1>11, <1>12, <1>13, <1>14, <1>15 DEF BranchInv

LEMMA BranchBarrierFirst ==
  ASSUME RegionInv, RegionInv', TreeInv, BranchInv, NEW t \in Threads, BarrierFirst(t)
  PROVE  BranchInv'
  <1> DEFINE k == barrierCount[t] + 1
             f == NewNode(node_ctr + 1, "FINISH", Top(last_nodes[t]))
             a == NewNode(node_ctr + 2, "ASYNC", f)
             L == Len(pendingFinish)
  <1>1. /\ pc[t] = "locking" /\ tree' = tree \union {f, a} /\ node_ctr' = node_ctr + 2
        /\ Require(L + 1 = k, "first_pending")
        /\ last_nodes' = [last_nodes EXCEPT ![t] = last_nodes[t] \o <<f, a>>]
        /\ barrierCount' = [barrierCount EXCEPT ![t] = barrierCount[t] + 1]
        /\ pendingFinish' = Append(pendingFinish, f)
        /\ Arrive(t)
        /\ UNCHANGED <<region_nodes, steps, released, team, region>>
    BY DEF BarrierFirst
  <1>2. /\ TypeOK /\ TypeOK' /\ NodeInv /\ Active /\ region > 0 /\ PhaseInv /\ ControlInv
        /\ StackShape(t) /\ last_nodes[t] \in Seq(NodeRecord)
    BY <1>1, InRegion DEF RegionInv, NodeInv, TypeOK
  <1>3. /\ node_ctr \in Nat /\ region_nodes[1].id \in Nat /\ region_nodes[1].id <= node_ctr
        /\ \A c \in tree : c.id \in Nat /\ c.parent \in Nat /\ c.id <= node_ctr
                           /\ c.parent < c.id /\ c.parent < node_ctr
        /\ \A s \in steps : s.parent \in Nat /\ s.parent <= node_ctr
        /\ \A j \in DOMAIN Phases : /\ Phases[j] \in tree /\ Phases[j] \in NodeRecord
                                    /\ Phases[j].parent = region_nodes[1].id
                                    /\ Phases[j].id # region_nodes[1].id
        /\ L \in Nat /\ DOMAIN Phases = 1..(L + 1)
    BY <1>2, BranchIds
  <1>4. Top(last_nodes[t]) = region_nodes[1]
    <2>1. Len(last_nodes[t]) = Depth(t) + 1 /\ Depth(t) \in {0, 1}
          /\ last_nodes[t][Depth(t) + 1] = region_nodes[1]
      BY <1>1, <1>2 DEF StackShape, Depth
    <2>2. QED
      BY <2>1, <1>2, PopStack
  <1>5. L + 1 = k
    BY <1>1 DEF Require, RegionInv
  <1>6. /\ f.id = node_ctr + 1 /\ f.parent = region_nodes[1].id
        /\ a.id = node_ctr + 2 /\ a.parent = f.id /\ a.type = "ASYNC"
    BY <1>4 DEF NewNode
  <1>7. f \in NodeRecord /\ a \in NodeRecord
    <2>1. node_ctr + 1 \in Nat /\ node_ctr + 2 \in Nat
      BY <1>3
    <2>2. f \in NodeRecord
      BY <1>2, <2>1, TopType, NewNodeType
    <2>3. QED
      BY <2>1, <2>2, NewNodeType
  <1> HIDE DEF f, a, L
  <1>8. a.id > node_ctr /\ f.id \in Nat /\ f.id > node_ctr /\ barrierCount[t] = L
    <2>1. barrierCount[t] \in Nat
      BY <1>2 DEF TypeOK
    <2>2. QED
      BY <2>1, <1>3, <1>5, <1>6
  <1>9. /\ NewLeaf(t, a) /\ t \in Team \ released
        /\ \A u \in Team \ {t} : barrierCount'[u] = barrierCount[u]
        /\ barrierCount'[t] = barrierCount[t] + 1
    BY <1>1, <1>6, <1>7, <1>8, EntersPhase
  <1>10. /\ Phases' = Append(Phases, f) /\ Phases \in Seq(NodeRecord) /\ Len(Phases) = L + 1
         /\ DOMAIN Phases' = 1..(L + 2) /\ Phases'[L + 2] = f
         /\ \A j \in DOMAIN Phases : Phases'[j] = Phases[j]
    <2>1. Phases' = Append(Phases, f)
      <3>1. pendingFinish \in Seq(NodeRecord)
        BY <1>2 DEF TypeOK
      <3>2. QED
        BY <3>1, <1>1, <1>7 DEF Phases
    <2>2. Phases \in Seq(NodeRecord) /\ Len(Phases) = L + 1
      BY <1>2, PhasesAreNodes DEF L, Phases, TypeOK
    <2>3. /\ Append(Phases, f) \in Seq(NodeRecord) /\ Len(Append(Phases, f)) = L + 2
          /\ \A j \in 1..(L + 1) : Append(Phases, f)[j] = Phases[j]
          /\ Append(Phases, f)[L + 2] = f
      BY <2>2, <1>3, <1>7, PushOne
    <2>4. DOMAIN Append(Phases, f) = 1..(L + 2)
      BY <2>3, LenProperties
    <2>5. QED
      BY <2>1, <2>2, <2>3, <2>4, <1>3
  <1>11. \A c \in tree' : c.parent < c.id
    BY <1>1, <1>3, <1>6, <1>8
  <1>12. \A s \in steps' : s.parent <= node_ctr'
    BY <1>1, <1>3
  <1>13. ASSUME NEW j \in DOMAIN Phases, BranchOf(j)
         PROVE  BranchOf(j)'
    <2>1. Phases[j].id # a.parent /\ Phases[j].id # f.parent
      BY <1>3, <1>6, <1>8
    <2>2. Children(Phases[j])' = Children(Phases[j])
      BY <2>1, <1>1, <1>10 DEF Children
    <2>3. barrierCount[t] + 1 >= j /\ barrierCount'[t] + 1 >= j
      BY <1>3, <1>8, <1>9
    <2>4. Entered(j)' = Entered(j)
      BY <2>3, <1>1, <1>9 DEF Entered, Team
    <2>5. QED
      BY <2>2, <2>4, <1>2, <1>9, <1>10, <1>13, BranchGrows
  <1>14. ASSUME NEW j, j = L + 2
         PROVE  BranchOf(j)'
    <2>1. {c \in tree' : c.parent = f.id} = {a}
      BY <1>1, <1>3, <1>6, <1>8
    <2>2. Children(Phases[j])' = {c \in tree' : c.parent = Phases'[j].id}
      BY DEF Children
    <2>3. Children(Phases[j])' = {a}
      BY <2>1, <2>2, <1>10, <1>14
    <2>4. Entered(j)' = {t}
      <3>1. \A u \in Team \ {t} : ~(barrierCount'[u] + 1 >= j)
        <4>1. \A u \in Team : barrierCount[u] \in Nat /\ barrierCount[u] <= L
          <5>1. \A u \in Team : u \in 1..num_threads /\ u \in Threads
            BY <1>2, LagTypes DEF Team, ControlInv
          <5>2. QED
            BY <5>1, <1>2 DEF PhaseInv, L, TypeOK
        <4>2. QED
          BY <4>1, <1>3, <1>9, <1>14
      <3>2. barrierCount'[t] + 1 >= j
        BY <1>3, <1>8, <1>9, <1>14
      <3>3. QED
        BY <3>1, <3>2, <1>1, <1>9 DEF Entered, Team
    <2>5. {s \in steps' : s.parent = a.id} = {}
      BY <1>9, NewLeafOpen DEF StepsOf
    <2>6. t \in Threads /\ InPhase(t)' /\ a = TaskNode(t)'
      BY <1>9 DEF NewLeaf
    <2>7. Cardinality({a}) = Cardinality({t}) /\ IsFiniteSet({a})
      BY FS_Singleton
    <2>8. \A c \in Children(Phases[j])' : c = a
      BY <2>3
    <2>9. ASSUME NEW c \in Children(Phases[j])'
          PROVE  /\ c.type = "ASYNC"
                 /\ \E u \in Threads : InPhase(u)' /\ c = TaskNode(u)'
                 /\ StepsOf(c)' = {}
      <3>1. c = a
        BY <2>8
      <3>2. {s \in steps' : s.parent = c.id} = {}
        BY <3>1, <2>5
      <3>3. QED
        BY <3>1, <3>2, <2>6, <1>6 DEF StepsOf
    <2>10. QED
      BY <2>3, <2>4, <2>7, <2>9 DEF BranchOf
  <1>15. Children(region_nodes[1])' = {Phases[j] : j \in DOMAIN Phases}'
    <2>1. Children(region_nodes[1])' = Children(region_nodes[1]) \union {f}
      <3>1. a.parent # region_nodes[1].id
        BY <1>3, <1>6, <1>8
      <3>2. QED
        BY <3>1, <1>1, <1>6 DEF Children
    <2>2. Children(region_nodes[1]) = {Phases[j] : j \in DOMAIN Phases}
      BY <1>2 DEF BranchInv
    <2>3. DOMAIN Phases' = DOMAIN Phases \union {L + 2}
      BY <1>3, <1>10
    <2>4. {Phases'[j] : j \in DOMAIN Phases'} = {Phases[j] : j \in DOMAIN Phases} \union {f}
      BY <2>3, <1>10
    <2>5. QED
      BY <2>1, <2>2, <2>4
  <1>16. \A j \in DOMAIN Phases' : BranchOf(j)'
    <2>1. DOMAIN Phases' = DOMAIN Phases \union {L + 2}
      BY <1>3, <1>10
    <2>2. \A j \in DOMAIN Phases : BranchOf(j)
      BY <1>2 DEF BranchInv
    <2>3. ASSUME NEW j \in DOMAIN Phases
          PROVE  BranchOf(j)'
      BY <2>2, <1>13
    <2>4. QED
      BY <2>1, <2>3, <1>14
  <1>17. \A u, v \in Threads :
           InPhase(u)' /\ InPhase(v)' /\ u # v => TaskNode(u)' # TaskNode(v)'
    BY <1>9, NewLeafOpen
  <1>18. QED
    BY <1>11, <1>12, <1>15, <1>16, <1>17 DEF BranchInv

LEMMA BranchInvStep ==
  RegionInv /\ RegionInv' /\ LagInv /\ TreeInv /\ TreeInv' /\ BranchInv /\ [Next]_vars => BranchInv'
  <1> SUFFICES ASSUME RegionInv, RegionInv', LagInv, TreeInv, TreeInv', BranchInv, [Next]_vars
               PROVE  BranchInv'
    OBVIOUS
  <1>a. /\ TypeOK /\ node_ctr \in Nat /\ Master \in Threads
        /\ \A t \in Threads : last_nodes[t] \in Seq(NodeRecord) /\ StackShape(t)
    <2>1. Master \in Threads
      BY RegionAssumption DEF Master, Threads
    <2>2. TypeOK /\ \A t \in Threads : StackShape(t)
      BY DEF RegionInv
    <2>3. QED
      BY <2>1, <2>2 DEF TypeOK
  <1>b. ASSUME NEW t \in Threads, InPhase(t)
        PROVE  NewStep(node_ctr + 1, last_nodes[t])
                 = [id |-> node_ctr + 1, parent |-> TaskNode(t).id]
    <2>1. Len(last_nodes[t]) = Depth(t) + 3 /\ Depth(t) \in {0, 1}
      BY <1>a, <1>b DEF StackShape, Depth
    <2>2. Top(last_nodes[t]) = TaskNode(t)
      BY <1>a, <2>1, PopStack DEF TaskNode
    <2>3. QED
      BY <2>2 DEF NewStep
  <1>1. ASSUME NEW req \in Requests, NEW b \in 0..MaxBarriers, ParallelBegin(req, b)
        PROVE  BranchInv'
    BY <1>1, BranchParallelBegin
  <1>2. ASSUME NEW t \in Threads, ImplicitTaskBegin(t)
        PROVE  BranchInv'
    BY <1>2, BranchImplicitTaskBegin
  <1>3. ASSUME NEW t \in Threads, BarrierBegin(t)
        PROVE  BranchInv'
    <2>1. /\ pc[t] = "work" /\ pc' = [pc EXCEPT ![t] = "locking"] /\ node_ctr' = node_ctr + 1
          /\ steps' = steps \union {NewStep(node_ctr + 1, last_nodes[t])}
          /\ last_nodes' = [last_nodes EXCEPT ![t] = Pop(Pop(@))]
          /\ UNCHANGED <<tree, barrierCount, pendingFinish, released, team, region, region_nodes>>
      BY <1>3 DEF BarrierBegin
    <2>2. /\ InPhase(t) /\ ~InPhase(t)'
          /\ \A u \in Threads \ {t} : /\ InPhase(u)' <=> InPhase(u)
                                      /\ last_nodes'[u] = last_nodes[u]
      BY <2>1, <1>a DEF InPhase, TypeOK
    <2>3. node_ctr' \in Nat /\ node_ctr <= node_ctr'
      BY <2>1, <1>a
    <2>4. QED
      BY <2>1, <2>2, <2>3, <1>b, BranchStep
  <1>4. ASSUME NEW t \in Threads, BarrierFirst(t)
        PROVE  BranchInv'
    BY <1>4, BranchBarrierFirst
  <1>5. ASSUME NEW t \in Threads, BarrierOther(t)
        PROVE  BranchInv'
    BY <1>5, BranchBarrierOther
  <1>6. ASSUME NEW t \in Threads, BarrierEnd(t)
        PROVE  BranchInv'
    <2>1. \A u \in Threads : InPhase(u)' <=> InPhase(u)
      BY <1>6, <1>a DEF BarrierEnd, InPhase, TypeOK
    <2>2. QED
      BY <1>6, <1>a, <2>1, BranchInvKept DEF BarrierEnd, profiler
  <1>7. ASSUME NEW t \in Threads, ImplicitTaskEnd(t)
        PROVE  BranchInv'
    <2>1. /\ pc[t] \in {"work", "join"} /\ pc' = [pc EXCEPT ![t] = "ended"]
          /\ node_ctr' = node_ctr + 1
          /\ steps' = steps \union {NewStep(node_ctr + 1, last_nodes[t])}
          /\ \A u \in Threads \ {t} : last_nodes'[u] = last_nodes[u]
          /\ UNCHANGED <<tree, barrierCount, pendingFinish, released, team, region, region_nodes>>
      BY <1>7, <1>a DEF ImplicitTaskEnd, MayEnd, TypeOK
    <2>2. /\ InPhase(t) /\ ~InPhase(t)'
          /\ \A u \in Threads \ {t} : /\ InPhase(u)' <=> InPhase(u)
                                      /\ last_nodes'[u] = last_nodes[u]
      BY <2>1, <1>a DEF InPhase, TypeOK
    <2>3. node_ctr' \in Nat /\ node_ctr <= node_ctr'
      BY <2>1, <1>a
    <2>4. QED
      BY <2>1, <2>2, <2>3, <1>b, BranchStep
  <1>8. ASSUME NEW t \in Threads, CountImplicitEnd(t)
        PROVE  BranchInv'
    <2>1. \A u \in Threads : InPhase(u)' <=> InPhase(u)
      BY <1>8, <1>a DEF CountImplicitEnd, InPhase, TypeOK
    <2>2. QED
      BY <1>8, <1>a, <2>1, BranchInvKept DEF CountImplicitEnd
  <1>9. CASE ParallelEnd
    <2>1. \A u \in Threads : InPhase(u)' <=> InPhase(u)
      BY <1>9, <1>a DEF ParallelEnd, InPhase, TypeOK
    <2>2. QED
      BY <1>9, <1>a, <2>1, BranchInvKept DEF ParallelEnd
  <1>10. CASE FinishProfile
    <2>1. /\ pc[Master] = "idle" /\ pc' = [pc EXCEPT ![Master] = "done"]
          /\ node_ctr' = node_ctr + 1
          /\ steps' = steps \union {NewStep(node_ctr + 1, last_nodes[Master])}
          /\ UNCHANGED <<tree, last_nodes, barrierCount, pendingFinish, released, team, region,
                         region_nodes>>
      BY <1>10 DEF FinishProfile
    <2>2. \A u \in Threads : InPhase(u)' <=> InPhase(u)
      BY <2>1, <1>a DEF InPhase, TypeOK
    <2>3. NewStep(node_ctr + 1, last_nodes[Master]) = [id |-> node_ctr + 1, parent |-> Root.id]
      <3>1. last_nodes[Master] = <<Root>>
        BY <2>1, <1>a, SerialStacks DEF Active
      <3>2. Top(last_nodes[Master]) = Root
        BY <3>1 DEF Top
      <3>3. QED
        BY <3>2 DEF NewStep
    <2>4. node_ctr' \in Nat /\ node_ctr <= node_ctr'
      BY <2>1, <1>a
    <2>5. QED
      BY <2>1, <2>2, <2>3, <2>4, BranchSerialStep
  <1>11. CASE UNCHANGED vars
    <2>1. \A u \in Threads : InPhase(u)' <=> InPhase(u)
      BY <1>11 DEF vars, runtime, InPhase
    <2>2. QED
      BY <1>11, <1>a, <2>1, BranchInvKept DEF vars, profiler, runtime
  <1>12. QED
    BY <1>1, <1>2, <1>3, <1>4, <1>5, <1>6, <1>7, <1>8, <1>9, <1>10, <1>11
    DEF Next, ThreadStep, Finished

(* The tree of a region while it is built: each phase has one ASYNC node   *)
(* for each thread that has begun it, and a node has its one step as soon  *)
(* as its thread has left the phase.                                       *)
THEOREM BranchInvariant == Spec => []BranchInv
  <1>1. RegionInv /\ RegionInv' /\ LagInv /\ TreeInv /\ TreeInv' /\ BranchInv /\ [Next]_vars
          => BranchInv'
    BY BranchInvStep
  <1>2. QED
    BY <1>1, BranchInit, LagInvariant, PTL DEF Spec

----------------------------------------------------------------------------
LEMMA CompleteWhenIdle ==
  RegionInv /\ LagInv /\ TreeInv /\ BranchInv => RegionTreeComplete
  <1> SUFFICES ASSUME RegionInv, LagInv, TreeInv, BranchInv, pc[Master] = "idle", region > 0
               PROVE  LET phases == Children(region_nodes[1]) IN
                      /\ Cardinality(phases) = BarriersDue + 1
                      /\ \A f \in phases :
                           /\ f.type = "FINISH"
                           /\ Cardinality(Children(f)) = team
                           /\ \A a \in Children(f) :
                                /\ a.type = "ASYNC"
                                /\ Cardinality({s \in steps : s.parent = a.id}) = 1
    BY DEF RegionTreeComplete
  <1>1. TypeOK /\ NodeInv /\ ~Active /\ released = {}
    BY DEF RegionInv, ControlInv, Active
  <1>2. \A t \in Threads : pc[t] = "idle" /\ ~InPhase(t)
    BY <1>1, SerialStacks DEF InPhase
  <1>3. /\ Team \subseteq Threads /\ Master \in Team /\ BarriersDue \in Nat
        /\ \A t \in Threads : arrived[t] \in Nat /\ barrierCount[t] \in Nat
    BY <1>1, LagTypes
  <1>4. \A t \in Team : barrierCount[t] = BarriersDue
    <2>1. \A t \in Team : t \in Gone
      BY <1>1, <1>2, <1>3 DEF Gone
    <2>2. QED
      BY <2>1 DEF LagInv
  <1>5. Len(pendingFinish) = BarriersDue
    <2>1. /\ Len(pendingFinish) \in Nat /\ barrierCount[Master] <= Len(pendingFinish)
          /\ Len(pendingFinish) <= BarriersDue
      BY <1>3, BehindByOne
    <2>2. QED
      BY <2>1, <1>3, <1>4
  <1>6. /\ DOMAIN Phases = 1..(BarriersDue + 1)
        /\ \A k \in DOMAIN Phases : Phases[k] = PhaseNode(k - 1)
    BY <1>1, <1>5, PhasesAreNodes
  <1>7. Cardinality(Children(region_nodes[1])) = BarriersDue + 1
    <2> DEFINE F == [k \in 1..(BarriersDue + 1) |-> Phases[k]]
    <2>1. Children(region_nodes[1]) = {Phases[k] : k \in DOMAIN Phases}
      BY DEF BranchInv
    <2>2. \A j, k \in 1..(BarriersDue + 1) : F[j] = F[k] => j = k
      BY <1>1, <1>6, PhaseIdsDiffer
    <2>3. /\ F \in [1..(BarriersDue + 1) -> Children(region_nodes[1])]
          /\ \A c \in Children(region_nodes[1]) : \E k \in 1..(BarriersDue + 1) : F[k] = c
      BY <2>1, <1>6
    <2> HIDE DEF F
    <2>4. F \in Bijection(1..(BarriersDue + 1), Children(region_nodes[1]))
      BY <2>2, <2>3 DEF Bijection, Injection, Surjection, IsInjective
    <2>5. ExistsBijection(1..(BarriersDue + 1), Children(region_nodes[1]))
      BY <2>4 DEF ExistsBijection
    <2>6. BarriersDue + 1 \in Nat
      BY <1>3
    <2> HIDE DEF BarriersDue
    <2>7. QED
      BY <2>5, <2>6, FS_CountingElements
  <1>8. ASSUME NEW f \in Children(region_nodes[1])
        PROVE  /\ f.type = "FINISH"
               /\ Cardinality(Children(f)) = team
               /\ \A a \in Children(f) :
                    /\ a.type = "ASYNC"
                    /\ Cardinality({s \in steps : s.parent = a.id}) = 1
    <2>1. PICK k \in DOMAIN Phases : f = Phases[k]
      BY DEF BranchInv
    <2>2. BranchOf(k)
      BY DEF BranchInv
    <2>3. f.type = "FINISH"
      <3>1. k - 1 \in 0..BarriersDue
        BY <1>3, <1>6
      <3>2. PhaseNode(k - 1).type = "FINISH"
        <4>1. region_nodes[2].type = "FINISH"
          BY <1>1 DEF NodeInv
        <4>2. \A i \in 1..Len(pendingFinish) : pendingFinish[i].type = "FINISH"
          BY <1>1 DEF NodeInv
        <4>3. k - 1 = 0 \/ k - 1 \in 1..Len(pendingFinish)
          BY <3>1, <1>3, <1>5, <1>6
        <4>4. QED
          BY <4>1, <4>2, <4>3 DEF PhaseNode
      <3>3. QED
        BY <3>2, <2>1, <1>6
    <2>4. Entered(k) = Team
      <3>1. \A t \in Team : barrierCount[t] + 1 >= k
        BY <1>3, <1>4, <1>6
      <3>2. QED
        BY <3>1, <1>1 DEF Entered
    <2>5. Cardinality(Children(f)) = team
      BY <2>1, <2>2, <2>4, <1>1, CountedFinite DEF BranchOf
    <2>6. ASSUME NEW a \in Children(f)
          PROVE  a.type = "ASYNC" /\ Cardinality({s \in steps : s.parent = a.id}) = 1
      <3>1. a.type = "ASYNC" /\ \E s \in steps : StepsOf(a) = {s}
        BY <1>2, <2>1, <2>2 DEF BranchOf
      <3>2. PICK s : {r \in steps : r.parent = a.id} = {s}
        BY <3>1 DEF StepsOf
      <3>3. QED
        BY <3>1, <3>2, FS_Singleton
    <2>7. QED
      BY <2>3, <2>5, <2>6
  <1>9. QED
    BY <1>7, <1>8

(* When a region has ended, its tree has one FINISH node for each phase    *)
(* between barriers, each phase one ASYNC node for each thread of the      *)
(* team, and each of these exactly one step, whatever the team's size, the *)
(* number of barriers, the region before and the order in which the        *)
(* threads reached the barriers.                                           *)
THEOREM RegionTreesAreComplete == Spec => []RegionTreeComplete
  BY CompleteWhenIdle, LagInvariant, BranchInvariant, PTL

=============================================================================

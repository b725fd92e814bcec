---------------------------- MODULE OnlineProofs ----------------------------
(***************************************************************************)
(* The on-line profiler (OnlineProfiler), for every number of threads,     *)
(* tasks, constructs, chunks, barriers and regions: each handler keeps the *)
(* inductive invariant of OnlineNodesProofs, and in user code the stack of *)
(* ids agrees with the stack of nodes of the off-line profiler.            *)
(***************************************************************************)
EXTENDS OnlineNodesProofs


(* The dispatch event without a chunk: two steps.                          *)
LEMMA LoopDrainedOnline ==
  ASSUME OnlineInv, StacksInv', EventsInv', NEW t \in Threads, OnLoopDrained(t)
  PROVE  OnlineInv'
  <1> DEFINE s  == last_nodes[t]
             q  == Closed(s)
             r  == CloseChunk(t, q)
             v  == PopNode(CleanupFinishNode(Stepped(t)))
             u  == Added(v, node_ctr', TRUE)
             w  == ChunkClosed(t, u)
             x  == Cur(t).past \union Here(t).all \union {node_ctr + 1, node_ctr + 1 + 1}
             f2 == [Cur(t) EXCEPT !.past = x]
             f3 == LeaveLevel(f2)
             from == Origin(t, DOMAIN taskMap)
  <1>1. /\ LoopDrained(t) /\ InRegionCode(t) /\ Shows(t, w)
        /\ Here(t).kind \in {"loop", "chunk"}
    BY DEF OnLoopDrained, LoopDrained
  <1>2. InWork(t) /\ ~Cur(t).waiting /\ IsContext(Cur(t))
    BY <1>1, WorkDrawn
  <1>3. PICK lo \in Nat, m \in Nat, sh \in Nat : AtWork(t, lo, m, sh)
    BY <1>1, WorkDrawn
  <1>4. /\ AtPlace(t, lo, m) /\ sh = SharedSize(Cur(t), Shut(t))
        /\ Drawn(Stepped(t), node_ctr, s, lo, m, sh, from)
    BY <1>3 DEF AtWork
  <1>5. /\ SameRuntime /\ node_ctr' = node_ctr + 1 + 1
        /\ last_nodes' = [last_nodes EXCEPT ![t] = r]
    BY <1>1 DEF LoopDrained, SameRuntime, profilerRest
  <1>6. frames' = [frames EXCEPT ![t] = WithLast(frames[t], f3)]
    BY <1>1 DEF LoopDrained, SetFrame, WithLast
  <1>7. f3.ctx = Cur(t).ctx /\ ~f3.waiting
    <2>1. IsContext(f2) /\ f2.ctx = Cur(t).ctx /\ f2.waiting = Cur(t).waiting
      <3> HIDE DEF x
      <3>1. QED
        BY <1>2, ContextPast
    <2> HIDE DEF f2
    <2>2. f3.ctx = f2.ctx /\ f3.waiting = f2.waiting
      BY <2>1, LevelsFrame DEF IsContext, LeaveLevel
    <2>3. QED
      BY <1>2, <2>1, <2>2
  <1>8. /\ Len(s) > lo /\ Len(s) - lo > sh /\ Len(Cleanup(s)) > lo /\ Len(q) > lo
    <2> DEFINE l == Last(Cur(t).levels)
    <2>1. Opens(l.kind) # 0
      BY <1>1 DEF Here, Opens
    <2> HIDE DEF s, l
    <2>2. s = last_nodes[t] /\ l = Last(Cur(t).levels)
      BY DEF s, l
    <2>3. QED
      BY <1>2, <1>4, <2>1, <2>2, WorkSizes
  <1>9. node_ctr' \in Nat /\ node_ctr <= node_ctr'
    BY <1>5 DEF OnlineInv, MemoryInv
  <1>10. taskMap' = taskMap
    BY <1>1 DEF LoopDrained
  <1> DEFINE b == Stepped(t)
             c == node_ctr'
  <1> HIDE DEF f2, f3, from, b, c, s
  <1>11. Drawn(b, c, s, lo, m, sh, from)
    BY <1>4, <1>9, DrawnMore DEF b, c
  <1>12. Drawn(v, c, q, lo, m, sh, from)
    BY <1>8, <1>11, DrawnClosed DEF b
  <1> HIDE DEF v
  <1>13. Drawn(u, c, q, lo, m, sh, from)
    BY <1>12, DrawnAdded
  <1> HIDE DEF u, q
  <1>14. Drawn(w, c, r, lo, m, sh, from)
    <2>1. CASE firstDispatch[t]
      BY <1>13, <2>1 DEF ChunkClosed, CloseChunk
    <2>2. CASE ~firstDispatch[t]
      <3>1. w = PopNode(u) /\ r = Pop(q)
        BY <2>2 DEF ChunkClosed, CloseChunk
      <3> HIDE DEF w, r
      <3>2. QED
        BY <1>8, <1>13, <3>1, DrawnPop
    <2>3. QED
      BY <2>1, <2>2
  <1> HIDE DEF w, r
  <1>15. QED
    BY <1>1, <1>2, <1>4, <1>5, <1>6, <1>7, <1>10, <1>14, WorkDone DEF from, c

LEMMA PopAppended ==
  ASSUME NEW s \in Seq(NodeRecord), NEW y \in NodeRecord
  PROVE  Pop(Append(s, y)) = s
  <1> DEFINE a == Append(s, y)
  <1>1. /\ a \in Seq(NodeRecord) /\ Len(a) = Len(s) + 1 /\ Len(s) \in Nat
        /\ \A i \in 1..Len(s) : a[i] = s[i]
    BY AppendProperties
  <1>2. IsSequence(a) /\ a # <<>> /\ IsSequence(s)
    <2>1. a # <<>>
      BY <1>1
    <2>2. QED
      BY <1>1, <2>1, SequenceOf
  <1> HIDE DEF a
  <1> DEFINE p == Pop(a)
  <1>3. IsSequence(p) /\ Len(p) = Len(a) - 1 /\ \A i \in 1..Len(p) : p[i] = a[i]
    BY <1>2, PopLast
  <1> HIDE DEF p
  <1>4. Len(p) = Len(s) /\ \A i \in 1..Len(s) : p[i] = s[i]
    BY <1>1, <1>3
  <1>5. p = s
    <2>1. DOMAIN p = 1..Len(p) /\ DOMAIN s = 1..Len(s)
      BY <1>2, <1>3, LengthType
    <2>2. p = [i \in DOMAIN p |-> p[i]] /\ s = [i \in DOMAIN s |-> s[i]]
      BY <1>2, <1>3 DEF IsSequence
    <2>3. QED
      BY <1>4, <2>1, <2>2
  <1>6. QED
    BY <1>5 DEF a, p

(* On-line the node for tasks is closed when they have been waited for.    *)
LEMMA TaskwaitEndOnline ==
  ASSUME OnlineInv, StacksInv', EventsInv', NEW t \in Threads, OnTaskwaitEnd(t)
  PROVE  OnlineInv'
  <1> DEFINE s  == last_nodes[t]
             o  == open[t]
             y  == [id |-> o[Len(o)], type |-> "FINISH", parent |-> 0, finish_flag |-> TRUE]
             q  == Append(s, y)
             w  == CleanupFinishNode(View(t))
             f  == Cur(t)
             g  == Shut(t)
             F  == FrameSize(f, g)
             sh == SharedSize(f, g)
             from == Origin(t, DOMAIN taskMap)
  <1>1. TaskwaitEnd(t) /\ Shows(t, w) /\ frames[t] # <<>> /\ f.waiting
    BY DEF OnTaskwaitEnd, TaskwaitEnd, AfterWait
  <1>2. InWork(t)
    BY <1>1, WaitingWhere DEF OnlineInv
  <1>3. PICK lo \in Nat, m \in Nat : AtPlace(t, lo, m)
    BY <1>2, WorkPlace
  <1>4. /\ lo < Len(s) /\ Len(s) \in Nat /\ Len(o) \in Nat /\ IsContext(f) /\ s \in Seq(NodeRecord)
        /\ Parts(f, s, lo, o, m, g, node)
        /\ Len(s) = lo + F /\ Len(o) = m + F + 1
    BY <1>1, <1>3, PlaceBased DEF AtPlace, Topmost, Extra
  <1>5. F \in Nat \ {0} /\ sh \in 0..2 /\ sh <= F
    <2> HIDE DEF f, g
    <2>1. QED
      BY <1>4, FrameSizes
  <1>6. o[Len(o)] \in Nat
    <2>1. Len(o) \in 1..Len(o) /\ node_ctr \in Nat
      BY <1>4, <1>5 DEF OnlineInv, MemoryInv
    <2>2. QED
      BY <2>1 DEF OnlineInv, MemoryInv
  <1>7. /\ y \in NodeRecord /\ y.finish_flag /\ y.id = o[Len(o)]
    BY <1>6 DEF NodeRecord
  <1> HIDE DEF y
  <1>8. /\ q \in Seq(NodeRecord) /\ Len(q) = Len(s) + 1 /\ q[Len(s) + 1] = y
        /\ \A j \in 1..Len(s) : q[j] = s[j]
    BY <1>4, <1>7, AppendProperties
  <1>9. Cleanup(q) = s
    <2>1. q # <<>> /\ Top(q) = y
      <3>1. q # <<>>
        BY <1>4, <1>8
      <3>2. QED
        BY <1>8, <3>1 DEF Top
    <2>2. Cleanup(q) = Pop(q)
      BY <1>7, <2>1 DEF Cleanup
    <2>3. QED
      BY <1>4, <1>7, <2>2, PopAppended
  <1>10. Aligned(View(t), q, lo, m, sh)
    <2>1. /\ \A j \in 1..F : o[m + j] = s[lo + j].id
          /\ \A j \in (sh + 1)..F : /\ OwnedNode(node, o, m + j, m)
                                    /\ node[o[m + j]].finish_flag = s[lo + j].finish_flag
      BY <1>4 DEF Parts, SameIds, OwnedNodes
    <2>2. OwnedNode(node, o, m + F + 1, m) /\ node[o[m + F + 1]].finish_flag
      BY <1>1, <1>4 DEF Parts, WaitNode
    <2>3. View(t).nodes = node /\ View(t).stack = o
      BY DEF View
    <2>4. node[o[m + F + 1]].finish_flag = y.finish_flag
      <3>1. Private(node, o[m + F + 1])
        BY <2>2 DEF OwnedNode
      <3>2. y.finish_flag = TRUE
        BY DEF y
      <3>3. QED
        BY <2>2, <3>2
    <2> HIDE DEF F, sh, q, s, o
    <2>5. Len(q) - lo = F + 1 /\ lo <= Len(q) /\ Len(o) = m + (Len(q) - lo)
      BY <1>4, <1>5, <1>8
    <2>6. ASSUME NEW j \in 1..(Len(q) - lo)
          PROVE  /\ o[m + j] = q[lo + j].id
                 /\ j > sh => /\ OwnedNode(node, o, m + j, m)
                              /\ node[o[m + j]].finish_flag = q[lo + j].finish_flag
      <3>1. CASE j \in 1..F
        <4>1. lo + j \in 1..Len(s) /\ (j > sh => j \in (sh + 1)..F)
          BY <1>4, <1>5, <3>1
        <4>2. q[lo + j] = s[lo + j]
          BY <1>8, <4>1
        <4>3. QED
          BY <2>1, <3>1, <4>1, <4>2
      <3>2. CASE j = F + 1
        <4>1. lo + j = Len(s) + 1 /\ m + j = m + F + 1 /\ m + j = Len(o)
          BY <1>4, <1>5, <3>2
        <4>2. q[lo + j] = y
          BY <1>8, <4>1
        <4>3. QED
          BY <1>7, <2>2, <2>4, <4>1, <4>2
      <3>3. j \in 1..F \/ j = F + 1
        BY <1>5, <2>5
      <3>4. QED
        BY <3>1, <3>2, <3>3
    <2>7. QED
      BY <1>8, <2>3, <2>5, <2>6 DEF Aligned
  <1>11. Keeps(q, last_nodes[t], lo)
    BY <1>4, <1>8 DEF Keeps
  <1>12. Len(q) > lo /\ Len(q) - lo > sh
    <2> HIDE DEF F, sh, q, s
    <2>1. QED
      BY <1>4, <1>5, <1>8
  <1>13. sh \in Nat /\ IsPlace(lo, m, sh)
    BY <1>5 DEF IsPlace
  <1>14. frames' = [frames EXCEPT ![t] = WithLast(frames[t], frames'[t][Len(frames[t])])]
         /\ frames'[t][Len(frames[t])].ctx = f.ctx /\ ~frames'[t][Len(frames[t])].waiting
    <2> DEFINE x == Cur(t).past \union
                      UNION {tasks[k].past : k \in {j \in DOMAIN tasks :
                               tasks[j].creator = Cur(t).ctx /\ ~tasks[j].waited}}
               f1 == [f EXCEPT !.waiting = FALSE]
               f2 == [f1 EXCEPT !.past = x]
    <2>1. frames' = [frames EXCEPT ![t] = WithLast(frames[t], f2)]
      BY <1>1 DEF TaskwaitEnd, SetFrame, WithLast
    <2>2. IsContext(f1) /\ f1.ctx = f.ctx /\ f1.waiting = FALSE
      <3> HIDE DEF f
      <3>1. QED
        BY <1>4, ContextWaiting
    <2> HIDE DEF f1, x
    <2>3. f2.ctx = f.ctx /\ f2.waiting = FALSE
      BY <2>2, ContextPast
    <2> HIDE DEF f2
    <2>4. frames'[t] = WithLast(frames[t], f2)
      <3> DEFINE fr == WithLast(frames[t], f2)
      <3>1. frames' = [frames EXCEPT ![t] = fr]
        BY <2>1
      <3> HIDE DEF fr
      <3>2. frames'[t] = fr
        BY <3>1, ContextsHere DEF OnlineInv
      <3>3. QED
        BY <3>2 DEF fr
    <2>5. frames'[t][Len(frames[t])] = f2
      <3> DEFINE fr == frames'[t]
      <3>1. fr = WithLast(frames[t], f2) /\ IsSequence(frames[t])
        BY <1>3, <2>4 DEF AtPlace
      <3> HIDE DEF fr
      <3>2. fr[Len(fr)] = f2 /\ Len(fr) = Len(frames[t])
        BY <1>1, <3>1, ReplaceLast
      <3>3. QED
        BY <3>2 DEF fr
    <2>6. QED
      BY <2>1, <2>3, <2>5
  <1>15. /\ SameRuntime /\ taskMap' = taskMap /\ node_ctr' = node_ctr
         /\ last_nodes' = [last_nodes EXCEPT ![t] = s]
    <2>1. last_nodes' = last_nodes /\ last_nodes \in [Threads -> Seq(NodeRecord)]
      BY <1>1 DEF TaskwaitEnd, profiler, OnlineInv, StacksInv, TeamInv, TypeOK
    <2>2. QED
      BY <1>1, <2>1 DEF TaskwaitEnd, profiler, SameRuntime
  <1> DEFINE K == DOMAIN taskMap
             v == View(t)
             c == node_ctr
             f3 == frames'[t][Len(frames[t])]
  <1>16. K \subseteq DOMAIN taskMap /\ from = Origin(t, K) /\ v = View(t)
         /\ MemoryInv /\ OnceInv /\ MapInv
    BY DEF OnlineInv
  <1>17. sh = SharedSize(Cur(t), Shut(t)) /\ Cur(t).ctx = f.ctx
    OBVIOUS
  <1> HIDE DEF K, q, sh, f, from, v, f3
  <1>18. Drawn(View(t), c, q, lo, m, sh, from)
    BY <1>8, <1>10, <1>11, <1>13, <1>16, DrawnOpen
  <1>19. Drawn(w, c, Cleanup(q), lo, m, sh, from)
    BY <1>12, <1>18, DrawnCleanup
  <1> HIDE DEF w, s
  <1>20. Drawn(w, node_ctr', s, lo, m, sh, from)
    BY <1>9, <1>15, <1>19
  <1>21. f3.ctx = Cur(t).ctx /\ ~f3.waiting /\ frames' = [frames EXCEPT ![t] = WithLast(frames[t], f3)]
    BY <1>14, <1>17 DEF f3
  <1>22. QED
    BY <1>1, <1>2, <1>3, <1>15, <1>17, <1>20, <1>21, WorkDone DEF from

----------------------------------------------------------------------------
(* A taskwait begins: on-line the node for tasks stays open                *)

(* The handler has popped nothing, and the off-line one the node for tasks.*)
LEMMA DrawnWait ==
  ASSUME NEW w, NEW c, NEW s, NEW lo, NEW m, NEW sh, NEW from,
         Drawn(w, c, s, lo, m, sh, from),
         NEW f, IsContext(f), f.waiting, NEW g, sh = SharedSize(f, g),
         Len(s) = lo + FrameSize(f, g) + 1, s[Len(s)].finish_flag,
         NEW r, \A j \in 1..(lo + FrameSize(f, g)) : r[j] = s[j]
  PROVE  /\ Parts(f, r, lo, w.stack, m, g, w.nodes)
         /\ Len(w.stack) = m + FrameSize(f, g) + 1
  <1> DEFINE F == FrameSize(f, g)
             S == SharedSize(f, g)
             o == w.stack
             nd == w.nodes
  <1>1. F \in Nat \ {0} /\ S \in 0..2 /\ S <= F
    BY FrameSizes
  <1>2. lo \in Nat /\ m \in Nat
    BY DEF Drawn, IsPlace
  <1>3. Len(s) = lo + F + 1 /\ sh = S /\ \A j \in 1..(lo + F) : r[j] = s[j]
    OBVIOUS
  <1>4. /\ Len(o) = m + (Len(s) - lo)
        /\ \A j \in 1..(Len(s) - lo) :
             /\ o[m + j] = s[lo + j].id
             /\ j > sh => OwnedNode(nd, o, m + j, m) /\ nd[o[m + j]].finish_flag = s[lo + j].finish_flag
    BY DEF Drawn, Aligned
  <1> HIDE DEF F, S, o, nd
  <1>5. Len(s) - lo = F + 1
    BY <1>1, <1>2, <1>3
  <1>6. Len(o) = m + F + 1
    BY <1>1, <1>2, <1>4, <1>5
  <1>7. \A j \in 1..F : o[m + j] = r[lo + j].id
    <2> TAKE j \in 1..F
    <2>1. j \in 1..(Len(s) - lo) /\ lo + j \in 1..(lo + F)
      BY <1>1, <1>2, <1>5
    <2>2. QED
      BY <1>3, <1>4, <2>1
  <1>8. \A j \in (S + 1)..F :
          OwnedNode(nd, o, m + j, m) /\ nd[o[m + j]].finish_flag = r[lo + j].finish_flag
    <2> TAKE j \in (S + 1)..F
    <2>1. j \in 1..(Len(s) - lo) /\ lo + j \in 1..(lo + F) /\ j > sh
      BY <1>1, <1>2, <1>3, <1>5
    <2>2. QED
      BY <1>3, <1>4, <2>1
  <1>9. OwnedNode(nd, o, m + F + 1, m) /\ nd[o[m + F + 1]].finish_flag
    <2>1. F + 1 \in 1..(Len(s) - lo) /\ F + 1 > sh /\ lo + (F + 1) = Len(s)
          /\ m + (F + 1) = m + F + 1
      BY <1>1, <1>2, <1>3, <1>5
    <2>2. OwnedNode(nd, o, m + (F + 1), m) /\ nd[o[m + (F + 1)]].finish_flag = s[lo + (F + 1)].finish_flag
      BY <1>4, <2>1
    <2>3. QED
      BY <2>1, <2>2
  <1>10. SameIds(f, r, lo, o, m, g) /\ OwnedNodes(f, r, lo, o, m, g, nd) /\ WaitNode(f, o, m, g, nd)
    BY <1>7, <1>8, <1>9 DEF SameIds, OwnedNodes, WaitNode, F, S
  <1>11. QED
    BY <1>6, <1>10 DEF Parts, F, o, nd

LEMMA KeepsOwnSelf ==
  ASSUME NEW nd, NEW o, NEW k
  PROVE  KeepsOwn(nd, nd, o, k)
  BY DEF KeepsOwn, Alike

(* captureTaskwaitBegin.                                                   *)
LEMMA TaskwaitBeginOnline ==
  ASSUME OnlineInv, StacksInv', EventsInv', NEW t \in Threads, OnTaskwaitBegin(t)
  PROVE  OnlineInv'
  <1> DEFINE s  == last_nodes[t]
             r  == Cleanup(s)
             v  == Stepped(t)
             f1 == SetLevel(WithStep(t), [Here(t) EXCEPT !.unwaited = FALSE])
             f2 == [f1 EXCEPT !.waiting = TRUE]
             fr == WithLast(frames[t], f2)
             n  == Len(frames[t]) - 1
  <1>1. /\ TaskwaitBegin(t) /\ InRegionCode(t) /\ Shows(t, v) /\ Here(t).unwaited
    BY DEF OnTaskwaitBegin, TaskwaitBegin, BeforeWait
  <1>2. InWork(t) /\ ~Cur(t).waiting /\ IsContext(Cur(t))
    BY <1>1, WorkDrawn
  <1>3. PICK lo \in Nat, m \in Nat, sh \in Nat : AtWork(t, lo, m, sh)
    BY <1>1, WorkDrawn
  <1> DEFINE K == DOMAIN taskMap
             from == Origin(t, K)
  <1>4. /\ AtPlace(t, lo, m) /\ sh = SharedSize(Cur(t), Shut(t))
        /\ Drawn(v, node_ctr, s, lo, m, sh, from)
    BY <1>3 DEF AtWork
  <1>5. /\ SameRuntime /\ node_ctr' = node_ctr + 1 + 0
        /\ last_nodes' = [last_nodes EXCEPT ![t] = r]
    <2>1. Handle(t, 0, {}, r)
      BY <1>1 DEF TaskwaitBegin, AfterTaskwait
    <2> HIDE DEF r
    <2>2. QED
      BY <2>1, HandleRuntime
  <1>6. IsContext(f1) /\ f1.ctx = Cur(t).ctx
    BY <1>2, NewUnwaited
  <1>7. IsContext(f2) /\ f2.ctx = Cur(t).ctx /\ f2.waiting = TRUE
    <2>1. Cur(t).ctx # SerialCode
      BY <1>2 DEF InWork
    <2> HIDE DEF f1
    <2>2. QED
      BY <1>6, <2>1, ContextWaiting
  <1>8. frames' = [frames EXCEPT ![t] = fr]
    BY <1>1 DEF TaskwaitBegin, SetFrame, WithLast
  <1>9. taskMap' = taskMap /\ pendingFinish' = pendingFinish
    BY <1>1, <1>5 DEF TaskwaitBegin, SameRuntime
  <1>10. MemoryInv /\ OnceInv /\ StacksInv /\ K \subseteq DOMAIN taskMap
    BY DEF OnlineInv
  <1>11. Turns(t, v) /\ \A u \in Threads \ {t} : open'[u] = open[u]
    <2> HIDE DEF v
    <2>1. QED
      BY <1>1, <1>10, ShowsTurns
  <1> HIDE DEF f1, f2, fr, v, K, s, r
  <1>12. /\ \A u \in Threads \ {t} : OtherSame(u)
         /\ Held(t)' <=> Held(t)
         /\ OverSize(t)' = OverSize(t) /\ Shut(t)' = Shut(t) /\ Ground(t)' = Ground(t)
         /\ frames'[t] = fr /\ last_nodes'[t] = r
    BY <1>5, <1>8, <1>10, <1>11, SameElsewhere
  <1>13. OverSize(t)' = 0 /\ ~Held(t)'
    BY <1>2, <1>12, WorkPlace
  <1>14. /\ Based(t, n, lo, m) /\ IsSequence(frames[t]) /\ frames[t] # <<>>
         /\ m <= Len(open[t]) /\ lo \in Nat /\ Len(s) \in Nat /\ Topmost(Cur(t), s, lo, Ground(t))
         /\ Len(frames[t]) \in Nat \ {0}
    BY <1>4, PlaceBased DEF s
  <1>15. LowerKept(t, n) /\ Len(frames'[t]) = n + 1 /\ f2 = frames'[t][n + 1]
    BY <1>12, <1>14, LastReplaced DEF fr
  <1> HIDE DEF n
  <1>16. /\ r \in Seq(NodeRecord) /\ Len(r) \in Nat /\ Len(r) = lo + FrameSize(f2, Shut(t)')
         /\ n \in Nat
    BY <1>12, <1>13, <1>14, <1>15, HeightAfter DEF Based
  <1>17. /\ Len(s) = Len(r) + 1 /\ s[Len(s)].finish_flag /\ \A j \in 1..Len(r) : r[j] = s[j]
    <2> DEFINE l == Last(Cur(t).levels)
               at == LevelAt(Cur(t), lo, Ground(t))
    <2>1. l.unwaited
      BY <1>1 DEF Here
    <2>2. /\ Len(s) = at + Opens(l.kind) + IF l.unwaited THEN 1 ELSE 0
          /\ at \in Nat /\ Opens(l.kind) \in 0..2
          /\ Top(s) = s[Len(s)] /\ (Top(s).finish_flag <=> l.unwaited)
          /\ Len(r) = at + Opens(l.kind) /\ Keeps(r, s, Len(r))
      BY <1>14, CleanedNodes DEF r
    <2> HIDE DEF l, at
    <2>3. QED
      BY <2>1, <2>2 DEF Keeps
  <1>18. Drawn(v, node_ctr', s, lo, m, sh, from)
    <2>1. node_ctr' \in Nat /\ node_ctr <= node_ctr'
      BY <1>5 DEF OnlineInv, MemoryInv
    <2> DEFINE c == node_ctr'
    <2> HIDE DEF c, from
    <2>2. QED
      BY <1>4, <2>1, DrawnMore DEF c
  <1> DEFINE g == Shut(t)
             F == FrameSize(f2, g)
             h == Len(r)
             k == Len(open'[t])
             o == open'[t]
             nd == node'
  <1>19. o = v.stack /\ nd = v.nodes
    BY <1>11 DEF Turns
  <1>20. Parts(f2, r, lo, o, m, g, nd) /\ Len(o) = m + F + 1
    <2>1. sh = SharedSize(f2, g)
      BY <1>4, <1>7 DEF SharedSize
    <2> DEFINE c == node_ctr'
    <2> HIDE DEF g, c, from
    <2>2. F \in Nat
      BY <1>7, FrameSizes
    <2>3. h = lo + F
      BY <1>12, <1>16 DEF g
    <2> HIDE DEF F
    <2>4. Len(s) = lo + F + 1 /\ \A j \in 1..(lo + F) : r[j] = s[j]
      BY <1>17, <2>3
    <2>5. Parts(f2, r, lo, v.stack, m, g, v.nodes) /\ Len(v.stack) = m + F + 1
      BY <1>7, <1>17, <1>18, <2>1, <2>4, DrawnWait DEF F, c
    <2>6. QED
      BY <1>19, <2>5
  <1>21. Twins(frames'[t], n, r, lo, o, m, g, nd)
    <2> DEFINE fq == frames'[t]
    <2>1. Twins(fq, n, s, lo, o, m, g, nd)
      BY <1>10, <1>11, <1>12, <1>14, <1>15, <1>18, BaseKept
    <2>2. \A i \in 1..n : IsContext(fq[i])
      BY <1>14, <1>15 DEF Based, LowerKept
    <2>3. \A j \in 1..lo : r[j] = s[j]
      <3> DEFINE x == FrameSize(f2, Shut(t)')
      <3>1. x \in Nat
        <4> DEFINE y == Shut(t)'
        <4> HIDE DEF y
        <4>1. FrameSize(f2, y) \in Nat
          BY <1>7, FrameSizes
        <4>2. QED
          BY <4>1 DEF y
      <3> HIDE DEF x
      <3>2. lo <= Len(r)
        BY <1>16, <3>1 DEF x
      <3>3. QED
        BY <1>17, <1>16, <3>2
    <2>4. KeepsOwn(nd, nd, o, m)
      BY KeepsOwnSelf
    <2> HIDE DEF fq, g, nd, o
    <2>5. Twins(fq, n, r, lo, o, m, g, nd)
      BY <1>16, <2>1, <2>2, <2>3, <2>4, TwinsSame
    <2>6. QED
      BY <2>5 DEF fq
  <1>22. Twins(frames'[t], n + 1, r, h, o, k, g, nd)
    <2> DEFINE fq == frames'[t]
    <2>1. h = lo + FrameSize(fq[n + 1], g)
      BY <1>12, <1>15, <1>16
    <2>2. Extra(fq[n + 1]) = 1
      BY <1>7, <1>15 DEF Extra
    <2>3. k = m + FrameSize(fq[n + 1], g) + Extra(fq[n + 1])
      BY <1>15, <1>20, <2>2
    <2>4. IsContext(fq[n + 1]) /\ Parts(fq[n + 1], r, lo, o, m, g, nd)
      BY <1>7, <1>15, <1>20
    <2>5. Twins(fq, n, r, lo, o, m, g, nd)
      BY <1>21
    <2> HIDE DEF fq, g, nd, o, h, k
    <2>6. Twins(fq, n + 1, r, h, o, k, g, nd)
      BY <1>16, <2>1, <2>3, <2>4, <2>5, TwinsLay
    <2>7. QED
      BY <2>6 DEF fq
  <1>23. k \in Nat
    <2>1. F \in Nat
      <3> HIDE DEF g
      <3>1. QED
        BY <1>7, FrameSizes
    <2> HIDE DEF F
    <2>2. QED
      BY <1>20, <2>1
  <1>24. OnlineStack(t)'
    <2>1. /\ Len(last_nodes'[t]) \in Nat /\ Len(open'[t]) \in Nat
          /\ Twins(frames'[t], Len(frames'[t]), last_nodes'[t], Len(last_nodes'[t]),
                   open'[t], Len(open'[t]), Shut(t)', node')
      BY <1>12, <1>15, <1>16, <1>22, <1>23
    <2>2. QED
      BY <1>13, <2>1, StackSettled
  <1> HIDE DEF from, g, o, nd
  <1>25. QED
    BY <1>9, <1>11, <1>12, <1>14, <1>18, <1>24, TurnDone DEF K, from

----------------------------------------------------------------------------
(* Tasks                                                                   *)

(* A context is gone from the top.                                         *)
LEMMA LastPopped ==
  ASSUME NEW t \in Threads, IsSequence(frames[t]), frames[t] # <<>>,
         frames'[t] = Pop(frames[t]), Ground(t)' = Ground(t), Shut(t)' = Shut(t)
  PROVE  LowerKept(t, Len(frames[t]) - 1) /\ Len(frames'[t]) = Len(frames[t]) - 1
  <1> DEFINE r == frames'[t]
             s == frames[t]
  <1>1. r = Pop(s) /\ IsSequence(s) /\ s # <<>>
    OBVIOUS
  <1> HIDE DEF r, s
  <1>2. IsSequence(r) /\ Len(r) = Len(s) - 1 /\ \A i \in 1..Len(r) : r[i] = s[i]
    BY <1>1, PopLast
  <1>3. QED
    BY <1>2 DEF LowerKept, r, s

(* captureTaskEnd.                                                         *)
LEMMA TaskEndOnline ==
  ASSUME OnlineInv, StacksInv', EventsInv', NEW t \in Threads, OnTaskEnd(t)
  PROVE  OnlineInv'
  <1> DEFINE s  == last_nodes[t]
             r  == Closed(s)
             v  == Stepped(t)
             w  == PopNode(CleanupFinishNode(v))
             fr == Pop(frames[t])
             n  == Len(frames[t]) - 1
             K  == DOMAIN taskMap
             from == Origin(t, K)
             c  == node_ctr'
  <1>1. TaskEnd(t) /\ InRegionCode(t) /\ Shows(t, w) /\ IsTask(Cur(t).ctx)
    BY DEF OnTaskEnd, TaskEnd
  <1>2. InWork(t) /\ ~Cur(t).waiting /\ IsContext(Cur(t))
    BY <1>1, WorkDrawn
  <1>3. PICK lo \in Nat, m \in Nat, sh \in Nat : AtWork(t, lo, m, sh)
    BY <1>1, WorkDrawn
  <1>4. /\ AtPlace(t, lo, m) /\ sh = SharedSize(Cur(t), Shut(t))
        /\ Drawn(v, node_ctr, s, lo, m, sh, from)
    BY <1>3 DEF AtWork
  <1>5. /\ SameRuntime /\ node_ctr' = node_ctr + 1 + 0
        /\ last_nodes' = [last_nodes EXCEPT ![t] = r]
    <2>1. Handle(t, 0, {}, r)
      BY <1>1 DEF TaskEnd
    <2> HIDE DEF r
    <2>2. QED
      BY <2>1, HandleRuntime
  <1>6. frames' = [frames EXCEPT ![t] = fr] /\ taskMap' = taskMap /\ pendingFinish' = pendingFinish
    BY <1>1, <1>5 DEF TaskEnd, SameRuntime
  <1>7. MemoryInv /\ OnceInv /\ StacksInv /\ K \subseteq DOMAIN taskMap
    BY DEF OnlineInv
  <1>8. c \in Nat /\ node_ctr <= c
    BY <1>5 DEF OnlineInv, MemoryInv
  <1>9. Len(s) > lo /\ Len(s) - lo > sh /\ Len(Cleanup(s)) > lo
    <2> DEFINE l == Last(Cur(t).levels)
    <2> HIDE DEF s, l
    <2>1. s = last_nodes[t] /\ l = Last(Cur(t).levels)
      BY DEF s, l
    <2>2. QED
      BY <1>2, <1>4, <2>1, WorkSizes
  <1>10. Turns(t, w) /\ \A u \in Threads \ {t} : open'[u] = open[u]
    <2> HIDE DEF w
    <2>1. QED
      BY <1>1, <1>7, ShowsTurns
  <1> HIDE DEF s, v, fr, K, from, c
  <1>11. Drawn(v, c, s, lo, m, sh, from)
    BY <1>4, <1>8, DrawnMore
  <1>12. Drawn(w, c, r, lo, m, sh, from)
    BY <1>9, <1>11, DrawnClosed
  <1> HIDE DEF w, r
  <1>13. /\ \A u \in Threads \ {t} : OtherSame(u)
         /\ Held(t)' <=> Held(t)
         /\ OverSize(t)' = OverSize(t) /\ Shut(t)' = Shut(t) /\ Ground(t)' = Ground(t)
         /\ frames'[t] = fr /\ last_nodes'[t] = r
    BY <1>5, <1>6, <1>7, <1>10, SameElsewhere
  <1>14. OverSize(t)' = 0 /\ ~Held(t)'
    BY <1>2, <1>13, WorkPlace
  <1>15. /\ Based(t, n, lo, m) /\ IsSequence(frames[t]) /\ frames[t] # <<>>
         /\ m <= Len(open[t])
    BY <1>4, PlaceBased
  <1>16. LowerKept(t, n) /\ Len(frames'[t]) = n
    BY <1>13, <1>15, LastPopped DEF fr
  <1> HIDE DEF n
  <1>17. OnlineStack(t)'
    BY <1>7, <1>10, <1>12, <1>13, <1>14, <1>15, <1>16, StackPoppedOn DEF from, c
  <1>18. QED
    BY <1>6, <1>10, <1>12, <1>13, <1>15, <1>17, TurnDone DEF from, c, K

(* Where the runtime runs a task, the thread holds no nodes of a region    *)
(* that are not a context's.                                               *)
LEMMA MayRunPlace ==
  ASSUME OnlineInv, NEW t \in Threads, NEW k \in 1..Len(tasks),
         tasks[k].state = "pending", MayRun(t, k)
  PROVE  ~Held(t) /\ OverSize(t) = 0
  <1>1. StacksInv /\ TypeOK /\ RecordsInv /\ JoinInv
    BY DEF OnlineInv, StacksInv, TeamInv
  <1>2. ~MasterIsOut
    <2>1. DOMAIN tasks = 1..Len(tasks)
      BY <1>1, LengthType DEF RecordsInv
    <2>2. QED
      BY <1>1, <2>1 DEF JoinInv, TasksDone
  <1>3. ~Held(t)
    <2>1. CASE frames[t] # <<>> /\ Cur(t).waiting
      BY <1>1, <2>1, WaitingWhere DEF InWork
    <2>2. CASE frames[t] # <<>> /\ Cur(t).ctx = Implicit(t)
      BY <1>1, <2>2, ImplicitOnTop
    <2>3. CASE t \in Team \ released
      <3>1. team \in Nat
        BY <1>1, TeamType
      <3>2. QED
        BY <2>3, <3>1 DEF Held, Orphan, Team
    <2>4. QED
      BY <2>1, <2>2, <2>3 DEF MayRun
  <1>4. QED
    BY <1>2, <1>3 DEF OverSize, MasterIsOut

(* The contexts of a thread and their nodes, up to the top.                *)
LEMMA WholeStack ==
  ASSUME OnlineInv, NEW t \in Threads, ~Held(t), OverSize(t) = 0
  PROVE  /\ Based(t, Len(frames[t]), Len(last_nodes[t]), Len(open[t]))
         /\ IsSequence(frames[t]) /\ last_nodes[t] \in Seq(NodeRecord)
         /\ IsSequence(open[t])
  <1>1. /\ IsSequence(frames[t]) /\ Len(frames[t]) \in Nat
        /\ \A i \in 1..Len(frames[t]) : IsContext(frames[t][i])
    BY ContextsOf DEF OnlineInv
  <1>2. NodesOK(frames[t], last_nodes[t], Ground(t))
    BY DEF OnlineInv, StacksInv, ThreadOK, StackInv
  <1>3. IsSequence(open[t]) /\ Len(open[t]) \in Nat
    BY LengthType DEF OnlineInv, MemoryInv
  <1> DEFINE h == Height(t)
             v == OverSize(t)
             k == Len(open[t])
  <1>4. Twins(frames[t], Len(frames[t]), last_nodes[t], h, open[t], k - v, Shut(t), node)
    BY DEF OnlineInv, OnlineStack, Paired
  <1>5. Len(last_nodes[t]) \in Nat /\ last_nodes[t] \in Seq(NodeRecord)
        /\ Matches(frames[t], Len(frames[t]), last_nodes[t], Len(last_nodes[t]), Ground(t))
    BY <1>2 DEF NodesOK
  <1>6. h = Len(last_nodes[t]) /\ v = 0
    BY <1>5 DEF Height
  <1> HIDE DEF h, v
  <1>7. k - v = k
    BY <1>3, <1>6
  <1>8. QED
    BY <1>1, <1>3, <1>4, <1>5, <1>6, <1>7 DEF Based

(* The tasks that wait when some of them do no longer.                     *)
LEMMA TurnMapLess ==
  ASSUME MemoryInv, MapInv, NEW t \in Threads, NEW K, K \subseteq DOMAIN taskMap,
         NEW w, NEW s, NEW lo, NEW m, NEW sh, m <= Len(open[t]),
         Drawn(w, node_ctr', s, lo, m, sh, Origin(t, K)), Turns(t, w),
         DOMAIN taskMap' = K, \A k \in K : taskMap'[k] = taskMap[k]
  PROVE  MapInv'
  <1>1. \A k \in K : /\ Private(node', taskMap[k].id) /\ node'[taskMap[k].id].finish_flag = FALSE
                     /\ \A u \in Threads : \A j \in 1..Len(open'[u]) :
                          open'[u][j] # taskMap[k].id
    BY TurnMap
  <1>2. ASSUME NEW k \in DOMAIN taskMap'
        PROVE  Waiting(taskMap[k].id, k)'
    <2>1. k \in K /\ taskMap'[k] = taskMap[k] /\ \A l \in K : taskMap'[l] = taskMap[l]
      OBVIOUS
    <2>2. Waiting(taskMap[k].id, k)
      BY <2>1 DEF MapInv
    <2>3. QED
      BY <1>1, <2>1, <2>2 DEF Waiting
  <1>3. QED
    BY <1>2 DEF MapInv

(* captureTaskBegin: the node of the task goes from taskMap to the stack.  *)
LEMMA TaskBeginOnline ==
  ASSUME OnlineInv, StacksInv', EventsInv', NEW t \in Threads, OnTaskBegin(t)
  PROVE  OnlineInv'
  <1> DEFINE k  == reading[t].task
             y  == taskMap[k]
             i  == y.id
             s  == last_nodes[t]
             o  == open[t]
             r  == Append(s, y)
             z  == Sized(node[i], node[node[i].parent], reading[t].left)
             w  == [nodes |-> node', sites |-> allCallSites', loops |-> loopInstances',
                    stack |-> open'[t], sited |-> sited']
             f  == Frame(k, tasks[k].past)
             fr == Push(frames[t], f)
             n  == Len(frames[t])
             K  == DOMAIN taskMap \ {k}
             lo == Len(s)
             m  == Len(o)
             from == Origin(t, K)
  <1>1. /\ TaskBegin(t, k) /\ k # 0 /\ node' = [node EXCEPT ![i] = z]
        /\ open' = [open EXCEPT ![t] = Append(o, i)]
    BY DEF OnTaskBegin
  <1>2. /\ MemoryInv /\ OnceInv /\ MapInv /\ PendingInv /\ StacksInv /\ RecordsInv
        /\ K \subseteq DOMAIN taskMap
    BY DEF OnlineInv, StacksInv
  <1>3. k \in 1..Len(tasks) /\ tasks[k].state = "pending" /\ MayRun(t, k)
    BY <1>1 DEF OnlineInv, EventsInv, ReadingInv, TaskBegin
  <1>4. k \in DOMAIN taskMap /\ y \in NodeRecord /\ PlainAsync(y) /\ Waiting(i, k)
    BY <1>2, <1>3 DEF RecordsInv, MapInv
  <1>5. ~Held(t) /\ OverSize(t) = 0
    BY <1>3, MayRunPlace
  <1>6. /\ Based(t, n, lo, m) /\ IsSequence(frames[t]) /\ s \in Seq(NodeRecord) /\ IsSequence(o)
        /\ n \in Nat /\ lo \in Nat /\ m \in Nat
    BY <1>5, WholeStack DEF Based
  <1>7. /\ SameRuntime /\ node_ctr' = node_ctr /\ last_nodes' = [last_nodes EXCEPT ![t] = r]
        /\ frames' = [frames EXCEPT ![t] = fr] /\ taskMap' = Restrict(taskMap, K)
    <2>1. profilerRest' = profilerRest /\ runtime' = runtime
      BY <1>1 DEF TaskBegin
    <2>2. QED
      BY <1>1, <2>1 DEF TaskBegin, Erased, Push, SameRuntime, profilerRest
  <1>8. i \in DOMAIN node /\ i \in 1..node_ctr /\ node_ctr \in Nat /\ IsMemory(node)
    BY <1>2, <1>4 DEF Waiting, Private, MemoryInv
  <1>9. IsMemory(node') /\ DOMAIN node' = DOMAIN node /\ Kept(node', node)
    <2>1. IsNode(node[i])
      BY <1>8 DEF IsMemory
    <2>2. IsNode(z) /\ Same(z, node[i])
      BY <2>1, SizedSame
    <2> DEFINE nd2 == node'
    <2> HIDE DEF z, i
    <2>3. nd2 = [node EXCEPT ![i] = z]
      BY <1>1
    <2> HIDE DEF nd2
    <2>4. IsMemory(nd2) /\ DOMAIN nd2 = DOMAIN node /\ Kept(nd2, node)
      BY <1>8, <2>2, <2>3, OneChanged
    <2>5. QED
      BY <2>4 DEF nd2
  <1>10. /\ w.nodes = node' /\ w.stack = Append(o, i) /\ IsView(w)
         /\ open' = [u \in Threads |-> open'[u]] /\ open'[t] = Append(o, i)
         /\ \A u \in Threads \ {t} : open'[u] = open[u]
    <2>1. open = [u \in Threads |-> open[u]]
      BY <1>2 DEF MemoryInv
    <2>2. QED
      BY <1>1, <2>1 DEF IsView
  <1>11. Drawn(View(t), node_ctr, s, lo, m, 0, from)
    <2>1. IsPlace(lo, m, 0) /\ Keeps(s, last_nodes[t], lo)
      BY <1>6 DEF IsPlace, Keeps
    <2>2. Aligned(View(t), s, lo, m, 0)
      BY <1>6 DEF Aligned, View
    <2> HIDE DEF K, lo, m, s
    <2>3. QED
      BY <1>2, <2>1, <2>2, DrawnOpen
  <1>12. View(t).nodes = node /\ View(t).stack = o
    BY DEF View
  <1>13. /\ i \notin from.others /\ \A j \in 1..Len(o) : o[j] # i
         /\ from.others = HeldBy(t, K)
    <2>1. from.others = HeldBy(t, K)
      BY DEF Origin
    <2>2. /\ \A u \in Threads : \A j \in 1..Len(open[u]) : open[u][j] # i
          /\ \A l \in DOMAIN taskMap : taskMap[l].id = i => l = k
      BY <1>4 DEF Waiting
    <2> HIDE DEF i, from
    <2>3. i \notin HeldBy(t, K)
      BY <2>2 DEF HeldBy
    <2>4. QED
      BY <2>1, <2>2, <2>3
  <1>14. /\ Private(node', i) /\ node'[i].finish_flag = y.finish_flag
    <2>1. Private(node, i) /\ node[i].finish_flag = FALSE
      BY <1>4 DEF Waiting
    <2>2. Alike(node'[i], node[i]) /\ i \in DOMAIN node'
      BY <1>8, <1>9 DEF Kept, Same
    <2>3. y.finish_flag = FALSE
      <3> HIDE DEF y
      <3>1. y.finish_flag \in BOOLEAN /\ ~y.finish_flag
        BY <1>4 DEF NodeRecord, PlainAsync
      <3>2. QED
        BY <3>1
    <2>4. QED
      BY <2>1, <2>2, <2>3 DEF Alike, Private
  <1> HIDE DEF from, i, y, z, f, fr, K, s, o, w, lo, m
  <1>15. Drawn(w, node_ctr, r, lo, m, 0, from)
    <2> DEFINE v == View(t)
               c == node_ctr
    <2> HIDE DEF v
    <2>1. Drawn(v, c, s, lo, m, 0, from) /\ v.nodes = node /\ v.stack = o
      BY <1>11, <1>12 DEF v
    <2>2. \A x \in DOMAIN v.nodes : x \in DOMAIN w.nodes /\ Alike(w.nodes[x], v.nodes[x])
      BY <1>9, <1>10, <2>1 DEF Kept, Same
    <2>3. \A x \in DOMAIN w.nodes : x \in DOMAIN v.nodes \/ (x = i /\ c < i)
      BY <1>9, <1>10, <2>1
    <2>4. /\ Private(w.nodes, i) => i \notin from.others /\ \A j \in 1..Len(v.stack) : v.stack[j] # i
      BY <1>13, <2>1
    <2>5. Len(s) - lo >= 0 => /\ Private(w.nodes, i) /\ w.nodes[i].finish_flag = y.finish_flag
                              /\ Len(v.stack) > m => w.nodes[i].parent = Last(v.stack)
      <3>1. ~(Len(v.stack) > m)
        BY <1>6, <2>1 DEF m
      <3>2. QED
        BY <1>10, <1>14, <3>1
    <2>6. c \in Nat /\ c <= c /\ i \in 1..c /\ IsView(w) /\ IsMemory(w.nodes)
          /\ w.stack = Append(v.stack, i) /\ y \in NodeRecord /\ y.id = i
      BY <1>4, <1>8, <1>9, <1>10, <2>1 DEF i
    <2> HIDE DEF c
    <2>7. Drawn(w, c, Append(s, y), lo, m, 0, from)
      BY <2>1, <2>2, <2>3, <2>4, <2>5, <2>6, DrawnAppend
    <2>8. QED
      BY <2>7 DEF c
  <1> HIDE DEF r
  <1>16. Turns(t, w)
    BY <1>10 DEF Turns, Aside
  <1>17. /\ \A u \in Threads \ {t} : OtherSame(u)
         /\ Held(t)' <=> Held(t)
         /\ OverSize(t)' = OverSize(t) /\ Shut(t)' = Shut(t) /\ Ground(t)' = Ground(t)
         /\ frames'[t] = fr /\ last_nodes'[t] = r
    BY <1>2, <1>7, <1>10, SameElsewhere
  <1>18. ~Held(t)' /\ OverSize(t)' = 0
    BY <1>5, <1>17
  <1>19. fr[n + 1] = f /\ Len(fr) = n + 1 /\ LowerKept(t, n)
    <2>1. /\ Len(fr) = Len(frames[t]) + 1 /\ fr[Len(fr)] = f
          /\ \A j \in 1..Len(fr) : j < Len(fr) => j \in 1..Len(frames[t]) /\ fr[j] = frames[t][j]
      BY <1>6, PushLast DEF fr
    <2>2. \A j \in 1..n : frames'[t][j] = frames[t][j]
      BY <1>6, <1>17, <2>1
    <2>3. QED
      BY <1>17, <2>1, <2>2 DEF LowerKept
  <1>20. IsContext(f) /\ ~f.waiting
    <2>1. k \in Contexts
      BY <1>2, <1>3, TaskAssumption, RegionAssumption, LengthType DEF RecordsInv, Contexts
    <2> HIDE DEF k
    <2>2. QED
      BY <2>1, NewContext DEF f
  <1>21. OnlineStack(t)'
    <2> DEFINE g == Shut(t)'
               c == node_ctr'
    <2> HIDE DEF g, c, n
    <2>1. 0 <= SharedSize(f, g)
      <3>1. SharedSize(f, g) \in 0..2
        BY <1>20, FrameSizes
      <3>2. QED
        BY <3>1
    <2>2. 0 <= SharedSize(f, Shut(t)')
      BY <2>1 DEF g
    <2>3. Drawn(w, node_ctr', r, lo, m, 0, Origin(t, K))
      BY <1>7, <1>15 DEF from
    <2>4. f = frames'[t][n + 1] /\ Len(frames'[t]) = n + 1
      BY <1>17, <1>19
    <2>5. QED
      BY <1>2, <1>6, <1>16, <1>17, <1>18, <1>19, <1>20, <2>2, <2>3, <2>4, StackReplacedOn
  <1>22. m <= Len(open[t]) /\ Drawn(w, node_ctr', r, lo, m, 0, Origin(t, K))
    BY <1>6, <1>7, <1>15 DEF m, o, from
  <1>23. MemoryInv' /\ OnceInv'
    BY <1>2, <1>16, <1>22, TurnMemory
  <1>24. MapInv'
    <2>1. DOMAIN taskMap' = K /\ \A l \in K : taskMap'[l] = taskMap[l]
      BY <1>2, <1>7 DEF Restrict
    <2>2. QED
      BY <1>2, <1>16, <1>22, <2>1, TurnMapLess
  <1>25. PendingInv'
    <2>1. \A j \in 1..Len(pendingFinish) :
            pendingFinish[j].id \in 1..node_ctr' /\ ~Private(node', pendingFinish[j].id)
      BY <1>2, <1>16, <1>22, TurnPending
    <2>2. QED
      BY <1>7, <2>1 DEF PendingInv, SameRuntime
  <1>26. \A u \in Threads : OnlineStack(u)'
    BY <1>2, <1>16, <1>17, <1>21, <1>22, OthersFollow
  <1>27. QED
    BY <1>23, <1>24, <1>25, <1>26 DEF OnlineInv

----------------------------------------------------------------------------
(* Steps in which the on-line profiler does nothing                        *)

LEMMA MemoryKept ==
  ASSUME OnlineInv, UNCHANGED <<open, node, node_ctr, pendingFinish>>, taskMap' = taskMap
  PROVE  MemoryInv' /\ OnceInv' /\ MapInv' /\ PendingInv'
  <1>1. MemoryInv'
    BY DEF OnlineInv, MemoryInv
  <1>2. OnceInv'
    BY DEF OnlineInv, OnceInv
  <1>3. MapInv'
    BY DEF OnlineInv, MapInv, Waiting
  <1>4. PendingInv'
    BY DEF OnlineInv, PendingInv
  <1>5. QED
    BY <1>1, <1>2, <1>3, <1>4

LEMMA StackKept ==
  ASSUME NEW u \in Threads, OnlineStack(u), UNCHANGED <<open, node, region_nodes>>,
         frames'[u] = frames[u], last_nodes'[u] = last_nodes[u], Held(u)' <=> Held(u),
         OverSize(u)' = OverSize(u), Shut(u)' = Shut(u)
  PROVE  OnlineStack(u)'
  <1>1. Height(u)' = Height(u)
    BY DEF Height
  <1>2. QED
    BY <1>1 DEF OnlineStack

(* A task reads its parent, or nothing happens.                            *)
LEMMA NothingDone ==
  ASSUME OnlineInv, StacksInv', EventsInv', UNCHANGED <<allVars, open, node>>
  PROVE  OnlineInv'
  <1>1. UNCHANGED <<last_nodes, node_ctr, num_threads, barrierCount, pendingFinish, pc, released,
                    team, region_nodes>> /\ taskMap' = taskMap /\ frames' = frames
    BY DEF allVars, vars, profiler, runtime, taskVars
  <1>2. MemoryInv' /\ OnceInv' /\ MapInv' /\ PendingInv'
    BY <1>1, MemoryKept
  <1>3. \A u \in Threads : OnlineStack(u)'
    <2> SUFFICES ASSUME NEW u \in Threads PROVE OnlineStack(u)'
      OBVIOUS
    <2>1. Held(u)' <=> Held(u)
      BY <1>1 DEF Held, Orphan, Active
    <2>2. OverSize(u)' = OverSize(u) /\ Shut(u)' = Shut(u)
      BY <1>1, <2>1 DEF OverSize, Shut
    <2>3. OnlineStack(u)
      BY DEF OnlineInv
    <2>4. QED
      BY <1>1, <2>1, <2>2, <2>3, StackKept
  <1>4. QED
    BY <1>2, <1>3 DEF OnlineInv

(* The other threads at a handler of regions on t.                         *)
LEMMA RegionElsewhere ==
  ASSUME StacksInv, NEW t \in Threads, Active, Active',
         NEW fr, frames' = [frames EXCEPT ![t] = fr],
         NEW r, last_nodes' = [last_nodes EXCEPT ![t] = r],
         NEW q, pc' = [pc EXCEPT ![t] = q],
         UNCHANGED <<team, num_threads, region_nodes>>,
         \A u \in Threads \ {t} : u \in released' <=> u \in released,
         \A u \in Threads \ {t} : open'[u] = open[u]
  PROVE  /\ \A u \in Threads \ {t} : OtherSame(u)
         /\ frames'[t] = fr /\ last_nodes'[t] = r /\ pc'[t] = q
         /\ Orphan(t)' <=> Orphan(t)
  <1>1. /\ frames = [u \in Threads |-> frames[u]] /\ last_nodes \in [Threads -> Seq(NodeRecord)]
        /\ pc \in [Threads -> Control]
    BY DEF StacksInv, TeamInv, TypeOK
  <1>2. \A u \in Threads : Orphan(u)' <=> Orphan(u)
    BY DEF Orphan
  <1>3. \A u \in Threads \ {t} : Held(u)' <=> Held(u)
    BY <1>2 DEF Held
  <1>4. \A u \in Threads \ {t} :
          frames'[u] = frames[u] /\ last_nodes'[u] = last_nodes[u] /\ pc'[u] = pc[u]
    BY <1>1
  <1>5. frames'[t] = fr /\ last_nodes'[t] = r /\ pc'[t] = q
    BY <1>1
  <1>6. QED
    BY <1>2, <1>3, <1>4, <1>5 DEF OtherSame

(* The end of an implicit task is counted.                                 *)
LEMMA CountImplicitEndOnline ==
  ASSUME OnlineInv, StacksInv', EventsInv', NEW t \in Threads,
         TPCountImplicitEnd(t), UNCHANGED <<open, node>>
  PROVE  OnlineInv'
  <1> DEFINE q == IF t = Master THEN "spin" ELSE "idle"
  <1>1. /\ CountImplicitEnd(t) /\ pc[t] = "ended" /\ TypeOK /\ TeamInv /\ StacksInv /\ TypeOK'
    BY DEF TPCountImplicitEnd, CountImplicitEnd, OnlineInv, StacksInv, TeamInv
  <1>2. /\ pc' = [pc EXCEPT ![t] = q]
        /\ UNCHANGED <<last_nodes, node_ctr, num_threads, pendingFinish, released, team,
                       region_nodes>>
    BY <1>1 DEF CountImplicitEnd
  <1>3. frames' = frames /\ taskMap' = taskMap
    BY DEF TPCountImplicitEnd, Untouched
  <1>4. Active /\ Active'
    BY <1>1, CountImplicitEndTeam
  <1>5. \A v \in Threads : pc'[v] = IF v = t THEN q ELSE pc[v]
    BY <1>1, <1>2 DEF TypeOK
  <1>6. MemoryInv' /\ OnceInv' /\ MapInv' /\ PendingInv'
    BY <1>2, <1>3, MemoryKept
  <1>7. \A u \in Threads : OnlineStack(u)'
    <2> SUFFICES ASSUME NEW u \in Threads PROVE OnlineStack(u)'
      OBVIOUS
    <2>1. Held(u)' <=> Held(u)
      BY <1>2, <1>4 DEF Held, Orphan
    <2>2. OverSize(u)' = OverSize(u)
      BY <1>1, <1>5, <2>1 DEF OverSize
    <2>3. Shut(u)' = Shut(u)
      BY <1>1, <1>5 DEF Shut, InRegionControl
    <2>4. OnlineStack(u)
      BY DEF OnlineInv
    <2>5. QED
      BY <1>2, <1>3, <2>1, <2>2, <2>3, <2>4, StackKept
  <1>8. QED
    BY <1>6, <1>7 DEF OnlineInv

(* The implicit task of a thread, on top of its stacks.                    *)
LEMMA ImplicitPlace ==
  ASSUME OnlineInv, NEW t \in Threads, frames[t] # <<>>, Cur(t).ctx = Implicit(t),
         ~Cur(t).waiting
  PROVE  /\ ~Held(t) /\ OverSize(t) = 0 /\ Cur(t).ctx > MaxTasks
         /\ IsContext(Cur(t)) /\ pc[t] \in InRegionControl
         /\ \A i \in 1..(Len(frames[t]) - 1) : ~(frames[t][i].ctx > MaxTasks)
         /\ \E lo \in Nat, m \in Nat, sh \in Nat : AtWork(t, lo, m, sh)
  <1>1. /\ pc[t] \in InRegionControl /\ ~Held(t) /\ IsContext(Cur(t)) /\ Cur(t).ctx > MaxTasks
        /\ \A i \in 1..(Len(frames[t]) - 1) : ~(frames[t][i].ctx > MaxTasks)
    BY ImplicitOnTop DEF OnlineInv
  <1>2. OverSize(t) = 0
    BY <1>1 DEF OverSize, InRegionControl
  <1>3. PICK lo \in Nat, m \in Nat : AtPlace(t, lo, m)
    BY <1>1, <1>2, OnlineTop
  <1> DEFINE sh == SharedSize(Cur(t), Shut(t))
             K  == DOMAIN taskMap
  <1>4. sh \in Nat /\ sh <= sh /\ K \subseteq DOMAIN taskMap
    <2> DEFINE g == Shut(t)
    <2>1. SharedSize(Cur(t), g) \in 0..2
      <3> HIDE DEF g
      <3>1. QED
        BY <1>1, FrameSizes
    <2>2. QED
      BY <2>1
  <1> HIDE DEF K
  <1>5. /\ Drawn(View(t), node_ctr, last_nodes[t], lo, m, sh, Origin(t, K))
        /\ Drawn(Stepped(t), node_ctr, last_nodes[t], lo, m, sh, Origin(t, K))
    BY <1>3, <1>4, PlaceDrawn
  <1>6. AtWork(t, lo, m, sh)
    BY <1>3, <1>5 DEF AtWork, K
  <1>7. QED
    BY <1>1, <1>2, <1>4, <1>6

(* The contexts below the implicit task have no ground.                    *)
LEMMA BelowImplicit ==
  ASSUME NEW t \in Threads, IsSequence(frames[t]), frames[t] # <<>>,
         \A i \in 1..(Len(frames[t]) - 1) : ~(frames[t][i].ctx > MaxTasks),
         NEW f, frames'[t] = WithLast(frames[t], f)
  PROVE  /\ LowerKept(t, Len(frames[t]) - 1)
         /\ Len(frames'[t]) = (Len(frames[t]) - 1) + 1
         /\ frames'[t][(Len(frames[t]) - 1) + 1] = f
  <1> DEFINE r == frames'[t]
             s == frames[t]
  <1>1. r = WithLast(s, f)
    OBVIOUS
  <1> HIDE DEF r, s
  <1>2. /\ Len(r) = Len(s) /\ r[Len(r)] = f
        /\ \A i \in 1..Len(r) : i < Len(r) => r[i] = s[i]
    BY <1>1, ReplaceLast DEF s
  <1>3. Len(s) \in Nat \ {0}
    BY LengthType DEF s
  <1>4. \A i \in 1..(Len(s) - 1) : r[i] = s[i]
    BY <1>2, <1>3
  <1>5. (Len(s) - 1) + 1 = Len(s)
    BY <1>3
  <1>6. QED
    BY <1>2, <1>4, <1>5 DEF LowerKept, r, s

(* A barrier is over: only the context has changed.                        *)
LEMMA BarrierEndOnline ==
  ASSUME OnlineInv, StacksInv', EventsInv', NEW t \in Threads,
         TPBarrierEnd(t), UNCHANGED <<open, node>>
  PROVE  OnlineInv'
  <1> DEFINE s == last_nodes[t]
             f == Cur(t)
             w == View(t)
             K == DOMAIN taskMap
  <1>1. /\ BarrierEnd(t) /\ pc[t] = "barrier" /\ f.ctx = Implicit(t) /\ frames[t] # <<>>
        /\ TypeOK /\ TeamInv /\ StacksInv /\ TypeOK'
    BY DEF TPBarrierEnd, BarrierEnd, OnlineInv, StacksInv, TeamInv
  <1>2. PICK x : frames' = [frames EXCEPT ![t] = WithLast(frames[t], [f EXCEPT !.past = x])]
    BY DEF TPBarrierEnd, SetFrame, WithLast
  <1> DEFINE f2 == [f EXCEPT !.past = x]
             fr == WithLast(frames[t], f2)
  <1>3. IsContext(f) /\ ~f.waiting
    BY <1>1, ImplicitOnTop DEF ImplicitOK
  <1>4. f2.ctx = f.ctx /\ ~f2.waiting
    <2> HIDE DEF f
    <2>1. QED
      BY <1>3, ContextPast
  <1>5. /\ ~Held(t) /\ OverSize(t) = 0
        /\ \A i \in 1..(Len(frames[t]) - 1) : ~(frames[t][i].ctx > MaxTasks)
        /\ \E lo \in Nat, m \in Nat, sh \in Nat : AtWork(t, lo, m, sh)
    BY <1>1, <1>3, ImplicitPlace
  <1>6. PICK lo \in Nat, m \in Nat, sh \in Nat : AtWork(t, lo, m, sh)
    BY <1>5
  <1>7. /\ UNCHANGED profiler
        /\ UNCHANGED <<released, team, barriers, arrived, region_nodes>>
        /\ pc' = [pc EXCEPT ![t] = "work"]
    BY <1>1 DEF BarrierEnd
  <1>8. /\ UNCHANGED <<num_threads, node_ctr, pendingFinish>> /\ last_nodes' = last_nodes
        /\ taskMap' = taskMap
    BY <1>7 DEF profiler, TPBarrierEnd, Untouched
  <1>9. Active /\ Active'
    BY <1>1, LeaveBarrierTeam
  <1>10. last_nodes' = [last_nodes EXCEPT ![t] = s]
    BY <1>1, <1>8 DEF TypeOK
  <1> HIDE DEF f2
  <1>11. frames' = [frames EXCEPT ![t] = fr]
    BY <1>2 DEF f2
  <1> HIDE DEF fr
  <1>12. /\ \A u \in Threads \ {t} : OtherSame(u)
         /\ frames'[t] = fr /\ last_nodes'[t] = s /\ pc'[t] = "work"
         /\ Orphan(t)' <=> Orphan(t)
    BY <1>1, <1>7, <1>8, <1>9, <1>10, <1>11, RegionElsewhere
  <1>13. ~Held(t)' /\ OverSize(t)' = 0
    BY <1>5, <1>7, <1>12 DEF Held, OverSize
  <1>14. Shut(t)' = Shut(t)
    BY <1>1, <1>12 DEF Shut, InRegionControl
  <1>15. Turns(t, w)
    BY <1>8 DEF Turns, View, Aside, OnlineInv, MemoryInv
  <1>16. /\ AtPlace(t, lo, m) /\ sh = SharedSize(f, Shut(t))
         /\ Drawn(w, node_ctr, s, lo, m, sh, Origin(t, K))
    BY <1>6 DEF AtWork
  <1>17. /\ Based(t, Len(frames[t]) - 1, lo, m) /\ IsSequence(frames[t])
         /\ m <= Len(open[t])
    BY <1>16, PlaceBased
  <1> DEFINE n == Len(frames[t]) - 1
  <1>18. LowerKept(t, n) /\ Len(frames'[t]) = n + 1 /\ f2 = frames'[t][n + 1]
    BY <1>1, <1>5, <1>12, <1>17, BelowImplicit DEF fr
  <1>19. sh <= SharedSize(f2, Shut(t)')
    <2>1. SharedSize(f2, Shut(t)) = SharedSize(f, Shut(t))
      BY <1>4 DEF SharedSize
    <2>2. SharedSize(f2, Shut(t)') = sh
      BY <1>14, <1>16, <2>1
    <2> HIDE DEF f
    <2>3. QED
      BY <2>2, <1>6
  <1>20. Drawn(w, node_ctr', s, lo, m, sh, Origin(t, K)) /\ K \subseteq DOMAIN taskMap
    BY <1>8, <1>16
  <1> HIDE DEF w, K, n
  <1>21. OnlineStack(t)'
    BY <1>4, <1>12, <1>13, <1>15, <1>17, <1>18, <1>19, <1>20, StackReplacedOn DEF OnlineInv, n
  <1>22. QED
    BY <1>8, <1>12, <1>15, <1>17, <1>20, <1>21, TurnDone DEF K

(* A handler of regions that leaves the thread in its implicit task.       *)
LEMMA RegionReplaced ==
  ASSUME OnlineInv, StacksInv', NEW t \in Threads, NEW lo, NEW m, AtPlace(t, lo, m), ~Held(t),
         \A i \in 1..(Len(frames[t]) - 1) : ~(frames[t][i].ctx > MaxTasks),
         Active, Active', NEW f, ~f.waiting,
         frames' = [frames EXCEPT ![t] = WithLast(frames[t], f)],
         NEW q, pc' = [pc EXCEPT ![t] = q], q \notin {"ended", "spin"},
         UNCHANGED <<team, num_threads, region_nodes, released>>,
         NEW K, K \subseteq DOMAIN taskMap,
         NEW w, NEW r, NEW sh, Drawn(w, node_ctr', r, lo, m, sh, Origin(t, K)),
         Shows(t, w), last_nodes' = [last_nodes EXCEPT ![t] = r],
         \/ sh <= SharedSize(f, Shut(t)')
         \/ FrameSize(f, Shut(t)') <= SharedSize(f, Shut(t)')
  PROVE  /\ OnlineStack(t)' /\ m <= Len(open[t]) /\ Turns(t, w)
         /\ \A u \in Threads \ {t} : OtherSame(u)
  <1> DEFINE n  == Len(frames[t]) - 1
             fr == WithLast(frames[t], f)
  <1>1. /\ Based(t, n, lo, m) /\ m <= Len(open[t])
        /\ IsSequence(frames[t]) /\ frames[t] # <<>>
    BY PlaceBased
  <1>2. Turns(t, w) /\ \A u \in Threads \ {t} : open'[u] = open[u]
    BY ShowsTurns DEF OnlineInv
  <1>3. frames' = [frames EXCEPT ![t] = fr]
    OBVIOUS
  <1> HIDE DEF fr
  <1>4. /\ \A u \in Threads \ {t} : OtherSame(u)
        /\ frames'[t] = fr /\ last_nodes'[t] = r /\ pc'[t] = q
        /\ Orphan(t)' <=> Orphan(t)
    BY <1>2, <1>3, RegionElsewhere DEF OnlineInv
  <1>5. ~Held(t)' /\ OverSize(t)' = 0
    BY <1>4 DEF Held, OverSize
  <1>6. LowerKept(t, n) /\ Len(frames'[t]) = n + 1 /\ f = frames'[t][n + 1]
    BY <1>1, <1>4, BelowImplicit DEF fr
  <1> HIDE DEF n
  <1>7. OnlineStack(t)'
    BY <1>1, <1>2, <1>4, <1>5, <1>6, StackReplacedOn DEF OnlineInv
  <1>8. QED
    BY <1>1, <1>2, <1>4, <1>7

(* The invariant after a handler, where the tasks that wait or the nodes   *)
(* of phases may be others.                                                *)
LEMMA TurnEnd ==
  ASSUME OnlineInv, NEW t \in Threads, NEW K, K \subseteq DOMAIN taskMap,
         NEW w, NEW s, NEW lo, NEW m, NEW sh, m <= Len(open[t]),
         Drawn(w, node_ctr', s, lo, m, sh, Origin(t, K)), Turns(t, w),
         \A u \in Threads \ {t} : OtherSame(u), OnlineStack(t)', EventsInv', StacksInv',
         MapInv', PendingInv'
  PROVE  OnlineInv'
  <1>1. MemoryInv' /\ OnceInv'
    BY TurnMemory DEF OnlineInv
  <1>2. \A u \in Threads : OnlineStack(u)'
    BY OthersFollow DEF OnlineInv
  <1>3. QED
    BY <1>1, <1>2 DEF OnlineInv

LEMMA TurnWaiting ==
  ASSUME OnlineInv, NEW t \in Threads,
         NEW w, NEW s, NEW lo, NEW m, NEW sh, m <= Len(open[t]),
         Drawn(w, node_ctr', s, lo, m, sh, Origin(t, DOMAIN taskMap)), Turns(t, w),
         taskMap' = taskMap
  PROVE  MapInv'
  <1> DEFINE K == DOMAIN taskMap
  <1>1. /\ K \subseteq DOMAIN taskMap /\ Drawn(w, node_ctr', s, lo, m, sh, Origin(t, K))
        /\ DOMAIN taskMap' = K /\ \A k \in K : taskMap'[k] = taskMap[k]
    OBVIOUS
  <1> HIDE DEF K
  <1>2. QED
    BY <1>1, TurnMapLess DEF OnlineInv

(* The nodes of an implicit task that has nothing to wait for.             *)
LEMMA BareFrame ==
  ASSUME NEW f, IsContext(f), f.ctx > MaxTasks, Bare(f), NEW g
  PROVE  /\ FrameSize(f, g) = IF g.closed THEN 1 ELSE 3
         /\ SharedSize(f, g) = IF g.closed THEN 1 ELSE 2
  <1>1. /\ Last(f.levels) = f.levels[1] /\ LevelSize(f.levels[1]) = 0
        /\ LevelAt(f, 0, g) = IF g.closed THEN 0 + 1 ELSE 0 + 3
    BY BareSize
  <1>2. QED
    BY <1>1 DEF FrameSize, SharedSize

(* captureBarrierBegin up to bar_mutex.                                    *)
LEMMA BarrierBeginOnline ==
  ASSUME WaitsAreThere, OnlineInv, StacksInv', EventsInv', NEW t \in Threads, OnBarrierBegin(t)
  PROVE  OnlineInv'
  <1> DEFINE s  == last_nodes[t]
             r  == Pop(Pop(s))
             w  == PopNode(PopNode(Stepped(t)))
             f  == Cur(t)
             f2 == WithStep(t)
             g  == Shut(t)
             from == Origin(t, DOMAIN taskMap)
  <1>1. /\ InRegionCode(t) /\ f.ctx = Implicit(t) /\ Len(f.levels) = 1
        /\ BarrierBegin(t) /\ TPBarrierBegin(t) /\ pc[t] = "work" /\ Shows(t, w)
        /\ TeamInv /\ TypeOK /\ TypeOK' /\ StacksInv
    BY DEF OnBarrierBegin, TPBarrierBegin, InImplicitBody, AtBody, BarrierBegin, OnlineInv,
           StacksInv, TeamInv
  <1>2. InWork(t) /\ ~f.waiting /\ frames[t] # <<>> /\ IsContext(f)
    BY <1>1, CodeWhere DEF InWork
  <1>3. Bare(f)
    <2>1. ~Here(t).unwaited
      BY <1>1 DEF TPBarrierBegin, Waited, WaitsAreThere
    <2>2. Here(t) = f.levels[1]
      BY <1>1 DEF Here, Last
    <2>3. QED
      BY <1>1, <2>1, <2>2 DEF Bare
  <1>4. /\ ~Held(t) /\ f.ctx > MaxTasks
        /\ \A i \in 1..(Len(frames[t]) - 1) : ~(frames[t][i].ctx > MaxTasks)
        /\ \E lo \in Nat, m \in Nat, sh \in Nat : AtWork(t, lo, m, sh)
    BY <1>1, <1>2, ImplicitPlace
  <1>5. PICK lo \in Nat, m \in Nat, sh \in Nat : AtWork(t, lo, m, sh)
    BY <1>4
  <1>6. /\ AtPlace(t, lo, m) /\ sh = SharedSize(f, g)
        /\ Drawn(Stepped(t), node_ctr, s, lo, m, sh, from)
    BY <1>5 DEF AtWork
  <1>7. Len(s) = lo + FrameSize(f, g) /\ s \in Seq(NodeRecord)
    BY <1>1, <1>6, PlaceBased DEF TypeOK
  <1>8. ~g.closed
    BY <1>1 DEF Shut, InRegionControl
  <1>9. FrameSize(f, g) = 3
    <2> HIDE DEF f, g
    <2>1. QED
      BY <1>2, <1>3, <1>4, <1>8, BareFrame
  <1>10. /\ Len(s) > lo /\ Pop(s) \in Seq(NodeRecord) /\ Len(Pop(s)) > lo
    <2> HIDE DEF s
    <2>1. Len(s) = lo + 3 /\ Len(s) > 0 /\ Len(s) > lo
      BY <1>7, <1>9
    <2>2. Pop(s) \in Seq(NodeRecord) /\ Len(Pop(s)) = Len(s) - 1
      BY <1>7, <2>1, PopStack
    <2>3. QED
      BY <2>1, <2>2
  <1>11. node_ctr' = node_ctr + 1 /\ node_ctr \in Nat
    BY <1>1 DEF BarrierBegin, TypeOK
  <1>12. Drawn(w, node_ctr', r, lo, m, sh, from)
    <2> DEFINE v == Stepped(t)
               q == Pop(s)
               x == PopNode(v)
               c == node_ctr'
    <2>1. Drawn(v, node_ctr, s, lo, m, sh, from) /\ c \in Nat /\ node_ctr <= c
      BY <1>6, <1>11
    <2> HIDE DEF v, c, from, s
    <2>2. Drawn(x, node_ctr, q, lo, m, sh, from)
      BY <1>10, <2>1, DrawnPop
    <2> HIDE DEF x, q
    <2>3. w = PopNode(x) /\ r = Pop(q) /\ Len(q) > lo
      BY <1>10 DEF x, q, v
    <2> HIDE DEF w, r
    <2>4. Drawn(w, node_ctr, r, lo, m, sh, from)
      BY <2>2, <2>3, DrawnPop
    <2>5. QED
      BY <2>1, <2>4, DrawnMore DEF c
  <1>13. IsContext(f2) /\ f2.ctx = f.ctx /\ f2.waiting = f.waiting /\ f2.levels = f.levels
    BY <1>2, WithStepContext
  <1>14. /\ frames' = [frames EXCEPT ![t] = WithLast(frames[t], f2)] /\ taskMap' = taskMap
         /\ pendingFinish' = pendingFinish /\ pc' = [pc EXCEPT ![t] = "locking"]
         /\ UNCHANGED <<team, num_threads, region_nodes, released>>
         /\ last_nodes' = [last_nodes EXCEPT ![t] = r]
    BY <1>1 DEF TPBarrierBegin, BarrierBegin, SetFrame, WithLast, Untouched
  <1>15. Active /\ Active'
    <2>1. ~MasterIsOut /\ Master \in Threads
      BY <1>1, <1>2, TeamType DEF InWork
    <2>2. pc'[Master] = "locking" \/ pc'[Master] = pc[Master]
      BY <1>1, <1>14, <2>1 DEF TypeOK
    <2>3. QED
      BY <2>1, <2>2 DEF Active, MasterIsOut
  <1>16. pc'[t] = "locking"
    BY <1>1, <1>14 DEF TypeOK
  <1>17. FrameSize(f2, Shut(t)') <= SharedSize(f2, Shut(t)')
    <2> DEFINE g2 == Shut(t)'
    <2>1. g2.closed
      BY <1>16 DEF Shut
    <2>2. Bare(f2) /\ f2.ctx > MaxTasks
      BY <1>3, <1>4, <1>13 DEF Bare
    <2> HIDE DEF g2, f2
    <2>3. FrameSize(f2, g2) = 1 /\ SharedSize(f2, g2) = 1
      BY <1>13, <2>1, <2>2, BareFrame
    <2>4. QED
      BY <2>3 DEF g2
  <1>18. ~f2.waiting
    BY <1>2, <1>13
  <1> DEFINE K == DOMAIN taskMap
             q == "locking"
  <1>19. /\ Drawn(w, node_ctr', r, lo, m, sh, Origin(t, K)) /\ K \subseteq DOMAIN taskMap
         /\ pc' = [pc EXCEPT ![t] = q] /\ q \notin {"ended", "spin"}
    BY <1>12, <1>14
  <1>a. /\ frames' = [frames EXCEPT ![t] = WithLast(frames[t], f2)]
        /\ last_nodes' = [last_nodes EXCEPT ![t] = r]
        /\ UNCHANGED <<team, num_threads, region_nodes, released>>
        /\ AtPlace(t, lo, m) /\ Shows(t, w)
    BY <1>1, <1>6, <1>14
  <1> HIDE DEF w, r, f2, K, q
  <1>20. /\ OnlineStack(t)' /\ m <= Len(open[t]) /\ Turns(t, w)
         /\ \A u \in Threads \ {t} : OtherSame(u)
    BY <1>4, <1>15, <1>17, <1>18, <1>19, <1>a, RegionReplaced
  <1>21. QED
    BY <1>14, <1>19, <1>20, TurnDone DEF K

LEMMA TwoPushed ==
  ASSUME NEW s \in Seq(NodeRecord), NEW n \in NodeRecord, NEW a \in NodeRecord
  PROVE  s \o <<n, a>> = Append(Append(s, n), a)
  <1> DEFINE r == s \o <<n, a>>
             p == Append(s, n)
             q == Append(p, a)
  <1>1. /\ r \in Seq(NodeRecord) /\ Len(r) = Len(s) + 2 /\ Len(s) \in Nat
        /\ \A i \in 1..Len(s) : r[i] = s[i]
        /\ r[Len(s) + 1] = n /\ r[Len(s) + 2] = a
    BY PushTwo
  <1>2. /\ p \in Seq(NodeRecord) /\ Len(p) = Len(s) + 1
        /\ \A i \in 1..Len(s) : p[i] = s[i]
        /\ p[Len(s) + 1] = n
    BY AppendProperties
  <1> HIDE DEF r, p
  <1>3. /\ q \in Seq(NodeRecord) /\ Len(q) = Len(p) + 1
        /\ \A i \in 1..Len(p) : q[i] = p[i]
        /\ q[Len(p) + 1] = a
    BY <1>2, AppendProperties
  <1> HIDE DEF q
  <1>4. Len(q) = Len(r) /\ \A i \in 1..Len(r) : q[i] = r[i]
    <2>1. Len(q) = Len(s) + 2 /\ Len(p) + 1 = Len(s) + 2
      BY <1>1, <1>2, <1>3
    <2>2. ASSUME NEW i \in 1..(Len(s) + 2) PROVE q[i] = r[i]
      <3>1. i \in 1..Len(s) \/ i = Len(s) + 1 \/ i = Len(s) + 2
        BY <1>1
      <3>2. i \in 1..Len(s) => i \in 1..Len(p)
        BY <1>1, <1>2
      <3>3. i = Len(s) + 1 => i \in 1..Len(p)
        BY <1>1, <1>2
      <3>4. QED
        BY <1>1, <1>2, <1>3, <2>1, <3>1, <3>2, <3>3
    <2>3. QED
      BY <1>1, <2>1, <2>2
  <1>5. q = r
    <2>1. /\ q = [i \in 1..Len(q) |-> q[i]] /\ r = [i \in 1..Len(r) |-> r[i]]
      BY <1>1, <1>3
    <2>2. QED
      BY <1>4, <2>1
  <1>6. QED
    BY <1>5 DEF r, q, p

(* What a thread in captureBarrierBegin starts from.                       *)
LEMMA LockingPlace ==
  ASSUME OnlineInv, NEW t \in Threads, pc[t] = "locking"
  PROVE  /\ Cur(t).ctx = Implicit(t) /\ Bare(Cur(t)) /\ ~Cur(t).waiting /\ IsContext(Cur(t))
         /\ Cur(t).ctx > MaxTasks /\ ~Held(t) /\ last_nodes[t] \in Seq(NodeRecord)
         /\ frames[t] # <<>> /\ frames[t] = WithLast(frames[t], Cur(t))
         /\ \A i \in 1..(Len(frames[t]) - 1) : ~(frames[t][i].ctx > MaxTasks)
         /\ \E lo \in Nat, m \in Nat :
              /\ AtPlace(t, lo, m) /\ Len(last_nodes[t]) = lo + 1
              /\ Drawn(View(t), node_ctr, last_nodes[t], lo, m, 2, Origin(t, DOMAIN taskMap))
  <1> DEFINE f == Cur(t)
             g == Shut(t)
  <1>1. /\ f.ctx = Implicit(t) /\ Bare(f) /\ ~f.waiting /\ f.ctx > MaxTasks /\ ~Held(t)
        /\ last_nodes[t] \in Seq(NodeRecord) /\ frames[t] # <<>> /\ IsSequence(frames[t])
        /\ f = Last(frames[t])
    BY LockingStack DEF OnlineInv
  <1>2. /\ IsContext(f)
        /\ \A i \in 1..(Len(frames[t]) - 1) : ~(frames[t][i].ctx > MaxTasks)
        /\ \E lo \in Nat, m \in Nat, sh \in Nat : AtWork(t, lo, m, sh)
    BY <1>1, ImplicitPlace
  <1>3. PICK lo \in Nat, m \in Nat, sh \in Nat : AtWork(t, lo, m, sh)
    BY <1>2
  <1>4. AtPlace(t, lo, m)
    BY <1>3 DEF AtWork
  <1>5. g.closed
    BY DEF Shut
  <1>6. FrameSize(f, g) = 1 /\ SharedSize(f, g) = 1
    <2> HIDE DEF f, g
    <2>1. QED
      BY <1>1, <1>2, <1>5, BareFrame
  <1>7. Len(last_nodes[t]) = lo + 1
    BY <1>4, <1>6, PlaceBased
  <1> DEFINE K == DOMAIN taskMap
  <1>8. K \subseteq DOMAIN taskMap /\ 2 \in Nat /\ SharedSize(f, g) <= 2
    BY <1>6
  <1> HIDE DEF K
  <1>9. Drawn(View(t), node_ctr, last_nodes[t], lo, m, 2, Origin(t, K))
    BY <1>1, <1>4, <1>8, PlaceDrawn
  <1>10. frames[t] = WithLast(frames[t], f)
    <2> DEFINE s == frames[t]
    <2>1. IsSequence(s) /\ f = s[Len(s)]
      BY <1>1 DEF Last
    <2> HIDE DEF s, f
    <2>2. s = [i \in DOMAIN s |-> s[i]]
      BY <2>1 DEF IsSequence
    <2>3. s = WithLast(s, f)
      BY <2>1, <2>2 DEF WithLast
    <2>4. QED
      BY <2>3 DEF s
  <1>11. QED
    BY <1>1, <1>2, <1>4, <1>7, <1>9, <1>10 DEF K

(* The FINISH node y of the next phase is on the stack: the ASYNC node a   *)
(* follows.                                                                *)
LEMMA ArrivedOnline ==
  ASSUME OnlineInv, StacksInv', NEW t \in Threads, pc[t] = "locking", Arrive(t), Active, Active',
         frames' = frames, UNCHANGED <<team, num_threads, region_nodes, released>>,
         NEW lo, NEW m, AtPlace(t, lo, m), Len(last_nodes[t]) = lo + 1,
         NEW K, K \subseteq DOMAIN taskMap,
         NEW v, NEW c \in Nat, NEW y \in NodeRecord,
         Drawn(v, c, Append(last_nodes[t], y), lo, m, 2, Origin(t, K)),
         node_ctr' \in Nat, c < node_ctr',
         last_nodes' = [last_nodes EXCEPT ![t] = @ \o <<y, NewNode(node_ctr', "ASYNC", y)>>],
         NEW w, w = PushNode(v, node_ctr', Fresh("ASYNC", NoSite)), Shows(t, w)
  PROVE  /\ OnlineStack(t)' /\ m <= Len(open[t]) /\ Turns(t, w)
         /\ \A u \in Threads \ {t} : OtherSame(u)
         /\ \E r : Drawn(w, node_ctr', r, lo, m, 2, Origin(t, K))
  <1> DEFINE s == last_nodes[t]
             a == NewNode(node_ctr', "ASYNC", y)
             p == Append(s, y)
             r == Append(p, a)
             n == Fresh("ASYNC", NoSite)
             d == node_ctr'
             f == Cur(t)
             q == IF team > 1 /\ arrived[t] + 1 = BarriersDue THEN "join" ELSE "barrier"
             from == Origin(t, K)
  <1>1. /\ Bare(f) /\ ~f.waiting /\ IsContext(f) /\ f.ctx > MaxTasks /\ ~Held(t)
        /\ s \in Seq(NodeRecord) /\ frames[t] # <<>> /\ frames[t] = WithLast(frames[t], f)
        /\ \A i \in 1..(Len(frames[t]) - 1) : ~(frames[t][i].ctx > MaxTasks)
    BY LockingPlace
  <1>2. a \in NodeRecord /\ a.id = d /\ PushedFor(n, a, Len(p) - lo < 2)
    <2>1. NoSite # "region"
      BY DEF NoSite
    <2>2. a \in NodeRecord
      BY NewNodeType
    <2>3. QED
      BY <2>1, <2>2, FreshPushed
  <1>3. s \o <<y, a>> = r
    <2> HIDE DEF s, a
    <2>1. QED
      BY <1>1, <1>2, TwoPushed
  <1>4. last_nodes' = [last_nodes EXCEPT ![t] = r]
    BY <1>3
  <1>6. d \in Nat /\ c < d /\ w = PushNode(v, d, n) /\ Drawn(v, c, p, lo, m, 2, from)
    OBVIOUS
  <1> HIDE DEF d, n, a, p, s, from
  <1>7. Drawn(w, d, r, lo, m, 2, from)
    BY <1>2, <1>6, DrawnPush
  <1>8. pc' = [pc EXCEPT ![t] = q] /\ q \notin {"ended", "spin"}
    BY DEF Arrive
  <1>9. frames' = [frames EXCEPT ![t] = WithLast(frames[t], f)]
    BY <1>1 DEF OnlineInv, StacksInv
  <1>10. 2 <= SharedSize(f, Shut(t)')
    <2> DEFINE g == Shut(t)'
    <2>1. ~g.closed
      <3>1. pc'[t] \in {"join", "barrier"}
        BY DEF Arrive, OnlineInv, StacksInv, TeamInv, TypeOK
      <3>2. QED
        BY <3>1 DEF Shut, InRegionControl
    <2> HIDE DEF g, f
    <2>2. SharedSize(f, g) = 2
      BY <1>1, <2>1, BareFrame
    <2>3. QED
      BY <2>2 DEF g
  <1>11. Drawn(w, node_ctr', r, lo, m, 2, Origin(t, K))
    BY <1>7 DEF d, from
  <1> HIDE DEF r, q, f
  <1>12. /\ OnlineStack(t)' /\ m <= Len(open[t]) /\ Turns(t, w)
         /\ \A u \in Threads \ {t} : OtherSame(u)
    BY <1>1, <1>4, <1>8, <1>9, <1>10, <1>11, RegionReplaced
  <1>13. QED
    BY <1>11, <1>12

(* The first thread at a barrier: it leaves the FINISH node to the others. *)
LEMMA BarrierFirstOnline ==
  ASSUME OnlineInv, StacksInv', EventsInv', NEW t \in Threads, OnBarrierArrive(t),
         BarrierFirst(t)
  PROVE  OnlineInv'
  <1> DEFINE s == last_nodes[t]
             e == node_ctr + 1
             y == NewNode(e, "FINISH", Top(s))
             v == PushNode(View(t), e, PhaseFinish)
             n == Fresh("ASYNC", NoSite)
             w == PushNode(v, node_ctr', n)
             K == DOMAIN taskMap
  <1>1. /\ IsFirst(t) /\ pc[t] = "locking" /\ Arrive(t) /\ node_ctr' = node_ctr + 2
        /\ TPBarrierArrive(t) /\ TypeOK /\ TeamInv /\ TypeOK' /\ StacksInv /\ abort = "no"
        /\ UNCHANGED <<team, num_threads, region_nodes, released>>
        /\ last_nodes' = [last_nodes EXCEPT ![t] = @ \o <<y, NewNode(node_ctr + 2, "ASYNC", y)>>]
        /\ pendingFinish' = Append(pendingFinish, y)
    BY DEF OnBarrierArrive, BarrierFirst, OnlineInv, StacksInv, TeamInv
  <1>2. Shows(t, w)
    BY <1>1 DEF OnBarrierArrive
  <1>3. frames' = frames /\ taskMap' = taskMap
    BY <1>1 DEF TPBarrierArrive, Untouched
  <1>4. Active /\ Active'
    <2>1. Top(last_nodes[t]) = region_nodes[1]
      BY <1>1, LockingStack
    <2>2. QED
      BY <1>1, <2>1, BarrierFirstTeam
  <1>5. /\ Cur(t).ctx = Implicit(t) /\ s \in Seq(NodeRecord)
        /\ \E lo \in Nat, m \in Nat :
              /\ AtPlace(t, lo, m) /\ Len(s) = lo + 1
              /\ Drawn(View(t), node_ctr, s, lo, m, 2, Origin(t, K))
    BY <1>1, LockingPlace
  <1>6. PICK lo \in Nat, m \in Nat :
              /\ AtPlace(t, lo, m) /\ Len(s) = lo + 1
              /\ Drawn(View(t), node_ctr, s, lo, m, 2, Origin(t, K))
    BY <1>5
  <1>7. /\ node_ctr \in Nat /\ e \in Nat /\ node_ctr < e /\ e < node_ctr' /\ node_ctr' \in Nat
    BY <1>1 DEF TypeOK
  <1>8. /\ y \in NodeRecord /\ y.id = e
    <2>1. y \in NodeRecord
      BY <1>5, <1>7, NewNodeType, TopType
    <2>2. QED
      BY <2>1 DEF NewNode
  <1>9. last_nodes' = [last_nodes EXCEPT ![t] = @ \o <<y, NewNode(node_ctr', "ASYNC", y)>>]
    BY <1>1
  <1>10. IsNode(PhaseFinish) /\ PhaseFinish.is_barrier_finish = TRUE
    BY DEF PhaseFinish, Fresh, IsNode, NodeFields
  <1>11. PushedFor(PhaseFinish, y, Len(s) - lo < 2)
    <2>1. Len(s) - lo < 2
      BY <1>6
    <2>2. QED
      BY <1>10, <2>1 DEF PushedFor
  <1> DEFINE u == View(t)
             from == Origin(t, K)
             z == PhaseFinish
  <1>12. Drawn(u, node_ctr, s, lo, m, 2, from) /\ v = PushNode(u, e, z) /\ K \subseteq DOMAIN taskMap
         /\ w = PushNode(v, node_ctr', n)
    BY <1>6
  <1>13. IsView(u) /\ IsMemory(u.nodes) /\ e \notin DOMAIN u.nodes
    <2> HIDE DEF u, e, from
    <2>1. IsView(u) /\ IsMemory(u.nodes) /\ \A i \in DOMAIN u.nodes : i \in 1..node_ctr
      BY <1>12 DEF Drawn, Placed
    <2>2. QED
      BY <1>7, <2>1
  <1> HIDE DEF e, y, u, v, s, from, z
  <1>14. Drawn(v, e, Append(s, y), lo, m, 2, from)
    BY <1>7, <1>8, <1>11, <1>12, DrawnPush DEF z
  <1>15. /\ IsView(v) /\ IsMemory(v.nodes) /\ e \in DOMAIN v.nodes
         /\ v.nodes[e].is_barrier_finish = TRUE
    BY <1>10, <1>12, <1>13, PushEffect DEF z
  <1>16. /\ IsNode(n) /\ node_ctr' \notin DOMAIN v.nodes
    <2>1. \A i \in DOMAIN v.nodes : i \in 1..e
      BY <1>14 DEF Drawn, Placed
    <2>2. QED
      BY <1>7, <2>1, FreshNode
  <1> HIDE DEF n
  <1>17. w.nodes[e].is_barrier_finish = TRUE
    <2> DEFINE d == node_ctr'
    <2>1. d \notin DOMAIN v.nodes /\ w = PushNode(v, d, n)
      BY <1>12, <1>16
    <2> HIDE DEF d, w
    <2>2. Kept(w.nodes, v.nodes)
      BY <1>15, <1>16, <2>1, PushEffect
    <2>3. QED
      BY <1>15, <2>2 DEF Kept, Same, Alike
  <1> HIDE DEF w, K
  <1>18. Drawn(v, e, Append(last_nodes[t], y), lo, m, 2, Origin(t, K)) /\ AtPlace(t, lo, m)
         /\ Len(last_nodes[t]) = lo + 1
    BY <1>6, <1>14 DEF s, from
  <1>19. /\ OnlineStack(t)' /\ m <= Len(open[t]) /\ Turns(t, w)
         /\ \A x \in Threads \ {t} : OtherSame(x)
         /\ \E r : Drawn(w, node_ctr', r, lo, m, 2, Origin(t, K))
    BY <1>1, <1>2, <1>3, <1>4, <1>7, <1>8, <1>9, <1>12, <1>18, ArrivedOnline DEF n
  <1>20. PICK r : Drawn(w, node_ctr', r, lo, m, 2, Origin(t, K))
    BY <1>19
  <1>21. MapInv'
    BY <1>3, <1>19, <1>20, TurnWaiting DEF K
  <1>22. PendingInv'
    <2>1. \A k \in 1..Len(pendingFinish) :
            pendingFinish[k].id \in 1..node_ctr' /\ ~Private(node', pendingFinish[k].id)
      BY <1>12, <1>19, <1>20, TurnPending DEF OnlineInv
    <2>2. y.id \in 1..node_ctr' /\ ~Private(node', y.id)
      <3>1. node' = w.nodes
        BY <1>19 DEF Turns
      <3>2. y.id \in 1..node_ctr'
        BY <1>7, <1>8 DEF e
      <3>3. QED
        BY <1>8, <1>17, <3>1, <3>2 DEF Private
    <2>3. /\ Len(pendingFinish) \in Nat /\ Len(pendingFinish') = Len(pendingFinish) + 1
          /\ \A k \in 1..Len(pendingFinish) : pendingFinish'[k] = pendingFinish[k]
          /\ pendingFinish'[Len(pendingFinish) + 1] = y
      <3>1. pendingFinish \in Seq(NodeRecord)
        BY <1>1 DEF TypeOK
      <3>2. QED
        BY <1>1, <1>8, <3>1, AppendProperties
    <2>4. ASSUME NEW k \in 1..Len(pendingFinish')
          PROVE  pendingFinish'[k].id \in 1..node_ctr' /\ ~Private(node', pendingFinish'[k].id)
      <3>1. k \in 1..Len(pendingFinish) \/ k = Len(pendingFinish) + 1
        BY <2>3, <2>4
      <3>2. QED
        BY <2>1, <2>2, <2>3, <3>1
    <2>5. QED
      BY <2>4 DEF PendingInv
  <1>23. QED
    BY <1>12, <1>19, <1>20, <1>21, <1>22, TurnEnd

(* The other threads at a barrier take the FINISH node that was left.      *)
LEMMA BarrierOtherOnline ==
  ASSUME OnlineInv, StacksInv', EventsInv', NEW t \in Threads, OnBarrierArrive(t),
         BarrierOther(t)
  PROVE  OnlineInv'
  <1> DEFINE s == last_nodes[t]
             k == barrierCount[t] + 1
             y == LeftNode(k)
             i == pendingFinish[k].id
             u == View(t)
             v == [u EXCEPT !.stack = Append(@, i)]
             n == Fresh("ASYNC", NoSite)
             w == PushNode(v, node_ctr', n)
             K == DOMAIN taskMap
             from == Origin(t, K)
  <1>1. /\ ~IsFirst(t) /\ pc[t] = "locking" /\ Arrive(t) /\ node_ctr' = node_ctr + 1
        /\ TPBarrierArrive(t) /\ TypeOK /\ TeamInv /\ TypeOK' /\ StacksInv /\ abort = "no"
        /\ abort' = "no" /\ Require(Len(pendingFinish) >= k, "other_pending")
        /\ barrierCount' = [barrierCount EXCEPT ![t] = k]
        /\ UNCHANGED <<team, num_threads, region_nodes, released, pendingFinish>>
        /\ last_nodes' = [last_nodes EXCEPT ![t] = @ \o <<y, NewNode(node_ctr + 1, "ASYNC", y)>>]
    BY DEF OnBarrierArrive, BarrierOther, OnlineInv, StacksInv, TeamInv
  <1>2. Len(pendingFinish) >= k /\ k \in 1..Len(pendingFinish) /\ y = pendingFinish[k]
        /\ barrierCount'[t] = k /\ k \in Nat
    <2>1. Len(pendingFinish) >= k
      BY <1>1, Zenon DEF Require
    <2>2. barrierCount[t] \in Nat /\ pendingFinish \in Seq(NodeRecord) /\ barrierCount'[t] = k
          /\ Len(pendingFinish) \in Nat /\ DOMAIN pendingFinish = 1..Len(pendingFinish)
      BY <1>1, LenProperties DEF TypeOK
    <2>3. QED
      BY <2>1, <2>2 DEF LeftNode
  <1>3. Shows(t, w)
    BY <1>1, <1>2 DEF OnBarrierArrive
  <1>4. frames' = frames /\ taskMap' = taskMap
    BY <1>1 DEF TPBarrierArrive, Untouched
  <1>5. Active /\ Active' /\ y \in NodeRecord
    BY <1>1, BarrierOtherTeam
  <1>6. /\ s \in Seq(NodeRecord)
        /\ \E lo \in Nat, m \in Nat :
              /\ AtPlace(t, lo, m) /\ Len(s) = lo + 1
              /\ Drawn(u, node_ctr, s, lo, m, 2, from)
    BY <1>1, LockingPlace
  <1>7. PICK lo \in Nat, m \in Nat :
              /\ AtPlace(t, lo, m) /\ Len(s) = lo + 1
              /\ Drawn(u, node_ctr, s, lo, m, 2, from)
    BY <1>6
  <1>8. /\ node_ctr \in Nat /\ node_ctr' \in Nat /\ node_ctr < node_ctr'
    BY <1>1 DEF TypeOK
  <1>9. y.id = i /\ i \in 1..node_ctr /\ ~Private(u.nodes, i)
    BY <1>2 DEF OnlineInv, PendingInv, View
  <1>10. Len(s) - lo < 2 /\ v = [u EXCEPT !.stack = Append(@, i)] /\ K \subseteq DOMAIN taskMap
         /\ w = PushNode(v, node_ctr', n)
    BY <1>7
  <1> HIDE DEF s, k, y, i, u, v, n, w, K, from
  <1>11. Drawn(v, node_ctr, Append(s, y), lo, m, 2, from)
    BY <1>5, <1>7, <1>9, <1>10, DrawnShare
  <1> DEFINE d == node_ctr
  <1>12. d \in Nat /\ d < node_ctr' /\ Drawn(v, d, Append(last_nodes[t], y), lo, m, 2, Origin(t, K))
         /\ AtPlace(t, lo, m) /\ Len(last_nodes[t]) = lo + 1
    BY <1>7, <1>8, <1>11 DEF s, from
  <1>13. last_nodes' = [last_nodes EXCEPT ![t] = @ \o <<y, NewNode(node_ctr', "ASYNC", y)>>]
    BY <1>1
  <1>14. w = PushNode(v, node_ctr', Fresh("ASYNC", NoSite))
    BY <1>10 DEF n
  <1> HIDE DEF d
  <1>15. /\ OnlineStack(t)' /\ m <= Len(open[t]) /\ Turns(t, w)
         /\ \A x \in Threads \ {t} : OtherSame(x)
         /\ \E r : Drawn(w, node_ctr', r, lo, m, 2, Origin(t, K))
    BY <1>1, <1>3, <1>4, <1>5, <1>8, <1>10, <1>12, <1>13, <1>14, ArrivedOnline
  <1>16. PICK r : Drawn(w, node_ctr', r, lo, m, 2, Origin(t, K))
    BY <1>15
  <1>17. MapInv'
    BY <1>4, <1>15, <1>16, TurnWaiting DEF K
  <1>18. PendingInv'
    <2>1. \A j \in 1..Len(pendingFinish) :
            pendingFinish[j].id \in 1..node_ctr' /\ ~Private(node', pendingFinish[j].id)
      BY <1>10, <1>15, <1>16, TurnPending DEF OnlineInv
    <2>2. QED
      BY <1>1, <2>1 DEF PendingInv
  <1>19. QED
    BY <1>10, <1>15, <1>16, <1>17, <1>18, TurnEnd

(* captureBarrierBegin under bar_mutex.                                    *)
LEMMA BarrierArriveOnline ==
  ASSUME OnlineInv, StacksInv', EventsInv', NEW t \in Threads, OnBarrierArrive(t)
  PROVE  OnlineInv'
  <1>1. BarrierFirst(t) \/ BarrierOther(t)
    BY DEF OnBarrierArrive, TPBarrierArrive
  <1>2. QED
    BY <1>1, BarrierFirstOnline, BarrierOtherOnline

(* The node that taskMap, or the stack, gets for a task.                   *)
AllocNode(p) == [Fresh("ASYNC", "task") EXCEPT !.parent = p]

LEMMA TaskNodes ==
  ASSUME NEW p, NEW y, NEW sh, y.finish_flag = FALSE
  PROVE  /\ IsNode(AllocNode(p)) /\ PushedFor(AllocNode(p), y, sh)
         /\ ~AllocNode(p).is_barrier_finish /\ AllocNode(p).callSiteId # "region"
         /\ AllocNode(p).finish_flag = FALSE
  <1> DEFINE n == AllocNode(p)
  <1>1. IsNode(n)
    BY DEF AllocNode, Fresh, IsNode, NodeFields
  <1>2. n.is_barrier_finish = FALSE /\ n.callSiteId = "task" /\ n.finish_flag = FALSE
    BY DEF AllocNode, Fresh
  <1> HIDE DEF n
  <1>3. QED
    BY <1>1, <1>2 DEF PushedFor, n

LEMMA TaskFinishPushed ==
  ASSUME NEW y, y.finish_flag = TRUE, NEW sh
  PROVE  PushedFor(TaskFinish, y, sh)
  <1> DEFINE n == TaskFinish
  <1>1. IsNode(n)
    BY DEF TaskFinish, Fresh, IsNode, NodeFields
  <1>2. n.is_barrier_finish = FALSE /\ n.callSiteId = NoSite /\ n.finish_flag = TRUE
    BY DEF TaskFinish, Fresh
  <1> HIDE DEF n
  <1>3. QED
    BY <1>1, <1>2 DEF PushedFor, NoSite, n

(* The stacks when the node for tasks is open, and the nodes of the task.  *)
AllocFinish(t) ==
  IF Top(last_nodes[t]).finish_flag THEN Top(last_nodes[t])
  ELSE [NewNode(node_ctr + 2, "FINISH", Top(last_nodes[t])) EXCEPT !.finish_flag = TRUE]

AllocAsync(t) ==
  NewNode(IF Top(last_nodes[t]).finish_flag THEN node_ctr + 2 ELSE node_ctr + 3, "ASYNC",
          AllocFinish(t))

AllocStack(t) ==
  IF Top(last_nodes[t]).finish_flag THEN last_nodes[t]
  ELSE Append(last_nodes[t], AllocFinish(t))

AllocView(t) ==
  IF Stepped(t).nodes[Last(Stepped(t).stack)].finish_flag THEN Stepped(t)
  ELSE PushNode(Stepped(t), node_ctr' - 1, TaskFinish)

Creator(t) == SetLevel(WithStep(t), [Here(t) EXCEPT !.unwaited = TRUE])

LEMMA AllocDrawn ==
  ASSUME OnlineInv, NEW t \in Threads, InRegionCode(t),
         node_ctr' = node_ctr + 1 + IF Top(last_nodes[t]).finish_flag THEN 1 ELSE 2,
         NEW lo, NEW m, NEW sh, AtWork(t, lo, m, sh)
  PROVE  /\ node_ctr' - 1 \in Nat /\ node_ctr' \in Nat /\ node_ctr <= node_ctr' - 1
         /\ node_ctr' - 1 < node_ctr' /\ node_ctr \in Nat
         /\ Drawn(AllocView(t), node_ctr' - 1, AllocStack(t), lo, m, sh, Origin(t, DOMAIN taskMap))
         /\ AllocAsync(t) \in NodeRecord /\ AllocAsync(t).id = node_ctr'
         /\ PlainAsync(AllocAsync(t)) /\ AllocAsync(t).finish_flag = FALSE
         /\ Topmost(Creator(t), AllocStack(t), lo, Ground(t))
         /\ IsContext(Creator(t)) /\ ~Creator(t).waiting /\ Creator(t).ctx = Cur(t).ctx
  <1> DEFINE s == last_nodes[t]
             f == AllocFinish(t)
             a == AllocAsync(t)
             r == AllocStack(t)
             u == Stepped(t)
             d == node_ctr' - 1
             from == Origin(t, DOMAIN taskMap)
             opened == Top(s).finish_flag
             cr == Creator(t)
             g == Ground(t)
  <1>1. InWork(t) /\ ~Cur(t).waiting /\ IsContext(Cur(t))
    BY WorkDrawn
  <1>2. /\ AtPlace(t, lo, m) /\ sh = SharedSize(Cur(t), Shut(t))
        /\ Drawn(u, node_ctr, s, lo, m, sh, from)
    BY DEF AtWork
  <1>3. node_ctr \in Nat /\ s \in Seq(NodeRecord) /\ TypeOK
    BY DEF OnlineInv, StacksInv, TeamInv, TypeOK
  <1>4. /\ d \in Nat /\ node_ctr' \in Nat /\ node_ctr <= d /\ d < node_ctr'
        /\ opened => node_ctr' = node_ctr + 2
        /\ ~opened => node_ctr' = node_ctr + 3 /\ d = node_ctr + 2 /\ node_ctr < d
    <2> DEFINE b == IF opened THEN 1 ELSE 2
    <2>1. b \in {1, 2} /\ (opened => b = 1) /\ (~opened => b = 2) /\ node_ctr' = node_ctr + 1 + b
      OBVIOUS
    <2> HIDE DEF b, s
    <2>2. QED
      BY <1>3, <2>1
  <1>5. /\ f \in NodeRecord /\ f.finish_flag /\ (~opened => f.parent = Top(s).id)
        /\ a \in NodeRecord /\ PlainAsync(a)
    <2>1. /\ f = IF Top(s).finish_flag THEN Top(s)
                 ELSE [NewNode(node_ctr + 2, "FINISH", Top(s)) EXCEPT !.finish_flag = TRUE]
          /\ a = NewNode(IF Top(s).finish_flag THEN node_ctr + 2 ELSE node_ctr + 3, "ASYNC", f)
      BY DEF AllocFinish, AllocAsync
    <2> HIDE DEF f, a, s
    <2>2. QED
      BY <1>3, <2>1, AllocNodes
  <1>6. a.id = node_ctr'
    <2>1. CASE opened
      <3>1. a = NewNode(node_ctr + 2, "ASYNC", f)
        BY <2>1 DEF AllocAsync
      <3>2. QED
        BY <1>4, <2>1, <3>1 DEF NewNode
    <2>2. CASE ~opened
      <3>1. a = NewNode(node_ctr + 3, "ASYNC", f)
        BY <2>2 DEF AllocAsync
      <3>2. QED
        BY <1>4, <2>2, <3>1 DEF NewNode
    <2>3. QED
      BY <2>1, <2>2
  <1>7. a.finish_flag = FALSE /\ f.finish_flag = TRUE
    <2> HIDE DEF a, f
    <2>1. a.finish_flag \in BOOLEAN /\ ~a.finish_flag /\ f.finish_flag \in BOOLEAN
      BY <1>5 DEF NodeRecord, PlainAsync
    <2>2. QED
      BY <1>5, <2>1
  <1>8. Len(s) > lo /\ Len(s) - lo > sh
    BY <1>1, <1>2, WorkSizes
  <1>9. u.nodes[Last(u.stack)].finish_flag = opened
    <2> HIDE DEF u, s, from
    <2>1. QED
      BY <1>2, <1>8, DrawnTop
  <1>10. Drawn(AllocView(t), d, r, lo, m, sh, from)
    <2>1. CASE opened
      <3>1. AllocView(t) = u /\ r = s
        BY <1>9, <2>1 DEF AllocView, AllocStack
      <3> HIDE DEF u, r, s, d, from
      <3>2. Drawn(u, d, s, lo, m, sh, from)
        BY <1>2, <1>4, DrawnMore
      <3>3. QED
        BY <3>1, <3>2
    <2>2. CASE ~opened
      <3> DEFINE v == PushNode(u, d, TaskFinish)
                 z == TaskFinish
      <3>1. AllocView(t) = v /\ r = Append(s, f)
        BY <1>9, <2>2 DEF AllocView, AllocStack
      <3>2. f.id = d
        BY <1>4, <2>2 DEF AllocFinish, NewNode
      <3>3. PushedFor(z, f, Len(s) - lo < sh)
        <4> HIDE DEF f
        <4>1. QED
          BY <1>7, TaskFinishPushed
      <3>4. d \in Nat /\ node_ctr < d
        BY <1>4, <2>2
      <3>5. v = PushNode(u, d, z)
        OBVIOUS
      <3> HIDE DEF u, r, s, d, from, v, z, f
      <3>6. Drawn(v, d, Append(s, f), lo, m, sh, from)
        BY <1>2, <1>5, <3>2, <3>3, <3>4, <3>5, DrawnPush
      <3>7. QED
        BY <3>1, <3>6
    <2>3. QED
      BY <2>1, <2>2
  <1>11. /\ IsContext(cr) /\ SameBelow(Cur(t), cr)
         /\ cr.ctx = Cur(t).ctx /\ cr.waiting = Cur(t).waiting
         /\ Last(cr.levels).kind = Last(Cur(t).levels).kind
         /\ Last(cr.levels).unwaited
    BY <1>1, NewUnwaited DEF Creator
  <1>12. Topmost(cr, r, lo, g)
    <2>1. Topmost(Cur(t), s, lo, g)
      BY <1>2, PlaceBased
    <2> DEFINE n == [NewNode(node_ctr + 2, "FINISH", Top(s)) EXCEPT !.finish_flag = TRUE]
    <2>2. n \in NodeRecord /\ n.finish_flag /\ n.parent = Top(s).id
      <3>1. node_ctr + 2 \in Nat /\ Top(s) \in NodeRecord
        BY <1>3, TopType
      <3>2. NewNode(node_ctr + 2, "FINISH", Top(s)) \in NodeRecord
        BY <3>1, NewNodeType
      <3>3. QED
        BY <3>2 DEF NewNode, NodeRecord
    <2>3. r = IF Top(s).finish_flag THEN s ELSE Append(s, n)
      BY DEF AllocStack, AllocFinish
    <2> DEFINE f1 == Cur(t)
    <2> HIDE DEF n, s, r, cr, g, f1
    <2>4. Topmost(f1, s, lo, g) /\ IsContext(cr) /\ SameBelow(f1, cr)
          /\ Last(cr.levels).kind = Last(f1.levels).kind /\ Last(cr.levels).unwaited
      BY <1>11, <2>1 DEF f1
    <2>5. QED
      BY <2>2, <2>3, <2>4, NodesAlloc
  <1> HIDE DEF s, f, a, r, u, cr, g
  <1>13. QED
    BY <1>1, <1>3, <1>4, <1>5, <1>6, <1>7, <1>10, <1>11, <1>12 DEF a, r, cr, g, d

(* The end of OnTaskAlloc, when the task is not begun at once.             *)
Deferred(t, v) ==
  [v EXCEPT !.nodes = With(@, node_ctr', AllocNode(Last(v.stack))),
            !.sited = With(@, node_ctr', AllocNode(Last(v.stack)).callSiteId)]

LEMMA TaskAllocActs ==
  ASSUME OnlineInv, NEW t \in Threads, NEW now \in BOOLEAN, OnTaskAlloc(t, now)
  PROVE  /\ InRegionCode(t) /\ SameRuntime
         /\ node_ctr' = node_ctr + 1 + IF Top(last_nodes[t]).finish_flag THEN 1 ELSE 2
         /\ Len(tasks) + 1 <= MaxTasks
         /\ ~now => /\ Shows(t, Deferred(t, AllocView(t)))
                    /\ last_nodes' = [last_nodes EXCEPT ![t] = AllocStack(t)]
                    /\ frames' = [frames EXCEPT ![t] = WithLast(frames[t], Creator(t))]
                    /\ taskMap' = [j \in DOMAIN taskMap \union {Len(tasks) + 1} |->
                         IF j = Len(tasks) + 1 THEN AllocAsync(t) ELSE taskMap[j]]
         /\ now => /\ Shows(t, PushNode(AllocView(t), node_ctr', AllocNode(Last(AllocView(t).stack))))
                   /\ last_nodes' = [last_nodes EXCEPT ![t] = Append(AllocStack(t), AllocAsync(t))]
                   /\ frames' = [frames EXCEPT ![t] =
                        Push(WithLast(frames[t], Creator(t)), Frame(Len(tasks) + 1, Creator(t).past))]
                   /\ taskMap' = taskMap
  <1> DEFINE s == last_nodes[t]
             k == Len(tasks) + 1
             f == AllocFinish(t)
             a == AllocAsync(t)
             r == AllocStack(t)
             cr == Creator(t)
             v == AllocView(t)
             x == AllocNode(Last(v.stack))
             g == Frame(k, cr.past)
  <1>1. /\ InRegionCode(t) /\ k <= MaxTasks
        /\ Handle(t, IF Top(s).finish_flag THEN 1 ELSE 2, {f, a},
                  IF now THEN Append(r, a) ELSE r)
        /\ taskMap' = IF now THEN taskMap
                      ELSE [j \in DOMAIN taskMap \union {k} |-> IF j = k THEN a ELSE taskMap[j]]
        /\ frames' = [frames EXCEPT ![t] = Append(Pop(@), cr) \o IF now THEN <<g>> ELSE <<>>]
    BY DEF OnTaskAlloc, TaskAlloc, AllocFinish, AllocAsync, AllocStack, Creator
  <1>2. Shows(t, IF now THEN PushNode(v, node_ctr', x) ELSE Deferred(t, v))
    BY DEF OnTaskAlloc, AllocView, AllocNode, Deferred
  <1>3. IsSequence(frames[t]) /\ frames[t] # <<>>
    <2>1. InWork(t)
      BY <1>1, WorkDrawn
    <2>2. QED
      BY <2>1, ContextsOf DEF InWork, OnlineInv
  <1> DEFINE fr == frames[t]
  <1>4. /\ Append(Pop(fr), cr) \o <<>> = WithLast(fr, cr)
        /\ Append(Pop(fr), cr) \o <<g>> = Push(WithLast(fr, cr), g)
    <2> HIDE DEF fr, cr, g
    <2>1. IsSequence(fr) /\ fr # <<>>
      BY <1>3 DEF fr
    <2>2. QED
      BY <2>1, PopAndPush, PushAfter
  <1>5. /\ SameRuntime
        /\ node_ctr' = node_ctr + 1 + IF Top(s).finish_flag THEN 1 ELSE 2
        /\ last_nodes' = [last_nodes EXCEPT ![t] = IF now THEN Append(r, a) ELSE r]
    <2> DEFINE n == IF Top(s).finish_flag THEN 1 ELSE 2
               q == IF now THEN Append(r, a) ELSE r
               z == {f, a}
    <2>1. Handle(t, n, z, q)
      BY <1>1
    <2> HIDE DEF n, q, z
    <2>2. SameRuntime /\ node_ctr' = node_ctr + 1 + n /\ last_nodes' = [last_nodes EXCEPT ![t] = q]
      BY <2>1, HandleRuntime
    <2>3. QED
      BY <2>2 DEF n, q
  <1>6. CASE ~now
    <2>1. frames' = [frames EXCEPT ![t] = Append(Pop(fr), cr) \o <<>>]
      BY <1>1, <1>6
    <2>2. frames' = [frames EXCEPT ![t] = WithLast(frames[t], cr)]
      BY <1>4, <2>1
    <2> HIDE DEF cr, g, r, a, v, x, s
    <2>3. QED
      BY <1>1, <1>2, <1>5, <1>6, <2>2 DEF cr, r, a, v, s
  <1>7. CASE now
    <2>1. frames' = [frames EXCEPT ![t] = Append(Pop(fr), cr) \o <<g>>]
      BY <1>1, <1>7
    <2>2. frames' = [frames EXCEPT ![t] = Push(WithLast(frames[t], cr), g)]
      BY <1>4, <2>1
    <2> HIDE DEF cr, g, r, a, v, x, s
    <2>3. QED
      BY <1>1, <1>2, <1>5, <1>7, <2>2 DEF cr, r, a, v, x, s, g
  <1>8. QED
    BY <1>6, <1>7

(* captureTaskAlloc: the node of the task waits in taskMap.                *)
LEMMA TaskDeferredOnline ==
  ASSUME OnlineInv, StacksInv', EventsInv', NEW t \in Threads, OnTaskAlloc(t, FALSE)
  PROVE  OnlineInv'
  <1> DEFINE k == Len(tasks) + 1
             a == AllocAsync(t)
             r == AllocStack(t)
             cr == Creator(t)
             v == AllocView(t)
             x == AllocNode(Last(v.stack))
             w == Deferred(t, v)
             K == DOMAIN taskMap
             from == Origin(t, K)
             c == node_ctr'
             d == node_ctr' - 1
  <1>1. /\ InRegionCode(t) /\ SameRuntime
        /\ c = node_ctr + 1 + IF Top(last_nodes[t]).finish_flag THEN 1 ELSE 2
        /\ k <= MaxTasks /\ Shows(t, w)
        /\ last_nodes' = [last_nodes EXCEPT ![t] = r]
        /\ frames' = [frames EXCEPT ![t] = WithLast(frames[t], cr)]
        /\ taskMap' = [j \in K \union {k} |-> IF j = k THEN a ELSE taskMap[j]]
    <2>1. FALSE \in BOOLEAN
      OBVIOUS
    <2>2. QED
      BY <2>1, TaskAllocActs
  <1>2. InWork(t) /\ ~Cur(t).waiting
    BY <1>1, WorkDrawn
  <1>3. PICK lo \in Nat, m \in Nat, sh \in Nat : AtWork(t, lo, m, sh)
    BY <1>1, WorkDrawn
  <1>4. AtPlace(t, lo, m) /\ sh = SharedSize(Cur(t), Shut(t))
    BY <1>3 DEF AtWork
  <1>5. /\ d \in Nat /\ c \in Nat /\ node_ctr <= d /\ d < c /\ node_ctr \in Nat
        /\ Drawn(v, d, r, lo, m, sh, from)
        /\ a \in NodeRecord /\ a.id = c /\ PlainAsync(a) /\ a.finish_flag = FALSE
        /\ ~cr.waiting /\ cr.ctx = Cur(t).ctx
    BY <1>1, <1>3, AllocDrawn
  <1>6. /\ MemoryInv /\ OnceInv /\ MapInv /\ PendingInv /\ RecordsInv
    BY DEF OnlineInv, StacksInv
  <1>7. /\ IsNode(x) /\ ~x.is_barrier_finish /\ x.callSiteId # "region" /\ x.finish_flag = FALSE
    <2> HIDE DEF a
    <2>1. QED
      BY <1>5, TaskNodes
  <1>8. /\ IsView(w) /\ w.nodes = With(v.nodes, c, x) /\ w.stack = v.stack
    <2>1. IsView(v)
      <3> HIDE DEF v, r, from, d
      <3>1. QED
        BY <1>5 DEF Drawn, Placed
    <2> DEFINE y == With(v.nodes, c, x)
               z == With(v.sited, c, x.callSiteId)
    <2>2. w = [v EXCEPT !.nodes = y, !.sited = z]
      BY DEF Deferred
    <2> HIDE DEF v, w, y, z
    <2>3. IsView(w) /\ w.nodes = y /\ w.stack = v.stack
      BY <2>1, <2>2 DEF IsView
    <2>4. QED
      BY <2>3 DEF y
  <1> HIDE DEF a, r, cr, v, x, w, K, from, c, d
  <1>9. /\ Drawn(w, c, r, lo, m, sh, from) /\ w.nodes[c] = x /\ c \in DOMAIN w.nodes
        /\ \A j \in 1..Len(w.stack) : w.stack[j] # c
    BY <1>5, <1>7, <1>8, DrawnWith
  <1>10. Turns(t, w) /\ \A u \in Threads \ {t} : open'[u] = open[u]
    BY <1>1, <1>6, ShowsTurns
  <1>11. Drawn(w, node_ctr', r, lo, m, sh, Origin(t, K)) /\ K \subseteq DOMAIN taskMap
    BY <1>9 DEF c, from, K
  <1>12. /\ OnlineStack(t)' /\ m <= Len(open[t])
         /\ \A u \in Threads \ {t} : OtherSame(u)
    BY <1>1, <1>2, <1>4, <1>5, <1>10, <1>11, WorkReplaced
  <1>13. \A l \in K : /\ Private(node', taskMap[l].id) /\ node'[taskMap[l].id].finish_flag = FALSE
                      /\ taskMap[l].id \in 1..node_ctr
                      /\ \A u \in Threads : \A j \in 1..Len(open'[u]) :
                           open'[u][j] # taskMap[l].id
    BY <1>6, <1>10, <1>11, <1>12, TurnMap
  <1>14. /\ Private(node', c) /\ node'[c].finish_flag = FALSE
         /\ \A u \in Threads : \A j \in 1..Len(open'[u]) : open'[u][j] # c
    <2>1. node' = w.nodes /\ open'[t] = w.stack
      BY <1>10 DEF Turns
    <2>2. Private(node', c) /\ node'[c].finish_flag = FALSE
      BY <1>7, <1>9, <2>1 DEF Private
    <2>3. ASSUME NEW u \in Threads \ {t}, NEW j \in 1..Len(open[u])
          PROVE  open[u][j] # c
      <3>1. open[u][j] \in 1..node_ctr
        BY <1>6 DEF MemoryInv
      <3>2. QED
        BY <1>5, <3>1
    <2>4. QED
      BY <1>9, <1>10, <2>1, <2>2, <2>3
  <1>15. k \notin K /\ DOMAIN taskMap' = K \union {k} /\ taskMap'[k] = a
         /\ \A l \in K : taskMap'[l] = taskMap[l]
    <2>1. K \subseteq 1..Len(tasks) /\ Len(tasks) \in Nat
      BY <1>6, LengthType DEF RecordsInv, K
    <2>2. k \notin K
      BY <2>1
    <2> HIDE DEF k
    <2>3. QED
      BY <1>1, <2>2
  <1>16. MapInv'
    <2> HIDE DEF k
    <2> DEFINE tm == taskMap'
               o  == open'
               nd == node'
    <2>1. ASSUME NEW l \in K, NEW l2 \in K, taskMap[l2].id = taskMap[l].id
          PROVE  l2 = l
      BY <1>6, <2>1 DEF MapInv, Waiting, K
    <2>2. ASSUME NEW l \in K
          PROVE  taskMap[l].id # c
      BY <1>5, <1>13
    <2>3. ASSUME NEW l \in K
          PROVE  \A l2 \in K \union {k} : tm[l2].id = tm[l].id => l2 = l
      BY <1>5, <1>15, <2>1, <2>2
    <2>4. \A l2 \in K \union {k} : tm[l2].id = tm[k].id => l2 = k
      BY <1>5, <1>15, <2>2
    <2>5. ASSUME NEW l \in K
          PROVE  /\ Private(nd, tm[l].id) /\ nd[tm[l].id].finish_flag = FALSE
                 /\ \A u \in Threads : \A j \in 1..Len(o[u]) : o[u][j] # tm[l].id
      BY <1>13, <1>15
    <2>6. /\ Private(nd, tm[k].id) /\ nd[tm[k].id].finish_flag = FALSE
          /\ \A u \in Threads : \A j \in 1..Len(o[u]) : o[u][j] # tm[k].id
      BY <1>5, <1>14, <1>15
    <2>7. \A l \in DOMAIN tm :
            /\ Private(nd, tm[l].id) /\ nd[tm[l].id].finish_flag = FALSE
            /\ \A u \in Threads : \A j \in 1..Len(o[u]) : o[u][j] # tm[l].id
            /\ \A l2 \in DOMAIN tm : tm[l2].id = tm[l].id => l2 = l
      BY <1>15, <2>3, <2>4, <2>5, <2>6
    <2>8. QED
      BY <2>7 DEF MapInv, Waiting
  <1>17. PendingInv'
    <2>1. \A j \in 1..Len(pendingFinish) :
            pendingFinish[j].id \in 1..node_ctr' /\ ~Private(node', pendingFinish[j].id)
      BY <1>6, <1>10, <1>11, <1>12, TurnPending
    <2>2. QED
      BY <1>1, <2>1 DEF PendingInv, SameRuntime
  <1>18. QED
    BY <1>10, <1>11, <1>12, <1>16, <1>17, TurnEnd

(* The context of a task that begins has its ASYNC node.                   *)
LEMMA TaskFrame ==
  ASSUME NEW k, IsTask(k), k \in Contexts, NEW p, NEW g
  PROVE  /\ IsContext(Frame(k, p)) /\ ~Frame(k, p).waiting
         /\ FrameSize(Frame(k, p), g) = 1 /\ SharedSize(Frame(k, p), g) = 0
         /\ Extra(Frame(k, p)) = 0
  <1> DEFINE f == Frame(k, p)
  <1>1. /\ IsContext(f) /\ f.ctx = k /\ ~f.waiting
        /\ Len(f.levels) = 1 /\ f.levels[1] = Level("body")
        /\ Last(f.levels) = Level("body")
    BY NewContext
  <1> HIDE DEF f
  <1>2. ~(f.ctx > MaxTasks)
    BY <1>1, TaskContext
  <1>3. LevelSize(Level("body")) = 0
    <2> DEFINE l == Level("body")
    <2>1. l.kind = "body" /\ l.unwaited = FALSE
      BY DEF Level
    <2> HIDE DEF l
    <2>2. QED
      BY <2>1 DEF LevelSize, Opens, l
  <1>4. Size(f, g) = 1 /\ SharedSize(f, g) = 0 /\ Extra(f) = 0
    BY <1>1, <1>2 DEF Size, SharedSize, Extra
  <1>5. FrameSize(f, g) = 1
    BY <1>1, <1>3, <1>4 DEF FrameSize, LevelAt
  <1>6. QED
    BY <1>1, <1>4, <1>5 DEF f

LEMMA PushTwoFrames ==
  ASSUME NEW fr, IsSequence(fr), fr # <<>>, NEW f, NEW g, NEW u, u = Push(WithLast(fr, f), g)
  PROVE  /\ Len(fr) \in Nat \ {0} /\ Len(u) = Len(fr) + 1
         /\ u[Len(fr)] = f /\ u[Len(fr) + 1] = g
         /\ \A i \in 1..(Len(fr) - 1) : u[i] = fr[i]
  <1> DEFINE v == WithLast(fr, f)
  <1>1. Len(fr) \in Nat \ {0}
    BY LengthType
  <1>2. /\ IsSequence(v) /\ Len(v) = Len(fr) /\ v[Len(v)] = f
        /\ \A i \in 1..Len(v) : i < Len(v) => v[i] = fr[i]
    BY ReplaceLast
  <1>3. u = Push(v, g)
    OBVIOUS
  <1> HIDE DEF v
  <1>4. /\ Len(u) = Len(v) + 1 /\ u[Len(u)] = g
        /\ \A i \in 1..Len(u) : i < Len(u) => i \in 1..Len(v) /\ u[i] = v[i]
    BY <1>2, <1>3, PushLast
  <1>5. ASSUME NEW i \in 1..Len(fr) PROVE u[i] = v[i]
    <2>1. i \in 1..Len(u) /\ i < Len(u)
      BY <1>1, <1>2, <1>4
    <2>2. QED
      BY <1>4, <2>1
  <1>6. Len(fr) \in 1..Len(fr)
    BY <1>1
  <1>7. ASSUME NEW i \in 1..(Len(fr) - 1) PROVE u[i] = fr[i]
    <2>1. i \in 1..Len(fr) /\ i < Len(v)
      BY <1>1, <1>2
    <2>2. QED
      BY <1>2, <1>5, <2>1
  <1>8. QED
    BY <1>1, <1>2, <1>4, <1>5, <1>6, <1>7

(* captureTaskAlloc and captureTaskBegin at once: a context more, on top   *)
(* of that of the creator.                                                 *)
LEMMA TaskUndeferredOnline ==
  ASSUME OnlineInv, StacksInv', EventsInv', NEW t \in Threads, OnTaskAlloc(t, TRUE)
  PROVE  OnlineInv'
  <1> DEFINE k == Len(tasks) + 1
             a == AllocAsync(t)
             r == AllocStack(t)
             cr == Creator(t)
             v == AllocView(t)
             x == AllocNode(Last(v.stack))
             w == PushNode(v, node_ctr', x)
             K == DOMAIN taskMap
             from == Origin(t, K)
             c == node_ctr'
             d == node_ctr' - 1
             p == Frame(k, cr.past)
             fr == Push(WithLast(frames[t], cr), p)
             q == Append(r, a)
             n == Len(frames[t]) - 1
             g == Shut(t)
  <1>1. /\ InRegionCode(t) /\ SameRuntime
        /\ c = node_ctr + 1 + IF Top(last_nodes[t]).finish_flag THEN 1 ELSE 2
        /\ k <= MaxTasks /\ Shows(t, w)
        /\ last_nodes' = [last_nodes EXCEPT ![t] = q]
        /\ frames' = [frames EXCEPT ![t] = fr]
        /\ taskMap' = taskMap
    <2>1. TRUE \in BOOLEAN
      OBVIOUS
    <2>2. QED
      BY <2>1, TaskAllocActs
  <1>2. InWork(t) /\ ~Cur(t).waiting
    BY <1>1, WorkDrawn
  <1>3. PICK lo \in Nat, m \in Nat, sh \in Nat : AtWork(t, lo, m, sh)
    BY <1>1, WorkDrawn
  <1>4. AtPlace(t, lo, m) /\ sh = SharedSize(Cur(t), g)
    BY <1>3 DEF AtWork
  <1>5. /\ d \in Nat /\ c \in Nat /\ node_ctr <= d /\ d < c /\ node_ctr \in Nat
        /\ Drawn(v, d, r, lo, m, sh, from)
        /\ a \in NodeRecord /\ a.id = c /\ PlainAsync(a) /\ a.finish_flag = FALSE
        /\ ~cr.waiting /\ cr.ctx = Cur(t).ctx /\ IsContext(cr)
        /\ Topmost(cr, r, lo, Ground(t))
    BY <1>1, <1>3, AllocDrawn
  <1>6. /\ MemoryInv /\ OnceInv /\ StacksInv /\ RecordsInv
    BY DEF OnlineInv, StacksInv
  <1>7. PushedFor(x, a, Len(r) - lo < sh)
    <2> HIDE DEF a
    <2>1. QED
      BY <1>5, TaskNodes
  <1>8. k \in Contexts /\ IsTask(k)
    BY <1>1, <1>6, TaskAssumption, RegionAssumption, LengthType
       DEF RecordsInv, IsTask, Contexts
  <1>9. pendingFinish' = pendingFinish /\ w = PushNode(v, c, x) /\ K \subseteq DOMAIN taskMap
    BY <1>1 DEF SameRuntime
  <1> HIDE DEF a, r, cr, v, x, w, K, from, c, d, k
  <1>10. Drawn(w, c, q, lo, m, sh, from)
    BY <1>5, <1>7, <1>9, DrawnPush
  <1>11. Turns(t, w) /\ \A u \in Threads \ {t} : open'[u] = open[u]
    BY <1>1, <1>6, ShowsTurns
  <1>12. Drawn(w, node_ctr', q, lo, m, sh, Origin(t, K))
    BY <1>10 DEF c, from
  <1> HIDE DEF p, fr, q
  <1>13. /\ \A u \in Threads \ {t} : OtherSame(u)
         /\ Held(t)' <=> Held(t)
         /\ OverSize(t)' = OverSize(t) /\ Shut(t)' = Shut(t) /\ Ground(t)' = Ground(t)
         /\ frames'[t] = fr /\ last_nodes'[t] = q
    BY <1>1, <1>6, <1>11, SameElsewhere
  <1>14. OverSize(t)' = 0 /\ ~Held(t)'
    BY <1>2, <1>13, WorkPlace
  <1>15. /\ Based(t, n, lo, m) /\ IsSequence(frames[t]) /\ frames[t] # <<>>
         /\ m <= Len(open[t]) /\ lo \in Nat /\ m \in Nat
         /\ Len(frames[t]) \in Nat \ {0}
    BY <1>4, PlaceBased DEF Based
  <1>16. /\ Len(fr) = n + 2 /\ fr[n + 1] = cr /\ fr[(n + 1) + 1] = p
         /\ \A i \in 1..n : fr[i] = frames[t][i]
         /\ n \in Nat /\ n + 1 \in Nat /\ Len(fr) = (n + 1) + 1
    <2> DEFINE N == Len(frames[t])
    <2>1. /\ N \in Nat \ {0} /\ Len(fr) = N + 1 /\ fr[N] = cr /\ fr[N + 1] = p
          /\ \A i \in 1..(N - 1) : fr[i] = frames[t][i]
      BY <1>15, PushTwoFrames DEF fr
    <2> HIDE DEF N, fr
    <2>2. n = N - 1
      BY DEF N
    <2> HIDE DEF n
    <2>3. QED
      BY <2>1, <2>2
  <1> HIDE DEF n
  <1>17. LowerKept(t, n)
    BY <1>13, <1>16 DEF LowerKept
  <1> DEFINE o == open'[t]
             nd == node'
             F == FrameSize(cr, g)
             h == lo + F
             e == m + F
  <1>18. o = w.stack /\ nd = w.nodes
    BY <1>11 DEF Turns
  <1>19. Twins(fr, n, q, lo, o, m, g, nd)
    <2>1. Twins(frames'[t], n, q, lo, o, m, Shut(t)', nd)
      BY <1>6, <1>9, <1>11, <1>12, <1>15, <1>17, BaseKept
    <2> HIDE DEF g
    <2>2. QED
      BY <1>13, <2>1 DEF g
  <1>20. /\ F \in Nat \ {0} /\ Extra(cr) = 0 /\ sh <= F /\ sh \in 0..2
         /\ sh = SharedSize(cr, g)
    <2> HIDE DEF g
    <2>1. F \in Nat \ {0} /\ SharedSize(cr, g) <= F /\ SharedSize(cr, g) \in 0..2
      BY <1>5, FrameSizes
    <2>2. sh = SharedSize(cr, g)
      BY <1>4, <1>5 DEF SharedSize
    <2>3. QED
      BY <1>5, <2>1, <2>2 DEF Extra
  <1>21. Len(r) = lo + F /\ r \in Seq(NodeRecord)
    <2> DEFINE b == Ground(t)
    <2>1. FrameNodes(cr, r, lo, Len(r), b) /\ r \in Seq(NodeRecord)
      BY <1>5 DEF Topmost
    <2>2. b.closed = g.closed
      BY ShutClosed
    <2> HIDE DEF b, g
    <2>3. Len(r) = lo + FrameSize(cr, b)
      BY <1>5, <1>15, <2>1, PartsEnd
    <2>4. FrameSize(cr, b) = F
      BY <2>2, SizeClosed
    <2>5. QED
      BY <2>1, <2>3, <2>4
  <1>22. Len(q) = lo + F + 1 /\ Len(o) = m + F + 1
    <2>1. Len(q) = Len(r) + 1
      BY <1>5, <1>21, AppendProperties DEF q
    <2>2. Len(w.stack) = m + (Len(q) - lo)
      BY <1>10 DEF Drawn, Aligned
    <2> HIDE DEF F
    <2>3. QED
      BY <1>15, <1>18, <1>20, <1>21, <2>1, <2>2
  <1>23. /\ IsContext(p) /\ ~p.waiting /\ FrameSize(p, g) = 1 /\ SharedSize(p, g) = 0
         /\ Extra(p) = 0
    BY <1>8, TaskFrame DEF p
  <1> HIDE DEF F, g, o, nd
  <1>24. Parts(cr, q, lo, o, m, g, nd)
    <2>1. 0 \in Nat /\ lo = lo + 0 /\ m = m + 0 /\ lo + FrameSize(cr, g) <= Len(q)
          /\ sh <= 0 + SharedSize(cr, g)
      BY <1>15, <1>20, <1>22 DEF F
    <2> DEFINE y == lo
               z == m
    <2>2. y = lo + 0 /\ z = m + 0 /\ y + FrameSize(cr, g) <= Len(q)
      BY <2>1
    <2> HIDE DEF y, z
    <2>3. Parts(cr, q, y, w.stack, z, g, w.nodes)
      BY <1>5, <1>10, <2>1, <2>2, DrawnParts
    <2>4. QED
      BY <1>18, <2>3 DEF y, z
  <1>25. Parts(p, q, h, o, e, g, nd)
    <2>1. F \in Nat /\ h = lo + F /\ e = m + F /\ h + FrameSize(p, g) <= Len(q)
          /\ sh <= F + SharedSize(p, g)
      BY <1>15, <1>20, <1>22, <1>23
    <2> HIDE DEF h, e
    <2>2. Parts(p, q, h, w.stack, e, g, w.nodes)
      BY <1>10, <1>23, <2>1, DrawnParts
    <2>3. QED
      BY <1>18, <2>2
  <1>26. Twins(fr, n + 1, q, h, o, e, g, nd)
    <2>1. /\ IsContext(fr[n + 1]) /\ h = lo + FrameSize(fr[n + 1], g)
          /\ e = m + FrameSize(fr[n + 1], g) + Extra(fr[n + 1])
          /\ Parts(fr[n + 1], q, lo, o, m, g, nd)
      BY <1>5, <1>15, <1>16, <1>20, <1>24 DEF F
    <2> HIDE DEF h, e
    <2>2. QED
      BY <1>15, <1>16, <1>19, <2>1, TwinsLay
  <1>27. Twins(fr, Len(fr), q, Len(q), o, Len(o), g, nd)
    <2> DEFINE j == n + 1
               h2 == Len(q)
               e2 == Len(o)
    <2>1. /\ IsContext(fr[j + 1]) /\ h2 = h + FrameSize(fr[j + 1], g)
          /\ e2 = e + FrameSize(fr[j + 1], g) + Extra(fr[j + 1])
          /\ Parts(fr[j + 1], q, h, o, e, g, nd) /\ h \in Nat /\ e \in Nat /\ j \in Nat
          /\ Len(fr) = j + 1 /\ Twins(fr, j, q, h, o, e, g, nd)
      BY <1>15, <1>16, <1>20, <1>22, <1>23, <1>25, <1>26
    <2> HIDE DEF h, e, j, h2, e2
    <2>2. Twins(fr, j + 1, q, h2, o, e2, g, nd)
      BY <2>1, TwinsLay
    <2>3. QED
      BY <2>1, <2>2 DEF h2, e2
  <1>28. OnlineStack(t)'
    <2>1. Len(q) \in Nat /\ Len(o) \in Nat
      BY <1>15, <1>20, <1>22
    <2>2. g = Shut(t)'
      BY <1>13 DEF g
    <2>3. /\ Len(last_nodes'[t]) \in Nat /\ Len(open'[t]) \in Nat
          /\ Twins(frames'[t], Len(frames'[t]), last_nodes'[t], Len(last_nodes'[t]),
                   open'[t], Len(open'[t]), Shut(t)', node')
      BY <1>13, <1>27, <2>1, <2>2 DEF o, nd
    <2>4. QED
      BY <1>14, <2>3, StackSettled
  <1>29. QED
    BY <1>1, <1>9, <1>11, <1>12, <1>13, <1>15, <1>28, TurnDone DEF K

LEMMA TaskAllocOnline ==
  ASSUME OnlineInv, StacksInv', EventsInv', NEW t \in Threads, NEW now \in BOOLEAN,
         OnTaskAlloc(t, now)
  PROVE  OnlineInv'
  <1>1. CASE now = TRUE
    BY <1>1, TaskUndeferredOnline
  <1>2. CASE now = FALSE
    BY <1>2, TaskDeferredOnline
  <1>3. QED
    BY <1>1, <1>2

----------------------------------------------------------------------------
(* Implicit tasks begin and end                                            *)

(* A thread that has got the nodes of the region, before its implicit      *)
(* task.                                                                   *)
LEMMA HeldPlace ==
  ASSUME OnlineInv, NEW t \in Threads, Held(t)
  PROVE  \E lo \in Nat, m \in Nat :
           /\ Based(t, Len(frames[t]), lo, m) /\ m <= Len(open[t])
           /\ Len(last_nodes[t]) = lo + 2 /\ last_nodes[t] \in Seq(NodeRecord)
           /\ Drawn(View(t), node_ctr, last_nodes[t], lo, m, 2, Origin(t, DOMAIN taskMap))
  <1> DEFINE fr == frames[t]
             n  == Len(fr)
             q  == last_nodes[t]
             o  == open[t]
             r1 == region_nodes[1]
             r2 == region_nodes[2]
             K  == DOMAIN taskMap
             v  == View(t)
             from == Origin(t, K)
             m  == Len(o) - 2
  <1>1. /\ MemoryInv /\ OnceInv /\ MapInv /\ StacksInv /\ OnlineStack(t)
        /\ TypeOK /\ r1 \in NodeRecord /\ r2 \in NodeRecord
    BY DEF OnlineInv, StacksInv, TeamInv, TypeOK
  <1>2. IsSequence(fr) /\ n \in Nat /\ \A i \in 1..n : IsContext(fr[i])
    BY <1>1, ContextsOf
  <1>3. PICK s \in Seq(NodeRecord) :
          q = s \o <<r1, r2>> /\ NodesOK(fr, s, Ground(t))
    BY <1>1 DEF StacksInv, ThreadOK, StackInv
  <1> DEFINE lo == Len(s)
  <1>4. /\ q \in Seq(NodeRecord) /\ lo \in Nat /\ Len(q) = lo + 2
        /\ \A i \in 1..lo : q[i] = s[i]
        /\ q[lo + 1] = r1 /\ q[lo + 2] = r2
    BY <1>1, <1>3, PushTwo
  <1>5. Len(o) \in Nat /\ IsSequence(o)
    BY <1>1, LengthType DEF MemoryInv
  <1>6. OverSize(t) = 2 /\ Height(t) = lo
    <2> HIDE DEF lo
    <2>1. OverSize(t) = 2 /\ Height(t) = Len(last_nodes[t]) - 2
      BY DEF OverSize, Height
    <2>2. QED
      BY <1>4, <2>1
  <1>7. /\ 2 <= Len(o) /\ \A j \in 1..2 : o[m + j] = region_nodes[j].id
        /\ Twins(fr, n, q, lo, o, m, Shut(t), node)
    BY <1>1, <1>6 DEF OnlineStack, Paired
  <1>8. m \in Nat /\ Len(o) = m + 2
    <2> HIDE DEF o
    <2>1. QED
      BY <1>5, <1>7
  <1>9. Matches(fr, n, q, lo, Ground(t))
    <2> DEFINE g == Ground(t)
    <2>1. Matches(fr, n, s, lo, g)
      BY <1>3 DEF NodesOK
    <2> HIDE DEF g, lo, q, n, fr
    <2>2. Matches(fr, n, q, lo, g)
      BY <1>2, <1>4, <2>1, SameMatch
    <2>3. QED
      BY <2>2 DEF g
  <1>10. Based(t, n, lo, m)
    BY <1>2, <1>4, <1>7, <1>8, <1>9 DEF Based
  <1>11. Aligned(v, q, lo, m, 2)
    <2>1. v.stack = o
      BY DEF View
    <2> HIDE DEF v, q, o, lo, m
    <2>2. Len(q) - lo = 2
      BY <1>4
    <2>3. ASSUME NEW j \in 1..(Len(q) - lo)
          PROVE  v.stack[m + j] = q[lo + j].id /\ ~(j > 2)
      <3>1. j = 1 \/ j = 2
        BY <2>2
      <3>2. QED
        BY <1>4, <1>7, <2>1, <3>1
    <2>4. QED
      BY <1>4, <1>8, <2>1, <2>2, <2>3 DEF Aligned
  <1>12. IsPlace(lo, m, 2) /\ Keeps(q, last_nodes[t], lo) /\ K \subseteq DOMAIN taskMap
    BY <1>4, <1>8 DEF IsPlace, Keeps
  <1>13. Drawn(v, node_ctr, q, lo, m, 2, from)
    <2> HIDE DEF q, o, lo, m, K
    <2>1. QED
      BY <1>1, <1>11, <1>12, DrawnOpen
  <1>14. QED
    BY <1>4, <1>8, <1>10, <1>13

(* captureImplicitTaskBegin.                                               *)
LEMMA ImplicitTaskBeginOnline ==
  ASSUME OnlineInv, StacksInv', EventsInv', NEW t \in Threads, OnImplicitTaskBegin(t)
  PROVE  OnlineInv'
  <1> DEFINE fr == frames[t]
             n  == Len(fr)
             f  == Frame(Implicit(t), frames[Master][1].past)
             u  == Push(fr, f)
             s  == last_nodes[t]
             a  == NewNode(node_ctr + 1, "ASYNC", Top(s))
             r  == Append(s, a)
             x  == Fresh("ASYNC", NoSite)
             v  == View(t)
             c  == node_ctr'
             w  == PushNode(v, node_ctr', x)
             K  == DOMAIN taskMap
             from == Origin(t, K)
             q  == "work"
  <1>1. /\ ImplicitTaskBegin(t) /\ TPImplicitTaskBegin(t) /\ t \in released
        /\ pc[t] = (IF t = Master THEN "forked" ELSE "idle")
        /\ TypeOK /\ TeamInv /\ StacksInv /\ MemoryInv /\ OnceInv /\ TypeOK' /\ Shows(t, w)
    BY DEF OnImplicitTaskBegin, TPImplicitTaskBegin, ImplicitTaskBegin, OnlineInv, StacksInv,
           TeamInv
  <1>2. /\ released' = released \ {t} /\ pc' = [pc EXCEPT ![t] = q]
        /\ last_nodes' = [last_nodes EXCEPT ![t] = r] /\ c = node_ctr + 1
        /\ UNCHANGED <<num_threads, pendingFinish, team, region_nodes>>
    BY <1>1 DEF ImplicitTaskBegin
  <1>3. frames' = [frames EXCEPT ![t] = u] /\ taskMap' = taskMap
    BY <1>1 DEF TPImplicitTaskBegin, Push, Untouched
  <1>4. Active /\ Active' /\ t \in Team
    BY <1>1, ImplicitTaskBeginTeam
  <1>5. Held(t)
    BY <1>1 DEF Held
  <1>6. /\ FramesOK(t, fr, pc[t], NoTaskHere(t), firstDispatch[t]) /\ n = Depth(t)
        /\ IsSequence(fr) /\ n \in Nat /\ \A i \in 1..n : IsContext(fr[i])
    <2>1. FramesOK(t, fr, pc[t], NoTaskHere(t), firstDispatch[t]) /\ NoTaskHere(t)
      BY <1>1 DEF StacksInv, ThreadOK, FramesInv, NoTaskHere
    <2>2. Ours(t, pc[t]) = Depth(t)
      BY <1>1 DEF Ours, InRegionControl, Depth
    <2>3. QED
      BY <2>1, <2>2, LengthType DEF FramesOK
  <1>7. \A i \in 1..n : ~(fr[i].ctx > MaxTasks)
    <2> SUFFICES ASSUME NEW i \in 1..n PROVE ~(fr[i].ctx > MaxTasks)
      OBVIOUS
    <2>1. t = Master /\ i = 1
      BY <1>6 DEF Depth
    <2>2. fr[i].ctx = SerialCode
      BY <1>6, <2>1 DEF FramesOK
    <2>3. QED
      BY <2>2, TaskAssumption DEF SerialCode
  <1>8. PICK lo \in Nat, m \in Nat :
          /\ Based(t, n, lo, m) /\ m <= Len(open[t])
          /\ Len(s) = lo + 2 /\ s \in Seq(NodeRecord)
          /\ Drawn(v, node_ctr, s, lo, m, 2, from)
    BY <1>5, HeldPlace
  <1>9. /\ c \in Nat /\ node_ctr < c /\ a \in NodeRecord /\ a.id = c
        /\ PushedFor(x, a, Len(s) - lo < 2)
    <2>1. node_ctr \in Nat
      BY <1>1 DEF TypeOK
    <2>2. c = node_ctr + 1 /\ c \in Nat /\ node_ctr < c
      BY <1>2, <2>1
    <2>3. NoSite # "region"
      BY DEF NoSite
    <2>4. Top(s) \in NodeRecord
      <3> HIDE DEF s
      <3>1. s # <<>>
        BY <1>8
      <3>2. QED
        BY <1>8, <3>1, TopType
    <2>5. a \in NodeRecord /\ a.id = node_ctr + 1
      BY <2>1, <2>4, NewNodeType DEF NewNode
    <2>6. PushedFor(x, a, Len(s) - lo < 2)
      BY <2>3, FreshPushed
    <2>7. QED
      BY <2>2, <2>5, <2>6
  <1>10. w = PushNode(v, c, x) /\ K \subseteq DOMAIN taskMap
    OBVIOUS
  <1> HIDE DEF s, a, x, v, c, w, K, from
  <1>11. Drawn(w, c, r, lo, m, 2, from)
    BY <1>8, <1>9, <1>10, DrawnPush
  <1>12. Drawn(w, node_ctr', r, lo, m, 2, Origin(t, K))
    BY <1>11 DEF c, from
  <1>13. Turns(t, w) /\ \A y \in Threads \ {t} : open'[y] = open[y]
    BY <1>1, ShowsTurns
  <1>14. \A y \in Threads \ {t} : y \in released' <=> y \in released
    BY <1>2
  <1> HIDE DEF u, r, f, q
  <1>15. /\ \A y \in Threads \ {t} : OtherSame(y)
         /\ frames'[t] = u /\ last_nodes'[t] = r /\ pc'[t] = q
         /\ Orphan(t)' <=> Orphan(t)
    BY <1>1, <1>2, <1>3, <1>4, <1>13, <1>14, RegionElsewhere
  <1>16. ~Held(t)' /\ OverSize(t)' = 0
    <2>1. ~Orphan(t)
      BY <1>1, <1>4, TeamType DEF Orphan, Team
    <2>2. t \notin released' /\ pc'[t] = "work"
      BY <1>2, <1>15 DEF q
    <2>3. QED
      BY <1>15, <2>1, <2>2 DEF Held, OverSize
  <1>17. Len(u) = n + 1 /\ u[n + 1] = f /\ \A i \in 1..n : u[i] = fr[i]
    <2>1. /\ Len(u) = Len(fr) + 1 /\ u[Len(u)] = f
          /\ \A i \in 1..Len(u) : i < Len(u) => i \in 1..Len(fr) /\ u[i] = fr[i]
      BY <1>6, PushLast DEF u
    <2>2. QED
      BY <1>6, <2>1
  <1>18. LowerKept(t, n)
    BY <1>7, <1>15, <1>17 DEF LowerKept
  <1>19. IsContext(f) /\ f.ctx > MaxTasks /\ ~f.waiting
    <2>1. Implicit(t) \in Contexts /\ Implicit(t) > MaxTasks
      BY TaskAssumption, RegionAssumption DEF Implicit, Contexts, Threads
    <2> DEFINE z == frames[Master][1].past
               d == Implicit(t)
    <2> HIDE DEF z, d
    <2>2. IsContext(Frame(d, z)) /\ Frame(d, z).ctx = d /\ ~Frame(d, z).waiting
      BY <2>1, NewContext DEF d
    <2>3. QED
      BY <2>1, <2>2 DEF f, d, z
  <1>20. 2 <= SharedSize(f, Shut(t)')
    <2>1. ~Shut(t)'.closed
      BY <1>15 DEF Shut, InRegionControl, q
    <2> DEFINE g == Shut(t)'
    <2>2. ~g.closed
      BY <2>1
    <2> HIDE DEF g
    <2>3. SharedSize(f, g) = 2
      BY <1>19, <2>2 DEF SharedSize
    <2>4. QED
      BY <2>3 DEF g
  <1>21. f = frames'[t][n + 1] /\ Len(frames'[t]) = n + 1
    BY <1>15, <1>17
  <1> HIDE DEF n, fr
  <1>22. OnlineStack(t)'
    BY <1>1, <1>8, <1>10, <1>12, <1>13, <1>15, <1>16, <1>18, <1>19, <1>20, <1>21,
       StackReplacedOn
  <1>23. QED
    BY <1>2, <1>3, <1>8, <1>12, <1>13, <1>15, <1>22, TurnDone DEF K

(* What the end of an implicit task leaves of its nodes: the region's.     *)
LEMMA EndPlace ==
  ASSUME OnlineInv, NEW t \in Threads, frames[t] # <<>>, Cur(t).ctx = Implicit(t),
         AtBody(t), ~Cur(t).waiting, pc[t] \in {"work", "join"},
         NEW w, w = PopNode(PopNode(CleanupFinishNode(Stepped(t)))),
         NEW d, d = Cleanup(last_nodes[t])
  PROVE  \E lo \in Nat, m \in Nat :
           /\ Based(t, Len(frames[t]) - 1, lo, m) /\ m <= Len(open[t])
           /\ Drawn(w, node_ctr, Pop(Pop(d)), lo, m, 2, Origin(t, DOMAIN taskMap))
           /\ Pop(Pop(d)) \in Seq(NodeRecord) /\ Len(Pop(Pop(d))) = lo + 1
           /\ Pop(Pop(d))[lo + 1] = region_nodes[1]
  <1> DEFINE s  == last_nodes[t]
             f  == Cur(t)
             g  == Ground(t)
             v  == Stepped(t)
             from == Origin(t, DOMAIN taskMap)
             c  == node_ctr
  <1>1. /\ f.ctx > MaxTasks /\ IsContext(f) /\ Len(f.levels) = 1
        /\ \E lo \in Nat, m \in Nat, sh \in Nat : AtWork(t, lo, m, sh)
    BY ImplicitPlace DEF AtBody
  <1>2. PICK lo \in Nat, m \in Nat, sh \in Nat : AtWork(t, lo, m, sh)
    BY <1>1
  <1>3. /\ Drawn(v, c, s, lo, m, sh, from) /\ sh = SharedSize(f, Shut(t))
        /\ Based(t, Len(frames[t]) - 1, lo, m) /\ m <= Len(open[t])
        /\ Topmost(f, s, lo, g)
    BY <1>2, PlaceBased DEF AtWork
  <1>4. ~g.closed /\ ~Shut(t).closed /\ g.region = region_nodes[1]
    BY DEF Ground, Shut, InRegionControl
  <1>5. sh = 2
    <2> DEFINE h == Shut(t)
    <2>1. sh = SharedSize(f, h) /\ ~h.closed
      BY <1>3, <1>4
    <2> HIDE DEF h, f
    <2>2. QED
      BY <1>1, <2>1 DEF SharedSize
  <1> HIDE DEF s, f, g, v, from, c
  <1>6. /\ d \in Seq(NodeRecord) /\ Len(d) = lo + 3 /\ Keeps(d, s, Len(d))
        /\ Len(s) \in {lo + 3, lo + 4}
    <2>1. /\ d \in Seq(NodeRecord)
          /\ Len(d) = LevelAt(f, lo, g) + Opens(Last(f.levels).kind)
          /\ Keeps(d, s, Len(d))
          /\ Len(s) = LevelAt(f, lo, g) + Opens(Last(f.levels).kind)
                      + IF Last(f.levels).unwaited THEN 1 ELSE 0
      BY <1>3, CleanedNodes DEF s
    <2>2. Opens(Last(f.levels).kind) = 0
      <3>1. Last(f.levels).kind = "body"
        BY <1>1 DEF IsContext, Last
      <3>2. QED
        BY <3>1 DEF Opens
    <2>3. Size(f, g) = 3
      BY <1>1, <1>4 DEF Size
    <2>4. LevelAt(f, lo, g) = lo + 3
      BY <1>1, <2>3 DEF LevelAt
    <2> DEFINE b == IF Last(f.levels).unwaited THEN 1 ELSE 0
    <2>5. Len(s) = lo + 3 + b /\ (b = 0 \/ b = 1)
      BY <2>1, <2>2, <2>4
    <2> HIDE DEF b
    <2>6. Len(d) = lo + 3 /\ Len(s) \in {lo + 3, lo + 4}
      BY <2>1, <2>2, <2>4, <2>5
    <2>7. QED
      BY <2>1, <2>6
  <1>7. d[lo + 1] = region_nodes[1]
    <2>1. s[lo + 1] = g.region
      BY <1>1, <1>3 DEF Topmost, FrameNodes, OwnNodes
    <2>2. d[lo + 1] = s[lo + 1]
      <3>1. lo + 1 \in 1..Len(d)
        BY <1>6
      <3>2. QED
        BY <1>6, <3>1 DEF Keeps
    <2>3. QED
      BY <1>4, <2>1, <2>2
  <1>8. /\ Pop(d) \in Seq(NodeRecord) /\ Len(Pop(d)) = lo + 2
        /\ \A i \in 1..(lo + 2) : Pop(d)[i] = d[i]
    <2>1. Len(d) > 0 /\ Len(d) - 1 = lo + 2
      BY <1>6
    <2>2. QED
      BY <1>6, <2>1, PopStack
  <1>9. /\ Pop(Pop(d)) \in Seq(NodeRecord) /\ Len(Pop(Pop(d))) = lo + 1
        /\ \A i \in 1..(lo + 1) : Pop(Pop(d))[i] = Pop(d)[i]
    <2> DEFINE e == Pop(d)
    <2>1. e \in Seq(NodeRecord) /\ Len(e) > 0 /\ Len(e) - 1 = lo + 1
      BY <1>8
    <2> HIDE DEF e
    <2>2. /\ Pop(e) \in Seq(NodeRecord) /\ Len(Pop(e)) = lo + 1
          /\ \A i \in 1..(lo + 1) : Pop(e)[i] = e[i]
      BY <2>1, PopStack
    <2>3. QED
      BY <2>2 DEF e
  <1>10. Pop(Pop(d))[lo + 1] = region_nodes[1]
    <2>1. lo + 1 \in 1..(lo + 1) /\ lo + 1 \in 1..(lo + 2)
      OBVIOUS
    <2>2. QED
      BY <1>7, <1>8, <1>9, <2>1
  <1>11. Drawn(w, c, Pop(Pop(d)), lo, m, 2, from)
    <2> DEFINE x == CleanupFinishNode(v)
               y == PopNode(x)
               e == Pop(d)
    <2>1. Drawn(v, c, s, lo, m, 2, from) /\ d = Cleanup(s) /\ Len(s) > lo /\ Len(s) - lo > 2
      BY <1>3, <1>5, <1>6 DEF s
    <2>2. x = CleanupFinishNode(v)
      OBVIOUS
    <2> HIDE DEF x
    <2>3. Drawn(x, c, d, lo, m, 2, from)
      BY <2>1, <2>2, DrawnCleanup
    <2>4. Len(d) > lo
      BY <1>6
    <2>5. y = PopNode(x)
      OBVIOUS
    <2> HIDE DEF y
    <2>6. Drawn(y, c, e, lo, m, 2, from)
      BY <2>3, <2>4, <2>5, DrawnPop
    <2>7. Len(e) > lo
      BY <1>8
    <2>8. w = PopNode(y)
      BY <2>2, <2>5 DEF v
    <2> HIDE DEF e
    <2>9. Drawn(w, c, Pop(e), lo, m, 2, from)
      BY <2>6, <2>7, <2>8, DrawnPop
    <2>10. QED
      BY <2>9 DEF e
  <1>12. QED
    BY <1>3, <1>9, <1>10, <1>11 DEF from, c

(* captureImplicitTaskEnd: the region's node is still open on-line.        *)
LEMMA ImplicitTaskEndOnline ==
  ASSUME OnlineInv, StacksInv', EventsInv', NEW t \in Threads, OnImplicitTaskEnd(t)
  PROVE  OnlineInv'
  <1> DEFINE d  == Cleanup(last_nodes[t])
             e  == Pop(Pop(d))
             r  == Pop(e)
             fr == frames[t]
             u  == Pop(fr)
             n  == Len(fr) - 1
             w  == PopNode(PopNode(CleanupFinishNode(Stepped(t))))
             K  == DOMAIN taskMap
             q  == "ended"
  <1>1. /\ TPImplicitTaskEnd(t) /\ ImplicitTaskEnd(t) /\ Shows(t, w) /\ fr # <<>>
        /\ Cur(t).ctx = Implicit(t) /\ AtBody(t) /\ ~Cur(t).waiting
        /\ pc[t] \in {"work", "join"}
        /\ TypeOK /\ TypeOK' /\ TeamInv /\ StacksInv /\ MemoryInv /\ OnceInv
    BY DEF OnImplicitTaskEnd, TPImplicitTaskEnd, ImplicitTaskEnd, MayEnd, OnlineInv, StacksInv,
           TeamInv
  <1>2. /\ last_nodes' = [last_nodes EXCEPT ![t] = r] /\ pc' = [pc EXCEPT ![t] = q]
        /\ node_ctr' = node_ctr + 1 /\ node_ctr \in Nat
        /\ UNCHANGED <<num_threads, pendingFinish, released, team, region_nodes>>
    BY <1>1 DEF ImplicitTaskEnd, TypeOK
  <1>3. frames' = [frames EXCEPT ![t] = u] /\ taskMap' = taskMap
    BY <1>1 DEF TPImplicitTaskEnd, Untouched
  <1>4. Active /\ Active'
    BY <1>1, ImplicitTaskEndTeam
  <1>5. /\ n = Depth(t) /\ \A i \in 1..n : ~(fr[i].ctx > MaxTasks)
        /\ IsSequence(fr) /\ n \in Nat /\ t \in Team /\ t \notin released /\ ~Held(t)
    <2>1. /\ Len(fr) = Depth(t) + 1 /\ \A i \in 1..n : ~(fr[i].ctx > MaxTasks)
          /\ t \in Team /\ t \notin released /\ ~Held(t)
      BY <1>1, ImplicitOnTop
    <2>2. IsSequence(fr)
      BY <1>1, ContextsOf
    <2>3. Depth(t) \in Nat
      BY DEF Depth
    <2>4. QED
      BY <2>1, <2>2, <2>3
  <1>6. w = PopNode(PopNode(CleanupFinishNode(Stepped(t)))) /\ d = Cleanup(last_nodes[t])
    OBVIOUS
  <1> HIDE DEF w, d
  <1>7. PICK lo \in Nat, m \in Nat :
           /\ Based(t, n, lo, m) /\ m <= Len(open[t])
           /\ Drawn(w, node_ctr, e, lo, m, 2, Origin(t, K))
           /\ e \in Seq(NodeRecord) /\ Len(e) = lo + 1 /\ e[lo + 1] = region_nodes[1]
    BY <1>1, <1>6, EndPlace
  <1> HIDE DEF e
  <1>8. Drawn(w, node_ctr', e, lo, m, 2, Origin(t, K)) /\ K \subseteq DOMAIN taskMap
    <2> DEFINE c == node_ctr'
    <2>1. c \in Nat /\ node_ctr <= c
      BY <1>2
    <2> HIDE DEF c, K
    <2>2. Drawn(w, c, e, lo, m, 2, Origin(t, K))
      BY <1>7, <2>1, DrawnMore
    <2>3. QED
      BY <2>2 DEF c, K
  <1> HIDE DEF K
  <1>9. Turns(t, w) /\ \A y \in Threads \ {t} : open'[y] = open[y]
    BY <1>1, ShowsTurns
  <1>10. \A y \in Threads \ {t} : y \in released' <=> y \in released
    BY <1>2
  <1>11. Len(u) = n /\ \A i \in 1..n : u[i] = fr[i]
    <2>1. IsSequence(fr) /\ fr # <<>> /\ u = Pop(fr)
      BY <1>1, <1>5
    <2> HIDE DEF u, fr
    <2>2. Len(u) = Len(fr) - 1 /\ \A i \in 1..Len(u) : u[i] = fr[i]
      BY <2>1, PopLast
    <2>3. QED
      BY <2>2
  <1> HIDE DEF u, r, q
  <1>12. /\ \A y \in Threads \ {t} : OtherSame(y)
         /\ frames'[t] = u /\ last_nodes'[t] = r /\ pc'[t] = q
         /\ Orphan(t)' <=> Orphan(t)
    BY <1>1, <1>2, <1>3, <1>4, <1>9, <1>10, RegionElsewhere
  <1>13. ~Held(t)' /\ OverSize(t)' = (IF t = Master THEN 1 ELSE 0)
    <2>1. ~Held(t)'
      BY <1>2, <1>5, <1>12 DEF Held
    <2>2. QED
      BY <1>12, <2>1 DEF OverSize, q
  <1>14. LowerKept(t, n)
    BY <1>5, <1>11, <1>12 DEF LowerKept
  <1>15. Len(frames'[t]) = n /\ Len(last_nodes'[t]) = lo
    <2>1. Len(frames'[t]) = n
      BY <1>11, <1>12
    <2> HIDE DEF n, fr
    <2>2. QED
      BY <1>7, <1>13, <1>14, <2>1, HeightAfter
  <1>16. /\ open'[t] = w.stack /\ Len(open'[t]) = m + 1
         /\ open'[t][m + 1] = region_nodes[1].id
    <2> DEFINE o == open'[t]
    <2>1. o = w.stack
      BY <1>9 DEF Turns
    <2>2. Aligned(w, e, lo, m, 2)
      BY <1>8 DEF Drawn
    <2>3. Len(e) - lo = 1
      BY <1>7
    <2> HIDE DEF o
    <2>4. Len(o) = m + 1 /\ 1 \in 1..(Len(e) - lo) /\ o[m + 1] = e[lo + 1].id
      <3>1. Len(o) = m + 1 /\ 1 \in 1..(Len(e) - lo)
        BY <2>1, <2>2, <2>3 DEF Aligned
      <3>2. QED
        BY <2>1, <2>2, <3>1 DEF Aligned
    <2>5. QED
      BY <1>7, <2>1, <2>4 DEF o
  <1>17. Height(t)' = lo
    <2> DEFINE x == last_nodes'[t]
    <2>1. Len(x) = lo
      BY <1>15
    <2> HIDE DEF x
    <2>2. Len(x) - 0 = lo
      BY <2>1
    <2>3. QED
      BY <1>13, <2>2 DEF Height, x
  <1>18. CASE t = Master
    <2> DEFINE o  == open'[t]
               f2 == frames'[t]
               g2 == Shut(t)'
    <2>1. Twins(f2, n, e, lo, o, m, g2, node')
      <3> HIDE DEF n
      <3>1. QED
        BY <1>1, <1>7, <1>8, <1>9, <1>14, BaseKept
    <2>2. \A i \in 1..n : IsContext(f2[i]) /\ f2[i] = f2[i]
      BY <1>5, <1>7, <1>11, <1>12 DEF Based
    <2>3. \A j \in 1..lo : r[j] = e[j]
      <3>1. Len(e) > 0 /\ Len(e) - 1 = lo
        BY <1>7
      <3>2. QED
        BY <1>7, <3>1, PopStack DEF r
    <2>4. KeepsOwn(node', node', o, m)
      BY DEF KeepsOwn, Alike
    <2> HIDE DEF f2, o, g2, n, fr
    <2>5. Twins(f2, n, r, lo, o, m, g2, node')
      <3> DEFINE nd == node'
      <3>1. \A i \in 1..n : f2[i].ctx > MaxTasks => g2 = g2
        OBVIOUS
      <3>2. \A j \in 1..m : o[j] = o[j]
        OBVIOUS
      <3>3. KeepsOwn(nd, nd, o, m) /\ Twins(f2, n, e, lo, o, m, g2, nd) /\ n \in Nat
        BY <1>5, <2>1, <2>4
      <3> HIDE DEF nd
      <3>4. Twins(f2, n, r, lo, o, m, g2, nd)
        BY <2>2, <2>3, <3>1, <3>2, <3>3, TwinsSame
      <3>5. QED
        BY <3>4 DEF nd
    <2>6. Len(o) = m + 1 /\ o[m + 1] = region_nodes'[1].id
      BY <1>2, <1>16 DEF o
    <2> DEFINE rn == region_nodes'
    <2> HIDE DEF rn
    <2>7. Paired(f2, r, lo, o, 1, g2, node', rn)
      <3>1. Len(f2) = n
        BY <1>15 DEF f2
      <3>2. 1 <= Len(o) /\ Len(o) - 1 = m
        BY <2>6
      <3>3. \A j \in 1..1 : o[m + j] = rn[j].id
        BY <2>6 DEF rn
      <3>4. QED
        BY <2>5, <3>1, <3>2, <3>3 DEF Paired
    <2>8. OverSize(t)' = 1 /\ last_nodes'[t] = r
      BY <1>12, <1>13, <1>18
    <2>9. OnlineStack(t)'
      BY <1>17, <2>7, <2>8 DEF OnlineStack, f2, o, g2, rn
    <2>10. QED
      BY <1>2, <1>3, <1>7, <1>8, <1>9, <1>12, <2>9, TurnDone DEF K
  <1>19. CASE t # Master
    <2>1. n = 0 /\ OverSize(t)' = 0
      BY <1>5, <1>13, <1>19 DEF Depth
    <2>2. lo = 0
      <3>1. Matches(fr, 0, last_nodes[t], lo, Ground(t))
        BY <1>7, <2>1 DEF Based
      <3>2. 0 + 1 = 1
        OBVIOUS
      <3>3. QED
        BY <3>1, <3>2 DEF Matches
    <2> DEFINE o  == open'[t]
               f2 == frames'[t]
               g2 == Shut(t)'
               nd == node'
    <2>3. Len(o) \in Nat /\ Len(f2) = 0
      BY <1>15, <1>16, <2>1
    <2> HIDE DEF o, f2, g2, nd
    <2>4. Twins(f2, 0, r, 0, o, Len(o), g2, nd)
      BY <2>3, TwinsNone
    <2>5. Twins(f2, Len(f2), last_nodes'[t], Len(last_nodes'[t]), o, Len(o), g2, nd)
      BY <1>12, <1>15, <2>2, <2>3, <2>4
    <2>6. OnlineStack(t)'
      <3>1. Len(last_nodes'[t]) \in Nat
        BY <1>15
      <3>2. QED
        BY <1>13, <2>1, <2>3, <2>5, <3>1, StackSettled DEF o, f2, g2, nd
    <2>7. QED
      BY <1>2, <1>3, <1>7, <1>8, <1>9, <1>12, <2>6, TurnDone DEF K
  <1>20. QED
    BY <1>18, <1>19

----------------------------------------------------------------------------
(* Regions begin and end                                                   *)

(* The nodes of a context do not depend on what is before it.              *)
LEMMA PartsPast ==
  ASSUME NEW f, NEW f2, f2.ctx = f.ctx, f2.levels = f.levels, f2.waiting = f.waiting, NEW g
  PROVE  /\ FrameSize(f2, g) = FrameSize(f, g) /\ Extra(f2) = Extra(f)
         /\ \A s, lo, o, m, nd : Parts(f, s, lo, o, m, g, nd) => Parts(f2, s, lo, o, m, g, nd)
  <1>1. \A lo : Size(f2, g) = Size(f, g) /\ LevelAt(f2, lo, g) = LevelAt(f, lo, g)
    BY DEF Size, LevelAt
  <1>2. /\ FrameSize(f2, g) = FrameSize(f, g) /\ SharedSize(f2, g) = SharedSize(f, g)
        /\ Extra(f2) = Extra(f)
    BY <1>1 DEF FrameSize, SharedSize, Extra
  <1> SUFFICES ASSUME NEW s, NEW lo, NEW o, NEW m, NEW nd, Parts(f, s, lo, o, m, g, nd)
               PROVE  Parts(f2, s, lo, o, m, g, nd)
    BY <1>2
  <1>3. SameIds(f2, s, lo, o, m, g)
    BY <1>2 DEF Parts, SameIds
  <1>4. OwnedNodes(f2, s, lo, o, m, g, nd)
    BY <1>2 DEF Parts, OwnedNodes
  <1>5. WaitNode(f2, o, m, g, nd)
    BY <1>2 DEF Parts, WaitNode
  <1>6. QED
    BY <1>3, <1>4, <1>5 DEF Parts

LEMMA TwinsPast ==
  ASSUME NEW fr, NEW fr2, NEW f, NEW f2, fr[1] = f, fr2[1] = f2,
         f2.ctx = f.ctx, f2.levels = f.levels, f2.waiting = f.waiting,
         NEW s, NEW h, NEW o, NEW k, NEW g, NEW nd, Twins(fr, 1, s, h, o, k, g, nd)
  PROVE  Twins(fr2, 1, s, h, o, k, g, nd)
  <1>1. PICK b \in [1..(1 + 1) -> 0..h], c \in [1..(1 + 1) -> 0..k] :
          /\ b[1] = 0 /\ b[1 + 1] = h /\ c[1 + 1] = k
          /\ \A i, j \in 1..(1 + 1) : i <= j => b[i] <= b[j] /\ c[i] <= c[j]
          /\ \A i \in 1..1 :
               /\ b[i + 1] = b[i] + FrameSize(fr[i], g)
               /\ c[i + 1] = c[i] + FrameSize(fr[i], g) + Extra(fr[i])
               /\ Parts(fr[i], s, b[i], o, c[i], g, nd)
    BY DEF Twins
  <1>2. /\ FrameSize(f2, g) = FrameSize(f, g) /\ Extra(f2) = Extra(f)
        /\ \A s1, lo, o1, m, nd1 : Parts(f, s1, lo, o1, m, g, nd1) => Parts(f2, s1, lo, o1, m, g, nd1)
    BY PartsPast
  <1>3. ASSUME NEW i \in 1..1
        PROVE  /\ b[i + 1] = b[i] + FrameSize(fr2[i], g)
               /\ c[i + 1] = c[i] + FrameSize(fr2[i], g) + Extra(fr2[i])
               /\ Parts(fr2[i], s, b[i], o, c[i], g, nd)
    <2>1. i = 1
      OBVIOUS
    <2>2. fr2[i] = f2 /\ fr[i] = f
      BY <2>1
    <2>3. /\ b[i + 1] = b[i] + FrameSize(f, g)
          /\ c[i + 1] = c[i] + FrameSize(f, g) + Extra(f)
          /\ Parts(f, s, b[i], o, c[i], g, nd)
      BY <1>1, <2>2
    <2>4. QED
      BY <1>2, <2>2, <2>3
  <1>4. QED
    BY <1>1, <1>3 DEF Twins

(* The master in serial code, or about to return to it: one node for its   *)
(* context, the root, and on-line those that regions have left.            *)
LEMMA SerialPlace ==
  ASSUME OnlineInv, Quiet
  PROVE  /\ Based(Master, 1, 1, Len(open[Master]) - OverSize(Master))
         /\ Len(last_nodes[Master]) = 1 /\ last_nodes[Master] \in Seq(NodeRecord)
         /\ Len(frames[Master]) = 1 /\ IsSequence(frames[Master]) /\ frames[Master] # <<>>
         /\ Cur(Master) = frames[Master][1] /\ Cur(Master).ctx = SerialCode
         /\ Master \in Threads /\ ~Held(Master) /\ OverSize(Master) \in {0, 1}
         /\ OverSize(Master) <= Len(open[Master]) /\ Len(open[Master]) \in Nat
         /\ \A j \in 1..OverSize(Master) :
              open[Master][(Len(open[Master]) - OverSize(Master)) + j] = region_nodes[j].id
  <1> DEFINE fr == frames[Master]
             s  == last_nodes[Master]
             o  == open[Master]
             v  == OverSize(Master)
             m  == Len(o) - v
  <1>1. StacksInv /\ MemoryInv /\ Master \in Threads
    BY RegionAssumption DEF OnlineInv, Threads, Master
  <1>2. /\ IsSequence(fr) /\ Len(fr) = 1 /\ \A i \in 1..Len(fr) : IsContext(fr[i])
        /\ fr[1].ctx = SerialCode /\ NodesOK(fr, s, Outside) /\ s \in Seq(NodeRecord)
        /\ Len(s) = 1
    BY <1>1, QuietContexts, QuietNodes DEF Depth
  <1>3. fr # <<>> /\ Cur(Master) = fr[1]
    BY <1>2, LengthType DEF Cur, Last
  <1>4. ~Held(Master) /\ Ground(Master) = Outside
    BY <1>1 DEF Quiet, Ground, Outside
  <1>5. v \in {0, 1}
    BY <1>4 DEF OverSize
  <1>6. Len(o) \in Nat
    BY <1>1, LengthType DEF MemoryInv
  <1>7. Height(Master) = 1
    <2> HIDE DEF s
    <2>1. Len(s) - 0 = 1
      BY <1>2
    <2>2. QED
      BY <1>4, <2>1 DEF Height, s
  <1>8. /\ v <= Len(o) /\ \A j \in 1..v : o[m + j] = region_nodes[j].id
        /\ Twins(fr, 1, s, 1, o, m, Shut(Master), node)
    <2>1. OnlineStack(Master)
      BY <1>1 DEF OnlineInv
    <2>2. QED
      BY <1>2, <1>7, <2>1 DEF OnlineStack, Paired
  <1>9. m \in Nat /\ m <= Len(o)
    <2> HIDE DEF v, o
    <2>1. QED
      BY <1>5, <1>6, <1>8
  <1>10. Matches(fr, 1, s, 1, Ground(Master))
    BY <1>2, <1>4 DEF NodesOK
  <1>11. Based(Master, 1, 1, m)
    BY <1>2, <1>8, <1>9, <1>10 DEF Based
  <1>12. QED
    BY <1>1, <1>2, <1>3, <1>4, <1>5, <1>6, <1>8, <1>11

(* A handler of the master has left the nodes of its serial code.          *)
LEMMA SerialTwins ==
  ASSUME OnlineInv, NEW m, Based(Master, 1, 1, m), Len(frames[Master]) = 1,
         IsSequence(frames[Master]), frames[Master] # <<>>, Master \in Threads,
         Cur(Master) = frames[Master][1], Cur(Master).ctx = SerialCode,
         NEW f, NEW x, f = [Cur(Master) EXCEPT !.past = x],
         frames' = [frames EXCEPT ![Master] = WithLast(frames[Master], f)],
         NEW K, K \subseteq DOMAIN taskMap,
         NEW w, NEW r, NEW sh, Drawn(w, node_ctr', r, 1, m, sh, Origin(Master, K)),
         Turns(Master, w)
  PROVE  /\ Len(frames'[Master]) = 1
         /\ Twins(frames'[Master], 1, r, 1, open'[Master], m, Shut(Master)', node')
  <1> DEFINE fr  == frames[Master]
             fr2 == frames'[Master]
             g   == Shut(Master)
             g2  == Shut(Master)'
             o   == open[Master]
             o2  == open'[Master]
             s   == last_nodes[Master]
             nd  == node
             nd2 == node'
  <1>1. /\ m \in Nat /\ m <= Len(open[Master]) /\ IsContext(fr[1])
        /\ Twins(fr, 1, s, 1, o, m, g, nd)
    BY DEF Based
  <1>2. KeepsOwn(nd2, nd, o, m) /\ \A j \in 1..m : o2[j] = o[j]
    BY <1>1, TurnMemory DEF OnlineInv
  <1>3. \A j \in 1..1 : r[j] = s[j]
    BY DEF Drawn, OnBase, Origin
  <1>4. fr2 = WithLast(fr, f)
    BY DEF OnlineInv, StacksInv
  <1>5. Len(fr2) = 1 /\ fr2[1] = f
    <2>1. IsSequence(fr) /\ fr # <<>> /\ Len(fr) = 1
      OBVIOUS
    <2> HIDE DEF fr, fr2
    <2>2. Len(fr2) = Len(fr) /\ fr2[Len(fr2)] = f
      BY <1>4, <2>1, ReplaceLast
    <2>3. QED
      BY <2>1, <2>2
  <1>6. f.ctx = fr[1].ctx /\ f.waiting = fr[1].waiting /\ f.levels = fr[1].levels
    <2>1. IsContext(Cur(Master))
      BY <1>1
    <2>2. /\ f.ctx = Cur(Master).ctx /\ f.waiting = Cur(Master).waiting
          /\ f.levels = Cur(Master).levels
      BY <2>1, ContextPast
    <2>3. QED
      BY <2>2
  <1>7. \A i \in 1..1 : fr[i].ctx > MaxTasks => g2 = g
    BY TaskAssumption DEF SerialCode
  <1>8. \A i \in 1..1 : IsContext(fr[i]) /\ fr[i] = fr[i]
    BY <1>1
  <1> DEFINE y == fr[1]
  <1>9. y.ctx = f.ctx /\ y.waiting = f.waiting /\ y.levels = f.levels /\ fr[1] = y
    BY <1>6
  <1> HIDE DEF fr, fr2, g, g2, o, o2, s, nd, nd2, y
  <1>10. Twins(fr, 1, r, 1, o2, m, g2, nd2)
    BY <1>1, <1>2, <1>3, <1>7, <1>8, TwinsSame
  <1>11. Twins(fr2, 1, r, 1, o2, m, g2, nd2)
    BY <1>5, <1>9, <1>10, TwinsPast
  <1>12. QED
    BY <1>5, <1>11 DEF fr2, o2, g2, nd2

(* What a handler of the master starts from there.                         *)
LEMMA SerialDrawn ==
  ASSUME OnlineInv, Quiet, NEW sh \in Nat, NEW K, K \subseteq DOMAIN taskMap,
         NEW s, s = last_nodes[Master], NEW from, from = Origin(Master, K), NEW m,
         m = Len(open[Master]), OverSize(Master) = 0
  PROVE  Drawn(Stepped(Master), node_ctr, s, 1, m, sh, from)
  <1> DEFINE w == View(Master)
             c == node_ctr
  <1>1. MemoryInv /\ OnceInv /\ MapInv
    BY DEF OnlineInv
  <1>2. /\ Len(s) = 1 /\ s \in Seq(NodeRecord) /\ Master \in Threads /\ m \in Nat
    BY SerialPlace
  <1>3. w.stack = open[Master]
    BY DEF View
  <1>4. Aligned(w, s, 1, m, sh)
    <2> HIDE DEF w
    <2>1. Len(s) - 1 = 0 /\ 1 <= Len(s)
      BY <1>2
    <2>2. QED
      BY <1>2, <1>3, <2>1 DEF Aligned
  <1>5. IsPlace(1, m, sh) /\ Keeps(s, last_nodes[Master], 1)
    BY <1>2 DEF IsPlace, Keeps
  <1>6. Drawn(View(Master), node_ctr, s, 1, m, sh, from)
    BY <1>1, <1>2, <1>4, <1>5, DrawnOpen
  <1>7. Stepped(Master) = Added(w, node_ctr + 1, counting[Master])
    BY DEF Stepped
  <1>8. Drawn(w, node_ctr, s, 1, m, sh, from)
    BY <1>6
  <1> HIDE DEF w
  <1>9. QED
    BY <1>7, <1>8, DrawnAdded

(* The master is in serial code after its handler.                         *)
LEMMA SerialAfter ==
  ASSUME OnlineInv, Quiet, StacksInv', EventsInv', ~Active',
         NEW f, NEW x, f = [Cur(Master) EXCEPT !.past = x],
         frames' = [frames EXCEPT ![Master] = WithLast(frames[Master], f)],
         UNCHANGED <<pendingFinish, region_nodes, last_nodes>>, taskMap' = taskMap,
         \A u \in Threads \ {Master} : pc'[u] = pc[u],
         NEW K, K = DOMAIN taskMap, NEW m, m = Len(open[Master]) - OverSize(Master),
         NEW s, s = last_nodes[Master],
         NEW w, NEW sh, Drawn(w, node_ctr', s, 1, m, sh, Origin(Master, K)), Shows(Master, w)
  PROVE  OnlineInv'
  <1>1. /\ Based(Master, 1, 1, m) /\ Len(s) = 1
        /\ Len(frames[Master]) = 1 /\ IsSequence(frames[Master]) /\ frames[Master] # <<>>
        /\ Cur(Master) = frames[Master][1] /\ Cur(Master).ctx = SerialCode
        /\ Master \in Threads
    BY SerialPlace
  <1>2. /\ Turns(Master, w) /\ \A u \in Threads \ {Master} : open'[u] = open[u]
        /\ K \subseteq DOMAIN taskMap
    BY <1>1, ShowsTurns DEF OnlineInv
  <1>3. /\ Len(frames'[Master]) = 1
        /\ Twins(frames'[Master], 1, s, 1, open'[Master], m, Shut(Master)', node')
    BY <1>1, <1>2, SerialTwins
  <1>4. pc'[Master] \in {"idle", "done"} /\ \A u \in Threads : ~Held(u)'
    <2>1. ControlInv'
      BY DEF StacksInv, TeamInv
    <2>2. pc'[Master] \in {"idle", "done"} /\ released' = {}
      BY <2>1 DEF ControlInv, Active
    <2>3. \A u \in Threads : ~Held(u)'
      BY <2>2 DEF Held, Orphan
    <2>4. QED
      BY <2>2, <2>3
  <1>5. \A u \in Threads \ {Master} : OtherSame(u)
    <2> SUFFICES ASSUME NEW u \in Threads \ {Master} PROVE OtherSame(u)
      OBVIOUS
    <2>1. frames'[u] = frames[u]
      BY DEF OnlineInv, StacksInv
    <2>2. ~Held(u)' /\ ~Held(u)
      BY <1>4 DEF Quiet
    <2>3. QED
      BY <1>2, <2>1, <2>2 DEF OtherSame
  <1>6. OnlineStack(Master)'
    <2> DEFINE o == open'[Master]
               f2 == frames'[Master]
               l2 == last_nodes'[Master]
               g2 == Shut(Master)'
               nd == node'
    <2>1. o = w.stack /\ l2 = s
      BY <1>2 DEF Turns
    <2>2. Len(o) = m
      <3>1. Len(w.stack) = m + (Len(s) - 1) /\ m \in Nat
        BY <1>1 DEF Drawn, Aligned, Based
      <3> HIDE DEF o
      <3>2. QED
        BY <1>1, <2>1, <3>1
    <2>3. Len(o) \in Nat /\ Len(l2) = 1 /\ Len(f2) = 1
      BY <1>1, <1>3, <2>1, <2>2 DEF Based
    <2>4. ~Held(Master)' /\ OverSize(Master)' = 0
      BY <1>1, <1>4 DEF OverSize
    <2>5. Twins(f2, 1, s, 1, o, m, g2, nd)
      BY <1>3
    <2>8. Len(o) \in Nat /\ Len(l2) \in Nat /\ Master \in Threads
      BY <1>1, <2>3
    <2> HIDE DEF o, f2, l2, g2, nd
    <2>6. Twins(f2, Len(f2), l2, Len(l2), o, Len(o), g2, nd)
      BY <2>1, <2>2, <2>3, <2>5
    <2>7. QED
      BY <2>4, <2>6, <2>8, StackSettled DEF o, f2, l2, g2, nd
  <1>7. QED
    BY <1>1, <1>2, <1>5, <1>6, TurnDone DEF Based

(* The root gets its work.                                                 *)
LEMMA SettledEffect ==
  ASSUME NEW v, IsView(v), IsMemory(v.nodes), NEW x,
         NEW w, w = [v EXCEPT !.nodes[Root.id] = Settled(@), !.sites["loop"].cWork = x]
  PROVE  /\ IsView(w) /\ IsMemory(w.nodes) /\ w.stack = v.stack
         /\ DOMAIN w.nodes = DOMAIN v.nodes /\ Kept(w.nodes, v.nodes)
  <1> DEFINE i == Root.id
             m == Settled(v.nodes[i])
             nd == [v.nodes EXCEPT ![i] = m]
             a == [v.sites EXCEPT !["loop"].cWork = x]
  <1>1. w = [v EXCEPT !.nodes = nd, !.sites = a]
    <2>1. w = [[v EXCEPT !.nodes = nd] EXCEPT !.sites["loop"].cWork = x]
      OBVIOUS
    <2> HIDE DEF nd
    <2>2. [v EXCEPT !.nodes = nd].sites = v.sites
      BY DEF IsView
    <2>3. QED
      BY <2>1, <2>2 DEF IsView
  <1>2. IsView(w) /\ w.nodes = nd /\ w.stack = v.stack
    <2> HIDE DEF nd, a
    <2>1. QED
      BY <1>1 DEF IsView
  <1>3. i \in DOMAIN v.nodes => IsNode(m) /\ Same(m, v.nodes[i])
    <2> HAVE i \in DOMAIN v.nodes
    <2>1. IsNode(v.nodes[i])
      BY DEF IsMemory
    <2>2. QED
      BY <2>1, SettledSame
  <1>4. IsMemory(nd) /\ DOMAIN nd = DOMAIN v.nodes /\ Kept(nd, v.nodes)
    <2> DEFINE d == v.nodes
    <2>1. IsMemory(d) /\ nd = [d EXCEPT ![i] = m] /\ (i \in DOMAIN d => IsNode(m) /\ Same(m, d[i]))
      BY <1>3
    <2> HIDE DEF d, nd, m, i
    <2>2. IsMemory(nd) /\ DOMAIN nd = DOMAIN d /\ Kept(nd, d)
      BY <2>1, OneChanged
    <2>3. QED
      BY <2>2 DEF d
  <1> HIDE DEF nd
  <1>5. QED
    BY <1>2, <1>4

(* GenerateProfile.                                                        *)
LEMMA FinishProfileOnline ==
  ASSUME OnlineInv, StacksInv', EventsInv', OnFinishProfile
  PROVE  OnlineInv'
  <1> DEFINE x == MapThenSumSet(LAMBDA r : loopInstances[r], DOMAIN loopInstances)
             v == Stepped(Master)
             w == [v EXCEPT !.nodes[Root.id] = Settled(@), !.sites["loop"].cWork = x]
             f == WithStep(Master)
             y == Cur(Master).past \union {node_ctr + 1}
             K == DOMAIN taskMap
             s == last_nodes[Master]
             m == Len(open[Master])
             from == Origin(Master, K)
  <1>1. /\ TPFinishProfile /\ FinishProfile /\ Shows(Master, w) /\ pc[Master] = "idle"
        /\ TeamInv /\ TypeOK' /\ StacksInv /\ node_ctr' = node_ctr + 1 /\ node_ctr \in Nat
    BY DEF OnFinishProfile, TPFinishProfile, FinishProfile, OnlineInv, StacksInv, MemoryInv,
           TeamInv
  <1>2. ~Active /\ ~Active' /\ \A u \in Threads \ {Master} : pc'[u] = pc[u]
    BY <1>1, FinishProfileTeam
  <1>3. Quiet
    BY <1>1, <1>2, SerialQuiet
  <1>4. /\ frames' = [frames EXCEPT ![Master] = WithLast(frames[Master], f)]
        /\ taskMap' = taskMap /\ UNCHANGED <<pendingFinish, region_nodes, last_nodes>>
    BY <1>1 DEF TPFinishProfile, FinishProfile, SetFrame, WithLast, Untouched
  <1>5. /\ OverSize(Master) = 0 /\ Len(open[Master]) \in Nat /\ m = Len(open[Master]) - 0
    <2>1. /\ ~Held(Master) /\ Len(open[Master]) \in Nat
      BY <1>3, SerialPlace
    <2>2. QED
      BY <1>1, <2>1 DEF OverSize
  <1>6. f = [Cur(Master) EXCEPT !.past = y]
    BY DEF WithStep
  <1>7. /\ 0 \in Nat /\ K \subseteq DOMAIN taskMap /\ s = last_nodes[Master]
        /\ from = Origin(Master, K)
    OBVIOUS
  <1> HIDE DEF v, x, from, s, K, m, f, y
  <1>8. Drawn(v, node_ctr, s, 1, m, 0, from)
    BY <1>3, <1>5, <1>7, SerialDrawn DEF m, v
  <1>9. IsView(v) /\ IsMemory(v.nodes)
    BY <1>8 DEF Drawn, Placed
  <1>10. /\ IsView(w) /\ IsMemory(w.nodes) /\ w.stack = v.stack
         /\ DOMAIN w.nodes = DOMAIN v.nodes /\ Kept(w.nodes, v.nodes)
    <2>1. w = [v EXCEPT !.nodes[Root.id] = Settled(@), !.sites["loop"].cWork = x]
      OBVIOUS
    <2> HIDE DEF w
    <2>2. QED
      BY <1>9, <2>1, SettledEffect
  <1> HIDE DEF w
  <1>11. Drawn(w, node_ctr, s, 1, m, 0, from)
    BY <1>8, <1>10, DrawnKept
  <1>12. Drawn(w, node_ctr', s, 1, m, 0, Origin(Master, K))
    <2> DEFINE c == node_ctr'
    <2>1. c \in Nat /\ node_ctr <= c
      BY <1>1
    <2> HIDE DEF c
    <2>2. Drawn(w, c, s, 1, m, 0, from)
      BY <1>11, <2>1, DrawnMore
    <2>3. QED
      BY <2>2 DEF c, from
  <1>13. m = Len(open[Master]) - OverSize(Master) /\ K = DOMAIN taskMap
    BY <1>5 DEF K
  <1>14. QED
    BY <1>1, <1>2, <1>3, <1>4, <1>6, <1>7, <1>12, <1>13, SerialAfter

(* captureParallelEnd: the region's node, which captureImplicitTaskEnd has *)
(* left open, is closed.                                                   *)
LEMMA ParallelEndOnline ==
  ASSUME OnlineInv, StacksInv', EventsInv', OnParallelEnd
  PROVE  OnlineInv'
  <1> DEFINE x == {l.id : l \in log}
             f == [Cur(Master) EXCEPT !.past = x]
             v == View(Master)
             w == PopNode(v)
             K == DOMAIN taskMap
             s == last_nodes[Master]
             r1 == region_nodes[1]
             q == Append(s, r1)
             m == Len(open[Master]) - 1
             c == node_ctr
             from == Origin(Master, K)
  <1>1. /\ TPParallelEnd /\ ParallelEnd /\ Shows(Master, w) /\ pc[Master] = "spin"
        /\ TeamInv /\ TypeOK' /\ StacksInv /\ JoinInv /\ MemoryInv /\ OnceInv /\ MapInv
        /\ TypeOK
    BY DEF OnParallelEnd, TPParallelEnd, ParallelEnd, OnlineInv, StacksInv, TeamInv
  <1>2. /\ ~Active' /\ team = num_threads /\ released = {}
        /\ \A u \in Threads : pc'[u] = "idle" /\ pc[u] \in {"idle", "spin"}
    BY <1>1, ParallelEndTeam
  <1>3. \A u \in Threads \ {Master} : pc'[u] = pc[u]
    <2>1. ControlInv
      BY <1>1 DEF TeamInv
    <2>2. QED
      BY <1>2, <2>1 DEF ControlInv
  <1>4. Quiet
    <2>1. TasksDone
      BY <1>1 DEF JoinInv, MasterIsOut
    <2>2. \A u \in Threads : pc[u] \notin InRegionControl
      BY <1>2 DEF InRegionControl
    <2>3. \A u \in Threads : ~Held(u)
      <3>1. num_threads \in Nat
        BY <1>1, TeamType
      <3>2. (team + 1)..num_threads = {}
        BY <1>2, <3>1
      <3>3. QED
        BY <1>2, <3>2 DEF Held, Orphan
    <2>4. QED
      BY <2>1, <2>2, <2>3 DEF Quiet
  <1>5. /\ taskMap' = taskMap /\ UNCHANGED <<pendingFinish, region_nodes, last_nodes, node_ctr>>
    BY <1>1 DEF TPParallelEnd, ParallelEnd, Untouched
  <1>6. /\ Based(Master, 1, 1, Len(open[Master]) - OverSize(Master)) /\ Len(s) = 1
        /\ s \in Seq(NodeRecord) /\ Len(frames[Master]) = 1
        /\ Cur(Master) = frames[Master][1] /\ Master \in Threads /\ ~Held(Master)
        /\ OverSize(Master) <= Len(open[Master]) /\ Len(open[Master]) \in Nat
        /\ \A j \in 1..OverSize(Master) :
             open[Master][(Len(open[Master]) - OverSize(Master)) + j] = region_nodes[j].id
    BY <1>4, SerialPlace
  <1>7. OverSize(Master) = 1
    BY <1>1, <1>6 DEF OverSize
  <1>8. m \in Nat /\ Len(open[Master]) = m + 1 /\ open[Master][m + 1] = r1.id
        /\ m = Len(open[Master]) - OverSize(Master)
    <2> DEFINE o == open[Master]
    <2>1. 1 <= Len(o) /\ Len(o) \in Nat /\ \A j \in 1..1 : o[(Len(o) - 1) + j] = region_nodes[j].id
      BY <1>6, <1>7
    <2>2. o[(Len(o) - 1) + 1] = r1.id
      BY <2>1
    <2>3. m = Len(o) - 1
      OBVIOUS
    <2> HIDE DEF o, m, r1
    <2>4. m \in Nat /\ Len(o) = m + 1 /\ o[m + 1] = r1.id
      BY <2>1, <2>2, <2>3
    <2>5. QED
      BY <1>7, <2>3, <2>4 DEF o
  <1>9. frames' = [frames EXCEPT ![Master] = WithLast(frames[Master], f)]
    <2>1. frames' = [frames EXCEPT ![Master][1].past = x]
      BY <1>1 DEF TPParallelEnd
    <2> HIDE DEF x
    <2>2. QED
      BY <1>6, <2>1 DEF WithLast
  <1>10. r1 \in NodeRecord
    BY <1>1 DEF TypeOK
  <1>11. /\ q \in Seq(NodeRecord) /\ Len(q) = 2 /\ q[2] = r1 /\ q[1] = s[1] /\ Pop(q) = s
    <2> HIDE DEF s, r1
    <2>3. s \in Seq(NodeRecord) /\ Len(s) = 1 /\ r1 \in NodeRecord
      BY <1>6, <1>10
    <2>4. /\ q \in Seq(NodeRecord) /\ Len(q) = Len(s) + 1 /\ q[Len(s) + 1] = r1
          /\ \A j \in 1..Len(s) : q[j] = s[j]
      BY <2>3
    <2>5. 1 \in 1..Len(s) /\ Len(s) + 1 = 2
      BY <2>3
    <2>1. q \in Seq(NodeRecord) /\ Len(q) = 2 /\ q[2] = r1 /\ q[1] = s[1]
      BY <2>4, <2>5
    <2>2. Pop(q) = s
      BY <1>6, <1>10, PopAppended
    <2>6. QED
      BY <2>1, <2>2
  <1>12. w = PopNode(v) /\ K \subseteq DOMAIN taskMap /\ from = Origin(Master, K) /\ K = DOMAIN taskMap
         /\ v = View(Master)
    OBVIOUS
  <1> HIDE DEF q, s, r1, m, w, f, x, from, K, c
  <1>13. Aligned(v, q, 1, m, 1)
    <2>1. v.stack = open[Master]
      BY DEF View
    <2>2. Len(q) - 1 = 1 /\ 1 <= Len(q)
      BY <1>11
    <2> HIDE DEF v
    <2>3. ASSUME NEW j \in 1..1
          PROVE  v.stack[m + j] = q[1 + j].id /\ ~(j > 1)
      <3>1. j = 1 /\ 1 + 1 = 2
        OBVIOUS
      <3>2. QED
        BY <1>8, <1>11, <2>1, <3>1
    <2>4. Len(v.stack) = m + (Len(q) - 1)
      BY <1>8, <2>1, <2>2
    <2>5. QED
      BY <1>11, <2>2, <2>3, <2>4 DEF Aligned
  <1>14. IsPlace(1, m, 1) /\ Keeps(q, last_nodes[Master], 1)
    BY <1>8, <1>11 DEF IsPlace, Keeps, s
  <1> HIDE DEF v
  <1>15. Drawn(v, c, q, 1, m, 1, from)
    BY <1>1, <1>6, <1>12, <1>13, <1>14, DrawnOpen DEF c
  <1>16. Drawn(w, c, s, 1, m, 1, from)
    <2>1. Len(q) > 1
      BY <1>11
    <2>2. Drawn(w, c, Pop(q), 1, m, 1, from)
      BY <1>12, <1>15, <2>1, DrawnPop
    <2>3. QED
      BY <1>11, <2>2
  <1>17. Drawn(w, node_ctr', s, 1, m, 1, Origin(Master, K))
    BY <1>5, <1>16 DEF c, from
  <1>18. f = [Cur(Master) EXCEPT !.past = x] /\ s = last_nodes[Master]
    BY DEF f, s
  <1>19. QED
    BY <1>1, <1>2, <1>3, <1>4, <1>5, <1>8, <1>9, <1>12, <1>17, <1>18, SerialAfter

LEMMA OneAppended ==
  ASSUME NEW s \in Seq(NodeRecord), NEW y \in NodeRecord, NEW q, q = Append(s, y)
  PROVE  /\ q \in Seq(NodeRecord) /\ Len(s) \in Nat /\ Len(q) = Len(s) + 1 /\ q[Len(s) + 1] = y
         /\ \A j \in 1..Len(s) : q[j] = s[j]
  OBVIOUS

(* The two nodes of a region, new on the stack.                            *)
LEMMA RegionPushed ==
  ASSUME NEW v, NEW c \in Nat, NEW s, NEW m, NEW from, Drawn(v, c, s, 1, m, 2, from), Len(s) = 1,
         NEW e, e = c + 2, NEW d, d = c + 3,
         NEW y \in NodeRecord, y.id = e, NEW z \in NodeRecord, z.id = d,
         NEW u, u = PushNode(v, e, Fresh("FINISH", "region")), NEW w, w = PushNode(u, d, PhaseFinish)
  PROVE  /\ Drawn(w, d, Append(Append(s, y), z), 1, m, 2, from)
         /\ ~Private(w.nodes, e) /\ ~Private(w.nodes, d)
  <1> DEFINE n == Fresh("FINISH", "region")
             p == PhaseFinish
             r == Append(s, y)
  <1>1. IsNode(n) /\ n.callSiteId = "region"
    BY FreshNode
  <1>2. IsNode(p) /\ p.is_barrier_finish = TRUE
    <2>1. IsNode(PhaseFinish) /\ PhaseFinish.is_barrier_finish = TRUE
      BY ONLY DEF PhaseFinish, Fresh, IsNode, NodeFields
    <2>2. QED
      BY <2>1
  <1>3. s \in Seq(NodeRecord)
    BY DEF Drawn, Aligned
  <1>4. Len(r) = 2
    <2>1. r = Append(s, y)
      OBVIOUS
    <2> HIDE DEF r
    <2>2. Len(r) = Len(s) + 1
      BY <1>3, <2>1, OneAppended
    <2>3. QED
      BY <2>2
  <1>5. c < e /\ e \in Nat /\ e < d /\ d \in Nat
    OBVIOUS
  <1>6. PushedFor(n, y, Len(s) - 1 < 2) /\ PushedFor(p, z, Len(r) - 1 < 2)
    <2> HIDE DEF n, p, r
    <2>1. Len(s) - 1 < 2 /\ Len(r) - 1 < 2
      BY <1>4
    <2>2. QED
      BY <1>1, <1>2, <2>1 DEF PushedFor
  <1>7. u = PushNode(v, e, n) /\ w = PushNode(u, d, p)
    OBVIOUS
  <1> HIDE DEF n, p
  <1>8. Drawn(u, e, r, 1, m, 2, from)
    BY <1>5, <1>6, <1>7, DrawnPush
  <1> HIDE DEF r
  <1>9. Drawn(w, d, Append(r, z), 1, m, 2, from)
    BY <1>5, <1>6, <1>7, <1>8, DrawnPush
  <1>10. /\ IsView(v) /\ IsMemory(v.nodes) /\ e \notin DOMAIN v.nodes
    <2>1. IsView(v) /\ IsMemory(v.nodes) /\ \A i \in DOMAIN v.nodes : i \in 1..c
      BY DEF Drawn, Placed
    <2>2. QED
      BY <1>5, <2>1
  <1>11. /\ IsView(u) /\ IsMemory(u.nodes) /\ e \in DOMAIN u.nodes
         /\ u.nodes[e].callSiteId = "region"
    BY <1>1, <1>7, <1>10, PushEffect
  <1>12. d \notin DOMAIN u.nodes
    <2>1. \A i \in DOMAIN u.nodes : i \in 1..e
      BY <1>8 DEF Drawn, Placed
    <2>2. QED
      BY <1>5, <2>1
  <1>13. Kept(w.nodes, u.nodes) /\ w.nodes[d].is_barrier_finish = TRUE
    BY <1>2, <1>7, <1>11, <1>12, PushEffect
  <1>14. w.nodes[e].callSiteId = "region"
    BY <1>11, <1>13 DEF Kept, Same, Alike
  <1>15. QED
    BY <1>9, <1>13, <1>14 DEF r, Private

(* A thread other than the master at the beginning of a region.            *)
LEMMA WorkerBegins ==
  ASSUME NEW t \in Threads, t # Master, frames'[t] = <<>>, NEW r1, NEW r2, region_nodes' = <<r1, r2>>,
         pc'[t] = "idle",
         \/ /\ Held(t)' /\ last_nodes'[t] = <<r1, r2>> /\ open'[t] = <<r1.id, r2.id>>
         \/ ~Held(t)' /\ last_nodes'[t] = <<>> /\ IsSequence(open'[t])
  PROVE  OnlineStack(t)'
  <1> DEFINE fr == frames'[t]
             s  == last_nodes'[t]
             o  == open'[t]
             rn == region_nodes'
             g  == Shut(t)'
             nd == node'
             h  == Height(t)'
             v  == OverSize(t)'
  <1>1. Len(fr) = 0 /\ rn = <<r1, r2>>
    OBVIOUS
  <1>2. CASE Held(t)'
    <2>1. s = <<r1, r2>> /\ o = <<r1.id, r2.id>>
      BY <1>2
    <2>2. v = 2
      BY <1>2 DEF OverSize
    <2>3. h = 0
      <3>1. h = Len(s) - 2
        BY <1>2 DEF Height
      <3> HIDE DEF s, h
      <3>2. Len(s) = 2
        BY <2>1
      <3>3. QED
        BY <3>1, <3>2
    <2> HIDE DEF fr, s, o, rn, g, nd, h, v
    <2>4. Len(o) = 2 /\ o[1] = rn[1].id /\ o[2] = rn[2].id
      BY <1>1, <2>1
    <2>5. \A j \in 1..2 : o[(Len(o) - 2) + j] = rn[j].id
      <3> SUFFICES ASSUME NEW j \in 1..2 PROVE o[(Len(o) - 2) + j] = rn[j].id
        OBVIOUS
      <3>1. (Len(o) - 2) + j = j
        BY <2>4
      <3>2. j = 1 \/ j = 2
        OBVIOUS
      <3>3. QED
        BY <2>4, <3>1, <3>2
    <2>6. Len(o) - 2 = 0 /\ 2 <= Len(o) /\ 0 \in Nat
      BY <2>4
    <2>7. Twins(fr, 0, s, 0, o, 0, g, nd)
      BY <2>6, TwinsNone
    <2>8. Paired(fr, s, 0, o, 2, g, nd, rn)
      BY <1>1, <2>5, <2>6, <2>7 DEF Paired
    <2>9. Paired(fr, s, h, o, v, g, nd, rn)
      BY <2>2, <2>3, <2>8
    <2>10. QED
      BY <2>9 DEF OnlineStack, fr, s, o, rn, g, nd, h, v
  <1>3. CASE ~Held(t)'
    <2>1. s = <<>> /\ IsSequence(o)
      BY <1>3
    <2>2. Len(s) = 0 /\ Len(o) \in Nat /\ Len(s) \in Nat
      BY <2>1, LengthType
    <2>3. OverSize(t)' = 0
      BY <1>3 DEF OverSize
    <2> HIDE DEF fr, s, o, g, nd
    <2>4. Twins(fr, 0, s, 0, o, Len(o), g, nd)
      BY <2>2, TwinsNone
    <2>5. Twins(fr, Len(fr), s, Len(s), o, Len(o), g, nd)
      BY <1>1, <2>2, <2>4
    <2>6. QED
      BY <1>3, <2>2, <2>3, <2>5, StackSettled DEF fr, s, o, g, nd
  <1>4. QED
    BY <1>2, <1>3

(* The master there.                                                       *)
LEMMA MasterBegins ==
  ASSUME Master \in Threads, Held(Master)', NEW r1, NEW r2, region_nodes' = <<r1, r2>>,
         NEW s, Len(s) = 1, s \in Seq(NodeRecord), r1 \in NodeRecord, r2 \in NodeRecord,
         NEW q, q = Append(Append(s, r1), r2), last_nodes'[Master] = q,
         NEW m \in Nat, NEW w, NEW c, NEW from, Drawn(w, c, q, 1, m, 2, from), open'[Master] = w.stack,
         Len(frames'[Master]) = 1,
         Twins(frames'[Master], 1, q, 1, open'[Master], m, Shut(Master)', node')
  PROVE  OnlineStack(Master)'
  <1> DEFINE fr == frames'[Master]
             o  == open'[Master]
             rn == region_nodes'
             g  == Shut(Master)'
             nd == node'
             h  == Height(Master)'
             v  == OverSize(Master)'
             z  == last_nodes'[Master]
  <1>1. Len(q) = 3 /\ q[2] = r1 /\ q[3] = r2
    <2> DEFINE p == Append(s, r1)
    <2>1. p = Append(s, r1) /\ q = Append(p, r2)
      OBVIOUS
    <2> HIDE DEF p
    <2>2. p \in Seq(NodeRecord) /\ Len(p) = Len(s) + 1 /\ p[Len(s) + 1] = r1
      BY <2>1, OneAppended
    <2>3. Len(p) = 2 /\ p[2] = r1
      BY <2>2
    <2>4. Len(q) = Len(p) + 1 /\ q[Len(p) + 1] = r2 /\ \A j \in 1..Len(p) : q[j] = p[j]
      BY <2>1, <2>2, OneAppended
    <2>5. 2 \in 1..Len(p) /\ Len(p) + 1 = 3
      BY <2>3
    <2>6. QED
      BY <2>3, <2>4, <2>5
  <1>2. v = 2
    BY DEF OverSize
  <1>3. h = 1
    <2>1. h = Len(q) - 2
      BY DEF Height
    <2> HIDE DEF h
    <2>2. QED
      BY <1>1, <2>1
  <1>4. /\ Len(w.stack) = m + (Len(q) - 1) /\ \A j \in 1..(Len(q) - 1) : w.stack[m + j] = q[1 + j].id
    BY DEF Drawn, Aligned
  <1>5. o = w.stack /\ rn = <<r1, r2>> /\ z = q
    OBVIOUS
  <1>6. Twins(fr, 1, z, 1, o, m, g, nd) /\ Len(fr) = 1
    BY <1>5
  <1> HIDE DEF fr, o, rn, g, nd, h, v, z
  <1>7. Len(o) = m + 2 /\ o[m + 1] = rn[1].id /\ o[m + 2] = rn[2].id
    <2>1. Len(q) - 1 = 2
      BY <1>1
    <2>2. 1 \in 1..2 /\ 2 \in 1..2 /\ 1 + 1 = 2 /\ 1 + 2 = 3
      OBVIOUS
    <2>3. Len(o) = m + 2 /\ \A j \in 1..2 : o[m + j] = q[1 + j].id
      BY <1>4, <1>5, <2>1
    <2>4. o[m + 1] = q[2].id /\ o[m + 2] = q[3].id
      BY <2>2, <2>3
    <2>5. QED
      BY <1>1, <1>5, <2>3, <2>4
  <1>8. Len(o) - 2 = m /\ 2 <= Len(o)
    BY <1>7
  <1>9. \A j \in 1..2 : o[(Len(o) - 2) + j] = rn[j].id
    <2> SUFFICES ASSUME NEW j \in 1..2 PROVE o[(Len(o) - 2) + j] = rn[j].id
      OBVIOUS
    <2>1. j = 1 \/ j = 2
      OBVIOUS
    <2>2. QED
      BY <1>7, <1>8, <2>1
  <1>10. Paired(fr, z, 1, o, 2, g, nd, rn)
    BY <1>6, <1>8, <1>9 DEF Paired
  <1>11. Paired(fr, z, h, o, v, g, nd, rn)
    BY <1>2, <1>3, <1>10
  <1>12. QED
    BY <1>11 DEF OnlineStack, fr, o, rn, g, nd, h, v, z

(* captureParallelBegin: every thread of the region has its two nodes.     *)
LEMMA ParallelBeginOnline ==
  ASSUME OnlineInv, StacksInv', EventsInv', NEW req \in Requests, NEW b \in 0..MaxBarriers,
         OnParallelBegin(req, b)
  PROVE  OnlineInv'
  <1> DEFINE e  == node_ctr + 2
             d  == node_ctr + 3
             c  == node_ctr
             s  == last_nodes[Master]
             f1 == NewNode(e, "FINISH", Top(s))
             f2 == NewNode(d, "FINISH", f1)
             n  == ExpectedTeam(req)
             v  == Stepped(Master)
             x  == PushNode(v, e, Fresh("FINISH", "region"))
             w  == PushNode(x, d, PhaseFinish)
             f  == WithStep(Master)
             y  == Cur(Master).past \union {node_ctr + 1}
             K  == DOMAIN taskMap
             m  == Len(open[Master])
             from == Origin(Master, K)
             q  == Append(Append(s, f1), f2)
  <1>1. /\ TPParallelBegin(req, b) /\ ParallelBegin(req, b) /\ TeamInv /\ TypeOK' /\ StacksInv
        /\ MemoryInv /\ OnceInv /\ MapInv /\ RecordsInv /\ pc[Master] = "idle"
    BY DEF OnParallelBegin, TPParallelBegin, ParallelBegin, OnlineInv, StacksInv, TeamInv
  <1>2. /\ ~Active /\ pc'[Master] = "forked" /\ \A t \in Threads \ {Master} : pc'[t] = "idle"
        /\ released' = 1..team' /\ team' <= num_threads' /\ num_threads' = n /\ n \in Threads
        /\ region_nodes'[1] \in NodeRecord /\ region_nodes'[2] \in NodeRecord /\ Active'
    BY <1>1, ParallelBeginTeam
  <1>3. Quiet
    BY <1>1, <1>2, SerialQuiet
  <1>4. /\ node' = w.nodes
        /\ open' = [t \in Threads |->
             IF t = Master THEN w.stack ELSE IF t <= num_threads' THEN <<e, d>> ELSE open[t]]
    BY DEF OnParallelBegin
  <1>5. /\ node_ctr' = d /\ region_nodes' = <<f1, f2>> /\ pendingFinish' = <<>>
        /\ last_nodes' = [t \in Threads |->
             IF t \in 1..n THEN last_nodes[t] \o <<f1, f2>> ELSE last_nodes[t]]
    BY <1>1 DEF ParallelBegin, ForgetBarriers
  <1>6. /\ frames' = [frames EXCEPT ![Master] = WithLast(frames[Master], f)] /\ taskMap' = taskMap
    BY <1>1 DEF TPParallelBegin, SetFrame, WithLast, Untouched
  <1>7. /\ Based(Master, 1, 1, m - OverSize(Master)) /\ Len(s) = 1 /\ s \in Seq(NodeRecord)
        /\ Len(frames[Master]) = 1 /\ IsSequence(frames[Master]) /\ frames[Master] # <<>>
        /\ Cur(Master) = frames[Master][1] /\ Cur(Master).ctx = SerialCode
        /\ Master \in Threads /\ ~Held(Master) /\ m \in Nat
    BY <1>3, SerialPlace
  <1>8. OverSize(Master) = 0
    BY <1>1, <1>7 DEF OverSize
  <1>9. /\ c \in Nat /\ e = c + 2 /\ d = c + 3 /\ e \in Nat /\ d \in Nat /\ c <= d
        /\ e \in 1..d /\ d \in 1..d
    BY <1>1 DEF MemoryInv
  <1>10. /\ f1 \in NodeRecord /\ f1.id = e /\ f2 \in NodeRecord /\ f2.id = d
    <2>1. Top(s) \in NodeRecord
      BY <1>7, TopType
    <2>2. f1 \in NodeRecord
      BY <1>9, <2>1, NewNodeType
    <2>3. f2 \in NodeRecord
      BY <1>9, <2>2, NewNodeType
    <2>4. QED
      BY <2>2, <2>3 DEF NewNode
  <1>11. f = [Cur(Master) EXCEPT !.past = y]
    BY DEF WithStep
  <1>12. \A t \in Threads \ {Master} : last_nodes[t] = <<>> /\ frames[t] = <<>>
    <2> TAKE t \in Threads \ {Master}
    <2>1. last_nodes[t] = <<>>
      BY <1>1, <1>3, QuietNodes
    <2>2. IsSequence(frames[t]) /\ Len(frames[t]) = 0
      BY <1>1, <1>3, QuietContexts DEF Depth
    <2>3. frames[t] = <<>>
      BY <2>2, LengthType
    <2>4. QED
      BY <2>1, <2>3
  <1>13. K = {}
    BY <1>1, <1>3 DEF Quiet, TasksDone, RecordsInv, IsSequence
  <1>14. /\ x = PushNode(v, e, Fresh("FINISH", "region")) /\ w = PushNode(x, d, PhaseFinish)
         /\ q = Append(Append(s, f1), f2) /\ s = last_nodes[Master] /\ K \subseteq DOMAIN taskMap
         /\ from = Origin(Master, K) /\ m = Len(open[Master]) /\ v = Stepped(Master)
    OBVIOUS
  <1>15. Based(Master, 1, 1, m)
    <2> HIDE DEF m
    <2>1. m - 0 = m
      BY <1>7
    <2>2. QED
      BY <1>7, <1>8, <2>1
  <1>16. \A t \in Threads : Held(t)' <=> t \in 1..n
    <2> TAKE t \in Threads
    <2> HIDE DEF n
    <2>1. t \in Nat /\ n \in Nat /\ team' \in Nat
      BY <1>1, <1>2 DEF Threads, TypeOK
    <2>2. Held(t)' <=> t \in 1..team' \/ t \in (team' + 1)..n
      BY <1>2 DEF Held, Orphan
    <2>3. team' <= n
      BY <1>2
    <2>4. \A i, j, k \in Nat : j <= k => (i \in 1..j \/ i \in (j + 1)..k <=> i \in 1..k)
      OBVIOUS
    <2>5. (t \in 1..team' \/ t \in (team' + 1)..n) <=> t \in 1..n
      BY <2>1, <2>3, <2>4
    <2>6. QED
      BY ONLY <2>2, <2>5, Zenon
  <1> HIDE DEF f1, f2, n, v, x, w, f, y, K, m, from, q
  <1>17. Drawn(v, c, s, 1, m, 2, from)
    BY <1>3, <1>8, <1>14, SerialDrawn
  <1>18. /\ Drawn(w, d, q, 1, m, 2, from) /\ ~Private(w.nodes, e) /\ ~Private(w.nodes, d)
    <2> HIDE DEF c, e, d, s
    <2>1. QED
      BY <1>7, <1>9, <1>10, <1>14, <1>17, RegionPushed
  <1> HIDE DEF s, c
  <1>19. \A t \in Threads \ {Master} : t \in Nat /\ (t <= num_threads' <=> t \in 1..n)
    BY <1>2, <1>7 DEF Threads
  <1>20. Turns(Master, w)
    <2>1. open'[Master] = w.stack /\ open' = [t \in Threads |-> open'[t]]
      BY <1>4, <1>7
    <2>2. ASSUME NEW t \in Threads \ {Master}
          PROVE  Aside(t)
      <3>1. CASE t <= num_threads'
        <4>1. open'[t] = <<e, d>>
          BY <1>4, <3>1
        <4>2. /\ e \in 1..node_ctr' /\ d \in 1..node_ctr'
              /\ ~Private(node', e) /\ ~Private(node', d)
          BY <1>4, <1>5, <1>9, <1>18
        <4> DEFINE o == open'[t]
        <4> HIDE DEF e, d, o
        <4>3. IsSequence(o) /\ Len(o) = 2 /\ o[1] = e /\ o[2] = d
          BY <4>1 DEF o, IsSequence
        <4>4. \A j \in 1..Len(o) : o[j] = e \/ o[j] = d
          BY <4>3
        <4>5. \A j \in 1..Len(o) : o[j] \in 1..node_ctr' /\ ~Private(node', o[j])
          BY <4>2, <4>4
        <4>6. QED
          BY <4>3, <4>5 DEF Aside, o
      <3>2. CASE ~(t <= num_threads')
        <4>1. open'[t] = open[t]
          BY <1>4, <3>2
        <4>2. QED
          BY <4>1 DEF Aside
      <3>3. QED
        BY <3>1, <3>2
    <2>3. QED
      BY <1>4, <2>1, <2>2 DEF Turns
  <1>21. Drawn(w, node_ctr', q, 1, m, 2, Origin(Master, K))
    BY <1>5, <1>14, <1>18
  <1>22. MemoryInv' /\ OnceInv'
    <2>1. m <= Len(open[Master])
      BY <1>15 DEF Based
    <2>2. QED
      BY <1>1, <1>7, <1>14, <1>20, <1>21, <2>1, TurnMemory
  <1>23. MapInv'
    BY <1>6, <1>13 DEF MapInv, K
  <1>24. PendingInv'
    BY <1>5 DEF PendingInv
  <1>25. ASSUME NEW t \in Threads \ {Master}
         PROVE  OnlineStack(t)'
    <2>1. frames'[t] = <<>> /\ pc'[t] = "idle"
      BY <1>2, <1>6, <1>12
    <2>2. CASE t \in 1..n
      <3>1. Held(t)'
        BY <1>16, <2>2
      <3>2. open'[t] = <<f1.id, f2.id>>
        BY <1>4, <1>10, <1>19, <2>2
      <3>3. last_nodes'[t] = <<f1, f2>>
        <4>1. last_nodes'[t] = last_nodes[t] \o <<f1, f2>>
          BY <1>5, <2>2
        <4>2. last_nodes'[t] = <<>> \o <<f1, f2>>
          BY <1>12, <4>1
        <4>3. QED
          BY <4>2
      <3>4. QED
        BY <1>5, <2>1, <3>1, <3>2, <3>3, WorkerBegins
    <2>3. CASE t \notin 1..n
      <3>1. ~Held(t)'
        BY <1>16, <2>3
      <3>2. last_nodes'[t] = <<>>
        BY <1>5, <1>12, <2>3
      <3>3. IsSequence(open'[t])
        BY <1>22 DEF MemoryInv
      <3>4. QED
        BY <1>5, <2>1, <3>1, <3>2, <3>3, WorkerBegins
    <2>4. QED
      BY <2>2, <2>3
  <1>26. OnlineStack(Master)'
    <2>1. /\ Len(frames'[Master]) = 1
          /\ Twins(frames'[Master], 1, q, 1, open'[Master], m, Shut(Master)', node')
      BY <1>6, <1>7, <1>11, <1>14, <1>15, <1>20, <1>21, SerialTwins
    <2>2. Master \in 1..n
      BY <1>2 DEF Threads, Master
    <2>3. Held(Master)'
      BY <1>7, <1>16, <2>2
    <2>4. last_nodes'[Master] = q
      <3>1. last_nodes'[Master] = s \o <<f1, f2>>
        BY <1>5, <1>7, <2>2 DEF s
      <3>2. s \o <<f1, f2>> = Append(Append(s, f1), f2)
        BY <1>7, <1>10, TwoPushed
      <3>3. QED
        BY <1>14, <3>1, <3>2
    <2>5. open'[Master] = w.stack
      BY <1>20 DEF Turns
    <2>6. QED
      BY <1>5, <1>7, <1>10, <1>14, <1>18, <2>1, <2>3, <2>4, <2>5, MasterBegins
  <1>27. QED
    BY <1>22, <1>23, <1>24, <1>25, <1>26 DEF OnlineInv

----------------------------------------------------------------------------
(* Every run                                                               *)

(* The master has one context to start with, and the root on both stacks.  *)
LEMMA SerialFrame ==
  ASSUME NEW f, f = Frame(SerialCode, {}), NEW g
  PROVE  /\ IsContext(f) /\ ~f.waiting
         /\ FrameSize(f, g) = 1 /\ SharedSize(f, g) = 0 /\ Extra(f) = 0
  <1>1. SerialCode \in Contexts
    BY TaskAssumption, RegionAssumption DEF SerialCode, Contexts
  <1>2. /\ IsContext(f) /\ f.ctx = SerialCode /\ ~f.waiting
        /\ Len(f.levels) = 1 /\ f.levels[1] = Level("body")
        /\ Last(f.levels) = Level("body")
    BY <1>1, NewContext
  <1>3. ~(f.ctx > MaxTasks)
    BY <1>2, TaskAssumption DEF SerialCode
  <1>4. LevelSize(Level("body")) = 0
    <2> DEFINE l == Level("body")
    <2>1. l.kind = "body" /\ l.unwaited = FALSE
      BY DEF Level
    <2> HIDE DEF l
    <2>2. QED
      BY <2>1 DEF LevelSize, Opens, l
  <1>5. Size(f, g) = 1 /\ SharedSize(f, g) = 0 /\ Extra(f) = 0
    BY <1>2, <1>3 DEF Size, SharedSize, Extra
  <1>6. FrameSize(f, g) = 1
    BY <1>2, <1>4, <1>5 DEF FrameSize, LevelAt
  <1>7. QED
    BY <1>2, <1>5, <1>6

LEMMA RootTwins ==
  ASSUME NEW fr, fr = <<Frame(SerialCode, {})>>, NEW s, s = <<Root>>, NEW o, o = <<Root.id>>,
         NEW nd, nd = [i \in {Root.id} |-> Fresh("FINISH", NoSite)], NEW g
  PROVE  Twins(fr, 1, s, 1, o, 1, g, nd)
  <1> DEFINE f == Frame(SerialCode, {})
             n == Fresh("FINISH", NoSite)
  <1>1. /\ IsContext(f) /\ ~f.waiting /\ FrameSize(f, g) = 1 /\ SharedSize(f, g) = 0
        /\ Extra(f) = 0
    BY SerialFrame
  <1>2. fr[1] = f
    OBVIOUS
  <1>3. o[1] = 1 /\ s[1] = Root /\ Root.id = 1 /\ Root.finish_flag = FALSE
    BY DEF Root
  <1>4. /\ n.finish_flag = FALSE /\ n.is_barrier_finish = FALSE /\ n.callSiteId = "none"
    BY DEF Fresh, NoSite
  <1>5. 1 \in DOMAIN nd /\ nd[1] = n
    BY <1>3
  <1> HIDE DEF f, n
  <1>6. SameIds(f, s, 0, o, 0, g)
    <2>1. \A j \in 1..1 : j = 1 /\ 0 + j = 1
      OBVIOUS
    <2>2. QED
      BY <1>1, <1>3, <2>1 DEF SameIds
  <1>7. Private(nd, 1)
    BY <1>4, <1>5 DEF Private
  <1>8. OwnedNodes(f, s, 0, o, 0, g, nd)
    <2>1. \A j \in (0 + 1)..1 : j = 1 /\ 0 + j = 1 /\ ~(j > 0 + 1)
      OBVIOUS
    <2>2. QED
      BY <1>1, <1>3, <1>4, <1>5, <1>7, <2>1 DEF OwnedNodes, OwnedNode
  <1>9. Parts(f, s, 0, o, 0, g, nd)
    BY <1>1, <1>6, <1>8 DEF Parts, WaitNode
  <1>10. Twins(fr, 0, s, 0, o, 0, g, nd)
    BY TwinsNone
  <1> DEFINE h == 1
  <1>11. /\ fr[0 + 1] = f /\ 0 \in Nat
         /\ h = 0 + FrameSize(fr[0 + 1], g)
         /\ h = 0 + FrameSize(fr[0 + 1], g) + Extra(fr[0 + 1])
    BY <1>1, <1>2
  <1>12. IsContext(fr[0 + 1]) /\ Parts(fr[0 + 1], s, 0, o, 0, g, nd)
    BY <1>1, <1>9, <1>11
  <1> HIDE DEF h
  <1>13. Twins(fr, 0 + 1, s, h, o, h, g, nd)
    BY <1>10, <1>11, <1>12, TwinsLay
  <1>14. QED
    BY <1>13 DEF h

LEMMA OnlineInvInit == OnlineInit => OnlineInv
  <1> SUFFICES ASSUME OnlineInit PROVE OnlineInv
    OBVIOUS
  <1>1. EventsInv /\ StacksInv /\ TypeOK
    BY EventsInit, StacksInvInit DEF OnlineInit, StacksInv, TeamInv
  <1>2. /\ open = [t \in Threads |-> IF t = Master THEN <<1>> ELSE <<>>]
        /\ node = [i \in {Root.id} |-> Fresh("FINISH", NoSite)] /\ Root.id = 1
    BY DEF OnlineInit, Root
  <1>3. /\ last_nodes = [t \in Threads |-> IF t = Master THEN <<Root>> ELSE <<>>]
        /\ frames = [t \in Threads |-> IF t = Master THEN <<Frame(SerialCode, {})>> ELSE <<>>]
        /\ node_ctr = 1 /\ pendingFinish = <<>> /\ taskMap = <<>> /\ released = {}
        /\ \A t \in Threads : pc[t] = "idle"
    BY DEF OnlineInit, TasksInit, Init
  <1>4. Master \in Threads
    BY RegionAssumption DEF Threads, Master
  <1>5. IsSequence(<<1>>) /\ IsSequence(<<>>) /\ Len(<<1>>) = 1 /\ <<1>>[1] = 1 /\ Len(<<>>) = 0
    BY EmptySeq DEF IsSequence
  <1>6. MemoryInv
    <2>1. IsNode(Fresh("FINISH", NoSite))
      BY FreshNode
    <2>2. IsMemory(node) /\ DOMAIN node = {1}
      BY <1>2, <2>1 DEF IsMemory
    <2>3. \A t \in Threads : IsSequence(open[t]) /\ \A j \in 1..Len(open[t]) : open[t][j] \in 1..1
      BY <1>2, <1>5
    <2>4. QED
      BY <1>2, <1>3, <2>2, <2>3 DEF MemoryInv
  <1>7. OnceInv
    <2>1. \A t \in Threads : \A j \in 1..Len(open[t]) : t = Master /\ j = 1
      BY <1>2, <1>5
    <2>2. QED
      BY <2>1 DEF OnceInv
  <1>8. MapInv /\ PendingInv
    BY <1>3 DEF MapInv, PendingInv
  <1>9. ASSUME NEW t \in Threads
        PROVE  OnlineStack(t)
    <2>1. ~Held(t)
      BY <1>3, <1>4 DEF Held, Orphan, Active
    <2>2. OverSize(t) = 0
      BY <1>3, <2>1 DEF OverSize
    <2> DEFINE fr == frames[t]
               s  == last_nodes[t]
               o  == open[t]
               g  == Shut(t)
    <2>3. CASE t = Master
      <3>1. fr = <<Frame(SerialCode, {})>> /\ s = <<Root>> /\ o = <<1>> /\ o = <<Root.id>>
        BY <1>2, <1>3, <2>3
      <3> HIDE DEF fr, s, o, g
      <3>2. Twins(fr, 1, s, 1, o, 1, g, node)
        BY <1>2, <3>1, RootTwins
      <3>3. Len(fr) = 1 /\ Len(s) = 1 /\ Len(o) = 1
        BY <3>1
      <3>4. Height(t) = 1
        <4>1. Len(s) - 0 = 1
          BY <3>3
        <4>2. QED
          BY <2>1, <4>1 DEF Height, s
      <3>5. Len(o) - 0 = 1
        BY <3>3
      <3>6. Paired(fr, s, 1, o, 0, g, node, region_nodes)
        BY <3>2, <3>3, <3>5 DEF Paired
      <3>7. QED
        BY <2>2, <3>4, <3>6 DEF OnlineStack, fr, s, o, g
    <2>4. CASE t # Master
      <3>1. fr = <<>> /\ s = <<>> /\ o = <<>>
        BY <1>2, <1>3, <2>4
      <3> HIDE DEF fr, s, o, g
      <3>2. Twins(fr, 0, s, 0, o, 0, g, node)
        BY TwinsNone
      <3>3. Len(fr) = 0 /\ Len(s) = 0 /\ Len(o) = 0
        BY <3>1
      <3>4. Height(t) = 0
        <4>1. Len(s) - 0 = 0
          BY <3>3
        <4>2. QED
          BY <2>1, <4>1 DEF Height, s
      <3>5. Len(o) - 0 = 0
        BY <3>3
      <3>6. Paired(fr, s, 0, o, 0, g, node, region_nodes)
        BY <3>2, <3>3, <3>5 DEF Paired
      <3>7. QED
        BY <2>2, <3>4, <3>6 DEF OnlineStack, fr, s, o, g
    <2>5. QED
      BY <2>3, <2>4
  <1>10. QED
    BY <1>1, <1>6, <1>7, <1>8, <1>9 DEF OnlineInv

LEMMA OnlineInvStep ==
  ASSUME WaitsAreThere, OnlineInv, [OnlineNext]_bothVars
  PROVE  OnlineInv'
  <1>1. EventsInv /\ StacksInv
    BY DEF OnlineInv
  <1>2. EventsInv' /\ [TasksNext]_allVars
    BY <1>1, EventsStep, EventHappens
  <1>3. StacksInv'
    BY <1>1, <1>2, StacksInvStep
  <1>4. CASE UNCHANGED bothVars
    BY <1>2, <1>3, <1>4, NothingDone DEF bothVars, onlineVars
  <1>5. ASSUME NEW req \in Requests, NEW b \in 0..MaxBarriers, OnParallelBegin(req, b)
        PROVE  OnlineInv'
    BY <1>2, <1>3, <1>5, ParallelBeginOnline
  <1>6. ASSUME NEW t \in Threads, OnlineThreadStep(t)
        PROVE  OnlineInv'
    <2>1. CASE OnImplicitTaskBegin(t)
      BY <1>2, <1>3, <2>1, ImplicitTaskBeginOnline
    <2>2. CASE OnBarrierBegin(t)
      BY <1>2, <1>3, <2>2, BarrierBeginOnline
    <2>3. CASE OnBarrierArrive(t)
      BY <1>2, <1>3, <2>3, BarrierArriveOnline
    <2>4. CASE OnImplicitTaskEnd(t)
      BY <1>2, <1>3, <2>4, ImplicitTaskEndOnline
    <2>5. ASSUME NEW now \in BOOLEAN, OnTaskAlloc(t, now)
          PROVE  OnlineInv'
      BY <1>2, <1>3, <2>5, TaskAllocOnline
    <2>6. ASSUME NEW k \in DOMAIN tasks, OnTaskRead(t, k)
          PROVE  OnlineInv'
      BY <1>2, <1>3, <2>6, NothingDone DEF OnTaskRead
    <2>7. CASE OnTaskEnd(t)
      BY <1>2, <1>3, <2>7, TaskEndOnline
    <2>8. CASE OnTaskwaitBegin(t)
      BY <1>2, <1>3, <2>8, TaskwaitBeginOnline
    <2>9. CASE OnTaskwaitEnd(t)
      BY <1>2, <1>3, <2>9, TaskwaitEndOnline
    <2>10. ASSUME NEW kind \in Kinds, OnBlockBegin(t, kind)
           PROVE  OnlineInv'
      BY <1>2, <1>3, <2>10, BlockBeginOnline
    <2>11. CASE OnBlockEnd(t)
      BY <1>2, <1>3, <2>11, BlockEndOnline
    <2>12. CASE OnLoopChunk(t)
      BY <1>2, <1>3, <2>12, LoopChunkOnline
    <2>13. CASE OnLoopDrained(t)
      BY <1>2, <1>3, <2>13, LoopDrainedOnline
    <2>14. CASE OnNothing(t)
      <3>1. UNCHANGED <<open, node>> /\ (TPBarrierEnd(t) \/ TPCountImplicitEnd(t))
        BY <2>14 DEF OnNothing, onlineVars
      <3>2. CASE TPBarrierEnd(t)
        BY <1>2, <1>3, <3>1, <3>2, BarrierEndOnline
      <3>3. CASE TPCountImplicitEnd(t)
        BY <1>2, <1>3, <3>1, <3>3, CountImplicitEndOnline
      <3>4. QED
        BY <3>1, <3>2, <3>3
    <2>15. QED
      BY <1>6, <2>1, <2>2, <2>3, <2>4, <2>5, <2>6, <2>7, <2>8, <2>9, <2>10, <2>11, <2>12, <2>13,
         <2>14 DEF OnlineThreadStep
  <1>7. ASSUME NEW t \in Threads, OnTaskBegin(t)
        PROVE  OnlineInv'
    BY <1>2, <1>3, <1>7, TaskBeginOnline
  <1>8. CASE OnParallelEnd
    BY <1>2, <1>3, <1>8, ParallelEndOnline
  <1>9. CASE OnFinishProfile
    BY <1>2, <1>3, <1>9, FinishProfileOnline
  <1>10. CASE Finished /\ UNCHANGED taskVars /\ UNCHANGED onlineVars
    BY <1>2, <1>3, <1>10, NothingDone DEF Finished, allVars, onlineVars
  <1>11. QED
    BY <1>4, <1>5, <1>6, <1>7, <1>8, <1>9, <1>10 DEF OnlineNext

(* Serial code is the master's.                                            *)
LEMMA SerialIsMaster ==
  ASSUME StacksInv, NEW t \in Threads, frames[t] # <<>>, Cur(t).ctx = SerialCode, pc[t] = "idle"
  PROVE  t = Master
  <1> SUFFICES ASSUME t # Master PROVE FALSE
    OBVIOUS
  <1>1. FramesOK(t, frames[t], pc[t], NoTaskHere(t), firstDispatch[t])
    BY DEF StacksInv, ThreadOK, FramesInv
  <1>2. Ours(t, pc[t]) = 0
    BY DEF Ours, Depth, InRegionControl
  <1>3. IsSequence(frames[t]) /\ \A i \in 1..Len(frames[t]) : IsTask(frames[t][i].ctx)
    BY <1>1, <1>2 DEF FramesOK
  <1>4. Len(frames[t]) \in 1..Len(frames[t])
    BY <1>3, LengthType
  <1>5. IsTask(Cur(t).ctx)
    BY <1>3, <1>4 DEF Cur, Last
  <1>6. QED
    BY <1>5 DEF IsTask, SerialCode

(* The stacks of every thread are those of the off-line profiler: node for *)
(* node what its contexts have, and of a region what is still open.        *)
THEOREM OnlineInvariant ==
  ASSUME WaitsAreThere
  PROVE  OnlineSpec => []OnlineInv
  <1>1. OnlineInv /\ [OnlineNext]_bothVars => OnlineInv'
    BY OnlineInvStep
  <1>2. QED
    BY <1>1, OnlineInvInit, PTL DEF OnlineSpec

(* When a thread runs code of the program, the two profilers have the same *)
(* node on top of its stack: what the on-line handlers attribute to a node *)
(* is what the off-line tree says of it.                                   *)
THEOREM StacksAgree ==
  ASSUME WaitsAreThere
  PROVE  OnlineSpec => []ModesAgree
  <1>1. OnlineInv => ModesAgree
    <2> SUFFICES ASSUME OnlineInv, NEW t \in Threads, InUserCode(t)
                 PROVE  Last(open[t]) = Top(last_nodes[t]).id
      BY DEF ModesAgree
    <2>1. frames[t] # <<>> /\ ~Cur(t).waiting /\ StacksInv
      BY DEF InUserCode, OnlineInv
    <2>2. ~Held(t) /\ OverSize(t) = 0
      <3>1. CASE Cur(t).ctx = SerialCode /\ pc[t] = "idle"
        <4>1. t = Master
          BY <2>1, <3>1, SerialIsMaster
        <4>2. ~Active
          BY <3>1, <4>1 DEF Active
        <4>3. ~Held(t)
          BY <2>1, <4>2, SerialQuiet DEF Quiet
        <4>4. QED
          BY <3>1, <4>3 DEF OverSize
      <3>2. CASE IsTask(Cur(t).ctx) \/ (Cur(t).ctx = Implicit(t) /\ pc[t] = "work")
        <4>1. InWork(t)
          BY <2>1, <3>2, WorkWhere
        <4>2. QED
          BY <4>1, WorkPlace
      <3>3. QED
        BY <3>1, <3>2 DEF InUserCode
    <2>3. PICK lo \in Nat, m \in Nat : AtPlace(t, lo, m)
      BY <2>1, <2>2, OnlineTop
    <2> DEFINE s == last_nodes[t]
               o == open[t]
               f == Cur(t)
               g == Shut(t)
               z == FrameSize(f, g)
    <2>4. /\ Len(s) = lo + z /\ Len(o) = m + z + Extra(f) /\ lo < Len(s) /\ Len(s) \in Nat
          /\ SameIds(f, s, lo, o, m, g) /\ IsContext(f)
      <3>1. IsContext(f) /\ AtPlace(t, lo, m)
        BY <2>3, PlaceBased
      <3>2. QED
        BY <3>1 DEF AtPlace, Parts
    <2>5. z \in Nat \ {0} /\ Extra(f) = 0
      BY <2>1, <2>4, FrameSizes DEF Extra
    <2>6. s # <<>>
      BY <2>4
    <2>7. \A j \in 1..z : o[m + j] = s[lo + j].id
      BY <2>4 DEF SameIds
    <2> HIDE DEF s, o, f, g, z
    <2>8. Len(s) = lo + z /\ Len(o) = m + z /\ z \in 1..z
      BY <2>4, <2>5
    <2>9. o[Len(o)] = s[Len(s)].id
      BY <2>7, <2>8
    <2>10. QED
      BY <2>6, <2>9 DEF Last, Top, s, o
  <1>2. QED
    BY <1>1, OnlineInvariant, PTL

=============================================================================

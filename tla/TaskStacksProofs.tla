-------------------------- MODULE TaskStacksProofs --------------------------
(***************************************************************************)
(* Machine-checked proofs about OpenmpTasks, where explicit tasks run on   *)
(* top of what their thread had open, for every number of threads, tasks,  *)
(* constructs, chunks, barriers and regions.                               *)
(*                                                                         *)
(* First the counters: every piece of the program's work is measured,      *)
(* whatever the program waits for, when no task is run at once on the      *)
(* thread that allocates it.                                               *)
(*                                                                         *)
(* Then the stacks of open nodes, for tasks run at once or later and on    *)
(* any thread: no assertion fails and every node that is opened is closed. *)
(* The one assumption there is that the program waits for its tasks before *)
(* a barrier and at the end of the chunks of a loop, without which the     *)
(* assertions do fail.                                                     *)
(***************************************************************************)
EXTENDS OpenmpTasks, OpenmpRegionsProofs

(* No team of one, and no other undeferred task: those go unmeasured.      *)
AllDeferred == ~Undeferred /\ DefaultTeam # 1 /\ 1 \notin Requests

----------------------------------------------------------------------------
(* The inductive invariant                                                 *)

InRegionControl == {"work", "locking", "barrier", "join"}

IsSequence(s) == s \in Seq({s[i] : i \in DOMAIN s})

IsFrame(f) ==
  /\ f = [ctx |-> f.ctx, past |-> f.past, waiting |-> f.waiting, levels |-> f.levels]
  /\ f.waiting \in BOOLEAN

(* Thread t, at control point q, runs code of the program if f is on top.  *)
Runs(t, f, q) ==
  /\ ~f.waiting
  /\ \/ IsTask(f.ctx)
     \/ f.ctx = SerialCode /\ q = "idle"
     \/ f.ctx = Implicit(t) /\ q = "work"

(* Where a context can be on the stack of thread t at control point q.     *)
InPlace(t, f, i, q) ==
  \/ IsTask(f.ctx)
  \/ f.ctx = SerialCode /\ t = Master /\ i = 1 /\ ~f.waiting
  \/ /\ f.ctx = Implicit(t) /\ i = Depth(t) + 1
     /\ q \in InRegionControl /\ (f.waiting => q = "work")

(* The contexts of a thread: only the last may run, and those under it     *)
(* will not run when it goes.                                              *)
StackOK(t, s, q) ==
  /\ IsSequence(s)
  /\ \A i \in 1..Len(s) :
       /\ IsFrame(s[i])
       /\ InPlace(t, s[i], i, q)
       /\ i < Len(s) => ~Runs(t, s[i], q)
  /\ t = Master => /\ Len(s) >= 1
                   /\ s[1].ctx = SerialCode
                   /\ q \notin InRegionControl => Len(s) = 1

NoTeamYet ==
  /\ released = {}
  /\ tasks = <<>>
  /\ \A t \in Threads : Len(frames[t]) = Depth(t)

MeasuredInv ==
  /\ pc \in [Threads -> Control]
  /\ counting \in [Threads -> BOOLEAN]
  /\ frames = [t \in Threads |-> frames[t]]
  /\ IsSequence(tasks) /\ Len(tasks) <= MaxTasks
  /\ team = 1 => NoTeamYet
  /\ \A t \in Threads : StackOK(t, frames[t], pc[t])
  /\ WorkIsMeasured

----------------------------------------------------------------------------
(* Sequences and frames                                                    *)

WithLast(s, f) == [s EXCEPT ![Len(s)] = f]
Push(s, f)     == Append(s, f)

LEMMA SequenceOf ==
  ASSUME NEW S, NEW s \in Seq(S)
  PROVE  IsSequence(s)
  <1>1. Range(s) = {s[i] : i \in DOMAIN s}
    BY DEF Range
  <1>2. QED
    BY <1>1, SeqOfRange DEF IsSequence

LEMMA ReplaceLast ==
  ASSUME NEW s, IsSequence(s), s # <<>>, NEW f, NEW r, r = WithLast(s, f)
  PROVE  /\ IsSequence(r) /\ Len(r) = Len(s) /\ r # <<>>
         /\ r[Len(r)] = f
         /\ \A i \in 1..Len(r) : i < Len(r) => r[i] = s[i]
  <1> DEFINE S == {s[i] : i \in DOMAIN s} \union {f}
  <1>1. s \in Seq(S) /\ f \in S
    BY SeqMonotonic DEF IsSequence
  <1> HIDE DEF S
  <1>2. Len(s) \in 1..Len(s)
    BY <1>1, EmptySeq
  <1>3. /\ r \in Seq(S) /\ Len(r) = Len(s)
        /\ \A j \in 1..Len(s) : r[j] = IF j = Len(s) THEN f ELSE s[j]
    BY <1>1, <1>2, ExceptSeq DEF WithLast
  <1>4. IsSequence(r)
    BY <1>3, SequenceOf
  <1>5. r # <<>> /\ Len(r) \in Nat
    BY <1>2, <1>3, EmptySeq
  <1>6. \A i \in 1..Len(r) : i < Len(r) => r[i] = s[i]
    BY <1>3, <1>5
  <1>7. QED
    BY <1>2, <1>3, <1>4, <1>5, <1>6

LEMMA PushLast ==
  ASSUME NEW s, IsSequence(s), NEW f, NEW r, r = Push(s, f)
  PROVE  /\ IsSequence(r) /\ Len(r) = Len(s) + 1 /\ r # <<>>
         /\ r[Len(r)] = f
         /\ \A i \in 1..Len(r) : i < Len(r) => i \in 1..Len(s) /\ r[i] = s[i]
  <1> DEFINE S == {s[i] : i \in DOMAIN s} \union {f}
  <1>1. s \in Seq(S) /\ f \in S
    BY SeqMonotonic DEF IsSequence
  <1> HIDE DEF S
  <1>2. r \in Seq(S) /\ Len(s) \in Nat
    BY <1>1 DEF Push
  <1>3. /\ r # <<>> /\ Len(r) = Len(s) + 1
        /\ \A i \in 1..Len(s) : r[i] = s[i]
        /\ r[Len(s) + 1] = f
    BY <1>1, AppendProperties DEF Push
  <1>4. IsSequence(r)
    BY <1>2, SequenceOf
  <1>5. \A i \in 1..Len(r) : i < Len(r) => i \in 1..Len(s)
    BY <1>2, <1>3
  <1>6. QED
    BY <1>3, <1>4, <1>5

LEMMA PopLast ==
  ASSUME NEW s, IsSequence(s), s # <<>>, NEW r, r = Pop(s)
  PROVE  /\ IsSequence(r) /\ Len(r) = Len(s) - 1
         /\ \A i \in 1..Len(r) : i \in 1..Len(s) /\ i < Len(s) /\ r[i] = s[i]
  <1> DEFINE S == {s[i] : i \in DOMAIN s}
  <1>1. s \in Seq(S)
    BY DEF IsSequence
  <1> HIDE DEF S
  <1>2. Len(s) \in Nat \ {0}
    BY <1>1, EmptySeq
  <1>3. \A i \in 1..(Len(s) - 1) : s[i] \in S
    BY <1>1, <1>2, ElementOfSeq
  <1>4. Len(s) - 1 \in Nat
    BY <1>2
  <1>5. /\ SubSeq(s, 1, Len(s) - 1) \in Seq(S)
        /\ Len(SubSeq(s, 1, Len(s) - 1)) = IF 1 <= Len(s) - 1 THEN Len(s) - 1 - 1 + 1 ELSE 0
        /\ \A i \in 1..(Len(s) - 1 - 1 + 1) : SubSeq(s, 1, Len(s) - 1)[i] = s[1 + i - 1]
    BY <1>3, <1>4, SubSeqProperties
  <1>a. r = SubSeq(s, 1, Len(s) - 1)
    BY DEF Pop
  <1>b. \A n \in Nat \ {0} : (IF 1 <= n - 1 THEN n - 1 - 1 + 1 ELSE 0) = n - 1
    OBVIOUS
  <1>6. /\ r \in Seq(S)
        /\ Len(r) = Len(s) - 1
        /\ \A i \in 1..(Len(s) - 1 - 1 + 1) : r[i] = s[1 + i - 1]
    BY <1>2, <1>5, <1>a, <1>b
  <1>7. \A i \in 1..Len(r) : i \in 1..Len(s) /\ i < Len(s) /\ r[i] = s[i]
    <2> SUFFICES ASSUME NEW i \in 1..Len(r) PROVE i \in 1..Len(s) /\ i < Len(s) /\ r[i] = s[i]
      OBVIOUS
    <2>1. i \in 1..(Len(s) - 1 - 1 + 1) /\ 1 + i - 1 = i
      BY <1>2, <1>6
    <2>2. QED
      BY <1>2, <1>6, <2>1
  <1>8. IsSequence(r)
    BY <1>6, SequenceOf
  <1>9. QED
    BY <1>6, <1>7, <1>8

LEMMA LengthType ==
  ASSUME NEW s, IsSequence(s)
  PROVE  Len(s) \in Nat /\ (s # <<>> <=> Len(s) > 0) /\ DOMAIN s = 1..Len(s)
  BY DEF IsSequence

(* A context whose history, levels or wait change stays that context.      *)
LEMMA PastFrame ==
  ASSUME NEW f, IsFrame(f), NEW x, NEW g, g = [f EXCEPT !.past = x]
  PROVE  IsFrame(g) /\ g.ctx = f.ctx /\ g.waiting = f.waiting
  BY DEF IsFrame

LEMMA LevelsFrame ==
  ASSUME NEW f, IsFrame(f), NEW y, NEW g, g = [f EXCEPT !.levels = y]
  PROVE  IsFrame(g) /\ g.ctx = f.ctx /\ g.waiting = f.waiting
  BY DEF IsFrame

LEMMA WaitingFrame ==
  ASSUME NEW f, IsFrame(f), NEW b \in BOOLEAN, NEW g, g = [f EXCEPT !.waiting = b]
  PROVE  IsFrame(g) /\ g.ctx = f.ctx /\ g.waiting = b
  BY DEF IsFrame

LEMMA SetLevelFrame ==
  ASSUME NEW f, IsFrame(f), NEW l
  PROVE  IsFrame(SetLevel(f, l)) /\ SetLevel(f, l).ctx = f.ctx /\ SetLevel(f, l).waiting = f.waiting
  <1> DEFINE y == [f.levels EXCEPT ![Len(f.levels)] = l]
  <1>1. SetLevel(f, l) = [f EXCEPT !.levels = y]
    BY DEF SetLevel
  <1> HIDE DEF y
  <1>2. QED
    BY <1>1, LevelsFrame

LEMMA LeaveLevelFrame ==
  ASSUME NEW f, IsFrame(f)
  PROVE  IsFrame(LeaveLevel(f)) /\ LeaveLevel(f).ctx = f.ctx /\ LeaveLevel(f).waiting = f.waiting
  <1> DEFINE y == SubSeq(f.levels, 1, Len(f.levels) - 1)
  <1>1. LeaveLevel(f) = [f EXCEPT !.levels = y]
    BY DEF LeaveLevel
  <1> HIDE DEF y
  <1>2. QED
    BY <1>1, LevelsFrame

(* A context with a step more.                                             *)
LEMMA WithStepFrame ==
  ASSUME NEW t \in Threads, IsFrame(Cur(t))
  PROVE  IsFrame(WithStep(t)) /\ WithStep(t).ctx = Cur(t).ctx /\ WithStep(t).waiting = Cur(t).waiting
  <1> DEFINE f == Cur(t)
  <1>1. f = [ctx |-> f.ctx, past |-> f.past, waiting |-> f.waiting, levels |-> f.levels]
    BY DEF IsFrame
  <1>2. WithStep(t) = [ctx |-> f.ctx, past |-> f.past \union {node_ctr + 1},
                       waiting |-> f.waiting, levels |-> f.levels]
    BY <1>1 DEF WithStep
  <1>3. QED
    BY <1>2 DEF IsFrame

----------------------------------------------------------------------------
(* Stacks of contexts: the last is replaced, one is pushed, the last goes, *)
(* while the thread moves from control point q to r.                       *)
LEMMA StackReplace ==
  ASSUME NEW t \in Threads, NEW q, NEW r, NEW s, NEW f, NEW u,
         StackOK(t, s, q), s # <<>>, u = WithLast(s, f),
         IsFrame(f), InPlace(t, f, Len(s), r),
         \A i \in 1..Len(s) : i < Len(s) => InPlace(t, s[i], i, r) /\ ~Runs(t, s[i], r),
         t = Master => /\ Len(s) = 1 => f.ctx = SerialCode
                       /\ r \notin InRegionControl => Len(s) = 1
  PROVE  StackOK(t, u, r) /\ u # <<>> /\ u[Len(u)] = f /\ Len(u) = Len(s)
  <1>1. IsSequence(s)
    BY DEF StackOK
  <1>2. Len(s) \in Nat \ {0}
    BY <1>1, LengthType
  <1>3. /\ IsSequence(u) /\ Len(u) = Len(s) /\ u # <<>>
        /\ u[Len(u)] = f
        /\ \A i \in 1..Len(u) : i < Len(u) => u[i] = s[i]
    BY <1>1, ReplaceLast
  <1>4. \A i \in 1..Len(s) : IsFrame(s[i])
    BY DEF StackOK
  <1>5. ASSUME NEW i \in 1..Len(u)
        PROVE  /\ IsFrame(u[i])
               /\ InPlace(t, u[i], i, r)
               /\ i < Len(u) => ~Runs(t, u[i], r)
    <2>1. CASE i < Len(u)
      BY <1>3, <1>4, <2>1
    <2>2. CASE i = Len(u)
      BY <1>2, <1>3, <2>2
    <2>3. QED
      BY <1>2, <1>3, <2>1, <2>2
  <1>6. t = Master => /\ Len(u) >= 1
                      /\ u[1].ctx = SerialCode
                      /\ r \notin InRegionControl => Len(u) = 1
    <2>1. t = Master => Len(s) >= 1 /\ s[1].ctx = SerialCode
      BY DEF StackOK
    <2>2. Len(u) = Len(s)
      BY <1>3
    <2>3. Len(s) # 1 => 1 \in 1..Len(u) /\ 1 < Len(u)
      BY <1>2, <2>2
    <2>4. QED
      BY <1>3, <2>1, <2>2, <2>3
  <1>7. QED
    BY <1>3, <1>5, <1>6 DEF StackOK

LEMMA StackPush ==
  ASSUME NEW t \in Threads, NEW q, NEW r, NEW s, NEW f, NEW u,
         StackOK(t, s, q), u = Push(s, f),
         IsFrame(f), InPlace(t, f, Len(s) + 1, r),
         \A i \in 1..Len(s) : InPlace(t, s[i], i, r) /\ ~Runs(t, s[i], r),
         t = Master => r \in InRegionControl
  PROVE  StackOK(t, u, r) /\ u # <<>> /\ u[Len(u)] = f
  <1>1. IsSequence(s)
    BY DEF StackOK
  <1>2. Len(s) \in Nat
    BY <1>1, LengthType
  <1>3. /\ IsSequence(u) /\ Len(u) = Len(s) + 1 /\ u # <<>>
        /\ u[Len(u)] = f
        /\ \A i \in 1..Len(u) : i < Len(u) => i \in 1..Len(s) /\ u[i] = s[i]
    BY <1>1, PushLast
  <1>4. \A i \in 1..Len(s) : IsFrame(s[i])
    BY DEF StackOK
  <1>5. ASSUME NEW i \in 1..Len(u)
        PROVE  /\ IsFrame(u[i])
               /\ InPlace(t, u[i], i, r)
               /\ i < Len(u) => ~Runs(t, u[i], r)
    <2>1. CASE i < Len(u)
      BY <1>3, <1>4, <2>1
    <2>2. CASE i = Len(u)
      BY <1>2, <1>3, <2>2
    <2>3. QED
      BY <1>2, <1>3, <2>1, <2>2
  <1>6. t = Master => Len(u) >= 1 /\ u[1].ctx = SerialCode
    <2>1. t = Master => Len(s) >= 1 /\ s[1].ctx = SerialCode
      BY DEF StackOK
    <2>2. Len(s) >= 1 => 1 \in 1..Len(u) /\ 1 < Len(u)
      BY <1>2, <1>3
    <2>3. QED
      BY <1>2, <1>3, <2>1, <2>2
  <1>7. QED
    BY <1>3, <1>5, <1>6 DEF StackOK

LEMMA StackPop ==
  ASSUME NEW t \in Threads, NEW q, NEW r, NEW s, NEW u,
         StackOK(t, s, q), s # <<>>, u = Pop(s),
         \A i \in 1..Len(s) : i < Len(s) => InPlace(t, s[i], i, r) /\ ~Runs(t, s[i], r),
         t = Master => /\ Len(s) > 1
                       /\ r \notin InRegionControl => Len(s) = 2
  PROVE  StackOK(t, u, r) /\ (u # <<>> => ~Runs(t, u[Len(u)], r))
  <1>1. IsSequence(s)
    BY DEF StackOK
  <1>2. Len(s) \in Nat \ {0}
    BY <1>1, LengthType
  <1>3. /\ IsSequence(u) /\ Len(u) = Len(s) - 1
        /\ \A i \in 1..Len(u) : i \in 1..Len(s) /\ i < Len(s) /\ u[i] = s[i]
    BY <1>1, PopLast
  <1>4. \A i \in 1..Len(s) : IsFrame(s[i])
    BY DEF StackOK
  <1>5. \A i \in 1..Len(u) : /\ IsFrame(u[i])
                             /\ InPlace(t, u[i], i, r)
                             /\ ~Runs(t, u[i], r)
    BY <1>3, <1>4
  <1>6. t = Master => /\ Len(u) >= 1
                      /\ u[1].ctx = SerialCode
                      /\ r \notin InRegionControl => Len(u) = 1
    <2>1. t = Master => s[1].ctx = SerialCode
      BY DEF StackOK
    <2>2. t = Master => Len(u) >= 1 /\ 1 \in 1..Len(u)
      BY <1>2, <1>3
    <2>3. QED
      BY <1>2, <1>3, <2>1, <2>2
  <1>7. u # <<>> => Len(u) \in 1..Len(u)
    BY <1>3, LengthType
  <1>8. QED
    BY <1>3, <1>5, <1>6, <1>7 DEF StackOK

----------------------------------------------------------------------------
(* A step that changes the stack, the control point and the counter of one *)
(* thread keeps the invariant if the counter runs when the thread does.    *)
LEMMA OneThread ==
  ASSUME MeasuredInv, abort = "no", NEW t \in Threads,
         NEW s, NEW q \in Control, NEW b \in BOOLEAN,
         frames' = [frames EXCEPT ![t] = s],
         pc' = [pc EXCEPT ![t] = q],
         counting' = [counting EXCEPT ![t] = b],
         StackOK(t, s, q),
         b <=> s # <<>> /\ Runs(t, s[Len(s)], q),
         IsSequence(tasks'), Len(tasks') <= MaxTasks,
         team' = 1 => NoTeamYet'
  PROVE  MeasuredInv'
  <1>1. /\ pc' \in [Threads -> Control]
        /\ counting' \in [Threads -> BOOLEAN]
        /\ frames' = [u \in Threads |-> frames'[u]]
    BY DEF MeasuredInv
  <1>2. pc'[t] = q /\ counting'[t] = b /\ frames'[t] = s
    BY DEF MeasuredInv
  <1>3. \A u \in Threads : u # t => /\ pc'[u] = pc[u] /\ counting'[u] = counting[u]
                                    /\ frames'[u] = frames[u]
    BY DEF MeasuredInv
  <1>4. \A u \in Threads : StackOK(u, frames'[u], pc'[u])
    <2>1. \A u \in Threads : StackOK(u, frames[u], pc[u])
      BY DEF MeasuredInv
    <2>2. QED
      BY <1>2, <1>3, <2>1
  <1>5. ASSUME NEW u \in Threads
        PROVE  counting'[u] <=> InUserCode(u)'
    <2>1. CASE u = t
      BY <1>2, <2>1 DEF InUserCode, Cur, Last, Runs
    <2>2. CASE u # t
      <3>1. counting[u] <=> InUserCode(u)
        BY DEF MeasuredInv, WorkIsMeasured
      <3>2. QED
        BY <1>3, <2>2, <3>1 DEF InUserCode, Cur, Last
    <2>3. QED
      BY <2>1, <2>2
  <1>6. QED
    BY <1>1, <1>4, <1>5 DEF MeasuredInv, WorkIsMeasured

(* What the invariant says of a thread with a context that is not the      *)
(* serial code: there is a team, and where the context is.                 *)
LEMMA OnTop ==
  ASSUME MeasuredInv, NEW t \in Threads, frames[t] # <<>>
  PROVE  /\ StackOK(t, frames[t], pc[t])
         /\ Len(frames[t]) \in Nat \ {0}
         /\ Cur(t) = frames[t][Len(frames[t])]
         /\ IsFrame(Cur(t)) /\ InPlace(t, Cur(t), Len(frames[t]), pc[t])
         /\ Cur(t).ctx # SerialCode => team # 1
         /\ InUserCode(t) <=> Runs(t, Cur(t), pc[t])
  <1>1. StackOK(t, frames[t], pc[t])
    BY DEF MeasuredInv
  <1>2. Len(frames[t]) \in Nat \ {0}
    BY <1>1, LengthType DEF StackOK
  <1>3. Cur(t) = frames[t][Len(frames[t])]
    BY DEF Cur, Last
  <1>4. IsFrame(Cur(t)) /\ InPlace(t, Cur(t), Len(frames[t]), pc[t])
    BY <1>1, <1>2, <1>3 DEF StackOK
  <1>5. Cur(t).ctx # SerialCode => team # 1
    <2>1. team = 1 => Len(frames[t]) = Depth(t)
      BY DEF MeasuredInv, NoTeamYet
    <2>2. Len(frames[t]) = Depth(t) => t = Master /\ Len(frames[t]) = 1
      BY <1>2 DEF Depth
    <2>3. t = Master => frames[t][1].ctx = SerialCode
      BY <1>1 DEF StackOK
    <2>4. QED
      BY <1>3, <2>1, <2>2, <2>3
  <1>6. InUserCode(t) <=> Runs(t, Cur(t), pc[t])
    BY DEF InUserCode, Runs
  <1>7. QED
    BY <1>1, <1>2, <1>3, <1>4, <1>5, <1>6

(* Under the context of an implicit task there is only the serial code.    *)
LEMMA UnderImplicit ==
  ASSUME MeasuredInv, NEW t \in Threads, frames[t] # <<>>, Cur(t).ctx = Implicit(t)
  PROVE  /\ Len(frames[t]) = Depth(t) + 1
         /\ pc[t] \in InRegionControl
         /\ Cur(t).waiting => pc[t] = "work"
         /\ \A i \in 1..Len(frames[t]) : i < Len(frames[t]) =>
              /\ t = Master /\ i = 1
              /\ frames[t][i].ctx = SerialCode /\ ~frames[t][i].waiting
  <1>1. MaxTasks \in Nat /\ t \in Nat \ {0}
    BY TaskAssumption, RegionAssumption DEF Threads
  <1>2. ~IsTask(Cur(t).ctx) /\ Cur(t).ctx # SerialCode
    BY <1>1 DEF IsTask, Implicit, SerialCode
  <1>3. InPlace(t, Cur(t), Len(frames[t]), pc[t])
    BY OnTop
  <1>4. /\ Len(frames[t]) = Depth(t) + 1
        /\ pc[t] \in InRegionControl
        /\ Cur(t).waiting => pc[t] = "work"
    BY <1>2, <1>3 DEF InPlace
  <1>5. ASSUME NEW i \in 1..Len(frames[t]), i < Len(frames[t])
        PROVE  /\ t = Master /\ i = 1
               /\ frames[t][i].ctx = SerialCode /\ ~frames[t][i].waiting
    <2>1. t = Master /\ i = 1
      BY <1>4, <1>5 DEF Depth
    <2>2. frames[t][1].ctx = SerialCode /\ InPlace(t, frames[t][i], i, pc[t])
      BY <2>1 DEF MeasuredInv, StackOK
    <2>3. ~IsTask(SerialCode) /\ SerialCode # Implicit(t)
      BY <1>1 DEF IsTask, SerialCode, Implicit
    <2>4. QED
      BY <2>1, <2>2, <2>3 DEF InPlace
  <1>6. QED
    BY <1>4, <1>5

(* The master outside a region has only the serial code.                   *)
LEMMA MasterAlone ==
  ASSUME MeasuredInv, pc[Master] \notin InRegionControl
  PROVE  /\ Master \in Threads /\ frames[Master] # <<>> /\ Len(frames[Master]) = 1
         /\ Cur(Master) = frames[Master][1]
         /\ Cur(Master).ctx = SerialCode /\ ~Cur(Master).waiting /\ IsFrame(Cur(Master))
         /\ StackOK(Master, frames[Master], pc[Master])
  <1>1. Master \in Threads
    BY RegionAssumption DEF Master, Threads
  <1>2. StackOK(Master, frames[Master], pc[Master])
    BY <1>1 DEF MeasuredInv
  <1>3. Len(frames[Master]) = 1 /\ frames[Master][1].ctx = SerialCode
    BY <1>2 DEF StackOK
  <1>4. frames[Master] # <<>>
    BY <1>2, <1>3, LengthType DEF StackOK
  <1>5. Cur(Master) = frames[Master][1]
    BY <1>3 DEF Cur, Last
  <1>6. IsFrame(Cur(Master)) /\ InPlace(Master, Cur(Master), 1, pc[Master])
    BY <1>1, <1>3, <1>4, <1>5, OnTop
  <1>7. ~IsTask(SerialCode) /\ SerialCode # Implicit(Master)
    BY TaskAssumption DEF IsTask, SerialCode, Implicit, Master
  <1>8. QED
    BY <1>1, <1>2, <1>3, <1>4, <1>5, <1>6, <1>7 DEF InPlace

(* The steps of code that goes on: the running context keeps its place.    *)
LEMMA CodeGoesOn ==
  ASSUME MeasuredInv, abort = "no", NEW t \in Threads, InRegionCode(t), NEW f,
         IsFrame(f), f.ctx = Cur(t).ctx, f.waiting = Cur(t).waiting,
         frames' = [frames EXCEPT ![t] = WithLast(frames[t], f)],
         counting' = [counting EXCEPT ![t] = TRUE],
         pc' = pc, team' = team, IsSequence(tasks'), Len(tasks') <= MaxTasks
  PROVE  MeasuredInv'
  <1>1. frames[t] # <<>> /\ InUserCode(t) /\ Cur(t).ctx # SerialCode
    BY DEF InRegionCode, InUserCode
  <1> DEFINE s == frames[t]
             u == WithLast(s, f)
             q == pc[t]
  <1>2. /\ StackOK(t, s, q) /\ Len(s) \in Nat \ {0} /\ Cur(t) = s[Len(s)]
        /\ InPlace(t, Cur(t), Len(s), q)
        /\ team # 1
        /\ Runs(t, Cur(t), q)
    BY <1>1, OnTop
  <1>3. InPlace(t, f, Len(s), q) /\ Runs(t, f, q)
    BY <1>2 DEF InPlace, Runs
  <1>4. \A i \in 1..Len(s) : i < Len(s) => InPlace(t, s[i], i, q) /\ ~Runs(t, s[i], q)
    BY <1>2 DEF StackOK
  <1>5. t = Master => /\ Len(s) = 1 => f.ctx = SerialCode
                      /\ q \notin InRegionControl => Len(s) = 1
    BY <1>2 DEF StackOK
  <1>6. StackOK(t, u, q) /\ u # <<>> /\ u[Len(u)] = f
    <2>1. u = WithLast(s, f)
      OBVIOUS
    <2> HIDE DEF u, q, s
    <2>2. s # <<>>
      BY <1>1 DEF s
    <2>3. QED
      BY <1>2, <1>3, <1>4, <1>5, <2>1, <2>2, StackReplace
  <1>7. q \in Control /\ pc' = [pc EXCEPT ![t] = q]
    BY DEF MeasuredInv
  <1> HIDE DEF u, q, s
  <1>8. frames' = [frames EXCEPT ![t] = u]
    BY DEF u, s
  <1>9. TRUE <=> u # <<>> /\ Runs(t, u[Len(u)], q)
    BY <1>3, <1>6
  <1>10. QED
    BY <1>2, <1>6, <1>7, <1>8, <1>9, OneThread

(* A step that changes the running context of one thread, its control      *)
(* point and its counter.                                                  *)
LEMMA TopChanges ==
  ASSUME MeasuredInv, abort = "no", NEW t \in Threads, frames[t] # <<>>,
         NEW f, NEW r \in Control, NEW b \in BOOLEAN,
         IsFrame(f), InPlace(t, f, Len(frames[t]), r),
         \A i \in 1..Len(frames[t]) : i < Len(frames[t]) =>
            InPlace(t, frames[t][i], i, r) /\ ~Runs(t, frames[t][i], r),
         t = Master => /\ Len(frames[t]) = 1 => f.ctx = SerialCode
                       /\ r \notin InRegionControl => Len(frames[t]) = 1,
         frames' = [frames EXCEPT ![t] = WithLast(frames[t], f)],
         pc' = [pc EXCEPT ![t] = r],
         counting' = [counting EXCEPT ![t] = b],
         b <=> Runs(t, f, r),
         IsSequence(tasks'), Len(tasks') <= MaxTasks,
         team' = 1 => team = 1 /\ released' = {} /\ tasks' = <<>>
  PROVE  MeasuredInv'
  <1> DEFINE s == frames[t]
             u == WithLast(s, f)
             q == pc[t]
  <1>1. StackOK(t, s, q)
    BY OnTop
  <1>2. u = WithLast(s, f) /\ s # <<>> /\ s = frames[t]
    OBVIOUS
  <1>a. /\ InPlace(t, f, Len(s), r)
        /\ \A i \in 1..Len(s) : i < Len(s) => InPlace(t, s[i], i, r) /\ ~Runs(t, s[i], r)
        /\ t = Master => /\ Len(s) = 1 => f.ctx = SerialCode
                         /\ r \notin InRegionControl => Len(s) = 1
    OBVIOUS
  <1> HIDE DEF u, s, q
  <1>3. StackOK(t, u, r) /\ u # <<>> /\ u[Len(u)] = f /\ Len(u) = Len(s)
    BY <1>1, <1>2, <1>a, StackReplace
  <1>4. frames' = [frames EXCEPT ![t] = u]
    BY <1>2
  <1>5. b <=> u # <<>> /\ Runs(t, u[Len(u)], r)
    BY <1>3
  <1>6. team' = 1 => NoTeamYet'
    <2> SUFFICES ASSUME team' = 1 PROVE NoTeamYet'
      OBVIOUS
    <2>1. released' = {} /\ tasks' = <<>> /\ NoTeamYet
      BY DEF MeasuredInv
    <2>2. \A v \in Threads : Len(frames'[v]) = Len(frames[v])
      BY <1>2, <1>3, <1>4 DEF MeasuredInv
    <2>3. QED
      BY <2>1, <2>2 DEF NoTeamYet, Depth
  <1>7. QED
    BY <1>3, <1>4, <1>5, <1>6, OneThread

----------------------------------------------------------------------------
(* The steps outside tasks and constructs                                  *)

LEMMA MeasuredInit == TasksInit => MeasuredInv
  <1> SUFFICES ASSUME TasksInit PROVE MeasuredInv
    OBVIOUS
  <1> DEFINE serial == Frame(SerialCode, {})
  <1>1. Master \in Threads /\ MaxTasks \in Nat
    BY RegionAssumption, TaskAssumption DEF Master, Threads
  <1>2. IsSequence(<<>>) /\ IsSequence(<<serial>>)
    <2>1. <<>> \in Seq({}) /\ <<serial>> \in Seq({serial})
      OBVIOUS
    <2>2. QED
      BY <2>1, SequenceOf
  <1>3. IsFrame(serial) /\ serial.ctx = SerialCode /\ ~serial.waiting
    BY DEF Frame, IsFrame
  <1>4. \A t \in Threads :
          /\ pc[t] = "idle" /\ (counting[t] <=> t = Master)
          /\ frames[t] = IF t = Master THEN <<serial>> ELSE <<>>
    BY DEF TasksInit, Init
  <1> HIDE DEF serial
  <1>5. \A t \in Threads : StackOK(t, frames[t], pc[t])
    <2> SUFFICES ASSUME NEW t \in Threads PROVE StackOK(t, frames[t], pc[t])
      OBVIOUS
    <2>1. CASE t = Master
      <3>1. frames[t] = <<serial>> /\ Len(frames[t]) = 1 /\ frames[t][1] = serial
        BY <1>4, <2>1
      <3>2. \A i \in 1..1 : i = 1 /\ ~(i < 1)
        OBVIOUS
      <3>3. InPlace(t, serial, 1, pc[t])
        BY <1>3, <2>1 DEF InPlace
      <3>4. QED
        BY <1>2, <1>3, <3>1, <3>2, <3>3 DEF StackOK
    <2>2. CASE t # Master
      <3>1. frames[t] = <<>> /\ Len(frames[t]) = 0
        BY <1>4, <2>2
      <3>2. QED
        BY <1>2, <2>2, <3>1 DEF StackOK
    <2>3. QED
      BY <2>1, <2>2
  <1>6. \A t \in Threads : Len(frames[t]) = Depth(t)
    <2>1. Len(<<serial>>) = 1 /\ Len(<<>>) = 0
      OBVIOUS
    <2>2. QED
      BY <1>4, <2>1 DEF Depth
  <1>7. WorkIsMeasured
    <2>1. ~IsTask(SerialCode) /\ SerialCode # Implicit(Master)
      BY <1>1 DEF IsTask, SerialCode, Implicit, Master
    <2>2. InUserCode(Master)
      BY <1>1, <1>3, <1>4 DEF InUserCode, Cur, Last
    <2>3. \A t \in Threads \ {Master} : ~InUserCode(t)
      BY <1>4 DEF InUserCode
    <2>4. QED
      BY <1>4, <2>2, <2>3 DEF WorkIsMeasured
  <1>8. pc \in [Threads -> Control] /\ counting \in [Threads -> BOOLEAN]
    BY DEF TasksInit, Init, Control
  <1>9. frames = [t \in Threads |-> frames[t]] /\ tasks = <<>> /\ released = {}
    BY DEF TasksInit, Init
  <1>10. IsSequence(tasks) /\ Len(tasks) <= MaxTasks
    BY <1>1, <1>2, <1>9
  <1>11. QED
    BY <1>5, <1>6, <1>7, <1>8, <1>9, <1>10 DEF MeasuredInv, NoTeamYet

LEMMA ForkedTeamIsNotOne ==
  ASSUME AllDeferred, NEW req \in Requests
  PROVE  ForkedTeam(req) # 1
  BY DEF AllDeferred, ForkedTeam

LEMMA MeasuredParallelBegin ==
  ASSUME AllDeferred, MeasuredInv,
         NEW req \in Requests, NEW b \in 0..MaxBarriers, TPParallelBegin(req, b)
  PROVE  MeasuredInv'
  <1> DEFINE f == WithStep(Master)
  <1>1. /\ abort = "no" /\ pc[Master] = "idle"
        /\ pc' = [pc EXCEPT ![Master] = "forked"]
        /\ team' = ForkedTeam(req)
        /\ frames' = [frames EXCEPT ![Master] = WithLast(frames[Master], f)]
        /\ counting' = [counting EXCEPT ![Master] = FALSE]
        /\ tasks' = tasks
    BY DEF TPParallelBegin, ParallelBegin, SetFrame, Count, Untouched, WithLast
  <1>2. pc[Master] \notin InRegionControl /\ "forked" \in Control /\ "forked" \notin InRegionControl
    BY <1>1 DEF InRegionControl, Control
  <1>3. /\ Master \in Threads /\ frames[Master] # <<>> /\ Len(frames[Master]) = 1
        /\ Cur(Master).ctx = SerialCode /\ ~Cur(Master).waiting /\ IsFrame(Cur(Master))
    BY <1>2, MasterAlone
  <1>4. IsFrame(f) /\ f.ctx = SerialCode /\ ~f.waiting
    BY <1>3, WithStepFrame
  <1> HIDE DEF f
  <1>5. InPlace(Master, f, Len(frames[Master]), "forked") /\ ~Runs(Master, f, "forked")
    <2>1. ~IsTask(SerialCode) /\ SerialCode # Implicit(Master)
      BY TaskAssumption DEF IsTask, SerialCode, Implicit, Master
    <2>2. QED
      BY <1>3, <1>4, <2>1 DEF InPlace, Runs
  <1>6. IsSequence(tasks') /\ Len(tasks') <= MaxTasks
    BY <1>1 DEF MeasuredInv
  <1>7. team' # 1
    BY <1>1, ForkedTeamIsNotOne
  <1>8. \A i \in 1..Len(frames[Master]) : ~(i < Len(frames[Master]))
    BY <1>3
  <1>9. QED
    BY <1>1, <1>2, <1>3, <1>4, <1>5, <1>6, <1>7, <1>8, TopChanges

LEMMA MeasuredImplicitTaskBegin ==
  ASSUME MeasuredInv, NEW t \in Threads, TPImplicitTaskBegin(t)
  PROVE  MeasuredInv'
  <1> DEFINE s == frames[t]
             f == Frame(Implicit(t), frames[Master][1].past)
             u == Push(s, f)
  <1>1. /\ abort = "no" /\ t \in released
        /\ pc[t] = (IF t = Master THEN "forked" ELSE "idle")
        /\ pc' = [pc EXCEPT ![t] = "work"]
        /\ counting' = [counting EXCEPT ![t] = TRUE]
        /\ s = (IF t = Master THEN <<frames[Master][1]>> ELSE <<>>)
        /\ frames' = [frames EXCEPT ![t] = u]
        /\ tasks' = tasks /\ team' = team
    BY DEF TPImplicitTaskBegin, ImplicitTaskBegin, Untouched, Count, Push
  <1>2. /\ "work" \in Control /\ "work" \in InRegionControl
        /\ t = Master => pc[Master] \notin InRegionControl
    BY <1>1 DEF InRegionControl, Control
  <1>3. StackOK(t, s, pc[t])
    BY DEF MeasuredInv
  <1>4. Len(s) = Depth(t)
    <2>1. CASE t = Master
      BY <1>2, <2>1, MasterAlone DEF Depth
    <2>2. CASE t # Master
      BY <1>1, <2>2, EmptySeq DEF Depth
    <2>3. QED
      BY <2>1, <2>2
  <1>5. IsFrame(f) /\ f.ctx = Implicit(t) /\ ~f.waiting
    BY DEF Frame, IsFrame
  <1>6. InPlace(t, f, Len(s) + 1, "work") /\ Runs(t, f, "work")
    BY <1>2, <1>4, <1>5 DEF InPlace, Runs
  <1>7. \A i \in 1..Len(s) : InPlace(t, s[i], i, "work") /\ ~Runs(t, s[i], "work")
    <2>1. CASE t = Master
      <3>1. /\ Len(s) = 1 /\ s[1].ctx = SerialCode /\ ~s[1].waiting
        BY <1>2, <2>1, MasterAlone
      <3>2. ~IsTask(SerialCode) /\ SerialCode # Implicit(Master)
        BY TaskAssumption DEF IsTask, SerialCode, Implicit, Master
      <3>3. InPlace(t, s[1], 1, "work") /\ ~Runs(t, s[1], "work")
        BY <2>1, <3>1, <3>2 DEF InPlace, Runs
      <3>4. \A i \in 1..1 : i = 1
        OBVIOUS
      <3>5. QED
        BY <3>1, <3>3, <3>4
    <2>2. CASE t # Master
      <3>1. Len(s) = 0
        BY <1>4, <2>2 DEF Depth
      <3>2. QED
        BY <3>1
    <2>3. QED
      BY <2>1, <2>2
  <1>8. u = Push(s, f)
    OBVIOUS
  <1> HIDE DEF u, s, f
  <1>9. StackOK(t, u, "work") /\ u # <<>> /\ u[Len(u)] = f
    BY SMTT(30), <1>2, <1>3, <1>5, <1>6, <1>7, <1>8, StackPush
  <1>10. TRUE <=> u # <<>> /\ Runs(t, u[Len(u)], "work")
    BY <1>6, <1>9
  <1>11. IsSequence(tasks') /\ Len(tasks') <= MaxTasks
    BY <1>1 DEF MeasuredInv
  <1>12. team' # 1
    BY <1>1 DEF MeasuredInv, NoTeamYet
  <1>13. QED
    BY <1>1, <1>2, <1>9, <1>10, <1>11, <1>12, OneThread

(* The steps of an implicit task: control goes from q = pc[t] to r.        *)
LEMMA ImplicitGoesOn ==
  ASSUME MeasuredInv, abort = "no", NEW t \in Threads, frames[t] # <<>>,
         Cur(t).ctx = Implicit(t), NEW f, IsFrame(f), f.ctx = Implicit(t), ~f.waiting,
         NEW r \in Control, r \in InRegionControl, NEW b \in BOOLEAN, b <=> r = "work",
         frames' = [frames EXCEPT ![t] = WithLast(frames[t], f)],
         pc' = [pc EXCEPT ![t] = r],
         counting' = [counting EXCEPT ![t] = b],
         tasks' = tasks, team' = team
  PROVE  MeasuredInv'
  <1>1. MaxTasks \in Nat /\ t \in Nat \ {0}
    BY TaskAssumption, RegionAssumption DEF Threads
  <1>2. /\ ~IsTask(Implicit(t)) /\ Implicit(t) # SerialCode
        /\ ~IsTask(SerialCode)
    BY <1>1 DEF IsTask, Implicit, SerialCode
  <1>3. /\ Len(frames[t]) = Depth(t) + 1
        /\ \A i \in 1..Len(frames[t]) : i < Len(frames[t]) =>
             /\ t = Master /\ i = 1
             /\ frames[t][i].ctx = SerialCode /\ ~frames[t][i].waiting
    BY UnderImplicit
  <1>4. InPlace(t, f, Len(frames[t]), r)
    BY <1>3 DEF InPlace
  <1>5. r # "idle"
    BY DEF InRegionControl
  <1>6. \A i \in 1..Len(frames[t]) : i < Len(frames[t]) =>
            InPlace(t, frames[t][i], i, r) /\ ~Runs(t, frames[t][i], r)
    BY <1>2, <1>3, <1>5 DEF InPlace, Runs
  <1>7. t = Master => Len(frames[t]) # 1
    BY <1>3 DEF Depth
  <1>8. b <=> Runs(t, f, r)
    BY <1>2 DEF Runs
  <1>9. team' # 1 /\ IsSequence(tasks') /\ Len(tasks') <= MaxTasks
    BY <1>2, OnTop DEF MeasuredInv
  <1>10. QED
    BY <1>4, <1>6, <1>7, <1>8, <1>9, TopChanges

LEMMA MeasuredBarrierBegin ==
  ASSUME MeasuredInv, NEW t \in Threads, TPBarrierBegin(t)
  PROVE  MeasuredInv'
  <1>1. /\ abort = "no"
        /\ frames[t] # <<>> /\ ~Cur(t).waiting /\ Cur(t).ctx = Implicit(t)
        /\ pc' = [pc EXCEPT ![t] = "locking"]
        /\ counting' = [counting EXCEPT ![t] = FALSE]
        /\ frames' = [frames EXCEPT ![t] = WithLast(frames[t], WithStep(t))]
        /\ tasks' = tasks /\ team' = team
    BY DEF TPBarrierBegin, BarrierBegin, InImplicitBody, InRegionCode, InUserCode,
           Untouched, Count, SetFrame, WithLast
  <1>2. IsFrame(WithStep(t)) /\ WithStep(t).ctx = Implicit(t) /\ ~WithStep(t).waiting
    BY <1>1, OnTop, WithStepFrame
  <1>3. "locking" \in Control /\ "locking" \in InRegionControl
    BY DEF Control, InRegionControl
  <1>4. QED
    BY <1>1, <1>2, <1>3, ImplicitGoesOn

LEMMA MeasuredBarrierEnd ==
  ASSUME MeasuredInv, NEW t \in Threads, TPBarrierEnd(t)
  PROVE  MeasuredInv'
  <1> DEFINE x == {l.id : l \in {m \in log : m.id <= release'[arrived[t]]}} \union Cur(t).past
             f == [Cur(t) EXCEPT !.past = x]
  <1>1. /\ abort = "no" /\ pc[t] = "barrier"
        /\ frames[t] # <<>> /\ Cur(t).ctx = Implicit(t)
        /\ pc' = [pc EXCEPT ![t] = "work"]
        /\ counting' = [counting EXCEPT ![t] = TRUE]
        /\ frames' = [frames EXCEPT ![t] = WithLast(frames[t], f)]
        /\ tasks' = tasks /\ team' = team
    BY DEF TPBarrierEnd, BarrierEnd, Untouched, Count, SetFrame, WithLast
  <1>2. "work" \in Control /\ "work" \in InRegionControl
    BY DEF Control, InRegionControl
  <1> HIDE DEF x
  <1>3. IsFrame(f) /\ f.ctx = Implicit(t) /\ ~f.waiting
    <2>1. IsFrame(Cur(t)) /\ ~Cur(t).waiting
      BY <1>1, OnTop, UnderImplicit
    <2>2. QED
      BY <1>1, <2>1, PastFrame
  <1>4. QED
    BY <1>1, <1>2, <1>3, ImplicitGoesOn

(* A thread that only moves, between points where neither the implicit     *)
(* task nor the serial code runs.                                          *)
LEMMA Moves ==
  ASSUME MeasuredInv, abort = "no", NEW t \in Threads, NEW r \in Control,
         pc[t] \notin {"work", "idle"}, r # "work", r = "idle" => t # Master,
         pc[t] \in InRegionControl <=> r \in InRegionControl,
         pc' = [pc EXCEPT ![t] = r],
         frames' = frames, counting' = counting, tasks' = tasks, team' = team,
         released' = released
  PROVE  MeasuredInv'
  <1> DEFINE s == frames[t]
             q == pc[t]
  <1>1. StackOK(t, s, q)
    BY DEF MeasuredInv
  <1>2. ASSUME NEW i \in 1..Len(s)
        PROVE  InPlace(t, s[i], i, r) /\ (Runs(t, s[i], r) <=> Runs(t, s[i], q))
    <2>1. InPlace(t, s[i], i, q)
      BY <1>1 DEF StackOK
    <2>2. MaxTasks \in Nat /\ t \in Nat \ {0}
      BY TaskAssumption, RegionAssumption DEF Threads
    <2>3. Implicit(t) # SerialCode /\ ~IsTask(SerialCode) /\ ~IsTask(Implicit(t))
      BY <2>2 DEF IsTask, Implicit, SerialCode
    <2>4. CASE IsTask(s[i].ctx)
      BY <2>3, <2>4 DEF InPlace, Runs
    <2>5. CASE s[i].ctx = SerialCode /\ t = Master /\ i = 1 /\ ~s[i].waiting
      BY <2>3, <2>5 DEF InPlace, Runs
    <2>6. CASE /\ s[i].ctx = Implicit(t) /\ i = Depth(t) + 1
               /\ q \in InRegionControl /\ (s[i].waiting => q = "work")
      BY <2>3, <2>6 DEF InPlace, Runs
    <2>7. QED
      BY <2>1, <2>4, <2>5, <2>6 DEF InPlace
  <1>3. StackOK(t, s, r)
    BY <1>1, <1>2 DEF StackOK
  <1>4. counting[t] <=> s # <<>> /\ Runs(t, s[Len(s)], r)
    <2>1. CASE s = <<>>
      BY <2>1 DEF MeasuredInv, WorkIsMeasured, InUserCode
    <2>2. CASE s # <<>>
      <3>1. Len(s) \in 1..Len(s)
        BY <2>2, OnTop
      <3>2. counting[t] <=> Runs(t, s[Len(s)], q)
        BY <2>2, OnTop DEF MeasuredInv, WorkIsMeasured
      <3>3. QED
        BY <1>2, <2>2, <3>1, <3>2
    <2>3. QED
      BY <2>1, <2>2
  <1>5. /\ frames' = [frames EXCEPT ![t] = s]
        /\ counting' = [counting EXCEPT ![t] = counting[t]]
        /\ counting[t] \in BOOLEAN
        /\ IsSequence(tasks') /\ Len(tasks') <= MaxTasks
    BY DEF MeasuredInv
  <1>6. team' = 1 => NoTeamYet'
    BY DEF MeasuredInv, NoTeamYet
  <1> HIDE DEF s, q
  <1>7. QED
    BY <1>3, <1>4, <1>5, <1>6, OneThread

LEMMA MeasuredBarrierArrive ==
  ASSUME MeasuredInv, NEW t \in Threads, TPBarrierArrive(t)
  PROVE  MeasuredInv'
  <1> DEFINE r == IF team > 1 /\ arrived[t] + 1 = BarriersDue THEN "join" ELSE "barrier"
  <1>1. /\ abort = "no" /\ pc[t] = "locking"
        /\ pc' = [pc EXCEPT ![t] = r]
        /\ frames' = frames /\ counting' = counting /\ tasks' = tasks
        /\ team' = team /\ released' = released
    BY DEF TPBarrierArrive, BarrierFirst, BarrierOther, Arrive, Untouched
  <1>2. r \in {"join", "barrier"}
    OBVIOUS
  <1> HIDE DEF r
  <1>3. /\ r \in Control /\ r \in InRegionControl /\ pc[t] \in InRegionControl
        /\ pc[t] \notin {"work", "idle"} /\ r # "work" /\ r # "idle"
    BY <1>1, <1>2 DEF Control, InRegionControl
  <1>4. QED
    BY <1>1, <1>3, Moves

LEMMA MeasuredCountImplicitEnd ==
  ASSUME MeasuredInv, NEW t \in Threads, TPCountImplicitEnd(t)
  PROVE  MeasuredInv'
  <1> DEFINE r == IF t = Master THEN "spin" ELSE "idle"
  <1>1. /\ abort = "no" /\ pc[t] = "ended"
        /\ pc' = [pc EXCEPT ![t] = r]
        /\ frames' = frames /\ counting' = counting /\ tasks' = tasks
        /\ team' = team /\ released' = released
    BY DEF TPCountImplicitEnd, CountImplicitEnd, Untouched
  <1>2. r \in {"spin", "idle"} /\ (r = "idle" => t # Master)
    OBVIOUS
  <1> HIDE DEF r
  <1>3. /\ r \in Control /\ r \notin InRegionControl /\ pc[t] \notin InRegionControl
        /\ pc[t] \notin {"work", "idle"} /\ r # "work"
    BY <1>1, <1>2 DEF Control, InRegionControl
  <1>4. QED
    BY <1>1, <1>2, <1>3, Moves

LEMMA MeasuredImplicitTaskEnd ==
  ASSUME MeasuredInv, NEW t \in Threads, TPImplicitTaskEnd(t)
  PROVE  MeasuredInv'
  <1> DEFINE s == frames[t]
             u == Pop(s)
  <1>1. /\ abort = "no" /\ s # <<>> /\ Cur(t).ctx = Implicit(t)
        /\ pc' = [pc EXCEPT ![t] = "ended"]
        /\ counting' = [counting EXCEPT ![t] = FALSE]
        /\ frames' = [frames EXCEPT ![t] = u]
        /\ tasks' = tasks /\ team' = team
    BY DEF TPImplicitTaskEnd, ImplicitTaskEnd, Untouched, Count
  <1>2. "ended" \in Control /\ "ended" \notin InRegionControl /\ "ended" \notin {"idle", "work"}
    BY DEF Control, InRegionControl
  <1>3. /\ Len(s) = Depth(t) + 1
        /\ \A i \in 1..Len(s) : i < Len(s) =>
             /\ t = Master /\ i = 1
             /\ s[i].ctx = SerialCode /\ ~s[i].waiting
    BY <1>1, UnderImplicit
  <1>4. StackOK(t, s, pc[t])
    BY <1>1, OnTop
  <1>5. MaxTasks \in Nat /\ t \in Nat \ {0}
    BY TaskAssumption, RegionAssumption DEF Threads
  <1>6. ~IsTask(SerialCode) /\ SerialCode # Implicit(t) /\ Implicit(t) # SerialCode
    BY <1>5 DEF IsTask, SerialCode, Implicit
  <1>7. \A i \in 1..Len(s) : i < Len(s) =>
          InPlace(t, s[i], i, "ended") /\ ~Runs(t, s[i], "ended")
    BY <1>2, <1>3, <1>6 DEF InPlace, Runs
  <1>8. t = Master => Len(s) > 1 /\ Len(s) = 2
    BY <1>3 DEF Depth
  <1>9. u = Pop(s)
    OBVIOUS
  <1>10. team' # 1 /\ IsSequence(tasks') /\ Len(tasks') <= MaxTasks
    BY <1>1, <1>6, OnTop DEF MeasuredInv
  <1> HIDE DEF u, s
  <1>11. StackOK(t, u, "ended") /\ (u # <<>> => ~Runs(t, u[Len(u)], "ended"))
    BY <1>1, <1>4, <1>7, <1>8, <1>9, StackPop
  <1>12. FALSE <=> u # <<>> /\ Runs(t, u[Len(u)], "ended")
    BY <1>11
  <1>13. QED
    BY <1>1, <1>2, <1>10, <1>11, <1>12, OneThread

(* The steps of the master in serial code and at its ends: control goes    *)
(* from a point outside the region's code to another.                      *)
LEMMA SerialGoesOn ==
  ASSUME MeasuredInv, abort = "no", pc[Master] \notin InRegionControl, NEW f,
         IsFrame(f), f.ctx = SerialCode, ~f.waiting,
         NEW r \in Control, r \notin InRegionControl, NEW b \in BOOLEAN, b <=> r = "idle",
         frames' = [frames EXCEPT ![Master] = WithLast(frames[Master], f)],
         pc' = [pc EXCEPT ![Master] = r],
         counting' = [counting EXCEPT ![Master] = b],
         tasks' = tasks, team' = team, released' = released
  PROVE  MeasuredInv'
  <1>1. Master \in Threads /\ frames[Master] # <<>> /\ Len(frames[Master]) = 1
    BY MasterAlone
  <1>2. ~IsTask(SerialCode) /\ SerialCode # Implicit(Master)
    BY TaskAssumption DEF IsTask, SerialCode, Implicit, Master
  <1>3. InPlace(Master, f, Len(frames[Master]), r) /\ (b <=> Runs(Master, f, r))
    BY <1>1, <1>2 DEF InPlace, Runs
  <1>4. \A i \in 1..Len(frames[Master]) : ~(i < Len(frames[Master]))
    BY <1>1
  <1>5. /\ IsSequence(tasks') /\ Len(tasks') <= MaxTasks
        /\ team' = 1 => team = 1 /\ released' = {} /\ tasks' = <<>>
    BY DEF MeasuredInv, NoTeamYet
  <1>6. QED
    BY <1>1, <1>3, <1>4, <1>5, TopChanges

LEMMA MeasuredParallelEnd ==
  ASSUME MeasuredInv, TPParallelEnd
  PROVE  MeasuredInv'
  <1> DEFINE x == {l.id : l \in log}
             f == [frames[Master][1] EXCEPT !.past = x]
  <1>1. /\ abort = "no" /\ pc[Master] = "spin"
        /\ pc' = [pc EXCEPT ![Master] = "idle"]
        /\ counting' = [counting EXCEPT ![Master] = TRUE]
        /\ frames' = [frames EXCEPT ![Master] = [frames[Master] EXCEPT ![1] = f]]
        /\ tasks' = tasks /\ team' = team /\ released' = released
    BY DEF TPParallelEnd, ParallelEnd, Untouched, Count
  <1>2. "idle" \in Control /\ "idle" \notin InRegionControl /\ pc[Master] \notin InRegionControl
    BY <1>1 DEF Control, InRegionControl
  <1> HIDE DEF x
  <1>3. IsFrame(f) /\ f.ctx = SerialCode /\ ~f.waiting
    BY <1>2, MasterAlone, PastFrame
  <1> HIDE DEF f
  <1>4. frames' = [frames EXCEPT ![Master] = WithLast(frames[Master], f)]
    BY <1>1, <1>2, MasterAlone DEF WithLast
  <1>5. QED
    BY <1>1, <1>2, <1>3, <1>4, SerialGoesOn

LEMMA MeasuredFinishProfile ==
  ASSUME MeasuredInv, TPFinishProfile
  PROVE  MeasuredInv'
  <1>1. /\ abort = "no" /\ pc[Master] = "idle"
        /\ pc' = [pc EXCEPT ![Master] = "done"]
        /\ counting' = [counting EXCEPT ![Master] = FALSE]
        /\ frames' = [frames EXCEPT ![Master] = WithLast(frames[Master], WithStep(Master))]
        /\ tasks' = tasks /\ team' = team /\ released' = released
    BY DEF TPFinishProfile, FinishProfile, Untouched, Count, SetFrame, WithLast
  <1>2. "done" \in Control /\ "done" \notin InRegionControl /\ pc[Master] \notin InRegionControl
    BY <1>1 DEF Control, InRegionControl
  <1>3. IsFrame(WithStep(Master)) /\ WithStep(Master).ctx = SerialCode /\ ~WithStep(Master).waiting
    BY <1>2, MasterAlone, WithStepFrame
  <1>4. QED
    BY <1>1, <1>2, <1>3, SerialGoesOn

----------------------------------------------------------------------------
(* Tasks and taskwaits                                                     *)

(* The last element replaced by hand, as TaskAlloc does.                   *)
LEMMA PopAndPush ==
  ASSUME NEW s, IsSequence(s), s # <<>>, NEW f
  PROVE  Append(Pop(s), f) \o <<>> = WithLast(s, f)
  <1> DEFINE S == {s[i] : i \in DOMAIN s} \union {f}
             p == Pop(s)
             u == Append(p, f)
             w == WithLast(s, f)
  <1>1. s \in Seq(S) /\ f \in S
    BY SeqMonotonic DEF IsSequence
  <1>2. Len(s) \in Nat \ {0}
    BY <1>1, EmptySeq
  <1>3. /\ IsSequence(p) /\ Len(p) = Len(s) - 1
        /\ \A i \in 1..Len(p) : i \in 1..Len(s) /\ i < Len(s) /\ p[i] = s[i]
    BY PopLast
  <1> HIDE DEF S
  <1>4. p \in Seq(S)
    BY <1>1 DEF Pop
  <1> HIDE DEF p
  <1>5. /\ u \in Seq(S) /\ Len(u) = Len(p) + 1
        /\ \A i \in 1..Len(p) : u[i] = p[i]
        /\ u[Len(p) + 1] = f
    BY <1>1, <1>4, AppendProperties
  <1>6. /\ w \in Seq(S) /\ Len(w) = Len(s)
        /\ \A i \in 1..Len(s) : w[i] = IF i = Len(s) THEN f ELSE s[i]
    BY <1>1, <1>2, ExceptSeq DEF WithLast
  <1> HIDE DEF u, w
  <1>7. \A i \in 1..Len(u) : u[i] = w[i]
    <2> SUFFICES ASSUME NEW i \in 1..Len(u) PROVE u[i] = w[i]
      OBVIOUS
    <2>1. CASE i = Len(s)
      BY <1>2, <1>3, <1>5, <1>6, <2>1
    <2>2. CASE i # Len(s)
      <3>1. i \in 1..Len(p) /\ i \in 1..Len(s)
        BY <1>2, <1>3, <1>5, <2>2
      <3>2. QED
        BY <1>3, <1>5, <1>6, <2>2, <3>1
    <2>3. QED
      BY <2>1, <2>2
  <1>8. u = w
    BY <1>2, <1>3, <1>5, <1>6, <1>7, SeqEqual
  <1>9. u \o <<>> = u
    BY <1>5, ConcatEmptySeq
  <1>10. QED
    BY <1>8, <1>9 DEF p, u, w

(* A change of some tasks keeps their number.                              *)
LEMMA SameTasks ==
  ASSUME NEW s, IsSequence(s), NEW u, u = [k \in DOMAIN s |-> u[k]]
  PROVE  IsSequence(u) /\ Len(u) = Len(s)
  <1>1. Len(s) \in Nat /\ DOMAIN s = 1..Len(s)
    BY LengthType
  <1> DEFINE S == {u[k] : k \in 1..Len(s)}
  <1>2. u \in [1..Len(s) -> S]
    BY <1>1
  <1> HIDE DEF S
  <1>3. u \in Seq(S)
    BY <1>1, <1>2, SeqDef
  <1>4. DOMAIN u = 1..Len(s) /\ DOMAIN u = 1..Len(u) /\ Len(u) \in Nat
    BY <1>2, <1>3, LenProperties
  <1>5. IsSequence(u)
    BY <1>3, SequenceOf
  <1>6. \A m, n \in Nat : 1..m = 1..n => m = n
    <2> SUFFICES ASSUME NEW m \in Nat, NEW n \in Nat, m < n PROVE n \in 1..n /\ n \notin 1..m
      OBVIOUS
    <2>1. QED
      OBVIOUS
  <1>7. Len(u) = Len(s)
    BY <1>1, <1>4, <1>6
  <1>8. QED
    BY <1>5, <1>7

(* A thread that runs code of a region is in a team.                       *)
LEMMA CodeHasTeam ==
  ASSUME MeasuredInv, NEW t \in Threads, InRegionCode(t)
  PROVE  /\ abort = "no" /\ frames[t] # <<>> /\ ~Cur(t).waiting
         /\ Cur(t).ctx # SerialCode
         /\ team # 1 /\ IsFrame(Cur(t))
  BY OnTop DEF InRegionCode, InUserCode

LEMMA MeasuredTaskAlloc ==
  ASSUME AllDeferred, MeasuredInv, NEW t \in Threads, NEW now \in BOOLEAN, TaskAlloc(t, now)
  PROVE  MeasuredInv'
  <1> DEFINE l == [Here(t) EXCEPT !.unwaited = TRUE]
             f == SetLevel(WithStep(t), l)
  <1>1. InRegionCode(t) /\ Len(tasks) + 1 <= MaxTasks
    BY DEF TaskAlloc
  <1>2. abort = "no" /\ frames[t] # <<>> /\ team # 1 /\ IsFrame(Cur(t))
    BY <1>1, CodeHasTeam
  <1>3. now = FALSE
    BY <1>2 DEF TaskAlloc, AllDeferred
  <1>4. /\ frames' = [frames EXCEPT ![t] = Append(Pop(frames[t]), f) \o <<>>]
        /\ counting' = [counting EXCEPT ![t] = TRUE]
        /\ pc' = pc /\ team' = team
    BY <1>3 DEF TaskAlloc, Handle, runtime, Count
  <1>5. IsFrame(f) /\ f.ctx = Cur(t).ctx /\ f.waiting = Cur(t).waiting
    <2> HIDE DEF l
    <2>1. QED
      BY <1>2, WithStepFrame, SetLevelFrame
  <1> HIDE DEF f
  <1>6. frames' = [frames EXCEPT ![t] = WithLast(frames[t], f)]
    BY <1>2, <1>4, PopAndPush DEF MeasuredInv, StackOK
  <1>7. IsSequence(tasks') /\ Len(tasks') <= MaxTasks
    <2>1. PICK x : tasks' = Append(tasks, x)
      BY DEF TaskAlloc
    <2>2. tasks' = Push(tasks, x) /\ IsSequence(tasks)
      BY <2>1 DEF Push, MeasuredInv
    <2>3. IsSequence(tasks') /\ Len(tasks') = Len(tasks) + 1
      BY <2>2, PushLast
    <2>4. QED
      BY <1>1, <2>3
  <1>8. QED
    BY <1>1, <1>2, <1>4, <1>5, <1>6, <1>7, CodeGoesOn

LEMMA MeasuredTaskBegin ==
  ASSUME MeasuredInv, NEW t \in Threads, NEW k \in DOMAIN tasks, TaskBegin(t, k)
  PROVE  MeasuredInv'
  <1> DEFINE s == frames[t]
             q == pc[t]
             f == Frame(k, tasks[k].past)
             u == Push(s, f)
  <1>1. /\ abort = "no" /\ MayRun(t, k)
        /\ frames' = [frames EXCEPT ![t] = u]
        /\ counting' = [counting EXCEPT ![t] = TRUE]
        /\ pc' = pc /\ team' = team
    BY DEF TaskBegin, runtime, Count, Push
  <1>2. q \in Control /\ pc' = [pc EXCEPT ![t] = q] /\ StackOK(t, s, q)
    BY <1>1 DEF MeasuredInv
  <1>3. IsTask(k) /\ tasks # <<>>
    <2>1. k \in 1..Len(tasks) /\ Len(tasks) \in Nat /\ Len(tasks) <= MaxTasks /\ MaxTasks \in Nat
      BY LengthType, TaskAssumption DEF MeasuredInv
    <2>2. QED
      BY <2>1 DEF IsTask
  <1>4. team' # 1
    BY <1>1, <1>3 DEF MeasuredInv, NoTeamYet
  <1>5. IsFrame(f) /\ InPlace(t, f, Len(s) + 1, q) /\ Runs(t, f, q)
    BY <1>3 DEF Frame, IsFrame, InPlace, Runs
  <1>6. /\ s # <<>> => ~Runs(t, Cur(t), q)
        /\ t = Master => q \in InRegionControl
    <2>1. CASE s # <<>> /\ Cur(t).waiting
      BY <2>1, MasterAlone DEF Runs
    <2>2. CASE s # <<>> /\ Cur(t).ctx = Implicit(t) /\ pc[t] \in {"barrier", "join"}
      <3>1. MaxTasks \in Nat /\ t \in Nat \ {0}
        BY TaskAssumption, RegionAssumption DEF Threads
      <3>2. ~IsTask(Implicit(t)) /\ Implicit(t) # SerialCode
        BY <3>1 DEF IsTask, SerialCode, Implicit
      <3>3. QED
        BY <2>2, <3>2 DEF Runs, InRegionControl
    <2>3. CASE s = <<>>
      <3>1. t # Master
        BY <1>2, <2>3, EmptySeq DEF StackOK
      <3>2. QED
        BY <2>3, <3>1
    <2>4. QED
      BY <1>1, <2>1, <2>2, <2>3 DEF MayRun
  <1>7. \A i \in 1..Len(s) : InPlace(t, s[i], i, q) /\ ~Runs(t, s[i], q)
    <2> SUFFICES ASSUME NEW i \in 1..Len(s)
                 PROVE  InPlace(t, s[i], i, q) /\ ~Runs(t, s[i], q)
      OBVIOUS
    <2>1. Len(s) \in Nat /\ s # <<>>
      BY <1>2, LengthType DEF StackOK
    <2>2. InPlace(t, s[i], i, q) /\ (i < Len(s) => ~Runs(t, s[i], q))
      BY <1>2 DEF StackOK
    <2>3. i = Len(s) => s[i] = Cur(t)
      BY DEF Cur, Last
    <2>4. QED
      BY <1>6, <2>1, <2>2, <2>3
  <1>8. IsSequence(tasks') /\ Len(tasks') <= MaxTasks
    <2>1. tasks' = [j \in DOMAIN tasks |-> tasks'[j]]
      BY DEF TaskBegin
    <2>2. IsSequence(tasks) /\ Len(tasks) <= MaxTasks
      BY DEF MeasuredInv
    <2>3. QED
      BY <2>1, <2>2, SameTasks
  <1>9. u = Push(s, f)
    OBVIOUS
  <1> HIDE DEF u, s, q, f
  <1>10. StackOK(t, u, q) /\ u # <<>> /\ u[Len(u)] = f
    BY <1>2, <1>5, <1>6, <1>7, <1>9, StackPush
  <1>11. TRUE <=> u # <<>> /\ Runs(t, u[Len(u)], q)
    BY <1>5, <1>10
  <1>12. QED
    BY <1>1, <1>2, <1>4, <1>8, <1>10, <1>11, OneThread

LEMMA MeasuredTaskEnd ==
  ASSUME MeasuredInv, NEW t \in Threads, TaskEnd(t)
  PROVE  MeasuredInv'
  <1> DEFINE s == frames[t]
             q == pc[t]
             u == Pop(s)
  <1>1. /\ InRegionCode(t) /\ IsTask(Cur(t).ctx)
        /\ frames' = [frames EXCEPT ![t] = u]
        /\ counting' = [counting EXCEPT ![t] = FALSE]
        /\ pc' = pc /\ team' = team
    BY DEF TaskEnd, Handle, runtime, Count
  <1>2. abort = "no" /\ s # <<>> /\ team # 1
    BY <1>1, CodeHasTeam
  <1>3. q \in Control /\ pc' = [pc EXCEPT ![t] = q] /\ StackOK(t, s, q)
    BY <1>1 DEF MeasuredInv
  <1>4. Cur(t) = s[Len(s)] /\ Len(s) \in Nat \ {0}
    BY <1>2, OnTop
  <1>5. t = Master => Len(s) > 1 /\ q \in InRegionControl
    <2>1. ~IsTask(SerialCode)
      BY TaskAssumption DEF IsTask, SerialCode
    <2>2. t = Master => s[1].ctx = SerialCode
      BY <1>3 DEF StackOK
    <2>3. t = Master => Len(s) # 1
      BY <1>1, <1>4, <2>1, <2>2
    <2>4. t = Master => (q \notin InRegionControl => Len(s) = 1)
      BY <1>3 DEF StackOK
    <2> HIDE DEF s, q
    <2>5. Len(s) # 1 => Len(s) > 1
      BY <1>4
    <2>6. QED
      BY <2>3, <2>4, <2>5
  <1>6. \A i \in 1..Len(s) : i < Len(s) => InPlace(t, s[i], i, q) /\ ~Runs(t, s[i], q)
    BY <1>3 DEF StackOK
  <1>7. IsSequence(tasks') /\ Len(tasks') <= MaxTasks
    <2>1. tasks' = [j \in DOMAIN tasks |-> tasks'[j]]
      BY DEF TaskEnd
    <2>2. IsSequence(tasks) /\ Len(tasks) <= MaxTasks
      BY DEF MeasuredInv
    <2>3. QED
      BY <2>1, <2>2, SameTasks
  <1>8. u = Pop(s)
    OBVIOUS
  <1> HIDE DEF u, s, q
  <1>9. StackOK(t, u, q) /\ (u # <<>> => ~Runs(t, u[Len(u)], q))
    BY <1>2, <1>3, <1>5, <1>6, <1>8, StackPop
  <1>10. FALSE <=> u # <<>> /\ Runs(t, u[Len(u)], q)
    BY <1>9
  <1>11. QED
    BY <1>1, <1>2, <1>3, <1>7, <1>9, <1>10, OneThread

LEMMA MeasuredTaskwaitBegin ==
  ASSUME MeasuredInv, NEW t \in Threads, TaskwaitBegin(t)
  PROVE  MeasuredInv'
  <1> DEFINE s == frames[t]
             q == pc[t]
             l == [Here(t) EXCEPT !.unwaited = FALSE]
             g == SetLevel(WithStep(t), l)
             f == [g EXCEPT !.waiting = TRUE]
  <1>1. /\ InRegionCode(t)
        /\ frames' = [frames EXCEPT ![t] = WithLast(s, f)]
        /\ counting' = [counting EXCEPT ![t] = FALSE]
        /\ pc' = pc /\ team' = team /\ tasks' = tasks
    BY DEF TaskwaitBegin, Handle, runtime, Count, SetFrame, WithLast
  <1>2. /\ abort = "no" /\ s # <<>> /\ team # 1 /\ IsFrame(Cur(t))
        /\ Cur(t).ctx # SerialCode /\ ~Cur(t).waiting
    BY <1>1, CodeHasTeam
  <1>3. IsFrame(f) /\ f.ctx = Cur(t).ctx /\ f.waiting
    <2> HIDE DEF l
    <2>1. IsFrame(g) /\ g.ctx = Cur(t).ctx
      BY <1>2, WithStepFrame, SetLevelFrame
    <2> HIDE DEF g
    <2>2. QED
      BY <2>1, WaitingFrame
  <1> HIDE DEF f
  <1>4. q \in Control /\ pc' = [pc EXCEPT ![t] = q] /\ StackOK(t, s, q)
    BY <1>1 DEF MeasuredInv
  <1>5. /\ InPlace(t, Cur(t), Len(s), q) /\ Cur(t) = s[Len(s)]
        /\ Runs(t, Cur(t), q)
    BY <1>1, <1>2, OnTop DEF InRegionCode
  <1>6. InPlace(t, f, Len(s), q) /\ ~Runs(t, f, q)
    BY <1>2, <1>3, <1>5 DEF InPlace, Runs
  <1>7. \A i \in 1..Len(s) : i < Len(s) => InPlace(t, s[i], i, q) /\ ~Runs(t, s[i], q)
    BY <1>4 DEF StackOK
  <1>8. t = Master => /\ Len(s) = 1 => f.ctx = SerialCode
                      /\ q \notin InRegionControl => Len(s) = 1
    BY <1>3, <1>4, <1>5 DEF StackOK
  <1>9. IsSequence(tasks') /\ Len(tasks') <= MaxTasks /\ team' # 1
    BY <1>1, <1>2 DEF MeasuredInv
  <1>10. FALSE <=> Runs(t, f, q)
    BY <1>6
  <1>11. s = frames[t]
    OBVIOUS
  <1> HIDE DEF s, q
  <1>12. QED
    BY <1>1, <1>2, <1>3, <1>4, <1>6, <1>7, <1>8, <1>9, <1>10, <1>11, TopChanges

LEMMA MeasuredTaskwaitEnd ==
  ASSUME MeasuredInv, NEW t \in Threads, TaskwaitEnd(t)
  PROVE  MeasuredInv'
  <1> DEFINE s == frames[t]
             q == pc[t]
  <1>1. PICK x : frames' = [frames EXCEPT ![t] =
                   WithLast(s, [Cur(t) EXCEPT !.waiting = FALSE, !.past = x])]
    BY DEF TaskwaitEnd, SetFrame, WithLast
  <1> DEFINE g == [Cur(t) EXCEPT !.waiting = FALSE]
             f == [g EXCEPT !.past = x]
  <1>2. /\ abort = "no" /\ s # <<>> /\ Cur(t).waiting
        /\ counting' = [counting EXCEPT ![t] = TRUE]
        /\ pc' = pc /\ team' = team
    BY DEF TaskwaitEnd, Resume, runtime, Count
  <1>3. /\ IsFrame(Cur(t)) /\ InPlace(t, Cur(t), Len(s), q)
        /\ Cur(t).ctx # SerialCode => team # 1
        /\ Cur(t) = s[Len(s)]
    BY <1>2, OnTop
  <1>4. IsFrame(f) /\ f.ctx = Cur(t).ctx /\ ~f.waiting
    <2>1. IsFrame(g) /\ g.ctx = Cur(t).ctx /\ g.waiting = FALSE
      BY <1>3, WaitingFrame
    <2> HIDE DEF g
    <2>2. QED
      BY <2>1, PastFrame
  <1>5. frames' = [frames EXCEPT ![t] = WithLast(s, f)]
    BY <1>1
  <1> HIDE DEF f
  <1>6. q \in Control /\ pc' = [pc EXCEPT ![t] = q] /\ StackOK(t, s, q)
    BY <1>2 DEF MeasuredInv
  <1>7. Cur(t).ctx # SerialCode
    <2>1. MaxTasks \in Nat /\ t \in Nat \ {0}
      BY TaskAssumption, RegionAssumption DEF Threads
    <2>2. ~IsTask(SerialCode) /\ SerialCode # Implicit(t)
      BY <2>1 DEF IsTask, SerialCode, Implicit
    <2>3. QED
      BY <1>2, <1>3, <2>2 DEF InPlace
  <1>8. InPlace(t, f, Len(s), q) /\ Runs(t, f, q)
    BY <1>2, <1>3, <1>4, <1>7 DEF InPlace, Runs
  <1>9. \A i \in 1..Len(s) : i < Len(s) => InPlace(t, s[i], i, q) /\ ~Runs(t, s[i], q)
    BY <1>6 DEF StackOK
  <1>10. t = Master => /\ Len(s) = 1 => f.ctx = SerialCode
                       /\ q \notin InRegionControl => Len(s) = 1
    BY <1>3, <1>4, <1>6 DEF StackOK
  <1>11. IsSequence(tasks') /\ Len(tasks') <= MaxTasks
    <2>1. tasks' = [j \in DOMAIN tasks |-> tasks'[j]]
      BY DEF TaskwaitEnd
    <2>2. IsSequence(tasks) /\ Len(tasks) <= MaxTasks
      BY DEF MeasuredInv
    <2>3. QED
      BY <2>1, <2>2, SameTasks
  <1>12. team' # 1
    BY <1>2, <1>3, <1>7
  <1>13. TRUE <=> Runs(t, f, q)
    BY <1>8
  <1>14. s = frames[t]
    OBVIOUS
  <1> HIDE DEF s, q
  <1>15. QED
    BY <1>2, <1>4, <1>5, <1>6, <1>8, <1>9, <1>10, <1>11, <1>12, <1>13, <1>14, TopChanges

----------------------------------------------------------------------------
(* Constructs                                                              *)

LEMMA MeasuredBlockBegin ==
  ASSUME MeasuredInv, NEW t \in Threads, NEW kind \in Kinds, BlockBegin(t, kind)
  PROVE  MeasuredInv'
  <1> DEFINE y == Append(WithStep(t).levels, Level(kind))
             f == [WithStep(t) EXCEPT !.levels = y]
  <1>1. InRegionCode(t)
    BY DEF BlockBegin, InImplicitBody
  <1>2. /\ frames' = [frames EXCEPT ![t] =
                       WithLast(frames[t], [WithStep(t) EXCEPT !.levels = Append(@, Level(kind))])]
        /\ counting' = [counting EXCEPT ![t] = TRUE]
        /\ pc' = pc /\ team' = team /\ tasks' = tasks
    BY DEF BlockBegin, Handle, runtime, Count, SetFrame, WithLast
  <1>3. abort = "no" /\ IsFrame(Cur(t))
    BY <1>1, CodeHasTeam
  <1>4. IsFrame(WithStep(t)) /\ WithStep(t).ctx = Cur(t).ctx /\ WithStep(t).waiting = Cur(t).waiting
    BY <1>3, WithStepFrame
  <1>5. f = [WithStep(t) EXCEPT !.levels = Append(@, Level(kind))]
    BY <1>4 DEF IsFrame
  <1>6. IsFrame(f) /\ f.ctx = Cur(t).ctx /\ f.waiting = Cur(t).waiting
    <2> HIDE DEF y
    <2>1. QED
      BY <1>4, LevelsFrame
  <1> HIDE DEF f
  <1>7. frames' = [frames EXCEPT ![t] = WithLast(frames[t], f)]
    BY <1>2, <1>5
  <1>8. IsSequence(tasks') /\ Len(tasks') <= MaxTasks
    BY <1>2 DEF MeasuredInv
  <1>9. QED
    BY <1>1, <1>2, <1>3, <1>6, <1>7, <1>8, CodeGoesOn

LEMMA MeasuredBlockEnd ==
  ASSUME MeasuredInv, NEW t \in Threads, BlockEnd(t)
  PROVE  MeasuredInv'
  <1> DEFINE f == LeaveLevel(WithStep(t))
  <1>1. /\ InRegionCode(t)
        /\ frames' = [frames EXCEPT ![t] = WithLast(frames[t], f)]
        /\ counting' = [counting EXCEPT ![t] = TRUE]
        /\ pc' = pc /\ team' = team /\ tasks' = tasks
    BY DEF BlockEnd, Handle, runtime, Count, SetFrame, WithLast
  <1>2. abort = "no" /\ IsFrame(Cur(t))
    BY <1>1, CodeHasTeam
  <1>3. IsFrame(f) /\ f.ctx = Cur(t).ctx /\ f.waiting = Cur(t).waiting
    BY <1>2, WithStepFrame, LeaveLevelFrame
  <1> HIDE DEF f
  <1>4. IsSequence(tasks') /\ Len(tasks') <= MaxTasks
    BY <1>1 DEF MeasuredInv
  <1>5. QED
    BY <1>1, <1>2, <1>3, <1>4, CodeGoesOn

LEMMA MeasuredLoopChunk ==
  ASSUME MeasuredInv, NEW t \in Threads, LoopChunk(t)
  PROVE  MeasuredInv'
  <1> DEFINE entry == IF Here(t).kind = "loop" THEN WithStep(t).past ELSE Here(t).entry
             g == [Cur(t) EXCEPT !.past = entry]
             l == [Here(t) EXCEPT !.kind = "chunk", !.entry = entry,
                                  !.all = @ \union WithStep(t).past, !.chunks = @ + 1]
             f == SetLevel(g, l)
  <1>1. /\ InRegionCode(t)
        /\ frames' = [frames EXCEPT ![t] = WithLast(frames[t], f)]
        /\ counting' = [counting EXCEPT ![t] = TRUE]
        /\ pc' = pc /\ team' = team /\ tasks' = tasks
    BY DEF LoopChunk, Handle, runtime, Count, SetFrame, WithLast
  <1>2. abort = "no" /\ IsFrame(Cur(t))
    BY <1>1, CodeHasTeam
  <1>3. IsFrame(f) /\ f.ctx = Cur(t).ctx /\ f.waiting = Cur(t).waiting
    <2> HIDE DEF entry, l
    <2>1. IsFrame(g) /\ g.ctx = Cur(t).ctx /\ g.waiting = Cur(t).waiting
      BY <1>2, PastFrame
    <2> HIDE DEF g
    <2>2. QED
      BY <2>1, SetLevelFrame
  <1> HIDE DEF f
  <1>4. IsSequence(tasks') /\ Len(tasks') <= MaxTasks
    BY <1>1 DEF MeasuredInv
  <1>5. QED
    BY <1>1, <1>2, <1>3, <1>4, CodeGoesOn

LEMMA MeasuredLoopDrained ==
  ASSUME MeasuredInv, NEW t \in Threads, LoopDrained(t)
  PROVE  MeasuredInv'
  <1> DEFINE x == Cur(t).past \union Here(t).all \union {node_ctr + 1, node_ctr + 1 + 1}
             g == [Cur(t) EXCEPT !.past = x]
             f == LeaveLevel(g)
  <1>1. InRegionCode(t)
    BY DEF LoopDrained
  <1>2. abort = "no" /\ IsFrame(Cur(t))
    BY <1>1, CodeHasTeam
  <1>3. g = [Cur(t) EXCEPT !.past = @ \union Here(t).all \union {node_ctr + 1, node_ctr + 1 + 1}]
    BY <1>2 DEF IsFrame
  <1>4. /\ frames' = [frames EXCEPT ![t] = WithLast(frames[t], LeaveLevel(
                 [Cur(t) EXCEPT !.past = @ \union Here(t).all \union {node_ctr + 1, node_ctr + 1 + 1}]))]
        /\ counting' = [counting EXCEPT ![t] = TRUE]
        /\ pc' = pc /\ team' = team /\ tasks' = tasks
    BY DEF LoopDrained, runtime, Count, SetFrame, WithLast
  <1>5. IsFrame(f) /\ f.ctx = Cur(t).ctx /\ f.waiting = Cur(t).waiting
    <2> HIDE DEF x
    <2>1. IsFrame(g) /\ g.ctx = Cur(t).ctx /\ g.waiting = Cur(t).waiting
      BY <1>2, PastFrame
    <2> HIDE DEF g
    <2>2. QED
      BY <2>1, LeaveLevelFrame
  <1>6. frames' = [frames EXCEPT ![t] = WithLast(frames[t], f)]
    BY <1>3, <1>4
  <1> HIDE DEF f
  <1>7. IsSequence(tasks') /\ Len(tasks') <= MaxTasks
    BY <1>4 DEF MeasuredInv
  <1>8. QED
    BY <1>1, <1>2, <1>4, <1>5, <1>6, <1>7, CodeGoesOn

----------------------------------------------------------------------------
(* The invariant and the theorem                                           *)

(* A step that changes nothing the invariant speaks of.                    *)
LEMMA MeasuredStutter ==
  ASSUME MeasuredInv, UNCHANGED <<pc, counting, frames, tasks, team, released, abort>>
  PROVE  MeasuredInv'
  BY DEF MeasuredInv, WorkIsMeasured, NoTeamYet, InUserCode, Cur, Last

LEMMA MeasuredStep ==
  ASSUME AllDeferred
  PROVE  MeasuredInv /\ [TasksNext]_allVars => MeasuredInv'
  <1> SUFFICES ASSUME MeasuredInv, [TasksNext]_allVars PROVE MeasuredInv'
    OBVIOUS
  <1>1. ASSUME NEW req \in Requests, NEW b \in 0..MaxBarriers, TPParallelBegin(req, b)
        PROVE  MeasuredInv'
    BY <1>1, MeasuredParallelBegin
  <1>2. ASSUME NEW t \in Threads, TaskThreadStep(t)
        PROVE  MeasuredInv'
    <2>1. CASE TPImplicitTaskBegin(t)
      BY <2>1, MeasuredImplicitTaskBegin
    <2>2. CASE TPBarrierBegin(t)
      BY <2>2, MeasuredBarrierBegin
    <2>3. CASE TPBarrierArrive(t)
      BY <2>3, MeasuredBarrierArrive
    <2>4. CASE TPBarrierEnd(t)
      BY <2>4, MeasuredBarrierEnd
    <2>5. CASE TPImplicitTaskEnd(t)
      BY <2>5, MeasuredImplicitTaskEnd
    <2>6. CASE TPCountImplicitEnd(t)
      BY <2>6, MeasuredCountImplicitEnd
    <2>7. ASSUME NEW now \in BOOLEAN, TaskAlloc(t, now) PROVE MeasuredInv'
      BY <2>7, MeasuredTaskAlloc
    <2>8. ASSUME NEW k \in DOMAIN tasks, TaskBegin(t, k) PROVE MeasuredInv'
      BY <2>8, MeasuredTaskBegin
    <2>9. CASE TaskEnd(t)
      BY <2>9, MeasuredTaskEnd
    <2>10. CASE TaskwaitBegin(t)
      BY <2>10, MeasuredTaskwaitBegin
    <2>11. CASE TaskwaitEnd(t)
      BY <2>11, MeasuredTaskwaitEnd
    <2>12. ASSUME NEW kind \in Kinds, BlockBegin(t, kind) PROVE MeasuredInv'
      BY <2>12, MeasuredBlockBegin
    <2>13. CASE BlockEnd(t)
      BY <2>13, MeasuredBlockEnd
    <2>14. CASE LoopChunk(t)
      BY <2>14, MeasuredLoopChunk
    <2>15. CASE LoopDrained(t)
      BY <2>15, MeasuredLoopDrained
    <2>16. QED
      BY <1>2, <2>1, <2>2, <2>3, <2>4, <2>5, <2>6, <2>7, <2>8, <2>9, <2>10, <2>11, <2>12,
         <2>13, <2>14, <2>15 DEF TaskThreadStep
  <1>3. CASE TPParallelEnd
    BY <1>3, MeasuredParallelEnd
  <1>4. CASE TPFinishProfile
    BY <1>4, MeasuredFinishProfile
  <1>5. CASE Finished /\ UNCHANGED taskVars
    BY <1>5, MeasuredStutter DEF Finished, vars, profiler, runtime, taskVars
  <1>6. CASE UNCHANGED allVars
    BY <1>6, MeasuredStutter DEF allVars, vars, profiler, runtime, taskVars
  <1>7. QED
    BY <1>1, <1>2, <1>3, <1>4, <1>5, <1>6 DEF TasksNext

(* The invariant holds in every state, if no task is undeferred.           *)
THEOREM MeasuredInvariant ==
  ASSUME AllDeferred
  PROVE  TasksSpec => []MeasuredInv
  <1>1. TasksInit => MeasuredInv
    BY MeasuredInit
  <1>2. MeasuredInv /\ [TasksNext]_allVars => MeasuredInv'
    BY MeasuredStep
  <1>3. QED
    BY <1>1, <1>2, PTL DEF TasksSpec

(* The counter of a thread runs exactly while the thread runs code of the  *)
(* program, although one handler stops it and another starts it, on        *)
(* whatever thread and in whatever wait a task is run, if no task is       *)
(* undeferred (perf_profiler.cpp).                                         *)
THEOREM WorkMeasured ==
  ASSUME AllDeferred
  PROVE  TasksSpec => []WorkIsMeasured
  <1>1. MeasuredInv => WorkIsMeasured
    BY DEF MeasuredInv
  <1>2. QED
    BY <1>1, MeasuredInvariant, PTL

----------------------------------------------------------------------------
(* The stacks of open nodes                                                *)

(* A program that reaches a barrier, or ends a chunk of a loop, only after *)
(* it has waited for the tasks it has allocated since.                     *)
WaitsAreThere == {"barrier", "chunk"} \subseteq Waits

----------------------------------------------------------------------------
(* The nodes a context has on the stack                                    *)

BlockKinds == {"single", "master", "loop", "chunk"}

IsLevel(l) ==
  /\ l = [kind |-> l.kind, unwaited |-> l.unwaited, entry |-> l.entry, all |-> l.all,
          chunks |-> l.chunks]
  /\ l.unwaited \in BOOLEAN

(* A context is in its body or in one construct of an implicit task.       *)
IsContext(f) ==
  /\ IsFrame(f) /\ f.ctx \in Contexts
  /\ IsSequence(f.levels)
  /\ Len(f.levels) \in {1, 2}
  /\ \A i \in 1..Len(f.levels) : IsLevel(f.levels[i])
  /\ f.levels[1].kind = "body"
  /\ Len(f.levels) = 2 => f.levels[2].kind \in BlockKinds /\ f.ctx > MaxTasks
  /\ f.ctx = SerialCode => ~f.waiting /\ ~f.levels[1].unwaited

(* The nodes a construct opens, and the one its tasks open.                *)
Opens(kind)  == IF kind = "body" THEN 0 ELSE IF kind = "chunk" THEN 2 ELSE 1
LevelSize(l) == Opens(l.kind) + IF l.unwaited THEN 1 ELSE 0

LevelNodes(l, s, lo) ==
  /\ \A j \in 1..Opens(l.kind) : ~s[lo + j].finish_flag
  /\ l.unwaited => s[lo + Opens(l.kind) + 1].finish_flag

(* What an implicit task finds below its ASYNC node, which is closed while *)
(* the thread is in captureBarrierBegin.                                   *)
IsGround(g) ==
  /\ g.closed \in BOOLEAN
  /\ ~g.region.finish_flag

PlainAsync(n) == n.type = "ASYNC" /\ ~n.finish_flag

(* The nodes of context f itself, above the first lo of stack s.           *)
Size(f, g) == IF f.ctx > MaxTasks /\ ~g.closed THEN 3 ELSE 1

OwnNodes(f, s, lo, g) ==
  /\ f.ctx = SerialCode => s[lo + 1] = Root
  /\ IsTask(f.ctx) => PlainAsync(s[lo + 1])
  /\ f.ctx > MaxTasks => s[lo + 1] = g.region
  /\ f.ctx > MaxTasks /\ ~g.closed => s[lo + 2] = g.phase /\ PlainAsync(s[lo + 3])

(* The nodes of the body of a context that is in a construct.              *)
BodyNodes(f, s, lo, g) ==
  Len(f.levels) = 2 => LevelNodes(f.levels[1], s, lo + Size(f, g))

(* Each of the nodes a to b of stack s is the child of the one below it.   *)
Chain(s, a, b) == \A j \in a..(b - 1) : s[j + 1].parent = s[j].id

(* Where the nodes of the innermost level begin.                           *)
LevelAt(f, lo, g) ==
  lo + Size(f, g) + IF Len(f.levels) = 1 THEN 0 ELSE LevelSize(f.levels[1])

(* Context f has the nodes lo + 1 to hi of stack s.                        *)
FrameNodes(f, s, lo, hi, g) ==
  /\ OwnNodes(f, s, lo, g)
  /\ BodyNodes(f, s, lo, g)
  /\ LevelNodes(Last(f.levels), s, LevelAt(f, lo, g))
  /\ hi = LevelAt(f, lo, g) + LevelSize(Last(f.levels))
  /\ Chain(s, lo + 1, hi)

(* The first n of the contexts fr have the first h nodes of stack s, one   *)
(* after the other.                                                        *)
Matches(fr, n, s, h, g) ==
  \E b \in [1..(n + 1) -> 0..h] :
    /\ b[1] = 0 /\ b[n + 1] = h
    /\ \A i, j \in 1..(n + 1) : i <= j => b[i] <= b[j]
    /\ \A i \in 1..n : FrameNodes(fr[i], s, b[i], b[i + 1], g)

(* Only the innermost level of a context changes, and only it has nodes    *)
(* above LevelAt.                                                          *)
LEMMA ContextSizes ==
  ASSUME NEW f, IsContext(f), NEW lo \in Nat, NEW g
  PROVE  /\ Len(f.levels) \in {1, 2}
         /\ Last(f.levels) = f.levels[Len(f.levels)]
         /\ IsLevel(Last(f.levels)) /\ IsLevel(f.levels[1])
         /\ Size(f, g) \in 1..3
         /\ LevelSize(f.levels[1]) \in 0..1
         /\ LevelAt(f, lo, g) \in Nat /\ lo < LevelAt(f, lo, g)
         /\ Opens(Last(f.levels).kind) \in 0..2
         /\ LevelSize(Last(f.levels)) \in 0..3
         /\ LevelSize(Last(f.levels)) = Opens(Last(f.levels).kind)
                                        + IF Last(f.levels).unwaited THEN 1 ELSE 0
         /\ Opens(Last(f.levels).kind) = 0 => Len(f.levels) = 1
  <1>1. Len(f.levels) \in {1, 2} /\ Last(f.levels) = f.levels[Len(f.levels)]
    BY DEF IsContext, Last
  <1>2. IsLevel(Last(f.levels)) /\ IsLevel(f.levels[1])
    BY <1>1 DEF IsContext
  <1>3. Size(f, g) \in 1..3
    BY DEF Size
  <1>4. \A k : Opens(k) \in 0..2 /\ (k \in BlockKinds => Opens(k) # 0)
    BY DEF Opens, BlockKinds
  <1>5. Opens(f.levels[1].kind) = 0
    BY DEF IsContext, Opens
  <1>6. LevelSize(f.levels[1]) \in 0..1
    BY <1>5 DEF LevelSize
  <1>7. LevelSize(Last(f.levels)) = Opens(Last(f.levels).kind)
                                    + IF Last(f.levels).unwaited THEN 1 ELSE 0
    BY DEF LevelSize
  <1>8. Opens(Last(f.levels).kind) \in 0..2 /\ LevelSize(Last(f.levels)) \in 0..3
    BY <1>4, <1>7
  <1>9. LevelAt(f, lo, g) \in Nat /\ lo < LevelAt(f, lo, g)
    BY <1>1, <1>3, <1>6 DEF LevelAt
  <1>10. Opens(Last(f.levels).kind) = 0 => Len(f.levels) = 1
    BY <1>1, <1>4 DEF IsContext
  <1>11. QED
    BY <1>1, <1>2, <1>3, <1>6, <1>7, <1>8, <1>9, <1>10

LEMMA FrameBounds ==
  ASSUME NEW f, IsContext(f), NEW lo \in Nat, NEW g, NEW s, NEW hi,
         FrameNodes(f, s, lo, hi, g)
  PROVE  /\ hi \in Nat /\ lo < LevelAt(f, lo, g) /\ LevelAt(f, lo, g) <= hi
         /\ hi = LevelAt(f, lo, g) + Opens(Last(f.levels).kind)
                 + IF Last(f.levels).unwaited THEN 1 ELSE 0
  <1>1. hi = LevelAt(f, lo, g) + LevelSize(Last(f.levels))
    BY DEF FrameNodes
  <1>2. QED
    BY <1>1, ContextSizes

(* The FINISH node of tasks is on top exactly when tasks are unwaited.     *)
LEMMA TopFlag ==
  ASSUME NEW f, IsContext(f), NEW lo \in Nat, NEW g, IsGround(g), NEW s, NEW hi,
         FrameNodes(f, s, lo, hi, g)
  PROVE  s[hi].finish_flag <=> Last(f.levels).unwaited
  <1> DEFINE l == Last(f.levels)
             at == LevelAt(f, lo, g)
  <1>1. /\ at \in Nat /\ Opens(l.kind) \in 0..2
        /\ Opens(l.kind) = 0 => Len(f.levels) = 1
        /\ hi = at + Opens(l.kind) + IF l.unwaited THEN 1 ELSE 0
        /\ LevelNodes(l, s, at) /\ OwnNodes(f, s, lo, g)
    BY ContextSizes, FrameBounds DEF FrameNodes
  <1>2. CASE l.unwaited
    <2>1. hi = at + Opens(l.kind) + 1
      BY <1>1, <1>2
    <2>2. QED
      BY <1>1, <1>2, <2>1 DEF LevelNodes
  <1>3. CASE ~l.unwaited /\ Opens(l.kind) # 0
    <2>1. hi = at + Opens(l.kind) /\ Opens(l.kind) \in 1..Opens(l.kind)
      BY <1>1, <1>3
    <2>2. QED
      BY <1>1, <1>3, <2>1 DEF LevelNodes
  <1>4. CASE ~l.unwaited /\ Opens(l.kind) = 0
    <2>1. hi = at /\ at = lo + Size(f, g)
      <3>1. Len(f.levels) = 1
        BY <1>1, <1>4
      <3>2. Size(f, g) \in 1..3
        BY ContextSizes
      <3>3. QED
        BY <1>1, <1>4, <3>1, <3>2 DEF LevelAt
    <2>2. f.ctx = SerialCode \/ IsTask(f.ctx) \/ f.ctx > MaxTasks
      BY TaskAssumption, RegionAssumption DEF IsContext, Contexts, SerialCode, IsTask
    <2>3. CASE f.ctx = SerialCode
      <3>1. Size(f, g) = 1
        BY <2>3, TaskAssumption DEF Size, SerialCode
      <3>2. s[hi] = Root
        BY <2>1, <2>3, <3>1, <1>1 DEF OwnNodes
      <3>3. QED
        BY <3>2, <1>4 DEF Root
    <2>4. CASE IsTask(f.ctx)
      <3>1. Size(f, g) = 1
        BY <2>4, TaskAssumption DEF Size, IsTask
      <3>2. PlainAsync(s[hi])
        BY <2>1, <2>4, <3>1, <1>1 DEF OwnNodes
      <3>3. QED
        BY <3>2, <1>4 DEF PlainAsync
    <2>5. CASE f.ctx > MaxTasks
      <3>1. CASE g.closed
        <4>1. hi = lo + 1
          BY <2>1, <3>1 DEF Size
        <4>2. s[hi] = g.region
          BY <2>5, <4>1, <1>1 DEF OwnNodes
        <4>3. QED
          BY <4>2, <1>4 DEF IsGround
      <3>2. CASE ~g.closed
        <4>1. hi = lo + 3
          BY <2>1, <2>5, <3>2 DEF Size
        <4>2. PlainAsync(s[hi])
          BY <2>5, <3>2, <4>1, <1>1 DEF OwnNodes
        <4>3. QED
          BY <4>2, <1>4 DEF PlainAsync
      <3>3. QED
        BY <3>1, <3>2
    <2>6. QED
      BY <2>2, <2>3, <2>4, <2>5
  <1>5. QED
    BY <1>2, <1>3, <1>4

(* Two contexts that have the same nodes below their innermost level.      *)
SameBelow(f, f2) ==
  /\ f2.ctx = f.ctx /\ Len(f2.levels) = Len(f.levels)
  /\ Len(f.levels) = 2 => /\ f2.levels[1].unwaited = f.levels[1].unwaited
                          /\ f2.levels[1].kind = f.levels[1].kind

LEMMA SizesBelow ==
  ASSUME NEW f, IsContext(f), NEW f2, SameBelow(f, f2), NEW lo, NEW g
  PROVE  Size(f2, g) = Size(f, g) /\ LevelAt(f2, lo, g) = LevelAt(f, lo, g)
  <1>1. Size(f2, g) = Size(f, g)
    BY DEF SameBelow, Size
  <1>2. CASE Len(f.levels) = 1
    BY <1>1, <1>2 DEF SameBelow, LevelAt
  <1>3. CASE Len(f.levels) = 2
    <2>1. LevelSize(f2.levels[1]) = LevelSize(f.levels[1])
      BY <1>3 DEF SameBelow, LevelSize
    <2>2. QED
      BY <1>1, <1>3, <2>1 DEF SameBelow, LevelAt
  <1>4. QED
    BY <1>1, <1>2, <1>3 DEF IsContext

LEMMA LevelKept ==
  ASSUME NEW l, NEW l2, l2.kind = l.kind, l2.unwaited = l.unwaited, l.unwaited \in BOOLEAN,
         NEW s, NEW r, NEW at \in Nat,
         LevelNodes(l, s, at), \A j \in (at + 1)..(at + LevelSize(l)) : r[j] = s[j]
  PROVE  LevelNodes(l2, r, at) /\ LevelSize(l2) = LevelSize(l)
  <1>1. Opens(l.kind) \in Nat
    BY DEF Opens
  <1>2. \A j \in 1..Opens(l.kind) : r[at + j] = s[at + j]
    <2> SUFFICES ASSUME NEW j \in 1..Opens(l.kind) PROVE r[at + j] = s[at + j]
      OBVIOUS
    <2>1. at + j \in (at + 1)..(at + LevelSize(l))
      BY <1>1 DEF LevelSize
    <2>2. QED
      BY <2>1
  <1>3. l.unwaited => r[at + Opens(l.kind) + 1] = s[at + Opens(l.kind) + 1]
    <2> SUFFICES ASSUME l.unwaited PROVE r[at + Opens(l.kind) + 1] = s[at + Opens(l.kind) + 1]
      OBVIOUS
    <2>1. at + Opens(l.kind) + 1 \in (at + 1)..(at + LevelSize(l))
      BY <1>1 DEF LevelSize
    <2>2. QED
      BY <2>1
  <1>4. Opens(l2.kind) = Opens(l.kind) /\ LevelSize(l2) = LevelSize(l)
    BY DEF LevelSize
  <1>5. \A j \in 1..Opens(l.kind) : ~r[at + j].finish_flag
    BY <1>2 DEF LevelNodes
  <1>6. l.unwaited => r[at + Opens(l.kind) + 1].finish_flag
    BY <1>3 DEF LevelNodes
  <1>7. QED
    BY <1>4, <1>5, <1>6 DEF LevelNodes

(* The nodes of a context up to its innermost level.                       *)
LEMMA NodesBelow ==
  ASSUME NEW f, IsContext(f), NEW f2, SameBelow(f, f2), NEW lo \in Nat, NEW g,
         NEW s, NEW r, NEW hi, FrameNodes(f, s, lo, hi, g),
         \A j \in (lo + 1)..LevelAt(f, lo, g) : r[j] = s[j]
  PROVE  /\ OwnNodes(f2, r, lo, g)
         /\ BodyNodes(f2, r, lo, g)
         /\ Chain(r, lo + 1, LevelAt(f, lo, g))
  <1> DEFINE at == LevelAt(f, lo, g)
  <1>1. /\ at \in Nat /\ Size(f, g) \in 1..3 /\ LevelSize(f.levels[1]) \in 0..1
        /\ Size(f2, g) = Size(f, g) /\ hi \in Nat /\ at <= hi
        /\ IsLevel(f.levels[1])
    BY ContextSizes, SizesBelow, FrameBounds
  <1>2. lo + Size(f, g) <= at
    BY <1>1 DEF LevelAt
  <1>3. \A j \in 1..Size(f, g) : r[lo + j] = s[lo + j]
    <2> SUFFICES ASSUME NEW j \in 1..Size(f, g) PROVE r[lo + j] = s[lo + j]
      OBVIOUS
    <2> HIDE DEF at
    <2>1. lo + j \in (lo + 1)..at
      BY <1>1, <1>2
    <2>2. QED
      BY <2>1 DEF at
  <1>4. OwnNodes(f2, r, lo, g)
    <2>1. OwnNodes(f, s, lo, g) /\ f2.ctx = f.ctx
      BY DEF FrameNodes, SameBelow
    <2>2. r[lo + 1] = s[lo + 1]
      BY <1>1, <1>3
    <2>3. f.ctx > MaxTasks /\ ~g.closed => r[lo + 2] = s[lo + 2] /\ r[lo + 3] = s[lo + 3]
      BY <1>3 DEF Size
    <2>4. QED
      BY <2>1, <2>2, <2>3 DEF OwnNodes
  <1>5. BodyNodes(f2, r, lo, g)
    <2> SUFFICES ASSUME Len(f2.levels) = 2
                 PROVE  LevelNodes(f2.levels[1], r, lo + Size(f, g))
      BY <1>1 DEF BodyNodes
    <2>1. /\ Len(f.levels) = 2
          /\ f2.levels[1].unwaited = f.levels[1].unwaited
          /\ f2.levels[1].kind = f.levels[1].kind
      BY DEF SameBelow
    <2>2. LevelNodes(f.levels[1], s, lo + Size(f, g))
      BY <2>1 DEF FrameNodes, BodyNodes
    <2>3. at = lo + Size(f, g) + LevelSize(f.levels[1])
      BY <2>1 DEF LevelAt
    <2>4. lo + Size(f, g) \in Nat /\ f.levels[1].unwaited \in BOOLEAN
      BY <1>1 DEF IsLevel
    <2>5. \A j \in (lo + Size(f, g) + 1)..at : r[j] = s[j]
      <3> SUFFICES ASSUME NEW j \in (lo + Size(f, g) + 1)..at PROVE r[j] = s[j]
        OBVIOUS
      <3> HIDE DEF at
      <3>1. j \in (lo + 1)..at
        BY <1>1
      <3>2. QED
        BY <3>1 DEF at
    <2> HIDE DEF at
    <2>6. QED
      BY <2>1, <2>2, <2>3, <2>4, <2>5, LevelKept
  <1>6. Chain(r, lo + 1, at)
    <2> SUFFICES ASSUME NEW j \in (lo + 1)..(at - 1) PROVE r[j + 1].parent = r[j].id
      BY DEF Chain
    <2>1. \A i \in (lo + 1)..at : r[i] = s[i]
      OBVIOUS
    <2>2. \A i \in (lo + 1)..(hi - 1) : s[i + 1].parent = s[i].id
      BY DEF FrameNodes, Chain
    <2> HIDE DEF at
    <2>3. j \in (lo + 1)..at /\ j + 1 \in (lo + 1)..at /\ j \in (lo + 1)..(hi - 1)
      BY <1>1
    <2>4. QED
      BY <2>1, <2>2, <2>3
  <1>7. QED
    BY <1>4, <1>5, <1>6

(* The innermost level gets other nodes.                                   *)
LEMMA ReplaceLevel ==
  ASSUME NEW f, IsContext(f), NEW f2, IsContext(f2), SameBelow(f, f2), NEW lo \in Nat, NEW g,
         NEW s, NEW r, NEW hi, FrameNodes(f, s, lo, hi, g),
         \A j \in (lo + 1)..LevelAt(f, lo, g) : r[j] = s[j],
         LevelNodes(Last(f2.levels), r, LevelAt(f, lo, g)),
         NEW h2, h2 = LevelAt(f, lo, g) + LevelSize(Last(f2.levels)),
         Chain(r, LevelAt(f, lo, g), h2)
  PROVE  FrameNodes(f2, r, lo, h2, g)
  <1> DEFINE at == LevelAt(f, lo, g)
  <1>0. OwnNodes(f2, r, lo, g) /\ BodyNodes(f2, r, lo, g)
    BY NodesBelow
  <1>1. Chain(r, lo + 1, at)
    BY NodesBelow
  <1>2. LevelAt(f2, lo, g) = at /\ at \in Nat /\ lo < at /\ LevelSize(Last(f2.levels)) \in 0..3
    BY SizesBelow, ContextSizes
  <1>3. Chain(r, lo + 1, h2)
    <2> SUFFICES ASSUME NEW j \in (lo + 1)..(h2 - 1) PROVE r[j + 1].parent = r[j].id
      BY DEF Chain
    <2>0. \A i \in (lo + 1)..(at - 1) : r[i + 1].parent = r[i].id
      BY <1>1 DEF Chain
    <2>1. \A i \in at..(h2 - 1) : r[i + 1].parent = r[i].id
      BY DEF Chain
    <2>2. h2 \in Nat
      BY <1>2
    <2> HIDE DEF at
    <2>3. j \in (lo + 1)..(at - 1) \/ j \in at..(h2 - 1)
      BY <1>2, <2>2
    <2>4. QED
      BY <2>0, <2>1, <2>3
  <1>4. LevelNodes(Last(f2.levels), r, at) /\ h2 = at + LevelSize(Last(f2.levels))
    OBVIOUS
  <1> HIDE DEF at
  <1>5. QED
    BY <1>0, <1>2, <1>3, <1>4 DEF FrameNodes

----------------------------------------------------------------------------
(* The contexts of a thread, one after the other on its stack              *)

(* The topmost context is taken off.                                       *)
LEMMA Peel ==
  ASSUME NEW fr, NEW n \in Nat, NEW s, NEW h \in Nat, NEW g, Matches(fr, n + 1, s, h, g)
  PROVE  \E lo \in 0..h : Matches(fr, n, s, lo, g) /\ FrameNodes(fr[n + 1], s, lo, h, g)
  <1>1. PICK b \in [1..(n + 2) -> 0..h] :
          /\ b[1] = 0 /\ b[n + 2] = h
          /\ \A i, j \in 1..(n + 2) : i <= j => b[i] <= b[j]
          /\ \A i \in 1..(n + 1) : FrameNodes(fr[i], s, b[i], b[i + 1], g)
    <2>1. n + 1 + 1 = n + 2
      OBVIOUS
    <2>2. QED
      BY <2>1 DEF Matches
  <1> DEFINE lo == b[n + 1]
             c == [i \in 1..(n + 1) |-> b[i]]
  <1>2. lo \in 0..h /\ FrameNodes(fr[n + 1], s, lo, h, g)
    <2>1. n + 1 \in 1..(n + 1) /\ n + 1 \in 1..(n + 2) /\ n + 1 + 1 = n + 2
      OBVIOUS
    <2>2. b[n + 1 + 1] = h
      BY <1>1, <2>1
    <2>3. QED
      BY <1>1, <2>1, <2>2
  <1>3. c \in [1..(n + 1) -> 0..lo]
    <2> SUFFICES ASSUME NEW i \in 1..(n + 1) PROVE b[i] \in 0..lo
      OBVIOUS
    <2>1. i \in 1..(n + 2) /\ n + 1 \in 1..(n + 2) /\ i <= n + 1
      OBVIOUS
    <2>2. b[i] <= b[n + 1] /\ b[i] \in 0..h
      BY <1>1, <2>1
    <2>3. QED
      BY <1>2, <2>2
  <1>4. c[1] = 0 /\ c[n + 1] = lo /\ \A i, j \in 1..(n + 1) : i <= j => c[i] <= c[j]
    <2>1. \A i \in 1..(n + 1) : i \in 1..(n + 2)
      OBVIOUS
    <2>2. QED
      BY <1>1, <2>1
  <1>5. \A i \in 1..n : FrameNodes(fr[i], s, c[i], c[i + 1], g)
    <2> SUFFICES ASSUME NEW i \in 1..n PROVE FrameNodes(fr[i], s, c[i], c[i + 1], g)
      OBVIOUS
    <2>1. i \in 1..(n + 1) /\ i + 1 \in 1..(n + 1)
      OBVIOUS
    <2>2. c[i] = b[i] /\ c[i + 1] = b[i + 1]
      BY <2>1
    <2>3. FrameNodes(fr[i], s, b[i], b[i + 1], g)
      BY <1>1, <2>1
    <2>4. QED
      BY <2>2, <2>3
  <1> HIDE DEF lo, c
  <1>6. Matches(fr, n, s, lo, g)
    BY <1>3, <1>4, <1>5 DEF Matches
  <1>7. QED
    BY <1>2, <1>6

(* A context is put on top.                                                *)
LEMMA Lay ==
  ASSUME NEW fr, NEW n \in Nat, NEW s, NEW lo \in Nat, NEW g, Matches(fr, n, s, lo, g),
         NEW h \in Nat, lo <= h, FrameNodes(fr[n + 1], s, lo, h, g)
  PROVE  Matches(fr, n + 1, s, h, g)
  <1>1. PICK b \in [1..(n + 1) -> 0..lo] :
          /\ b[1] = 0 /\ b[n + 1] = lo
          /\ \A i, j \in 1..(n + 1) : i <= j => b[i] <= b[j]
          /\ \A i \in 1..n : FrameNodes(fr[i], s, b[i], b[i + 1], g)
    BY DEF Matches
  <1> DEFINE c == [i \in 1..(n + 2) |-> IF i = n + 2 THEN h ELSE b[i]]
  <1>2. /\ n + 2 \in 1..(n + 2) /\ n + 1 + 1 = n + 2 /\ n + 2 # n + 1 /\ 1 # n + 2
        /\ \A i \in 1..(n + 2) : i = n + 2 \/ i \in 1..(n + 1)
        /\ \A i \in 1..(n + 1) : i \in 1..(n + 2) /\ i # n + 2
        /\ 1 \in 1..(n + 1) /\ n + 1 \in 1..(n + 1)
    OBVIOUS
  <1>3. \A i \in 1..(n + 1) : c[i] = b[i]
    BY <1>2
  <1>4. c[n + 2] = h
    BY <1>2
  <1>5. c \in [1..(n + 2) -> 0..h]
    <2> SUFFICES ASSUME NEW i \in 1..(n + 2) PROVE c[i] \in 0..h
      OBVIOUS
    <2> HIDE DEF c
    <2>1. \A j \in 1..(n + 1) : c[j] \in 0..lo
      BY <1>1, <1>3
    <2>2. \A x \in 0..lo : x \in 0..h
      OBVIOUS
    <2>3. h \in 0..h
      OBVIOUS
    <2>4. QED
      BY <1>2, <1>4, <2>1, <2>2, <2>3
  <1> HIDE DEF c
  <1>6. c[1] = 0 /\ c[n + 1] = lo
    BY <1>1, <1>2, <1>3
  <1>7. \A i, j \in 1..(n + 2) : i <= j => c[i] <= c[j]
    <2> SUFFICES ASSUME NEW i \in 1..(n + 2), NEW j \in 1..(n + 2), i <= j
                 PROVE  c[i] <= c[j]
      OBVIOUS
    <2>1. CASE j = n + 2
      BY <1>4, <1>5, <2>1
    <2>2. CASE j # n + 2
      <3>1. i \in 1..(n + 1) /\ j \in 1..(n + 1)
        BY <2>2
      <3>2. QED
        BY <1>1, <1>3, <3>1
    <2>3. QED
      BY <2>1, <2>2
  <1>8. \A i \in 1..(n + 1) : FrameNodes(fr[i], s, c[i], c[i + 1], g)
    <2> SUFFICES ASSUME NEW i \in 1..(n + 1) PROVE FrameNodes(fr[i], s, c[i], c[i + 1], g)
      OBVIOUS
    <2>1. CASE i = n + 1
      BY <1>2, <1>4, <1>6, <2>1
    <2>2. CASE i # n + 1
      <3>1. i \in 1..n /\ i + 1 \in 1..(n + 1)
        BY <2>2
      <3>2. c[i] = b[i] /\ c[i + 1] = b[i + 1]
        BY <1>3, <3>1
      <3>3. QED
        BY <1>1, <3>1, <3>2
    <2>3. QED
      BY <2>1, <2>2
  <1>9. c[1] = 0 /\ c[n + 2] = h
    BY <1>4, <1>6
  <1>10. QED
    <2>1. n + 1 + 1 = n + 2
      OBVIOUS
    <2>2. \E d \in [1..(n + 2) -> 0..h] :
            /\ d[1] = 0 /\ d[n + 2] = h
            /\ \A i, j \in 1..(n + 2) : i <= j => d[i] <= d[j]
            /\ \A i \in 1..(n + 1) : FrameNodes(fr[i], s, d[i], d[i + 1], g)
      BY <1>5, <1>7, <1>8, <1>9
    <2>3. QED
      BY <2>1, <2>2 DEF Matches

(* The nodes of a context are those of its part of the stack, whatever the *)
(* ground is for a context that is no implicit task.                       *)
LEMMA SameNodes ==
  ASSUME NEW f, IsContext(f), NEW lo \in Nat, NEW hi, NEW g, NEW g2,
         f.ctx > MaxTasks => g2 = g,
         NEW s, NEW r, FrameNodes(f, s, lo, hi, g), \A j \in (lo + 1)..hi : r[j] = s[j]
  PROVE  FrameNodes(f, r, lo, hi, g2)
  <1>1. SameBelow(f, f)
    BY DEF SameBelow
  <1>2. /\ hi \in Nat /\ lo < LevelAt(f, lo, g) /\ LevelAt(f, lo, g) <= hi
        /\ LevelAt(f, lo, g) \in Nat
        /\ hi = LevelAt(f, lo, g) + LevelSize(Last(f.levels))
        /\ IsLevel(Last(f.levels))
    BY FrameBounds, ContextSizes DEF FrameNodes
  <1>3. \A j \in (lo + 1)..LevelAt(f, lo, g) : r[j] = s[j]
    BY <1>2
  <1>4. LevelNodes(Last(f.levels), r, LevelAt(f, lo, g))
    <2>1. \A j \in (LevelAt(f, lo, g) + 1)..(LevelAt(f, lo, g) + LevelSize(Last(f.levels))) : r[j] = s[j]
      BY <1>2
    <2>2. LevelNodes(Last(f.levels), s, LevelAt(f, lo, g)) /\ Last(f.levels).unwaited \in BOOLEAN
      BY <1>2 DEF FrameNodes, IsLevel
    <2>3. QED
      BY <1>2, <2>1, <2>2, LevelKept
  <1>5. Chain(r, LevelAt(f, lo, g), hi)
    <2> SUFFICES ASSUME NEW j \in LevelAt(f, lo, g)..(hi - 1) PROVE r[j + 1].parent = r[j].id
      BY DEF Chain
    <2>1. j \in (lo + 1)..(hi - 1) /\ j \in (lo + 1)..hi /\ j + 1 \in (lo + 1)..hi
      BY <1>2
    <2>2. QED
      BY <2>1 DEF FrameNodes, Chain
  <1>6. FrameNodes(f, r, lo, hi, g)
    BY <1>1, <1>2, <1>3, <1>4, <1>5, ReplaceLevel
  <1>7. Size(f, g2) = Size(f, g) /\ LevelAt(f, lo, g2) = LevelAt(f, lo, g)
    BY DEF Size, LevelAt
  <1>8. OwnNodes(f, r, lo, g2)
    <2>1. OwnNodes(f, r, lo, g)
      BY <1>6 DEF FrameNodes
    <2>2. QED
      BY <2>1 DEF OwnNodes
  <1>9. QED
    BY <1>6, <1>7, <1>8 DEF FrameNodes, BodyNodes

(* Contexts keep their nodes when the stack changes above them.            *)
LEMMA SameMatch ==
  ASSUME NEW fr, NEW fr2, NEW n \in Nat, \A i \in 1..n : IsContext(fr[i]) /\ fr2[i] = fr[i],
         NEW g, NEW g2, \A i \in 1..n : fr[i].ctx > MaxTasks => g2 = g,
         NEW s, NEW r, NEW h \in Nat, \A j \in 1..h : r[j] = s[j], Matches(fr, n, s, h, g)
  PROVE  Matches(fr2, n, r, h, g2)
  <1>1. PICK b \in [1..(n + 1) -> 0..h] :
          /\ b[1] = 0 /\ b[n + 1] = h
          /\ \A i, j \in 1..(n + 1) : i <= j => b[i] <= b[j]
          /\ \A i \in 1..n : FrameNodes(fr[i], s, b[i], b[i + 1], g)
    BY DEF Matches
  <1>2. \A i \in 1..n : FrameNodes(fr2[i], r, b[i], b[i + 1], g2)
    <2> SUFFICES ASSUME NEW i \in 1..n PROVE FrameNodes(fr2[i], r, b[i], b[i + 1], g2)
      OBVIOUS
    <2>1. i \in 1..(n + 1) /\ i + 1 \in 1..(n + 1)
      OBVIOUS
    <2>2. b[i] \in 0..h /\ b[i + 1] \in 0..h
      BY <1>1, <2>1
    <2>3. \A j \in (b[i] + 1)..b[i + 1] : r[j] = s[j]
      BY <2>2
    <2>4. FrameNodes(fr[i], s, b[i], b[i + 1], g) /\ b[i] \in Nat
      BY <1>1, <2>2
    <2>5. FrameNodes(fr[i], r, b[i], b[i + 1], g2)
      BY <2>3, <2>4, SameNodes
    <2>6. QED
      BY <2>5
  <1>3. QED
    BY <1>1, <1>2 DEF Matches

----------------------------------------------------------------------------
(* What the steps do to a context                                          *)

LEMMA ContextPast ==
  ASSUME NEW f, IsContext(f), NEW x, NEW f2, f2 = [f EXCEPT !.past = x]
  PROVE  /\ IsContext(f2) /\ f2.ctx = f.ctx /\ f2.waiting = f.waiting
         /\ f2.levels = f.levels
  <1>1. IsFrame(f) /\ f2.levels = f.levels
    BY DEF IsContext, IsFrame
  <1>2. IsFrame(f2) /\ f2.ctx = f.ctx /\ f2.waiting = f.waiting
    BY <1>1, PastFrame
  <1>3. QED
    BY <1>1, <1>2 DEF IsContext

LEMMA ContextWaiting ==
  ASSUME NEW f, IsContext(f), NEW b \in BOOLEAN, b => f.ctx # SerialCode,
         NEW f2, f2 = [f EXCEPT !.waiting = b]
  PROVE  /\ IsContext(f2) /\ f2.ctx = f.ctx /\ f2.waiting = b
         /\ f2.levels = f.levels
  <1>1. IsFrame(f) /\ f2.levels = f.levels
    BY DEF IsContext, IsFrame
  <1>2. IsFrame(f2) /\ f2.ctx = f.ctx /\ f2.waiting = b
    BY <1>1, WaitingFrame
  <1>3. QED
    BY <1>1, <1>2 DEF IsContext

(* The innermost level changes.                                            *)
LEMMA ContextLevel ==
  ASSUME NEW f, IsContext(f), f.ctx # SerialCode, NEW l, IsLevel(l),
         Len(f.levels) = 1 => l.kind = "body", Len(f.levels) = 2 => l.kind \in BlockKinds,
         NEW f2, f2 = SetLevel(f, l)
  PROVE  /\ IsContext(f2) /\ SameBelow(f, f2) /\ f2.ctx = f.ctx /\ f2.waiting = f.waiting
         /\ Last(f2.levels) = l /\ Len(f2.levels) = Len(f.levels)
         /\ \A i \in 1..Len(f.levels) : f2.levels[i] = IF i = Len(f.levels) THEN l ELSE f.levels[i]
  <1>1. IsFrame(f) /\ IsSequence(f.levels) /\ Len(f.levels) \in {1, 2} /\ f.levels # <<>>
    BY LengthType DEF IsContext
  <1>2. IsFrame(f2) /\ f2.ctx = f.ctx /\ f2.waiting = f.waiting
    BY <1>1, SetLevelFrame
  <1>3. f2.levels = WithLast(f.levels, l)
    BY <1>1 DEF SetLevel, IsFrame, WithLast
  <1>4. /\ IsSequence(f2.levels) /\ Len(f2.levels) = Len(f.levels)
        /\ f2.levels[Len(f2.levels)] = l
        /\ \A i \in 1..Len(f2.levels) : i < Len(f2.levels) => f2.levels[i] = f.levels[i]
    BY <1>1, <1>3, ReplaceLast
  <1>5. \A i \in 1..Len(f.levels) :
          f2.levels[i] = IF i = Len(f.levels) THEN l ELSE f.levels[i]
    BY <1>1, <1>4
  <1>6. \A i \in 1..Len(f2.levels) : IsLevel(f2.levels[i])
    BY <1>4, <1>5 DEF IsContext
  <1>7. /\ f2.levels[1].kind = "body"
        /\ Len(f2.levels) = 2 => f2.levels[2].kind \in BlockKinds /\ f2.ctx > MaxTasks
    <2>1. CASE Len(f.levels) = 1
      BY <1>4, <2>1
    <2>2. CASE Len(f.levels) = 2
      <3>1. f2.levels[1] = f.levels[1] /\ f2.levels[2] = l
        BY <1>5, <2>2
      <3>2. QED
        BY <1>2, <1>4, <2>2, <3>1 DEF IsContext
    <2>3. QED
      BY <1>1, <2>1, <2>2
  <1>8. IsContext(f2)
    <2>1. f2.ctx \in Contexts /\ f2.ctx # SerialCode
      BY <1>2 DEF IsContext
    <2>2. Len(f2.levels) \in {1, 2}
      BY <1>1, <1>4
    <2>3. QED
      BY <1>2, <1>4, <1>6, <1>7, <2>1, <2>2 DEF IsContext
  <1>9. SameBelow(f, f2)
    <2>1. Len(f.levels) = 2 => f2.levels[1] = f.levels[1]
      BY <1>5
    <2>2. QED
      BY <1>2, <1>4, <2>1 DEF SameBelow
  <1>10. QED
    BY <1>2, <1>4, <1>5, <1>8, <1>9 DEF Last

LEMMA PushSecond ==
  ASSUME NEW s, IsSequence(s), NEW l, NEW r, r = Push(s, l)
  PROVE  Len(s) = 1 => IsSequence(r) /\ Len(r) = 2 /\ r[1] = s[1] /\ r[2] = l
  <1>1. /\ IsSequence(r) /\ Len(r) = Len(s) + 1 /\ r[Len(r)] = l
        /\ \A i \in 1..Len(r) : i < Len(r) => i \in 1..Len(s) /\ r[i] = s[i]
    BY PushLast
  <1> HAVE Len(s) = 1
  <1>2. Len(r) = 2 /\ 1 \in 1..Len(r) /\ 1 < Len(r)
    BY <1>1
  <1>3. QED
    BY <1>1, <1>2

(* A construct is entered in the body of an implicit task, and left.       *)
LEMMA LevelsEnter ==
  ASSUME NEW f, IsContext(f), f.ctx > MaxTasks, Len(f.levels) # 2, NEW kind \in BlockKinds,
         NEW f2, IsFrame(f2), f2.ctx = f.ctx, f2.levels = Push(f.levels, Level(kind))
  PROVE  /\ IsContext(f2)
         /\ Len(f2.levels) = 2 /\ f2.levels[1] = f.levels[1] /\ f2.levels[2] = Level(kind)
         /\ Last(f2.levels) = Level(kind)
  <1>1. IsSequence(f.levels)
    BY DEF IsContext
  <1>5. /\ IsSequence(f2.levels) /\ Len(f2.levels) = 2
        /\ f2.levels[2] = Level(kind) /\ f2.levels[1] = f.levels[1]
    <2>1. Len(f.levels) = 1 =>
            /\ IsSequence(f2.levels) /\ Len(f2.levels) = 2
            /\ f2.levels[2] = Level(kind) /\ f2.levels[1] = f.levels[1]
      BY <1>1, PushSecond
    <2>2. QED
      BY <2>1 DEF IsContext
  <1>6. IsLevel(Level(kind)) /\ Level(kind).kind = kind
    BY DEF IsLevel, Level
  <1>7. \A i \in 1..2 : IsLevel(f2.levels[i])
    <2> SUFFICES ASSUME NEW i \in 1..2 PROVE IsLevel(f2.levels[i])
      OBVIOUS
    <2>1. i = 1 \/ i = 2
      OBVIOUS
    <2>2. IsLevel(f.levels[1])
      BY DEF IsContext
    <2>3. QED
      BY <1>5, <1>6, <2>1, <2>2
  <1>8. f.ctx \in Contexts /\ f.levels[1].kind = "body" /\ f2.ctx # SerialCode
    BY TaskAssumption DEF IsContext, SerialCode
  <1>9. IsContext(f2)
    BY <1>5, <1>6, <1>7, <1>8 DEF IsContext
  <1>10. Last(f2.levels) = Level(kind)
    BY <1>5 DEF Last
  <1>11. QED
    BY <1>5, <1>9, <1>10

EnterLevel(f, kind) == [f EXCEPT !.levels = Append(@, Level(kind))]

LEMMA ContextEnter ==
  ASSUME NEW f, IsContext(f), f.ctx > MaxTasks, Len(f.levels) # 2, NEW kind \in BlockKinds,
         NEW f2, f2 = EnterLevel(f, kind)
  PROVE  /\ IsContext(f2) /\ f2.ctx = f.ctx /\ f2.waiting = f.waiting
         /\ Len(f2.levels) = 2 /\ f2.levels[1] = f.levels[1] /\ f2.levels[2] = Level(kind)
         /\ Last(f2.levels) = Level(kind)
  <1>1. IsFrame(f)
    BY DEF IsContext
  <1>2. f2 = [f EXCEPT !.levels = Append(f.levels, Level(kind))]
    BY <1>1 DEF IsFrame, EnterLevel
  <1>3. IsFrame(f2) /\ f2.ctx = f.ctx /\ f2.waiting = f.waiting
    BY <1>1, <1>2 DEF IsFrame
  <1>4. f2.levels = Push(f.levels, Level(kind))
    BY <1>1, <1>2 DEF IsFrame, Push
  <1>5. /\ IsContext(f2)
        /\ Len(f2.levels) = 2 /\ f2.levels[1] = f.levels[1] /\ f2.levels[2] = Level(kind)
        /\ Last(f2.levels) = Level(kind)
    <2> HIDE DEF EnterLevel
    <2> DEFINE e == EnterLevel(f, kind)
    <2>1. IsFrame(e) /\ e.ctx = f.ctx /\ e.levels = Push(f.levels, Level(kind)) /\ f2 = e
      BY <1>3, <1>4
    <2> HIDE DEF e
    <2>2. /\ IsContext(e)
          /\ Len(e.levels) = 2 /\ e.levels[1] = f.levels[1] /\ e.levels[2] = Level(kind)
          /\ Last(e.levels) = Level(kind)
      BY <2>1, LevelsEnter
    <2>3. QED
      BY <2>1, <2>2
  <1>6. QED
    BY <1>3, <1>5

LEMMA ContextLeave ==
  ASSUME NEW f, IsContext(f), Len(f.levels) = 2, NEW f2, f2 = LeaveLevel(f)
  PROVE  /\ IsContext(f2) /\ f2.ctx = f.ctx /\ f2.waiting = f.waiting
         /\ Len(f2.levels) = 1 /\ f2.levels[1] = f.levels[1] /\ Last(f2.levels) = f.levels[1]
  <1>1. IsFrame(f) /\ IsSequence(f.levels) /\ f.levels # <<>>
    BY LengthType DEF IsContext
  <1>2. IsFrame(f2) /\ f2.ctx = f.ctx /\ f2.waiting = f.waiting
    BY <1>1, LeaveLevelFrame
  <1>3. f2.levels = Pop(f.levels)
    BY <1>1 DEF LeaveLevel, IsFrame, Pop
  <1>4. /\ IsSequence(f2.levels) /\ Len(f2.levels) = 1 /\ f2.levels[1] = f.levels[1]
    <2> DEFINE s == f.levels
               r == f2.levels
    <2>0. IsSequence(s) /\ s # <<>> /\ r = Pop(s)
      BY <1>1, <1>3
    <2>a. Len(s) = 2
      OBVIOUS
    <2> HIDE DEF s, r
    <2>1. /\ IsSequence(r) /\ Len(r) = Len(s) - 1
          /\ \A i \in 1..Len(r) : i \in 1..Len(s) /\ i < Len(s) /\ r[i] = s[i]
      <3>1. \A q : IsSequence(q) /\ q # <<>> =>
              /\ IsSequence(Pop(q)) /\ Len(Pop(q)) = Len(q) - 1
              /\ \A i \in 1..Len(Pop(q)) : i \in 1..Len(q) /\ i < Len(q) /\ Pop(q)[i] = q[i]
        BY PopLast
      <3>2. QED
        BY ONLY <2>0, <3>1, Zenon
    <2>2. Len(r) = 1
      BY ONLY <2>1, <2>a
    <2>3. r[1] = s[1]
      <3>1. 1 \in 1..1
        OBVIOUS
      <3>2. 1 \in 1..Len(r)
        BY ONLY <2>2, <3>1, Zenon
      <3>3. QED
        BY ONLY <2>1, <3>2, Zenon
    <2>4. QED
      BY <2>1, <2>2, <2>3 DEF s, r
  <1>5. f2.levels[1].kind = "body" /\ IsLevel(f2.levels[1]) /\ f2.ctx \in Contexts
        /\ f2.ctx > MaxTasks
    BY <1>2, <1>4 DEF IsContext
  <1>6. f2.ctx # SerialCode
    BY <1>5, TaskAssumption DEF SerialCode
  <1>7. IsContext(f2)
    <2>1. \A i \in 1..Len(f2.levels) : IsLevel(f2.levels[i])
      <3> SUFFICES ASSUME NEW i \in 1..Len(f2.levels) PROVE IsLevel(f2.levels[i])
        OBVIOUS
      <3>1. i = 1
        BY <1>4
      <3>2. QED
        BY <1>5, <3>1
    <2>2. QED
      BY <1>2, <1>4, <1>5, <1>6, <2>1 DEF IsContext
  <1>8. Last(f2.levels) = f.levels[1]
    BY <1>4 DEF Last
  <1>9. QED
    BY <1>2, <1>4, <1>7, <1>8

LEMMA NewContext ==
  ASSUME NEW c \in Contexts, NEW x
  PROVE  /\ IsContext(Frame(c, x)) /\ Frame(c, x).ctx = c /\ ~Frame(c, x).waiting
         /\ Len(Frame(c, x).levels) = 1 /\ Frame(c, x).levels[1] = Level("body")
         /\ Last(Frame(c, x).levels) = Level("body")
  <1> DEFINE f == Frame(c, x)
             l == Level("body")
  <1>1. f.ctx = c /\ f.waiting = FALSE /\ f.levels = <<l>> /\ IsFrame(f)
    BY DEF Frame, IsFrame
  <1>2. IsLevel(l) /\ l.kind = "body" /\ l.unwaited = FALSE
    BY DEF IsLevel, Level
  <1> HIDE DEF f, l
  <1>3. IsSequence(<<l>>) /\ Len(<<l>>) = 1 /\ <<l>>[1] = l
    <2>1. <<l>> \in Seq({l})
      OBVIOUS
    <2>2. QED
      BY <2>1, SequenceOf
  <1>4. \A i \in 1..1 : IsLevel(<<l>>[i])
    BY <1>2, <1>3
  <1>5. IsContext(f) /\ Last(f.levels) = l
    BY <1>1, <1>2, <1>3, <1>4 DEF IsContext, Last
  <1>6. QED
    BY <1>1, <1>3, <1>5 DEF f, l

----------------------------------------------------------------------------
(* What the steps do to the nodes of the topmost context                   *)

Topmost(f, s, lo, g) ==
  /\ IsContext(f) /\ IsGround(g) /\ lo \in Nat
  /\ s \in Seq(NodeRecord)
  /\ FrameNodes(f, s, lo, Len(s), g)

Keeps(r, s, lo) == \A j \in 1..lo : r[j] = s[j]

(* Cleanup removes the FINISH node of the tasks, and nothing else.         *)
LEMMA CleanedNodes ==
  ASSUME NEW f, NEW s, NEW lo, NEW g, Topmost(f, s, lo, g)
  PROVE  LET l == Last(f.levels)
             at == LevelAt(f, lo, g)
             r == Cleanup(s) IN
         /\ Len(s) = at + Opens(l.kind) + IF l.unwaited THEN 1 ELSE 0
         /\ at \in Nat /\ lo < at /\ Opens(l.kind) \in 0..2 /\ l.unwaited \in BOOLEAN
         /\ Top(s) = s[Len(s)] /\ Top(s) \in NodeRecord
         /\ Top(s).finish_flag <=> l.unwaited
         /\ r \in Seq(NodeRecord) /\ Len(r) = at + Opens(l.kind)
         /\ Keeps(r, s, Len(r))
  <1> DEFINE l == Last(f.levels)
             at == LevelAt(f, lo, g)
             r == Cleanup(s)
  <1>1. /\ Len(s) = at + Opens(l.kind) + IF l.unwaited THEN 1 ELSE 0
        /\ at \in Nat /\ lo < at /\ Opens(l.kind) \in 0..2 /\ IsLevel(l) /\ lo \in Nat
    BY ContextSizes, FrameBounds DEF Topmost
  <1>2. s[Len(s)].finish_flag <=> l.unwaited
    BY TopFlag DEF Topmost
  <1>3. l.unwaited \in BOOLEAN
    BY <1>1 DEF IsLevel
  <1> HIDE DEF l, at
  <1>4. s \in Seq(NodeRecord) /\ Len(s) > 0 /\ Len(s) \in Nat
    BY <1>1 DEF Topmost
  <1>5. /\ Pop(s) \in Seq(NodeRecord) /\ Len(Pop(s)) = Len(s) - 1
        /\ \A i \in 1..(Len(s) - 1) : Pop(s)[i] = s[i]
        /\ Top(s) = s[Len(s)] /\ Top(s) \in NodeRecord
    BY <1>4, PopStack, TopType
  <1>6. r \in Seq(NodeRecord) /\ Len(r) = at + Opens(l.kind) /\ Keeps(r, s, Len(r))
    <2>1. CASE l.unwaited
      <3>1. r = Pop(s)
        BY <1>2, <1>5, <2>1 DEF Cleanup
      <3>2. Len(s) = at + Opens(l.kind) + 1
        BY <1>1, <2>1
      <3> HIDE DEF r
      <3>3. Len(r) = at + Opens(l.kind) /\ Len(r) = Len(s) - 1
        BY <1>1, <1>5, <3>1, <3>2
      <3>4. QED
        BY <1>5, <3>1, <3>3 DEF Keeps
    <2>2. CASE ~l.unwaited
      <3>1. r = s
        BY <1>2, <1>5, <2>2 DEF Cleanup
      <3> HIDE DEF r
      <3>2. QED
        BY <1>1, <1>4, <2>2, <3>1 DEF Keeps
    <2>3. QED
      BY <2>1, <2>2
  <1> HIDE DEF r
  <1>7. QED
    BY <1>1, <1>2, <1>3, <1>5, <1>6 DEF l, at, r

(* The nodes of a context that keeps its levels.                           *)
LEMMA NodesSame ==
  ASSUME NEW f, NEW s, NEW lo, NEW g, Topmost(f, s, lo, g),
         NEW f2, IsContext(f2), f2.ctx = f.ctx, f2.levels = f.levels
  PROVE  Topmost(f2, s, lo, g)
  <1>1. FrameNodes(f2, s, lo, Len(s), g)
    <2>1. FrameNodes(f, s, lo, Len(s), g)
      BY DEF Topmost
    <2>2. Size(f2, g) = Size(f, g) /\ LevelAt(f2, lo, g) = LevelAt(f, lo, g)
      BY DEF Size, LevelAt
    <2>3. OwnNodes(f2, s, lo, g) /\ BodyNodes(f2, s, lo, g)
      BY <2>1, <2>2 DEF FrameNodes, OwnNodes, BodyNodes
    <2>4. QED
      BY <2>1, <2>2, <2>3 DEF FrameNodes
  <1>2. QED
    BY <1>1 DEF Topmost

(* The innermost level of f has become that of f2, with the nodes r.       *)
LEMMA NodesLevel ==
  ASSUME NEW f, NEW s, NEW lo, NEW g, Topmost(f, s, lo, g),
         NEW f2, IsContext(f2), SameBelow(f, f2),
         NEW r \in Seq(NodeRecord), Keeps(r, s, LevelAt(f, lo, g)),
         LevelNodes(Last(f2.levels), r, LevelAt(f, lo, g)),
         Len(r) = LevelAt(f, lo, g) + LevelSize(Last(f2.levels)),
         Chain(r, LevelAt(f, lo, g), Len(r))
  PROVE  Topmost(f2, r, lo, g) /\ Keeps(r, s, lo)
  <1>1. /\ IsContext(f) /\ IsGround(g) /\ lo \in Nat
        /\ FrameNodes(f, s, lo, Len(s), g)
    BY DEF Topmost
  <1>2. LevelAt(f, lo, g) \in Nat /\ lo < LevelAt(f, lo, g)
    BY <1>1, ContextSizes
  <1>3. Keeps(r, s, lo) /\ \A j \in (lo + 1)..LevelAt(f, lo, g) : r[j] = s[j]
    BY <1>1, <1>2 DEF Keeps
  <1>4. FrameNodes(f2, r, lo, Len(r), g)
    BY <1>1, <1>3, ReplaceLevel
  <1>5. QED
    BY <1>1, <1>3, <1>4 DEF Topmost

(* Where the innermost level has its nodes.                                *)
LEMMA NodesInnermost ==
  ASSUME NEW f, NEW s, NEW lo, NEW g, Topmost(f, s, lo, g)
  PROVE  /\ LevelNodes(Last(f.levels), s, LevelAt(f, lo, g))
         /\ Chain(s, LevelAt(f, lo, g), Len(s))
  <1>1. LevelNodes(Last(f.levels), s, LevelAt(f, lo, g)) /\ Chain(s, lo + 1, Len(s))
    BY DEF Topmost, FrameNodes
  <1>2. LevelAt(f, lo, g) \in Nat /\ lo < LevelAt(f, lo, g) /\ lo \in Nat /\ Len(s) \in Nat
    BY CleanedNodes DEF Topmost
  <1>3. Chain(s, LevelAt(f, lo, g), Len(s))
    <2> SUFFICES ASSUME NEW j \in LevelAt(f, lo, g)..(Len(s) - 1)
                 PROVE  s[j + 1].parent = s[j].id
      BY DEF Chain
    <2>1. j \in (lo + 1)..(Len(s) - 1)
      BY <1>2
    <2>2. QED
      BY <1>1, <2>1 DEF Chain
  <1>4. QED
    BY <1>1, <1>3

(* A task is allocated: its FINISH node is there or is opened.             *)
LEMMA NodesAlloc ==
  ASSUME NEW f, NEW s, NEW lo, NEW g, Topmost(f, s, lo, g),
         NEW f2, IsContext(f2), SameBelow(f, f2),
         Last(f2.levels).kind = Last(f.levels).kind, Last(f2.levels).unwaited,
         NEW n \in NodeRecord, n.finish_flag, n.parent = Top(s).id,
         NEW r, r = IF Top(s).finish_flag THEN s ELSE Append(s, n)
  PROVE  Topmost(f2, r, lo, g) /\ Keeps(r, s, lo)
  <1> DEFINE l == Last(f.levels)
             at == LevelAt(f, lo, g)
  <1>1. /\ Len(s) = at + Opens(l.kind) + IF l.unwaited THEN 1 ELSE 0
        /\ at \in Nat /\ lo < at /\ Opens(l.kind) \in 0..2
        /\ Top(s) = s[Len(s)]
        /\ Top(s).finish_flag <=> l.unwaited
    BY CleanedNodes
  <1>2. LevelNodes(l, s, at) /\ Chain(s, at, Len(s)) /\ s \in Seq(NodeRecord)
    BY NodesInnermost DEF Topmost
  <1>3. LevelSize(Last(f2.levels)) = Opens(l.kind) + 1
    BY DEF LevelSize
  <1> HIDE DEF l, at
  <1>4. Len(s) \in Nat
    BY <1>1
  <1>5. /\ r \in Seq(NodeRecord) /\ Len(r) = at + Opens(l.kind) + 1
        /\ Keeps(r, s, at + Opens(l.kind))
        /\ r[at + Opens(l.kind) + 1].finish_flag
        /\ Chain(r, at, Len(r))
    <2>1. CASE l.unwaited
      <3>1. r = s /\ Len(s) = at + Opens(l.kind) + 1
        BY <1>1, <2>1
      <3>2. s[Len(s)].finish_flag
        BY <1>1, <2>1
      <3>3. QED
        BY <1>2, <3>1, <3>2 DEF Keeps
    <2>2. CASE ~l.unwaited
      <3>1. r = Append(s, n) /\ Len(s) = at + Opens(l.kind)
        BY <1>1, <2>2
      <3>2. /\ r \in Seq(NodeRecord) /\ Len(r) = Len(s) + 1
            /\ \A i \in 1..Len(s) : r[i] = s[i]
            /\ r[Len(s) + 1] = n
        BY <1>2, <3>1, PushOne
      <3>3. Chain(r, at, Len(r))
        <4> SUFFICES ASSUME NEW j \in at..(Len(r) - 1) PROVE r[j + 1].parent = r[j].id
          BY DEF Chain
        <4>1. j \in 1..Len(s) /\ r[j] = s[j]
          BY <1>1, <1>4, <3>2 DEF Topmost
        <4>2. CASE j = Len(s)
          BY <1>1, <3>2, <4>1, <4>2
        <4>3. CASE j # Len(s)
          <5>1. j \in at..(Len(s) - 1) /\ j + 1 \in 1..Len(s)
            BY <1>1, <1>4, <4>1, <4>3
          <5>2. r[j + 1] = s[j + 1] /\ s[j + 1].parent = s[j].id
            BY <1>2, <3>2, <5>1 DEF Chain
          <5>3. QED
            BY <4>1, <5>2
        <4>4. QED
          BY <4>2, <4>3
      <3>4. QED
        BY <3>1, <3>2, <3>3 DEF Keeps
    <2>3. QED
      BY <2>1, <2>2
  <1>6. LevelNodes(Last(f2.levels), r, at)
    <2>1. \A j \in 1..Opens(l.kind) : ~r[at + j].finish_flag
      <3> SUFFICES ASSUME NEW j \in 1..Opens(l.kind) PROVE ~r[at + j].finish_flag
        OBVIOUS
      <3>1. at + j \in 1..(at + Opens(l.kind))
        BY <1>1
      <3>2. QED
        BY <1>2, <1>5, <3>1 DEF LevelNodes, Keeps
    <2>2. Last(f2.levels).kind = l.kind
      BY DEF l
    <2>3. QED
      BY <1>5, <2>1, <2>2 DEF LevelNodes
  <1>7. Keeps(r, s, at)
    BY <1>1, <1>5 DEF Keeps
  <1>8. QED
    <2>1. Len(r) = at + LevelSize(Last(f2.levels))
      BY <1>1, <1>3, <1>5
    <2>2. QED
      BY <1>5, <1>6, <1>7, <2>1, NodesLevel DEF at

(* The tasks are waited for: their FINISH node is removed.                 *)
LEMMA NodesWaited ==
  ASSUME NEW f, NEW s, NEW lo, NEW g, Topmost(f, s, lo, g),
         NEW f2, IsContext(f2), SameBelow(f, f2),
         Last(f2.levels).kind = Last(f.levels).kind, ~Last(f2.levels).unwaited,
         NEW r, r = Cleanup(s)
  PROVE  Topmost(f2, r, lo, g) /\ Keeps(r, s, lo)
  <1> DEFINE l == Last(f.levels)
             at == LevelAt(f, lo, g)
  <1>1. /\ Len(s) = at + Opens(l.kind) + IF l.unwaited THEN 1 ELSE 0
        /\ at \in Nat /\ lo < at /\ Opens(l.kind) \in 0..2
        /\ r \in Seq(NodeRecord) /\ Len(r) = at + Opens(l.kind) /\ Keeps(r, s, Len(r))
    BY CleanedNodes
  <1>2. LevelNodes(l, s, at) /\ Chain(s, at, Len(s)) /\ lo \in Nat
    BY NodesInnermost DEF Topmost
  <1>3. LevelSize(Last(f2.levels)) = Opens(l.kind)
    BY <1>1 DEF LevelSize
  <1>4. Last(f2.levels).kind = l.kind
    OBVIOUS
  <1> HIDE DEF l, at
  <1>5. Keeps(r, s, at)
    BY <1>1 DEF Keeps
  <1>6. Chain(r, at, Len(r))
    <2> SUFFICES ASSUME NEW j \in at..(Len(r) - 1) PROVE r[j + 1].parent = r[j].id
      BY DEF Chain
    <2>1. j \in 1..Len(r) /\ j + 1 \in 1..Len(r) /\ j \in at..(Len(s) - 1)
      BY <1>1, <1>2
    <2>2. QED
      BY <1>1, <1>2, <2>1 DEF Keeps, Chain
  <1>7. LevelNodes(Last(f2.levels), r, at)
    <2>1. \A j \in 1..Opens(l.kind) : ~r[at + j].finish_flag
      <3> SUFFICES ASSUME NEW j \in 1..Opens(l.kind) PROVE ~r[at + j].finish_flag
        OBVIOUS
      <3>1. at + j \in 1..Len(r)
        BY <1>1
      <3>2. QED
        BY <1>1, <1>2, <3>1 DEF LevelNodes, Keeps
    <2>2. QED
      BY <1>4, <2>1 DEF LevelNodes
  <1>8. Len(r) = at + LevelSize(Last(f2.levels))
    BY <1>1, <1>3
  <1>9. QED
    BY <1>1, <1>5, <1>6, <1>7, <1>8, NodesLevel DEF at

(* A construct opens its FINISH node.                                      *)
LEMMA NodesEnter ==
  ASSUME NEW f, NEW s, NEW lo, NEW g, Topmost(f, s, lo, g), Len(f.levels) = 1,
         NEW f2, IsContext(f2), f2.ctx = f.ctx, Len(f2.levels) = 2,
         f2.levels[1] = f.levels[1], Opens(Last(f2.levels).kind) = 1, ~Last(f2.levels).unwaited,
         NEW n \in NodeRecord, ~n.finish_flag, n.parent = Top(s).id,
         NEW r, r = Append(s, n)
  PROVE  Topmost(f2, r, lo, g) /\ Keeps(r, s, lo)
  <1> DEFINE l == f.levels[1]
             at == LevelAt(f, lo, g)
  <1>1. Last(f.levels) = l /\ lo \in Nat /\ IsContext(f) /\ s \in Seq(NodeRecord)
    BY DEF Last, Topmost
  <1>2. /\ Len(s) = at + LevelSize(l) /\ at = lo + Size(f, g)
        /\ Size(f, g) \in 1..3 /\ LevelSize(l) \in 0..1
        /\ OwnNodes(f, s, lo, g) /\ LevelNodes(l, s, at) /\ Chain(s, lo + 1, Len(s))
    <2>1. FrameNodes(f, s, lo, Len(s), g)
      BY DEF Topmost
    <2>2. Size(f, g) \in 1..3 /\ LevelSize(l) \in 0..1
      BY <1>1, ContextSizes
    <2>3. at = lo + Size(f, g)
      BY <1>1, <2>2 DEF LevelAt
    <2> HIDE DEF l, at
    <2>4. QED
      BY <1>1, <2>1, <2>2, <2>3 DEF FrameNodes, at
  <1>3. LevelAt(f2, lo, g) = Len(s) /\ Size(f2, g) = Size(f, g)
    <2>1. Size(f2, g) = Size(f, g)
      BY DEF Size
    <2>2. LevelAt(f2, lo, g) = lo + Size(f, g) + LevelSize(l)
      BY <2>1 DEF LevelAt
    <2> HIDE DEF l
    <2>3. QED
      BY <1>1, <1>2, <2>1, <2>2
  <1>4. LevelSize(Last(f2.levels)) = 1
    BY DEF LevelSize
  <1>5. Len(s) \in Nat /\ Len(s) > lo /\ Top(s) = s[Len(s)]
    <2>1. Len(s) \in Nat /\ Len(s) > lo
      BY <1>1, <1>2
    <2>2. QED
      BY <1>1, <2>1, PopStack
  <1> HIDE DEF l, at
  <1>6. /\ r \in Seq(NodeRecord) /\ Len(r) = Len(s) + 1
        /\ \A i \in 1..Len(s) : r[i] = s[i]
        /\ r[Len(s) + 1] = n
    BY <1>1, PushOne
  <1>7. OwnNodes(f2, r, lo, g)
    <2>1. 1 <= Len(s) - lo /\ r[lo + 1] = s[lo + 1]
      BY <1>1, <1>5, <1>6
    <2>2. f.ctx > MaxTasks /\ ~g.closed => r[lo + 2] = s[lo + 2] /\ r[lo + 3] = s[lo + 3]
      <3> SUFFICES ASSUME f.ctx > MaxTasks, ~g.closed
                   PROVE  r[lo + 2] = s[lo + 2] /\ r[lo + 3] = s[lo + 3]
        OBVIOUS
      <3>1. Size(f, g) = 3
        BY DEF Size
      <3>2. lo + 2 \in 1..Len(s) /\ lo + 3 \in 1..Len(s)
        BY <1>1, <1>2, <1>5, <3>1
      <3>3. QED
        BY <1>6, <3>2
    <2>3. OwnNodes(f, s, lo, g)
      BY <1>2
    <2>4. QED
      BY <2>1, <2>2, <2>3 DEF OwnNodes
  <1>8. BodyNodes(f2, r, lo, g)
    <2>1. LevelNodes(l, s, at) /\ at \in Nat /\ l.unwaited \in BOOLEAN
      <3>1. IsLevel(l)
        BY <1>1, ContextSizes DEF l
      <3>2. QED
        BY <1>1, <1>2, <3>1 DEF IsLevel
    <2>2. \A j \in (at + 1)..(at + LevelSize(l)) : r[j] = s[j]
      BY <1>1, <1>2, <1>5, <1>6
    <2>3. LevelNodes(l, r, at)
      BY <2>1, <2>2, LevelKept
    <2>4. f2.levels[1] = l /\ lo + Size(f2, g) = at
      BY <1>1, <1>2, <1>3 DEF l
    <2>5. QED
      BY <2>3, <2>4 DEF BodyNodes
  <1>9. LevelNodes(Last(f2.levels), r, Len(s))
    <2>1. \A j \in 1..1 : ~r[Len(s) + j].finish_flag
      BY <1>6
    <2>2. QED
      BY <2>1 DEF LevelNodes
  <1>10. Chain(r, lo + 1, Len(r))
    <2> SUFFICES ASSUME NEW j \in (lo + 1)..(Len(r) - 1) PROVE r[j + 1].parent = r[j].id
      BY DEF Chain
    <2>1. j \in 1..Len(s) /\ r[j] = s[j]
      BY <1>1, <1>5, <1>6
    <2>2. CASE j = Len(s)
      BY <1>5, <1>6, <2>1, <2>2
    <2>3. CASE j # Len(s)
      <3>1. j \in (lo + 1)..(Len(s) - 1) /\ j + 1 \in 1..Len(s)
        BY <1>1, <1>5, <2>1, <2>3
      <3>2. r[j + 1] = s[j + 1] /\ s[j + 1].parent = s[j].id
        BY <1>2, <1>6, <3>1 DEF Chain
      <3>3. QED
        BY <2>1, <3>2
    <2>4. QED
      BY <2>2, <2>3
  <1>11. FrameNodes(f2, r, lo, Len(r), g)
    BY <1>3, <1>4, <1>6, <1>7, <1>8, <1>9, <1>10 DEF FrameNodes
  <1>12. Keeps(r, s, lo)
    BY <1>1, <1>5, <1>6 DEF Keeps
  <1>13. QED
    BY <1>1, <1>6, <1>11, <1>12 DEF Topmost

(* A construct is left: the nodes of the body remain.                      *)
LEMMA NodesLeave ==
  ASSUME NEW f, NEW s, NEW lo, NEW g, Topmost(f, s, lo, g), Len(f.levels) = 2,
         NEW f2, IsContext(f2), f2.ctx = f.ctx, Len(f2.levels) = 1,
         f2.levels[1] = f.levels[1],
         NEW r \in Seq(NodeRecord), Len(r) = LevelAt(f, lo, g), Keeps(r, s, Len(r))
  PROVE  Topmost(f2, r, lo, g) /\ Keeps(r, s, lo)
  <1> DEFINE l == f.levels[1]
             at == lo + Size(f, g)
  <1>1. /\ IsContext(f) /\ lo \in Nat /\ IsGround(g) /\ FrameNodes(f, s, lo, Len(s), g)
        /\ Last(f2.levels) = l
    BY DEF Topmost, Last
  <1>2. /\ Size(f, g) \in 1..3 /\ LevelSize(l) \in 0..1 /\ IsLevel(l)
        /\ LevelAt(f, lo, g) = at + LevelSize(l)
        /\ Len(s) \in Nat /\ LevelAt(f, lo, g) <= Len(s)
    <2>1. /\ Size(f, g) \in 1..3 /\ LevelSize(l) \in 0..1 /\ IsLevel(l)
          /\ Len(s) \in Nat /\ LevelAt(f, lo, g) <= Len(s)
      BY <1>1, ContextSizes, FrameBounds
    <2>2. LevelAt(f, lo, g) = at + LevelSize(l)
      BY DEF LevelAt
    <2>3. QED
      BY <2>1, <2>2
  <1>3. OwnNodes(f, s, lo, g) /\ LevelNodes(l, s, at) /\ Chain(s, lo + 1, Len(s))
    BY <1>1 DEF FrameNodes, BodyNodes
  <1>4. Size(f2, g) = Size(f, g) /\ LevelAt(f2, lo, g) = at
    <2>1. Size(f2, g) = Size(f, g)
      BY DEF Size
    <2>2. LevelAt(f2, lo, g) = lo + Size(f2, g) + 0
      BY DEF LevelAt
    <2>3. QED
      BY <1>1, <1>2, <2>1, <2>2
  <1> HIDE DEF l, at
  <1>5. at \in Nat /\ lo + Size(f, g) = at /\ lo < at /\ Len(r) = at + LevelSize(l)
    BY <1>1, <1>2 DEF at
  <1>6. OwnNodes(f2, r, lo, g)
    <2>1. r[lo + 1] = s[lo + 1]
      BY <1>1, <1>2, <1>5 DEF Keeps
    <2>2. f.ctx > MaxTasks /\ ~g.closed => r[lo + 2] = s[lo + 2] /\ r[lo + 3] = s[lo + 3]
      <3> SUFFICES ASSUME f.ctx > MaxTasks, ~g.closed
                   PROVE  r[lo + 2] = s[lo + 2] /\ r[lo + 3] = s[lo + 3]
        OBVIOUS
      <3>1. Size(f, g) = 3
        BY DEF Size
      <3>2. lo + 2 \in 1..Len(r) /\ lo + 3 \in 1..Len(r)
        BY <1>1, <1>2, <1>5, <3>1
      <3>3. QED
        BY <3>2 DEF Keeps
    <2>3. QED
      BY <1>3, <2>1, <2>2 DEF OwnNodes
  <1>7. LevelNodes(l, r, at)
    <2>1. \A j \in (at + 1)..(at + LevelSize(l)) : r[j] = s[j]
      BY <1>2, <1>5 DEF Keeps
    <2>2. l.unwaited \in BOOLEAN
      BY <1>2 DEF IsLevel
    <2>3. QED
      BY <1>3, <1>5, <2>1, <2>2, LevelKept
  <1>8. BodyNodes(f2, r, lo, g)
    <2>1. Len(f2.levels) # 2
      OBVIOUS
    <2>2. QED
      BY <2>1 DEF BodyNodes
  <1>9. Chain(r, lo + 1, Len(r))
    <2> SUFFICES ASSUME NEW j \in (lo + 1)..(Len(r) - 1) PROVE r[j + 1].parent = r[j].id
      BY DEF Chain
    <2>1. j \in 1..Len(r) /\ j + 1 \in 1..Len(r) /\ j \in (lo + 1)..(Len(s) - 1)
      BY <1>1, <1>2, <1>5
    <2>2. r[j] = s[j] /\ r[j + 1] = s[j + 1] /\ s[j + 1].parent = s[j].id
      BY <1>3, <2>1 DEF Keeps, Chain
    <2>3. QED
      BY <2>2
  <1>10. FrameNodes(f2, r, lo, Len(r), g)
    BY <1>1, <1>4, <1>5, <1>6, <1>7, <1>8, <1>9 DEF FrameNodes
  <1>11. Keeps(r, s, lo)
    BY <1>1, <1>2, <1>5 DEF Keeps
  <1>12. QED
    BY <1>1, <1>10, <1>11 DEF Topmost

(* A chunk of a loop is begun: the chunk before it is closed, if any.      *)
LEMMA NodesChunk ==
  ASSUME NEW f, NEW s, NEW lo, NEW g, Topmost(f, s, lo, g),
         ~Last(f.levels).unwaited, Last(f.levels).kind \in {"loop", "chunk"},
         NEW f2, IsContext(f2), SameBelow(f, f2),
         Last(f2.levels).kind = "chunk", ~Last(f2.levels).unwaited,
         NEW q, q = IF Last(f.levels).kind = "loop" THEN s ELSE Pop(s),
         NEW n \in NodeRecord, ~n.finish_flag, n.parent = Top(q).id,
         NEW r, r = Append(q, n)
  PROVE  Topmost(f2, r, lo, g) /\ Keeps(r, s, lo)
  <1> DEFINE l == Last(f.levels)
             at == LevelAt(f, lo, g)
  <1>1. /\ Len(s) = at + Opens(l.kind)
        /\ at \in Nat /\ lo < at /\ lo \in Nat /\ s \in Seq(NodeRecord)
        /\ LevelNodes(l, s, at) /\ Chain(s, at, Len(s))
    BY CleanedNodes, NodesInnermost DEF Topmost
  <1>2. Opens(l.kind) = IF l.kind = "loop" THEN 1 ELSE 2
    BY DEF Opens
  <1>3. LevelSize(Last(f2.levels)) = 2 /\ Opens(Last(f2.levels).kind) = 2
    BY DEF LevelSize, Opens
  <1>4. l.kind \in {"loop", "chunk"}
    OBVIOUS
  <1> HIDE DEF l, at
  <1>5. /\ q \in Seq(NodeRecord) /\ Len(q) = at + 1 /\ Keeps(q, s, at + 1)
        /\ at + 1 <= Len(s)
    <2>1. CASE l.kind = "loop"
      BY <1>1, <1>2, <2>1 DEF l, Keeps
    <2>2. CASE l.kind = "chunk"
      <3>1. q = Pop(s)
        BY <2>2 DEF l
      <3>2. s \in Seq(NodeRecord) /\ Len(s) > 0
        BY <1>1, <1>2, <2>2
      <3>3. /\ Pop(s) \in Seq(NodeRecord) /\ Len(Pop(s)) = Len(s) - 1
            /\ \A i \in 1..(Len(s) - 1) : Pop(s)[i] = s[i]
        BY <3>2, PopStack
      <3>4. Len(s) = at + 2
        BY <1>1, <1>2, <2>2
      <3>5. QED
        BY <1>1, <3>1, <3>3, <3>4 DEF Keeps
    <2>3. QED
      BY <1>4, <2>1, <2>2
  <1>6. /\ r \in Seq(NodeRecord) /\ Len(r) = at + 2
        /\ \A i \in 1..(at + 1) : r[i] = s[i]
        /\ r[at + 2] = n /\ Top(q) = s[at + 1]
    <2>0. q \in Seq(NodeRecord) /\ Len(q) > 0 /\ at + 1 + 1 = at + 2
      BY <1>1, <1>5
    <2>1. /\ r \in Seq(NodeRecord) /\ Len(r) = Len(q) + 1
          /\ \A i \in 1..Len(q) : r[i] = q[i]
          /\ r[Len(q) + 1] = n
      BY <2>0, PushOne
    <2>2. Top(q) = q[Len(q)]
      BY <2>0, PopStack
    <2>3. at + 1 \in 1..(at + 1)
      BY <1>1
    <2>4. Top(q) = s[at + 1]
      BY <1>5, <2>2, <2>3 DEF Keeps
    <2>5. \A i \in 1..(at + 1) : r[i] = s[i]
      BY <1>5, <2>1 DEF Keeps
    <2>6. Len(r) = at + 2 /\ r[at + 2] = n
      BY <1>5, <2>0, <2>1
    <2>7. QED
      BY <2>1, <2>4, <2>5, <2>6
  <1>7. LevelNodes(Last(f2.levels), r, at)
    <2>1. ~s[at + 1].finish_flag
      BY <1>1, <1>2, <1>4 DEF LevelNodes
    <2>2. r[at + 1] = s[at + 1]
      BY <1>1, <1>6
    <2>3. \A j \in 1..2 : ~r[at + j].finish_flag
      <3> SUFFICES ASSUME NEW j \in 1..2 PROVE ~r[at + j].finish_flag
        OBVIOUS
      <3>1. j = 1 \/ j = 2
        OBVIOUS
      <3>2. QED
        BY <1>6, <2>1, <2>2, <3>1
    <2>4. QED
      BY <1>3, <2>3 DEF LevelNodes
  <1>8. Chain(r, at, Len(r))
    <2> SUFFICES ASSUME NEW j \in at..(Len(r) - 1) PROVE r[j + 1].parent = r[j].id
      BY DEF Chain
    <2>1. j = at \/ j = at + 1
      BY <1>1, <1>6
    <2>2. CASE j = at
      <3>1. r[at] = s[at] /\ r[at + 1] = s[at + 1] /\ at \in at..(Len(s) - 1)
        BY <1>1, <1>2, <1>4, <1>6
      <3>2. QED
        BY <1>1, <2>2, <3>1 DEF Chain
    <2>3. CASE j = at + 1
      <3>1. r[at + 1] = s[at + 1] /\ j + 1 = at + 2
        BY <1>1, <1>6, <2>3
      <3>2. QED
        BY <1>6, <2>3, <3>1
    <2>4. QED
      BY <2>1, <2>2, <2>3
  <1>9. Keeps(r, s, at)
    BY <1>1, <1>6 DEF Keeps
  <1>10. Len(r) = at + LevelSize(Last(f2.levels))
    BY <1>3, <1>6
  <1>11. QED
    BY <1>6, <1>7, <1>8, <1>9, <1>10, NodesLevel DEF at

(* A task begins: its ASYNC node is alone in its part of the stack.        *)
LEMMA NodesTask ==
  ASSUME NEW s \in Seq(NodeRecord), NEW n \in NodeRecord, PlainAsync(n), NEW g, IsGround(g),
         NEW f, IsContext(f), IsTask(f.ctx), f.levels = <<Level("body")>>,
         NEW r, r = Append(s, n)
  PROVE  Topmost(f, r, Len(s), g) /\ Keeps(r, s, Len(s))
  <1>1. /\ r \in Seq(NodeRecord) /\ Len(r) = Len(s) + 1
        /\ \A i \in 1..Len(s) : r[i] = s[i]
        /\ r[Len(s) + 1] = n /\ Len(s) \in Nat
    BY PushOne
  <1>2. /\ Len(f.levels) = 1 /\ Last(f.levels) = Level("body")
        /\ Level("body").kind = "body" /\ Level("body").unwaited = FALSE
    BY DEF Last, Level
  <1>3. Size(f, g) = 1 /\ f.ctx # SerialCode /\ ~(f.ctx > MaxTasks)
    BY TaskAssumption DEF Size, IsTask, SerialCode
  <1>4. OwnNodes(f, r, Len(s), g)
    BY <1>1, <1>3 DEF OwnNodes
  <1>5. LevelAt(f, Len(s), g) = Len(s) + 1
    BY <1>1, <1>2, <1>3 DEF LevelAt
  <1>6. LevelSize(Last(f.levels)) = 0 /\ Opens(Last(f.levels).kind) = 0
    BY <1>2 DEF LevelSize, Opens
  <1>7. LevelNodes(Last(f.levels), r, LevelAt(f, Len(s), g))
    BY <1>2, <1>6 DEF LevelNodes
  <1>8. Chain(r, Len(s) + 1, Len(r))
    BY <1>1 DEF Chain
  <1>9. FrameNodes(f, r, Len(s), Len(r), g)
    <2>1. BodyNodes(f, r, Len(s), g)
      BY <1>2 DEF BodyNodes
    <2>2. Len(r) = LevelAt(f, Len(s), g) + LevelSize(Last(f.levels))
      BY <1>1, <1>5, <1>6
    <2>3. QED
      BY <1>4, <1>7, <1>8, <2>1, <2>2 DEF FrameNodes
  <1>10. QED
    BY <1>1, <1>9 DEF Topmost, Keeps

----------------------------------------------------------------------------
(* The contexts and the nodes of a thread together                         *)

(* Contexts a thread at control point q has beside tasks: the serial code  *)
(* of the master and its implicit task.                                    *)
Ours(t, q) == Depth(t) + IF q \in InRegionControl THEN 1 ELSE 0

(* The implicit task f of thread t at control point q; first is            *)
(* firstDispatch[t].                                                       *)
ImplicitOK(t, f, q, first) ==
  /\ f.ctx = Implicit(t)
  /\ q # "work" => ~f.waiting /\ Len(f.levels) = 1 /\ ~f.levels[1].unwaited
  /\ Len(f.levels) = 2 => /\ f.levels[2].kind = "loop" => first
                          /\ f.levels[2].kind = "chunk" => ~first

(* The contexts s of thread t: its own and, unless it is alone, tasks.     *)
FramesOK(t, s, q, alone, first) ==
  /\ IsSequence(s) /\ Len(s) >= Ours(t, q)
  /\ \A i \in 1..Len(s) : IsContext(s[i])
  /\ t = Master => s[1].ctx = SerialCode
  /\ \A i \in (Ours(t, q) + 1)..Len(s) : IsTask(s[i].ctx)
  /\ alone => Len(s) = Ours(t, q)
  /\ q \in InRegionControl => ImplicitOK(t, s[Depth(t) + 1], q, first)

(* The contexts fr have exactly the nodes of stack s.                      *)
NodesOK(fr, s, g) ==
  /\ IsGround(g)
  /\ s \in Seq(NodeRecord)
  /\ Matches(fr, Len(fr), s, Len(s), g)

(* The topmost context and its nodes, and what is below.                   *)
LEMMA StackTop ==
  ASSUME NEW fr, IsSequence(fr), fr # <<>>, \A i \in 1..Len(fr) : IsContext(fr[i]),
         NEW s, NEW g, NodesOK(fr, s, g)
  PROVE  \E lo \in 0..Len(s) :
           Matches(fr, Len(fr) - 1, s, lo, g) /\ Topmost(Last(fr), s, lo, g)
  <1> DEFINE n == Len(fr) - 1
  <1>1. n \in Nat /\ Len(fr) = n + 1 /\ Len(fr) \in 1..Len(fr) /\ Last(fr) = fr[n + 1]
    <2>1. Len(fr) \in Nat /\ Len(fr) > 0
      BY LengthType
    <2>2. QED
      BY <2>1 DEF Last
  <1> HIDE DEF n
  <1>2. s \in Seq(NodeRecord) /\ IsGround(g) /\ Matches(fr, n + 1, s, Len(s), g)
    BY <1>1 DEF NodesOK
  <1>3. Len(s) \in Nat
    BY <1>2
  <1>4. PICK lo \in 0..Len(s) :
          Matches(fr, n, s, lo, g) /\ FrameNodes(fr[n + 1], s, lo, Len(s), g)
    BY <1>1, <1>2, <1>3, Peel
  <1>5. IsContext(Last(fr))
    BY <1>1
  <1>6. Topmost(Last(fr), s, lo, g)
    BY <1>1, <1>2, <1>4, <1>5 DEF Topmost
  <1>7. QED
    BY <1>4, <1>6 DEF n

LEMMA StackReplaced ==
  ASSUME NEW fr, IsSequence(fr), fr # <<>>, \A i \in 1..Len(fr) : IsContext(fr[i]),
         NEW s, NEW g, NEW lo \in Nat, Matches(fr, Len(fr) - 1, s, lo, g),
         NEW f, NEW r, Topmost(f, r, lo, g), Keeps(r, s, lo),
         NEW fr2, fr2 = WithLast(fr, f)
  PROVE  NodesOK(fr2, r, g)
  <1> DEFINE n == Len(fr) - 1
  <1>1. /\ IsSequence(fr2) /\ Len(fr2) = Len(fr) /\ fr2[Len(fr2)] = f
        /\ \A i \in 1..Len(fr2) : i < Len(fr2) => fr2[i] = fr[i]
    BY ReplaceLast
  <1>2. n \in Nat /\ Len(fr) = n + 1
    <2>1. Len(fr) \in Nat /\ Len(fr) > 0
      BY LengthType
    <2>2. QED
      BY <2>1
  <1>3. Matches(fr, n, s, lo, g)
    OBVIOUS
  <1> HIDE DEF n
  <1>4. \A i \in 1..n : IsContext(fr[i]) /\ fr2[i] = fr[i]
    BY <1>1, <1>2
  <1>5. Matches(fr2, n, r, lo, g)
    <2>1. \A j \in 1..lo : r[j] = s[j]
      BY DEF Keeps
    <2>2. QED
      BY <1>2, <1>3, <1>4, <2>1, SameMatch
  <1>6. FrameNodes(fr2[n + 1], r, lo, Len(r), g) /\ r \in Seq(NodeRecord) /\ IsGround(g)
        /\ IsContext(f)
    BY <1>1, <1>2 DEF Topmost
  <1>7. Len(r) \in Nat /\ lo <= Len(r)
    BY <1>1, <1>2, <1>6, FrameBounds, ContextSizes
  <1>8. Matches(fr2, n + 1, r, Len(r), g)
    BY <1>2, <1>5, <1>6, <1>7, Lay
  <1>9. QED
    BY <1>1, <1>2, <1>6, <1>8 DEF NodesOK

LEMMA StackPushed ==
  ASSUME NEW fr, IsSequence(fr), \A i \in 1..Len(fr) : IsContext(fr[i]),
         NEW s, NEW g, NodesOK(fr, s, g),
         NEW f, NEW r, Topmost(f, r, Len(s), g), Keeps(r, s, Len(s)),
         NEW fr2, fr2 = Push(fr, f)
  PROVE  NodesOK(fr2, r, g)
  <1> DEFINE n == Len(fr)
             lo == Len(s)
  <1>1. /\ IsSequence(fr2) /\ Len(fr2) = n + 1 /\ fr2[Len(fr2)] = f
        /\ \A i \in 1..Len(fr2) : i < Len(fr2) => fr2[i] = fr[i]
    BY PushLast
  <1>2. n \in Nat /\ lo \in Nat /\ Matches(fr, n, s, lo, g)
    BY LengthType DEF NodesOK
  <1>3. \A j \in 1..lo : r[j] = s[j]
    BY DEF Keeps
  <1>4. FrameNodes(f, r, lo, Len(r), g) /\ r \in Seq(NodeRecord) /\ IsGround(g) /\ IsContext(f)
    BY DEF Topmost
  <1>5. \A i \in 1..n : IsContext(fr[i])
    OBVIOUS
  <1> HIDE DEF n, lo
  <1>6. \A i \in 1..n : IsContext(fr[i]) /\ fr2[i] = fr[i]
    BY <1>1, <1>2, <1>5
  <1>7. Matches(fr2, n, r, lo, g)
    BY <1>2, <1>3, <1>6, SameMatch
  <1>8. FrameNodes(fr2[n + 1], r, lo, Len(r), g)
    BY <1>1, <1>2, <1>4
  <1>9. Len(r) \in Nat /\ lo <= Len(r)
    BY <1>2, <1>4, FrameBounds, ContextSizes
  <1>10. Matches(fr2, n + 1, r, Len(r), g)
    BY <1>2, <1>7, <1>8, <1>9, Lay
  <1>11. QED
    BY <1>1, <1>4, <1>10 DEF NodesOK

LEMMA StackPopped ==
  ASSUME NEW fr, IsSequence(fr), fr # <<>>, \A i \in 1..Len(fr) : IsContext(fr[i]),
         NEW s, NEW g, NEW lo \in Nat, Matches(fr, Len(fr) - 1, s, lo, g),
         NEW g2, IsGround(g2), \A i \in 1..(Len(fr) - 1) : fr[i].ctx > MaxTasks => g2 = g,
         NEW r \in Seq(NodeRecord), Len(r) = lo, Keeps(r, s, lo),
         NEW fr2, fr2 = Pop(fr)
  PROVE  NodesOK(fr2, r, g2)
  <1> DEFINE n == Len(fr) - 1
  <1>1. /\ IsSequence(fr2) /\ Len(fr2) = n
        /\ \A i \in 1..Len(fr2) : i \in 1..Len(fr) /\ fr2[i] = fr[i]
    BY PopLast
  <1>2. n \in Nat /\ Matches(fr, n, s, lo, g)
    <2>1. Len(fr) \in Nat /\ Len(fr) > 0
      BY LengthType
    <2>2. QED
      BY <2>1
  <1>3. \A i \in 1..n : fr[i].ctx > MaxTasks => g2 = g
    OBVIOUS
  <1> HIDE DEF n
  <1>4. \A i \in 1..n : IsContext(fr[i]) /\ fr2[i] = fr[i]
    BY <1>1
  <1>5. \A j \in 1..lo : r[j] = s[j]
    BY DEF Keeps
  <1>6. Matches(fr2, n, r, lo, g2)
    BY <1>2, <1>3, <1>4, <1>5, SameMatch
  <1>7. QED
    BY <1>1, <1>6 DEF NodesOK

(* The contexts of a thread when its last is replaced, when a task begins  *)
(* and when one ends.                                                      *)
LEMMA FramesReplace ==
  ASSUME NEW t \in Threads, NEW s, NEW q, NEW alone, NEW first, NEW first2,
         FramesOK(t, s, q, alone, first), s # <<>>,
         NEW f, IsContext(f), f.ctx = Last(s).ctx,
         q \in InRegionControl /\ Len(s) = Depth(t) + 1 => ImplicitOK(t, f, q, first2),
         Len(s) # Depth(t) + 1 => first2 = first,
         NEW u, u = WithLast(s, f)
  PROVE  FramesOK(t, u, q, alone, first2)
  <1>1. /\ IsSequence(u) /\ Len(u) = Len(s) /\ u[Len(u)] = f
        /\ \A i \in 1..Len(u) : i < Len(u) => u[i] = s[i]
    BY ReplaceLast DEF FramesOK
  <1>2. /\ Len(s) \in Nat /\ Len(s) > 0 /\ Len(s) >= Ours(t, q)
        /\ Last(s) = s[Len(s)] /\ Depth(t) \in {0, 1}
        /\ Ours(t, q) \in Nat
        /\ q \in InRegionControl => Ours(t, q) = Depth(t) + 1
    BY LengthType DEF FramesOK, Last, Ours, Depth
  <1>3. \A i \in 1..Len(s) : u[i].ctx = s[i].ctx /\ (i < Len(s) => u[i] = s[i]) /\ IsContext(u[i])
    <2> SUFFICES ASSUME NEW i \in 1..Len(s)
                 PROVE  u[i].ctx = s[i].ctx /\ (i < Len(s) => u[i] = s[i]) /\ IsContext(u[i])
      OBVIOUS
    <2>1. i < Len(s) \/ i = Len(s)
      BY <1>2
    <2>2. IsContext(s[i])
      BY DEF FramesOK
    <2>3. QED
      BY <1>1, <1>2, <2>1, <2>2
  <1>4. t = Master => u[1].ctx = SerialCode
    BY <1>2, <1>3 DEF FramesOK
  <1>5. \A i \in (Ours(t, q) + 1)..Len(u) : IsTask(u[i].ctx)
    <2> SUFFICES ASSUME NEW i \in (Ours(t, q) + 1)..Len(u) PROVE IsTask(u[i].ctx)
      OBVIOUS
    <2>1. i \in 1..Len(s) /\ i \in (Ours(t, q) + 1)..Len(s)
      BY <1>1, <1>2
    <2>2. QED
      BY <1>3, <2>1 DEF FramesOK
  <1>6. q \in InRegionControl => ImplicitOK(t, u[Depth(t) + 1], q, first2)
    <2> SUFFICES ASSUME q \in InRegionControl PROVE ImplicitOK(t, u[Depth(t) + 1], q, first2)
      OBVIOUS
    <2>1. CASE Len(s) = Depth(t) + 1
      BY <1>1, <2>1
    <2>2. CASE Len(s) # Depth(t) + 1
      <3>1. Depth(t) + 1 \in 1..Len(s) /\ Depth(t) + 1 < Len(s)
        BY <1>2, <2>2
      <3>2. ImplicitOK(t, s[Depth(t) + 1], q, first)
        BY DEF FramesOK
      <3>3. QED
        BY <1>3, <2>2, <3>1, <3>2
    <2>3. QED
      BY <2>1, <2>2
  <1>7. alone => Len(u) = Ours(t, q)
    BY <1>1 DEF FramesOK
  <1>8. QED
    BY <1>1, <1>2, <1>3, <1>4, <1>5, <1>6, <1>7 DEF FramesOK

LEMMA FramesPush ==
  ASSUME NEW t \in Threads, NEW s, NEW q, NEW alone, NEW first,
         FramesOK(t, s, q, alone, first), ~alone,
         NEW f, IsContext(f), IsTask(f.ctx), NEW u, u = Push(s, f)
  PROVE  FramesOK(t, u, q, alone, first)
  <1>0. \A j \in (Ours(t, q) + 1)..Len(s) : IsTask(s[j].ctx)
    BY DEF FramesOK
  <1>1. /\ IsSequence(u) /\ Len(u) = Len(s) + 1 /\ u[Len(u)] = f
        /\ \A i \in 1..Len(u) : i < Len(u) => i \in 1..Len(s) /\ u[i] = s[i]
    BY PushLast DEF FramesOK
  <1>2. /\ Len(s) \in Nat /\ Len(s) >= Ours(t, q) /\ Ours(t, q) \in Nat
        /\ q \in InRegionControl => Ours(t, q) = Depth(t) + 1
        /\ t = Master => Ours(t, q) >= 1
        /\ Depth(t) \in {0, 1}
    BY LengthType DEF FramesOK, Ours, Depth
  <1>3. \A i \in 1..Len(s) : u[i] = s[i]
    BY <1>1, <1>2
  <1>4. \A i \in 1..Len(u) : i = Len(u) \/ i \in 1..Len(s)
    BY <1>1, <1>2
  <1>5. \A i \in 1..Len(u) : IsContext(u[i])
    BY <1>1, <1>3, <1>4 DEF FramesOK
  <1>6. \A i \in (Ours(t, q) + 1)..Len(u) : IsTask(u[i].ctx)
    <2> SUFFICES ASSUME NEW i \in (Ours(t, q) + 1)..Len(u) PROVE IsTask(u[i].ctx)
      OBVIOUS
    <2>1. i = Len(u) \/ (i \in (Ours(t, q) + 1)..Len(s) /\ i \in 1..Len(s))
      BY <1>1, <1>2
    <2>2. \A j \in (Ours(t, q) + 1)..Len(s) : IsTask(s[j].ctx)
      BY <1>0
    <2>3. CASE i = Len(u)
      BY <1>1, <2>3
    <2>4. CASE i # Len(u)
      BY <1>3, <2>1, <2>2, <2>4
    <2>5. QED
      BY <2>3, <2>4
  <1>7. q \in InRegionControl => ImplicitOK(t, u[Depth(t) + 1], q, first)
    <2> SUFFICES ASSUME q \in InRegionControl PROVE ImplicitOK(t, u[Depth(t) + 1], q, first)
      OBVIOUS
    <2>1. Depth(t) + 1 \in 1..Len(s)
      BY <1>2
    <2>2. QED
      BY <1>3, <2>1 DEF FramesOK
  <1>8. t = Master => u[1].ctx = SerialCode
    BY <1>2, <1>3 DEF FramesOK
  <1>9. Len(u) >= Ours(t, q)
    BY <1>1, <1>2
  <1>10. QED
    BY <1>1, <1>5, <1>6, <1>7, <1>8, <1>9 DEF FramesOK

LEMMA FramesPop ==
  ASSUME NEW t \in Threads, NEW s, NEW q, NEW alone, NEW first,
         FramesOK(t, s, q, alone, first), Len(s) > Ours(t, q), NEW u, u = Pop(s)
  PROVE  FramesOK(t, u, q, alone, first)
  <1>1. /\ Len(s) \in Nat /\ Len(s) > Ours(t, q) /\ Ours(t, q) \in Nat /\ ~alone
        /\ q \in InRegionControl => Ours(t, q) = Depth(t) + 1
        /\ t = Master => Ours(t, q) >= 1
        /\ Depth(t) \in {0, 1}
    BY LengthType DEF FramesOK, Ours, Depth
  <1>2. IsSequence(s) /\ s # <<>>
    BY <1>1, LengthType DEF FramesOK
  <1>3. /\ IsSequence(u) /\ Len(u) = Len(s) - 1
        /\ \A i \in 1..Len(u) : i \in 1..Len(s) /\ i < Len(s) /\ u[i] = s[i]
    BY <1>2, PopLast
  <1>4. \A i \in 1..Len(u) : IsContext(u[i])
    BY <1>3 DEF FramesOK
  <1>5. \A i \in (Ours(t, q) + 1)..Len(u) : IsTask(u[i].ctx)
    <2> SUFFICES ASSUME NEW i \in (Ours(t, q) + 1)..Len(u) PROVE IsTask(u[i].ctx)
      OBVIOUS
    <2>1. i \in (Ours(t, q) + 1)..Len(s) /\ i \in 1..Len(u)
      BY <1>1, <1>3
    <2>2. QED
      BY <1>3, <2>1 DEF FramesOK
  <1>6. q \in InRegionControl => ImplicitOK(t, u[Depth(t) + 1], q, first)
    <2> SUFFICES ASSUME q \in InRegionControl PROVE ImplicitOK(t, u[Depth(t) + 1], q, first)
      OBVIOUS
    <2>1. Depth(t) + 1 \in 1..Len(u)
      BY <1>1, <1>3
    <2>2. QED
      BY <1>3, <2>1 DEF FramesOK
  <1>7. t = Master => u[1].ctx = SerialCode
    <2>1. t = Master => 1 \in 1..Len(u)
      BY <1>1, <1>3
    <2>2. QED
      BY <1>3, <2>1 DEF FramesOK
  <1>8. Len(u) >= Ours(t, q)
    BY <1>1, <1>3
  <1>9. QED
    BY <1>1, <1>3, <1>4, <1>5, <1>6, <1>7, <1>8 DEF FramesOK

----------------------------------------------------------------------------
(* The inductive invariant                                                 *)

(* What the implicit task of t finds on the stack, by where t is.          *)
Ground(t) ==
  IF pc[t] \notin InRegionControl
  THEN [closed |-> TRUE, region |-> Root, phase |-> Root]
  ELSE IF pc[t] = "locking"
  THEN [closed |-> TRUE, region |-> region_nodes[1], phase |-> Root]
  ELSE [closed |-> FALSE, region |-> region_nodes[1], phase |-> PhaseNode(barrierCount[t])]

(* A thread the master has given the nodes of the region and that has not  *)
(* begun its implicit task, or never will.                                 *)
Held(t) == t \in released \/ Orphan(t)

(* Where no task can be on the thread.                                     *)
NoTaskHere(t) ==
  \/ t \in released \/ t \notin Team
  \/ pc[t] \in {"locking", "ended"}
  \/ t = Master /\ pc[t] \notin InRegionControl

FramesInv(t) == FramesOK(t, frames[t], pc[t], NoTaskHere(t), firstDispatch[t])

StackInv(t) ==
  IF Held(t)
  THEN \E s \in Seq(NodeRecord) :
         /\ last_nodes[t] = s \o <<region_nodes[1], region_nodes[2]>>
         /\ NodesOK(frames[t], s, Ground(t))
  ELSE NodesOK(frames[t], last_nodes[t], Ground(t))

ThreadOK(t) == FramesInv(t) /\ StackInv(t)

IsTaskRecord(r) ==
  /\ r = [state |-> r.state, waited |-> r.waited, creator |-> r.creator, kin |-> r.kin,
          past |-> r.past]
  /\ r.state \in {"pending", "running", "done"}
  /\ r.creator \in r.kin /\ r.kin \subseteq Contexts

(* The tasks that have not begun have a node in taskMap.                   *)
RecordsInv ==
  /\ IsSequence(tasks) /\ Len(tasks) <= MaxTasks
  /\ \A k \in 1..Len(tasks) : IsTaskRecord(tasks[k])
  /\ taskMap = [k \in DOMAIN taskMap |-> taskMap[k]]
  /\ DOMAIN taskMap = {k \in 1..Len(tasks) : tasks[k].state = "pending"}
  /\ \A k \in DOMAIN taskMap : taskMap[k] \in NodeRecord /\ PlainAsync(taskMap[k])

(* A task on a thread is running, and is on one thread once.               *)
IsRunning(c) == c \in 1..Len(tasks) /\ tasks[c].state = "running"
RunningInv ==
  \A t \in Threads : \A i \in 1..Len(frames[t]) : IsTask(frames[t][i].ctx) =>
    /\ IsRunning(frames[t][i].ctx)
    /\ \A u \in Threads : \A j \in 1..Len(frames[u]) :
         frames[u][j].ctx = frames[t][i].ctx => u = t /\ j = i

(* Once the master has ended its implicit task no thread has work left.    *)
MasterIsOut == pc[Master] \in {"ended", "spin", "idle", "done"}
JoinInv ==
  /\ \A t \in Team : team > 1 /\ (t \in released \/ pc[t] \in {"work", "locking", "barrier"})
                       => arrived[t] < BarriersDue
  /\ MasterIsOut =>
       /\ TasksDone
       /\ released = {}
       /\ \A t \in Threads : pc[t] \notin {"work", "locking", "barrier"}

HistoryInv ==
  /\ firstDispatch \in [Threads -> BOOLEAN]
  /\ counting \in [Threads -> BOOLEAN]
  /\ IsSequence(blocks) /\ Len(blocks) <= MaxBlocks
  /\ {l.id : l \in log} = {s.id : s \in steps}

StacksInv ==
  /\ abort = "no" /\ TeamInv
  /\ frames = [t \in Threads |-> frames[t]]
  /\ \A t \in Threads : ThreadOK(t)
  /\ RecordsInv /\ RunningInv /\ JoinInv /\ HistoryInv

----------------------------------------------------------------------------
(* What the invariant says of a thread                                     *)

(* The sizes of a team.                                                    *)
LEMMA TeamType ==
  ASSUME TypeOK
  PROVE  /\ team \in Nat /\ team # 0 /\ num_threads \in Nat /\ BarriersDue \in Nat
         /\ Team \subseteq Threads /\ Master \in Threads
         /\ \A t \in Threads : arrived[t] \in Nat
  <1>1. team \in Threads /\ num_threads \in Threads /\ barriers \in 0..MaxBarriers
        /\ arrived \in [Threads -> Nat]
    BY DEF TypeOK
  <1>2. NumThreads \in Nat \ {0} /\ MaxBarriers \in Nat
    BY RegionAssumption
  <1>3. team \in Nat /\ team # 0 /\ num_threads \in Nat /\ team <= NumThreads
    BY <1>1, <1>2 DEF Threads
  <1>4. barriers \in Nat
    BY <1>1, <1>2
  <1>5. BarriersDue \in Nat
    BY <1>4 DEF BarriersDue
  <1>6. Team \subseteq Threads /\ Master \in Threads
    BY <1>2, <1>3 DEF Team, Threads, Master
  <1>7. QED
    BY <1>1, <1>3, <1>5, <1>6

LEMMA GroundIsGround ==
  ASSUME TeamInv, NEW t \in Threads
  PROVE  IsGround(Ground(t))
  <1>1. ~region_nodes[1].finish_flag
    <2>1. 1 \in 1..2
      OBVIOUS
    <2>2. QED
      BY <2>1 DEF TeamInv, NodeInv
  <1>2. Ground(t).closed \in BOOLEAN /\ Ground(t).region \in {Root, region_nodes[1]}
    BY DEF Ground
  <1>3. QED
    BY <1>1, <1>2 DEF IsGround, Root

(* A thread a step leaves alone.                                           *)
LEMMA ThreadKept ==
  ASSUME NEW u \in Threads, ThreadOK(u),
         frames'[u] = frames[u], last_nodes'[u] = last_nodes[u], pc'[u] = pc[u],
         firstDispatch'[u] = firstDispatch[u],
         u \in released' <=> u \in released, Orphan(u)' <=> Orphan(u),
         team' = team, region_nodes' = region_nodes,
         InPhase(u) => PhaseNode(barrierCount[u])' = PhaseNode(barrierCount[u])
  PROVE  ThreadOK(u)'
  <1>1. NoTaskHere(u)' <=> NoTaskHere(u)
    BY DEF NoTaskHere, Team
  <1>2. Ground(u)' = Ground(u)
    BY DEF Ground, InPhase, InRegionControl
  <1>3. Held(u)' <=> Held(u)
    BY DEF Held
  <1>4. FramesInv(u)'
    <2>1. CASE NoTaskHere(u)
      BY <1>1, <2>1 DEF ThreadOK, FramesInv, FramesOK
    <2>2. CASE ~NoTaskHere(u)
      BY <1>1, <2>2 DEF ThreadOK, FramesInv, FramesOK
    <2>3. QED
      BY <2>1, <2>2
  <1>5. StackInv(u)'
    BY <1>2, <1>3 DEF ThreadOK, StackInv
  <1>6. QED
    BY <1>4, <1>5 DEF ThreadOK

(* When all tasks are done a thread has only its own contexts.             *)
LEMMA NoTasksLeft ==
  ASSUME StacksInv, TasksDone, NEW t \in Threads
  PROVE  Len(frames[t]) = Ours(t, pc[t])
  <1>1. /\ Len(frames[t]) \in Nat /\ Len(frames[t]) >= Ours(t, pc[t]) /\ Ours(t, pc[t]) \in Nat
        /\ \A i \in (Ours(t, pc[t]) + 1)..Len(frames[t]) : IsTask(frames[t][i].ctx)
    <2>1. FramesOK(t, frames[t], pc[t], NoTaskHere(t), firstDispatch[t])
      BY DEF StacksInv, ThreadOK, FramesInv
    <2>2. QED
      BY <2>1, LengthType DEF FramesOK, Ours, Depth
  <1> SUFFICES ASSUME Len(frames[t]) # Ours(t, pc[t]) PROVE FALSE
    OBVIOUS
  <1>2. /\ Len(frames[t]) \in (Ours(t, pc[t]) + 1)..Len(frames[t])
        /\ Len(frames[t]) \in 1..Len(frames[t])
    BY <1>1
  <1>3. IsRunning(frames[t][Len(frames[t])].ctx)
    BY <1>1, <1>2 DEF StacksInv, RunningInv
  <1>4. DOMAIN tasks = 1..Len(tasks)
    BY LengthType DEF StacksInv, RecordsInv
  <1>5. QED
    BY <1>3, <1>4 DEF IsRunning, TasksDone

(* A thread with a context that is not its own, or not its last.           *)
LEMMA TaskOnTop ==
  ASSUME StacksInv, NEW t \in Threads, frames[t] # <<>>
  PROVE  /\ Len(frames[t]) \in Nat \ {0} /\ Cur(t) = frames[t][Len(frames[t])]
         /\ IsContext(Cur(t))
         /\ IsTask(Cur(t).ctx) <=> Len(frames[t]) > Ours(t, pc[t])
         /\ ~IsTask(Cur(t).ctx) =>
              /\ Len(frames[t]) = Ours(t, pc[t])
              /\ IF pc[t] \in InRegionControl
                   THEN /\ ImplicitOK(t, Cur(t), pc[t], firstDispatch[t])
                        /\ Len(frames[t]) = Depth(t) + 1
                   ELSE t = Master /\ Cur(t).ctx = SerialCode
         /\ IsTask(Cur(t).ctx) => IsRunning(Cur(t).ctx) /\ ~NoTaskHere(t)
  <1> DEFINE s == frames[t]
             q == pc[t]
  <1>1. FramesOK(t, s, q, NoTaskHere(t), firstDispatch[t])
    BY DEF StacksInv, ThreadOK, FramesInv
  <1>2. Len(s) \in Nat \ {0} /\ Cur(t) = s[Len(s)]
    BY <1>1, LengthType DEF FramesOK, Cur, Last
  <1> HIDE DEF s, q
  <1>3. /\ Len(s) >= Ours(t, q) /\ Len(s) \in 1..Len(s) /\ IsContext(Cur(t))
        /\ Ours(t, q) \in Nat /\ Depth(t) = (IF t = Master THEN 1 ELSE 0)
        /\ Ours(t, q) = Depth(t) + IF q \in InRegionControl THEN 1 ELSE 0
    BY <1>1, <1>2 DEF FramesOK, Ours, Depth
  <1>4. CASE Len(s) > Ours(t, q)
    <2>1. Len(s) \in (Ours(t, q) + 1)..Len(s)
      BY <1>2, <1>3, <1>4
    <2>2. IsTask(Cur(t).ctx) /\ ~NoTaskHere(t)
      BY <1>1, <1>2, <1>4, <2>1 DEF FramesOK
    <2>3. IsRunning(Cur(t).ctx)
      BY <1>2, <1>3, <2>2 DEF StacksInv, RunningInv, s
    <2>4. QED
      BY <1>2, <1>3, <1>4, <2>2, <2>3 DEF s, q
  <1>5. CASE Len(s) = Ours(t, q)
    <2>1. CASE q \in InRegionControl
      <3>1. Len(s) = Depth(t) + 1 /\ ImplicitOK(t, Cur(t), q, firstDispatch[t])
        BY <1>1, <1>2, <1>3, <1>5, <2>1 DEF FramesOK
      <3>2. Cur(t).ctx = MaxTasks + t /\ t \in Nat \ {0}
        BY <3>1, RegionAssumption DEF ImplicitOK, Implicit, Threads
      <3>3. ~IsTask(Cur(t).ctx)
        BY <3>2, TaskAssumption DEF IsTask
      <3>4. QED
        BY <1>2, <1>3, <1>5, <2>1, <3>1, <3>3 DEF s, q
    <2>2. CASE q \notin InRegionControl
      <3>1. t = Master /\ Len(s) = 1
        BY <1>2, <1>3, <1>5, <2>2
      <3>2. Cur(t).ctx = SerialCode
        BY <1>1, <1>2, <3>1 DEF FramesOK
      <3>3. ~IsTask(Cur(t).ctx)
        BY <3>2, TaskAssumption DEF IsTask, SerialCode
      <3>4. QED
        BY <1>2, <1>3, <1>5, <2>2, <3>1, <3>2, <3>3 DEF s, q
    <2>3. QED
      BY <2>1, <2>2
  <1>6. QED
    BY <1>2, <1>3, <1>4, <1>5

(* A thread in code of a region: in a task, or in its implicit task.       *)
InTask(t)  == /\ IsTask(Cur(t).ctx) /\ Len(frames[t]) > Ours(t, pc[t])
              /\ Len(Cur(t).levels) = 1
InOwn(t)   == /\ Cur(t).ctx = Implicit(t) /\ ~IsTask(Cur(t).ctx) /\ Cur(t).ctx > MaxTasks
              /\ pc[t] = "work" /\ Len(frames[t]) = Depth(t) + 1
              /\ ImplicitOK(t, Cur(t), pc[t], firstDispatch[t])

LEMMA TaskContext ==
  ASSUME NEW f, IsContext(f), IsTask(f.ctx)
  PROVE  Len(f.levels) = 1 /\ f.ctx # SerialCode /\ ~(f.ctx > MaxTasks)
  BY TaskAssumption DEF IsContext, IsTask, SerialCode

InWork(t) == /\ frames[t] # <<>> /\ IsContext(Cur(t)) /\ Cur(t).ctx # SerialCode
             /\ ~NoTaskHere(t) /\ ~Held(t) /\ ~MasterIsOut
             /\ InTask(t) \/ InOwn(t)

LEMMA WorkWhere ==
  ASSUME StacksInv, NEW t \in Threads, frames[t] # <<>>,
         IsTask(Cur(t).ctx) \/ (Cur(t).ctx = Implicit(t) /\ pc[t] = "work")
  PROVE  InWork(t)
  <1>1. Cur(t).ctx # SerialCode
    BY TaskAssumption, RegionAssumption DEF IsTask, SerialCode, Implicit, Threads
  <1>2. ControlInv /\ JoinInv
    BY DEF StacksInv, TeamInv
  <1>3. ~NoTaskHere(t) /\ ~MasterIsOut /\ IsContext(Cur(t)) /\ (InTask(t) \/ InOwn(t))
    <2>1. CASE IsTask(Cur(t).ctx)
      <3>1. /\ IsContext(Cur(t)) /\ Len(frames[t]) > Ours(t, pc[t])
            /\ IsRunning(Cur(t).ctx) /\ ~NoTaskHere(t)
        BY <1>1, <2>1, TaskOnTop
      <3>2. ~TasksDone
        <4>1. DOMAIN tasks = 1..Len(tasks)
          BY LengthType DEF StacksInv, RecordsInv
        <4>2. QED
          BY <3>1, <4>1 DEF IsRunning, TasksDone
      <3>3. ~MasterIsOut
        BY <1>2, <3>2 DEF JoinInv
      <3>4. QED
        BY <2>1, <3>1, <3>3, TaskContext DEF InTask
    <2>2. CASE ~IsTask(Cur(t).ctx)
      <3>1. Cur(t).ctx = Implicit(t) /\ pc[t] = "work" /\ pc[t] \in InRegionControl
        BY <1>1, <2>2 DEF InRegionControl
      <3>2. /\ IsContext(Cur(t)) /\ Len(frames[t]) = Depth(t) + 1
            /\ ImplicitOK(t, Cur(t), pc[t], firstDispatch[t])
        BY <1>1, <2>2, <3>1, TaskOnTop
      <3>3. ~NoTaskHere(t)
        <4>1. t \in Team
          BY <1>2, <3>1 DEF ControlInv
        <4>2. t \notin released
          BY <1>2, <3>1 DEF ControlInv
        <4>3. QED
          BY <3>1, <4>1, <4>2 DEF NoTaskHere
      <3>4. ~MasterIsOut
        BY <1>2, <3>1 DEF JoinInv
      <3>5. Cur(t).ctx > MaxTasks
        BY <3>1, TaskAssumption, RegionAssumption DEF Implicit, Threads
      <3>6. QED
        BY <2>2, <3>1, <3>2, <3>3, <3>4, <3>5 DEF InOwn
    <2>3. QED
      BY <2>1, <2>2
  <1>4. ~Held(t)
    <2>1. TypeOK
      BY DEF StacksInv, TeamInv
    <2>2. t \in Team /\ t \notin released
      BY <1>3 DEF NoTaskHere
    <2>3. team \in Nat
      BY <2>1, TeamType
    <2>4. QED
      BY <2>2, <2>3 DEF Held, Orphan, Team
  <1>5. QED
    BY <1>1, <1>3, <1>4 DEF InWork

LEMMA CodeWhere ==
  ASSUME StacksInv, NEW t \in Threads, InRegionCode(t)
  PROVE  InWork(t) /\ ~Cur(t).waiting
  BY WorkWhere DEF InRegionCode, InUserCode

(* A context that waits is in a taskwait.                                  *)
LEMMA WaitingWhere ==
  ASSUME StacksInv, NEW t \in Threads, frames[t] # <<>>, Cur(t).waiting
  PROVE  InWork(t)
  <1>1. CASE IsTask(Cur(t).ctx)
    BY <1>1, WorkWhere
  <1>2. CASE ~IsTask(Cur(t).ctx)
    <2>1. Cur(t).ctx # SerialCode
      BY TaskOnTop DEF IsContext
    <2>2. ImplicitOK(t, Cur(t), pc[t], firstDispatch[t])
      BY <1>2, <2>1, TaskOnTop
    <2>3. QED
      BY <2>2, WorkWhere DEF ImplicitOK
  <1>3. QED
    BY <1>1, <1>2

(* The nodes of the topmost context of a thread that holds no others.      *)
LEMMA TopOfStack ==
  ASSUME StacksInv, NEW t \in Threads, frames[t] # <<>>, ~Held(t)
  PROVE  /\ IsSequence(frames[t]) /\ \A i \in 1..Len(frames[t]) : IsContext(frames[t][i])
         /\ last_nodes[t] \in Seq(NodeRecord)
         /\ \E lo \in 0..Len(last_nodes[t]) :
              /\ Matches(frames[t], Len(frames[t]) - 1, last_nodes[t], lo, Ground(t))
              /\ Topmost(Cur(t), last_nodes[t], lo, Ground(t))
  <1>1. IsSequence(frames[t]) /\ \A i \in 1..Len(frames[t]) : IsContext(frames[t][i])
    BY DEF StacksInv, ThreadOK, FramesInv, FramesOK
  <1>2. NodesOK(frames[t], last_nodes[t], Ground(t))
    BY DEF StacksInv, ThreadOK, StackInv
  <1>3. QED
    BY <1>1, <1>2, StackTop DEF Cur, NodesOK

(* The tasks on the threads after a step that keeps those that run.        *)
RunOn == \A c \in 1..Len(tasks) : tasks[c].state = "running" => IsRunning(c)'

LEMMA RunningKept ==
  ASSUME RunningInv, RunOn,
         \A t \in Threads : \A i \in 1..Len(frames'[t]) : IsTask(frames'[t][i].ctx) =>
            i \in 1..Len(frames[t]) /\ frames'[t][i].ctx = frames[t][i].ctx
  PROVE  RunningInv'
  <1> SUFFICES ASSUME NEW t \in Threads, NEW i \in 1..Len(frames'[t]),
                      IsTask(frames'[t][i].ctx)
               PROVE  /\ frames'[t][i].ctx \in 1..Len(tasks')
                      /\ tasks'[frames'[t][i].ctx].state = "running"
                      /\ \A u \in Threads : \A j \in 1..Len(frames'[u]) :
                           frames'[u][j].ctx = frames'[t][i].ctx => u = t /\ j = i
    BY DEF RunningInv, IsRunning
  <1>1. i \in 1..Len(frames[t]) /\ frames'[t][i].ctx = frames[t][i].ctx
    OBVIOUS
  <1>2. IsRunning(frames[t][i].ctx)
    BY <1>1 DEF RunningInv
  <1>3. frames'[t][i].ctx \in 1..Len(tasks') /\ tasks'[frames'[t][i].ctx].state = "running"
    BY <1>1, <1>2 DEF IsRunning, RunOn
  <1>4. ASSUME NEW u \in Threads, NEW j \in 1..Len(frames'[u]),
               frames'[u][j].ctx = frames'[t][i].ctx
        PROVE  u = t /\ j = i
    <2>1. j \in 1..Len(frames[u]) /\ frames'[u][j].ctx = frames[u][j].ctx
      BY <1>4
    <2>2. QED
      BY <1>1, <1>4, <2>1 DEF RunningInv
  <1>5. QED
    BY <1>3, <1>4

LEMMA RecordsKept ==
  ASSUME RecordsInv, taskMap' = taskMap, tasks' = tasks
  PROVE  RecordsInv' /\ RunOn
  BY DEF RecordsInv, IsRunning, RunOn

(* A step that changes the contexts and the nodes of one thread.           *)
LEMMA CodeStep ==
  ASSUME StacksInv, NEW t \in Threads, ~Held(t),
         UNCHANGED <<num_threads, barrierCount, pendingFinish, implEndCount>>,
         UNCHANGED runtime, abort' = "no",
         node_ctr' \in Nat, node_ctr <= node_ctr', tree' \subseteq NodeRecord,
         steps' \subseteq [id : Nat, parent : Nat],
         NEW fr, NEW s \in Seq(NodeRecord),
         frames' = [frames EXCEPT ![t] = fr],
         last_nodes' = [last_nodes EXCEPT ![t] = s],
         \A u \in Threads \ {t} : firstDispatch'[u] = firstDispatch[u],
         FramesOK(t, fr, pc[t], NoTaskHere(t), firstDispatch'[t]),
         NodesOK(fr, s, Ground(t)),
         RecordsInv', RunningInv', HistoryInv', MasterIsOut => TasksDone'
  PROVE  StacksInv'
  <1>1. /\ pc' = pc /\ released' = released /\ team' = team /\ barriers' = barriers
        /\ arrived' = arrived /\ region' = region /\ region_nodes' = region_nodes
    BY DEF runtime
  <1>2. TypeOK /\ ControlInv /\ CountInv /\ PhaseInv /\ NodeInv /\ JoinInv
    BY DEF StacksInv, TeamInv
  <1>3. TypeOK'
    BY <1>1, <1>2 DEF TypeOK
  <1>4. TeamInv'
    <2>1. Active' = Active
      BY <1>1 DEF Active
    <2>2. ControlInv'
      BY <1>1, <1>2, <2>1 DEF ControlInv, Team
    <2>3. CountInv'
      BY <1>1, <1>2, <2>1 DEF CountInv, Counted, Team
    <2>4. PhaseInv'
      BY <1>1, <1>2 DEF PhaseInv, InPhase
    <2>5. NodeInv'
      BY <1>1, <1>2, <2>1, NodeInvKept
    <2>6. QED
      BY <1>3, <2>2, <2>3, <2>4, <2>5 DEF TeamInv
  <1>5. frames' = [u \in Threads |-> frames'[u]] /\ frames'[t] = fr /\ last_nodes'[t] = s
    <2>1. frames = [u \in Threads |-> frames[u]]
      BY DEF StacksInv
    <2>2. last_nodes \in [Threads -> Seq(NodeRecord)]
      BY <1>2 DEF TypeOK
    <2>3. QED
      BY <2>1, <2>2
  <1>6. \A u \in Threads \ {t} : frames'[u] = frames[u] /\ last_nodes'[u] = last_nodes[u]
    <2>1. frames = [u \in Threads |-> frames[u]]
      BY DEF StacksInv
    <2>2. last_nodes \in [Threads -> Seq(NodeRecord)]
      BY <1>2 DEF TypeOK
    <2>3. QED
      BY <2>1, <2>2
  <1>7. \A u \in Threads : Orphan(u)' = Orphan(u) /\ PhaseNode(barrierCount[u])' = PhaseNode(barrierCount[u])
    BY <1>1 DEF Orphan, Active, PhaseNode
  <1>8. ThreadOK(t)'
    <2>1. NoTaskHere(t)' = NoTaskHere(t) /\ Held(t)' = Held(t) /\ Ground(t)' = Ground(t)
      <3>1. NoTaskHere(t)' = NoTaskHere(t)
        BY <1>1 DEF NoTaskHere, Team
      <3>2. Held(t)' = Held(t)
        BY <1>1, <1>7 DEF Held
      <3>3. Ground(t)' = Ground(t)
        BY <1>1, <1>7 DEF Ground
      <3>4. QED
        BY <3>1, <3>2, <3>3
    <2>2. FramesInv(t)'
      BY <1>1, <1>5, <2>1 DEF FramesInv
    <2>3. StackInv(t)'
      BY <1>5, <2>1 DEF StackInv
    <2>4. QED
      BY <2>2, <2>3 DEF ThreadOK
  <1>9. \A u \in Threads : ThreadOK(u)'
    <2> SUFFICES ASSUME NEW u \in Threads PROVE ThreadOK(u)'
      OBVIOUS
    <2>1. CASE u = t
      BY <1>8, <2>1
    <2>2. CASE u # t
      <3>1. ThreadOK(u)
        BY DEF StacksInv
      <3>2. QED
        BY <1>1, <1>6, <1>7, <2>2, <3>1, ThreadKept
    <2>3. QED
      BY <2>1, <2>2
  <1>10. JoinInv'
    <2>1. MasterIsOut' = MasterIsOut
      BY <1>1 DEF MasterIsOut
    <2>2. BarriersDue' = BarriersDue
      BY <1>1 DEF BarriersDue
    <2>3. QED
      BY <1>1, <1>2, <2>1, <2>2 DEF JoinInv, Team
  <1>11. QED
    BY <1>4, <1>5, <1>9, <1>10 DEF StacksInv


----------------------------------------------------------------------------
(* The handlers of tasks and constructs                                    *)

(* The log has the steps that are written.                                 *)
LogsSteps == {l.id : l \in log} = {r.id : r \in steps}

LEMMA LogOne ==
  ASSUME LogsSteps, NEW i, NEW s, NEW s2, NEW t, NEW x,
         steps' = steps \union {NewStep(i, s)}, log' = log \union {Entry(i, s2, t, x)}
  PROVE  LogsSteps'
  <1>1. Entry(i, s2, t, x).id = i /\ NewStep(i, s).id = i
    BY DEF Entry, NewStep
  <1>2. {l.id : l \in log'} = {l.id : l \in log} \union {i}
    BY <1>1
  <1>3. {r.id : r \in steps'} = {r.id : r \in steps} \union {i}
    BY <1>1
  <1>4. QED
    BY <1>2, <1>3 DEF LogsSteps

LEMMA LogTwo ==
  ASSUME LogsSteps, NEW i, NEW s, NEW s2, NEW t, NEW x, NEW j, NEW r, NEW r2, NEW y,
         steps' = steps \union {NewStep(i, s), NewStep(j, r)},
         log' = log \union {Entry(i, s2, t, x), Entry(j, r2, t, y)}
  PROVE  LogsSteps'
  <1>1. /\ Entry(i, s2, t, x).id = i /\ NewStep(i, s).id = i
        /\ Entry(j, r2, t, y).id = j /\ NewStep(j, r).id = j
    BY DEF Entry, NewStep
  <1>2. {l.id : l \in log'} = {l.id : l \in log} \union {i, j}
    BY <1>1
  <1>3. {q.id : q \in steps'} = {q.id : q \in steps} \union {i, j}
    BY <1>1
  <1>4. QED
    BY <1>2, <1>3 DEF LogsSteps

(* The contexts of a thread when the last is replaced, and when one goes.  *)
LEMMA RunningReplace ==
  ASSUME StacksInv, NEW t \in Threads, frames[t] # <<>>, NEW f, f.ctx = Cur(t).ctx,
         frames' = [frames EXCEPT ![t] = WithLast(frames[t], f)], RunOn
  PROVE  RunningInv'
  <1> DEFINE u == WithLast(frames[t], f)
  <1>0. u = WithLast(frames[t], f) /\ frames' = [frames EXCEPT ![t] = u]
    OBVIOUS
  <1> HIDE DEF u
  <1>1. IsSequence(frames[t]) /\ RunningInv /\ frames = [v \in Threads |-> frames[v]]
    BY DEF StacksInv, ThreadOK, FramesInv, FramesOK
  <1>2. /\ Len(u) = Len(frames[t]) /\ u[Len(u)] = f
        /\ \A i \in 1..Len(u) : i < Len(u) => u[i] = frames[t][i]
        /\ Len(frames[t]) \in Nat
    BY <1>0, <1>1, ReplaceLast, LengthType
  <1>3. f.ctx = frames[t][Len(frames[t])].ctx
    BY DEF Cur, Last
  <1>4. \A i \in 1..Len(u) : i \in 1..Len(frames[t]) /\ u[i].ctx = frames[t][i].ctx
    <2> SUFFICES ASSUME NEW i \in 1..Len(u)
                 PROVE  i \in 1..Len(frames[t]) /\ u[i].ctx = frames[t][i].ctx
      OBVIOUS
    <2>1. i < Len(u) \/ i = Len(u)
      BY <1>2
    <2>2. QED
      BY <1>2, <1>3, <2>1
  <1>5. \A v \in Threads : frames'[v] = IF v = t THEN u ELSE frames[v]
    BY <1>0, <1>1
  <1>6. \A v \in Threads : \A i \in 1..Len(frames'[v]) :
          i \in 1..Len(frames[v]) /\ frames'[v][i].ctx = frames[v][i].ctx
    BY <1>4, <1>5
  <1>7. QED
    BY <1>1, <1>6, RunningKept

(* No chunk of the loop an implicit task is in has been taken.             *)
Dispatched(f, first) ==
  f.ctx > MaxTasks /\ Len(f.levels) = 2 =>
    /\ f.levels[2].kind = "loop" => first
    /\ f.levels[2].kind = "chunk" => ~first

(* The contexts of a thread at work when the last one is replaced.         *)
LEMMA FramesHere ==
  ASSUME StacksInv, NEW t \in Threads, InWork(t),
         NEW f, IsContext(f), f.ctx = Cur(t).ctx, NEW first, Dispatched(f, first),
         ~(f.ctx > MaxTasks) => first = firstDispatch[t]
  PROVE  FramesOK(t, WithLast(frames[t], f), pc[t], NoTaskHere(t), first)
  <1> DEFINE fr == frames[t]
             q == pc[t]
             alone == NoTaskHere(t)
             u == WithLast(fr, f)
  <1>1. FramesOK(t, fr, q, alone, firstDispatch[t]) /\ fr # <<>>
    BY DEF StacksInv, ThreadOK, FramesInv, InWork
  <1>2. f.ctx = Last(fr).ctx
    BY DEF Cur
  <1>4. q \in InRegionControl /\ Len(fr) = Depth(t) + 1 => ImplicitOK(t, f, q, first)
    <2> SUFFICES ASSUME q \in InRegionControl, Len(fr) = Depth(t) + 1
                 PROVE  ImplicitOK(t, f, q, first)
      OBVIOUS
    <2>1. ~InTask(t)
      BY DEF InTask, Ours, Depth
    <2>2. InOwn(t)
      BY <2>1 DEF InWork
    <2>3. f.ctx = Implicit(t) /\ f.ctx > MaxTasks /\ q = "work"
      BY <2>2 DEF InOwn
    <2>4. QED
      BY <2>3 DEF ImplicitOK, Dispatched
  <1>5. Len(fr) # Depth(t) + 1 => first = firstDispatch[t]
    <2> SUFFICES ASSUME Len(fr) # Depth(t) + 1 PROVE first = firstDispatch[t]
      OBVIOUS
    <2>1. InTask(t)
      BY DEF InWork, InOwn
    <2>2. ~(f.ctx > MaxTasks)
      BY <2>1, TaskContext DEF InTask, InWork
    <2>3. QED
      BY <2>2
  <1>6. FramesOK(t, u, q, alone, first)
    <2>1. u = WithLast(fr, f)
      OBVIOUS
    <2> HIDE DEF u, fr, q, alone
    <2>2. QED
      BY <1>1, <1>2, <1>4, <1>5, <2>1, FramesReplace
  <1>7. QED
    BY <1>6

(* A handler that leaves the thread in the context it was in.              *)
LEMMA CodeGoesOnHere ==
  ASSUME StacksInv, NEW t \in Threads, InWork(t),
         UNCHANGED <<num_threads, barrierCount, pendingFinish, implEndCount>>,
         UNCHANGED runtime, abort' = "no",
         node_ctr' \in Nat, node_ctr <= node_ctr', tree' \subseteq NodeRecord,
         steps' \subseteq [id : Nat, parent : Nat],
         NEW f, IsContext(f), f.ctx = Cur(t).ctx,
         frames' = [frames EXCEPT ![t] = WithLast(frames[t], f)],
         NEW lo \in Nat, Matches(frames[t], Len(frames[t]) - 1, last_nodes[t], lo, Ground(t)),
         NEW s, Topmost(f, s, lo, Ground(t)), Keeps(s, last_nodes[t], lo),
         last_nodes' = [last_nodes EXCEPT ![t] = s],
         \A u \in Threads \ {t} : firstDispatch'[u] = firstDispatch[u],
         Dispatched(f, firstDispatch'[t]),
         ~(f.ctx > MaxTasks) => firstDispatch'[t] = firstDispatch[t],
         RecordsInv', RunOn,
         HistoryInv'
  PROVE  StacksInv'
  <1> DEFINE fr == frames[t]
             q == pc[t]
             alone == NoTaskHere(t)
             u == WithLast(fr, f)
  <1>1. /\ FramesOK(t, fr, q, alone, firstDispatch[t]) /\ IsSequence(fr) /\ fr # <<>>
        /\ \A i \in 1..Len(fr) : IsContext(fr[i])
    BY DEF StacksInv, ThreadOK, FramesInv, FramesOK, InWork
  <1>2. ~Held(t) /\ ~MasterIsOut /\ f.ctx = Last(fr).ctx
    BY DEF InWork, Cur
  <1>3. NodesOK(u, s, Ground(t))
    <2>1. u = WithLast(fr, f)
      OBVIOUS
    <2> HIDE DEF u
    <2>2. QED
      BY <1>1, <2>1, StackReplaced
  <1>6. FramesOK(t, u, q, alone, firstDispatch'[t])
    BY FramesHere
  <1>7. RunningInv'
    <2>1. frames[t] # <<>>
      BY <1>1
    <2> HIDE DEF u, fr
    <2>2. QED
      BY <2>1, RunningReplace
  <1>8. s \in Seq(NodeRecord)
    BY DEF Topmost
  <1>9. frames' = [frames EXCEPT ![t] = u]
    OBVIOUS
  <1> HIDE DEF u
  <1>10. QED
    BY <1>2, <1>3, <1>6, <1>7, <1>8, <1>9, CodeStep

(* What the handlers of this part have in common.                          *)
LEMMA HandleStep ==
  ASSUME TypeOK, NEW t \in Threads, NEW n \in Nat, NEW nodes, nodes \subseteq NodeRecord,
         NEW s, Handle(t, n, nodes, s)
  PROVE  /\ UNCHANGED <<num_threads, barrierCount, pendingFinish, implEndCount>>
         /\ UNCHANGED runtime
         /\ node_ctr' \in Nat /\ node_ctr <= node_ctr' /\ tree' \subseteq NodeRecord
         /\ steps' \subseteq [id : Nat, parent : Nat]
         /\ steps' = steps \union {NewStep(node_ctr + 1, last_nodes[t])}
         /\ last_nodes' = [last_nodes EXCEPT ![t] = s]
  <1>1. node_ctr \in Nat /\ last_nodes[t] \in Seq(NodeRecord)
    BY DEF TypeOK
  <1>2. NewStep(node_ctr + 1, last_nodes[t]) \in [id : Nat, parent : Nat]
    <2>1. node_ctr + 1 \in Nat
      BY <1>1
    <2>2. QED
      BY <1>1, <2>1, NewStepType
  <1>3. UNCHANGED runtime /\ UNCHANGED <<num_threads, barrierCount, pendingFinish, implEndCount>>
    <2>1. UNCHANGED <<profilerRest, runtime>>
      BY DEF Handle
    <2>2. profilerRest' = profilerRest /\ runtime' = runtime
      BY <2>1
    <2>3. UNCHANGED <<num_threads, barrierCount, pendingFinish, implEndCount>>
      BY <2>2 DEF profilerRest
    <2>4. QED
      BY <2>2, <2>3
  <1>4. tree' \subseteq NodeRecord /\ steps' \subseteq [id : Nat, parent : Nat]
    BY <1>2 DEF Handle, TypeOK
  <1>5. node_ctr' \in Nat /\ node_ctr <= node_ctr'
    BY <1>1 DEF Handle
  <1>6. /\ steps' = steps \union {NewStep(node_ctr + 1, last_nodes[t])}
        /\ last_nodes' = [last_nodes EXCEPT ![t] = s]
    BY DEF Handle
  <1>7. QED
    BY <1>3, <1>4, <1>5, <1>6

(* The stack of a thread at work, below and at its topmost context.        *)
LEMMA WorkStack ==
  ASSUME StacksInv, NEW t \in Threads, InWork(t)
  PROVE  /\ last_nodes[t] \in Seq(NodeRecord) /\ last_nodes[t] # <<>>
         /\ \E lo \in 0..Len(last_nodes[t]) :
              /\ Matches(frames[t], Len(frames[t]) - 1, last_nodes[t], lo, Ground(t))
              /\ Topmost(Cur(t), last_nodes[t], lo, Ground(t))
  <1>1. frames[t] # <<>> /\ ~Held(t)
    BY DEF InWork
  <1>2. PICK lo \in 0..Len(last_nodes[t]) :
          /\ Matches(frames[t], Len(frames[t]) - 1, last_nodes[t], lo, Ground(t))
          /\ Topmost(Cur(t), last_nodes[t], lo, Ground(t))
    BY <1>1, TopOfStack
  <1>3. last_nodes[t] \in Seq(NodeRecord)
    BY <1>2 DEF Topmost
  <1>4. Len(last_nodes[t]) # 0
    <2>1. FrameNodes(Cur(t), last_nodes[t], lo, Len(last_nodes[t]), Ground(t))
          /\ IsContext(Cur(t)) /\ lo \in Nat
      BY <1>2 DEF Topmost
    <2>2. lo < LevelAt(Cur(t), lo, Ground(t)) /\ LevelAt(Cur(t), lo, Ground(t)) \in Nat
      BY <2>1, ContextSizes
    <2>3. LevelAt(Cur(t), lo, Ground(t)) <= Len(last_nodes[t])
      BY <2>1, FrameBounds
    <2>4. QED
      BY <2>1, <2>2, <2>3
  <1>5. last_nodes[t] # <<>>
    BY <1>4
  <1>6. QED
    BY <1>2, <1>3, <1>5

LEMMA WithStepContext ==
  ASSUME NEW t \in Threads, IsContext(Cur(t))
  PROVE  /\ IsContext(WithStep(t)) /\ WithStep(t).ctx = Cur(t).ctx
         /\ WithStep(t).waiting = Cur(t).waiting /\ WithStep(t).levels = Cur(t).levels
  <1> DEFINE f == Cur(t)
             x == f.past \union {node_ctr + 1}
  <1>1. WithStep(t) = [f EXCEPT !.past = x]
    BY DEF WithStep
  <1> HIDE DEF f, x
  <1>2. IsContext(f)
    BY DEF f
  <1>3. /\ IsContext(WithStep(t)) /\ WithStep(t).ctx = f.ctx
        /\ WithStep(t).waiting = f.waiting /\ WithStep(t).levels = f.levels
    BY <1>1, <1>2, ContextPast
  <1>4. QED
    BY <1>3 DEF f

(* The level a thread is in has allocated tasks, or has waited for them.   *)
LEMMA NewUnwaited ==
  ASSUME NEW t \in Threads, InWork(t), NEW b \in BOOLEAN,
         NEW f2, f2 = SetLevel(WithStep(t), [Here(t) EXCEPT !.unwaited = b])
  PROVE  /\ IsContext(f2) /\ SameBelow(Cur(t), f2)
         /\ f2.ctx = Cur(t).ctx /\ f2.waiting = Cur(t).waiting
         /\ Last(f2.levels).kind = Last(Cur(t).levels).kind
         /\ Last(f2.levels).unwaited = b
         /\ Len(f2.levels) = Len(Cur(t).levels)
         /\ Len(f2.levels) = 2 => f2.levels[2].kind = Cur(t).levels[2].kind
  <1> DEFINE f == WithStep(t)
             l == [Here(t) EXCEPT !.unwaited = b]
  <1>1. /\ IsContext(f) /\ f.ctx = Cur(t).ctx /\ f.waiting = Cur(t).waiting
        /\ f.levels = Cur(t).levels /\ f.ctx # SerialCode
    BY WithStepContext DEF InWork
  <1>2. Here(t) = f.levels[Len(f.levels)] /\ Len(f.levels) \in {1, 2}
    BY <1>1 DEF Here, Last, IsContext
  <1>3. IsLevel(l) /\ l.kind = Here(t).kind /\ l.unwaited = b
    <2>1. IsLevel(Here(t))
      BY <1>1, <1>2 DEF IsContext
    <2>2. QED
      BY <2>1 DEF IsLevel
  <1>4. /\ Len(f.levels) = 1 => l.kind = "body"
        /\ Len(f.levels) = 2 => l.kind \in BlockKinds
    BY <1>1, <1>2, <1>3 DEF IsContext
  <1>5. f2 = SetLevel(f, l)
    OBVIOUS
  <1> HIDE DEF f, l
  <1>6. /\ IsContext(f2) /\ SameBelow(f, f2) /\ f2.ctx = f.ctx /\ f2.waiting = f.waiting
        /\ Last(f2.levels) = l /\ Len(f2.levels) = Len(f.levels)
    BY <1>1, <1>3, <1>4, <1>5, ContextLevel
  <1>7. SameBelow(Cur(t), f2)
    BY <1>1, <1>6 DEF SameBelow
  <1>8. Last(Cur(t).levels) = Here(t)
    BY DEF Here
  <1>9. Len(f2.levels) = 2 => f2.levels[2].kind = Cur(t).levels[2].kind
    BY <1>1, <1>2, <1>3, <1>6 DEF Last
  <1>10. QED
    BY <1>1, <1>3, <1>6, <1>7, <1>8, <1>9

LEMMA DispatchedKept ==
  ASSUME NEW t \in Threads, InWork(t), NEW f, f.ctx = Cur(t).ctx,
         Len(f.levels) = Len(Cur(t).levels),
         Len(f.levels) = 2 => f.levels[2].kind = Cur(t).levels[2].kind
  PROVE  Dispatched(f, firstDispatch[t])
  <1>1. CASE f.ctx > MaxTasks
    <2>1. InOwn(t)
      BY <1>1, TaskContext DEF InWork, InTask
    <2>2. ImplicitOK(t, Cur(t), pc[t], firstDispatch[t])
      BY <2>1 DEF InOwn
    <2>3. QED
      BY <2>2 DEF ImplicitOK, Dispatched
  <1>2. CASE ~(f.ctx > MaxTasks)
    BY <1>2 DEF Dispatched
  <1>3. QED
    BY <1>1, <1>2

(* A taskwait begins: the FINISH node of the tasks is closed.              *)
LEMMA TaskwaitBeginStep ==
  ASSUME StacksInv, NEW t \in Threads, TaskwaitBegin(t)
  PROVE  StacksInv'
  <1> DEFINE s == last_nodes[t]
             r == Cleanup(s)
             f2 == SetLevel(WithStep(t), [Here(t) EXCEPT !.unwaited = FALSE])
             f3 == [f2 EXCEPT !.waiting = TRUE]
  <1>1. InRegionCode(t) /\ abort = "no" /\ TypeOK
    BY DEF TaskwaitBegin, StacksInv, TeamInv
  <1>2. InWork(t)
    BY <1>1, CodeWhere
  <1>3. PICK lo \in 0..Len(s) :
          Matches(frames[t], Len(frames[t]) - 1, s, lo, Ground(t)) /\ Topmost(Cur(t), s, lo, Ground(t))
    BY <1>2, WorkStack
  <1>4. abort' = "no"
    BY <1>1, <1>2, WorkStack DEF TaskwaitBegin, Require
  <1>5. /\ UNCHANGED <<num_threads, barrierCount, pendingFinish, implEndCount>>
        /\ UNCHANGED runtime
        /\ node_ctr' \in Nat /\ node_ctr <= node_ctr' /\ tree' \subseteq NodeRecord
        /\ steps' \subseteq [id : Nat, parent : Nat]
        /\ steps' = steps \union {NewStep(node_ctr + 1, s)}
        /\ last_nodes' = [last_nodes EXCEPT ![t] = r]
    BY <1>1, HandleStep DEF TaskwaitBegin, AfterTaskwait
  <1>6. f2 = SetLevel(WithStep(t), [Here(t) EXCEPT !.unwaited = FALSE])
    OBVIOUS
  <1> HIDE DEF f2
  <1>7. /\ IsContext(f2) /\ SameBelow(Cur(t), f2)
        /\ f2.ctx = Cur(t).ctx /\ f2.waiting = Cur(t).waiting
        /\ Last(f2.levels).kind = Last(Cur(t).levels).kind
        /\ Last(f2.levels).unwaited = FALSE
        /\ Len(f2.levels) = Len(Cur(t).levels)
        /\ Len(f2.levels) = 2 => f2.levels[2].kind = Cur(t).levels[2].kind
    BY <1>2, <1>6, NewUnwaited
  <1>8. IsContext(f3) /\ f3.ctx = f2.ctx /\ f3.levels = f2.levels
    BY <1>2, <1>7, ContextWaiting DEF InWork
  <1>9. frames' = [frames EXCEPT ![t] = WithLast(frames[t], f3)]
    BY <1>6 DEF TaskwaitBegin, SetFrame, WithLast
  <1> HIDE DEF f3
  <1>10. SameBelow(Cur(t), f3)
    BY <1>7, <1>8 DEF SameBelow
  <1>11. lo \in Nat /\ r = Cleanup(s)
    OBVIOUS
  <1> HIDE DEF r
  <1>12. Topmost(f3, r, lo, Ground(t)) /\ Keeps(r, s, lo)
    BY <1>3, <1>7, <1>8, <1>10, <1>11, NodesWaited
  <1>13. Dispatched(f3, firstDispatch[t]) /\ firstDispatch' = firstDispatch
    <2>1. Dispatched(f3, firstDispatch[t])
      BY <1>2, <1>7, <1>8, DispatchedKept
    <2>2. QED
      BY <2>1 DEF TaskwaitBegin
  <1>14. RecordsInv' /\ RunOn
    BY RecordsKept DEF TaskwaitBegin, StacksInv
  <1>15. HistoryInv'
    <2>1. LogsSteps'
      <3>1. LogsSteps
        BY DEF StacksInv, HistoryInv, LogsSteps
      <3>2. log' = log \union {Entry(node_ctr + 1, last_nodes[t], t, Cur(t).past)}
        BY DEF TaskwaitBegin, Log
      <3>3. QED
        BY <1>5, <3>1, <3>2, LogOne
    <2>2. counting' \in [Threads -> BOOLEAN] /\ blocks' = blocks
      BY DEF TaskwaitBegin, Count, StacksInv, HistoryInv
    <2>3. QED
      BY <1>13, <2>1, <2>2 DEF StacksInv, HistoryInv, LogsSteps
  <1>16. f3.ctx = Cur(t).ctx
    BY <1>7, <1>8
  <1>17. QED
    BY <1>2, <1>3, <1>4, <1>5, <1>8, <1>9, <1>11, <1>12, <1>13, <1>14, <1>15, <1>16,
       CodeGoesOnHere

(* A construct is entered: its FINISH node is opened.                      *)
LEMMA BlockBeginStep ==
  ASSUME StacksInv, NEW t \in Threads, NEW kind \in Kinds, BlockBegin(t, kind)
  PROVE  StacksInv'
  <1> DEFINE s == last_nodes[t]
             n == NewNode(node_ctr + 2, "FINISH", Top(s))
             r == Append(s, n)
             f2 == WithStep(t)
             f3 == EnterLevel(f2, kind)
  <1>1. /\ InRegionCode(t) /\ abort = "no" /\ TypeOK /\ Cur(t).ctx = Implicit(t)
        /\ Len(Cur(t).levels) = 1
    BY DEF BlockBegin, InImplicitBody, AtBody, StacksInv, TeamInv
  <1>2. InWork(t)
    BY <1>1, CodeWhere
  <1>3. PICK lo \in 0..Len(s) :
          Matches(frames[t], Len(frames[t]) - 1, s, lo, Ground(t)) /\ Topmost(Cur(t), s, lo, Ground(t))
    BY <1>2, WorkStack
  <1>4. abort' = "no"
    BY <1>1 DEF BlockBegin
  <1>5. n \in NodeRecord /\ ~n.finish_flag /\ n.parent = Top(s).id
    <2>1. s \in Seq(NodeRecord) /\ node_ctr \in Nat
      BY <1>1 DEF TypeOK
    <2>2. n \in NodeRecord
      BY <2>1, NewNodeType, TopType
    <2>3. QED
      BY <2>2 DEF NewNode
  <1>6. /\ UNCHANGED <<num_threads, barrierCount, pendingFinish, implEndCount>>
        /\ UNCHANGED runtime
        /\ node_ctr' \in Nat /\ node_ctr <= node_ctr' /\ tree' \subseteq NodeRecord
        /\ steps' \subseteq [id : Nat, parent : Nat]
        /\ steps' = steps \union {NewStep(node_ctr + 1, s)}
        /\ last_nodes' = [last_nodes EXCEPT ![t] = r]
    <2>1. Handle(t, 1, {n}, r) /\ {n} \subseteq NodeRecord
      BY <1>5 DEF BlockBegin
    <2> HIDE DEF n, r
    <2>2. QED
      BY <1>1, <2>1, HandleStep
  <1>7. /\ IsContext(f2) /\ f2.ctx = Cur(t).ctx /\ f2.levels = Cur(t).levels
        /\ f2.ctx > MaxTasks /\ Len(f2.levels) # 2
    <2>1. IsContext(f2) /\ f2.ctx = Cur(t).ctx /\ f2.levels = Cur(t).levels
      BY <1>2, WithStepContext DEF InWork
    <2>2. Cur(t).ctx > MaxTasks
      BY <1>1, TaskAssumption, RegionAssumption DEF Implicit, Threads
    <2> HIDE DEF f2
    <2>3. f2.ctx > MaxTasks
      BY <2>1, <2>2
    <2>4. Len(f2.levels) # 2
      <3>1. Len(Cur(t).levels) = 1
        BY <1>1
      <3>2. QED
        BY <2>1, <3>1
    <2>5. QED
      BY <2>1, <2>3, <2>4
  <1>8. kind \in BlockKinds /\ kind # "chunk" /\ Opens(kind) = 1
    BY TaskAssumption DEF BlockKinds, Opens
  <1>9. frames' = [frames EXCEPT ![t] = WithLast(frames[t], f3)]
    BY DEF BlockBegin, SetFrame, WithLast, EnterLevel
  <1> HIDE DEF f2
  <1>10. f3 = EnterLevel(f2, kind)
    OBVIOUS
  <1> HIDE DEF f3
  <1>11. /\ IsContext(f3) /\ f3.ctx = f2.ctx
         /\ Len(f3.levels) = 2 /\ f3.levels[1] = f2.levels[1] /\ f3.levels[2] = Level(kind)
         /\ Last(f3.levels) = Level(kind)
    BY <1>7, <1>8, <1>10, ContextEnter
  <1>12. /\ IsContext(f3) /\ f3.ctx = Cur(t).ctx
         /\ Len(f3.levels) = 2 /\ f3.levels[1] = Cur(t).levels[1] /\ f3.levels[2].kind = kind
         /\ Opens(Last(f3.levels).kind) = 1 /\ ~Last(f3.levels).unwaited
    BY <1>7, <1>8, <1>11 DEF Level
  <1>13. lo \in Nat /\ r = Append(s, n)
    OBVIOUS
  <1> HIDE DEF r, n
  <1>14. Topmost(f3, r, lo, Ground(t)) /\ Keeps(r, s, lo)
    BY <1>1, <1>3, <1>5, <1>12, <1>13, NodesEnter
  <1>15. firstDispatch' = [firstDispatch EXCEPT ![t] = @ \/ kind = "loop"]
    BY DEF BlockBegin
  <1>16. firstDispatch \in [Threads -> BOOLEAN]
    BY DEF StacksInv, HistoryInv
  <1>17. /\ firstDispatch'[t] = (firstDispatch[t] \/ kind = "loop")
         /\ \A u \in Threads \ {t} : firstDispatch'[u] = firstDispatch[u]
         /\ firstDispatch' \in [Threads -> BOOLEAN]
    BY <1>15, <1>16
  <1>18. Dispatched(f3, firstDispatch'[t])
    BY <1>8, <1>12, <1>17 DEF Dispatched
  <1>19. ~(f3.ctx > MaxTasks) => firstDispatch'[t] = firstDispatch[t]
    BY <1>7, <1>11
  <1>20. RecordsInv' /\ RunOn
    BY RecordsKept DEF BlockBegin, StacksInv
  <1>21. HistoryInv'
    <2>1. LogsSteps'
      <3>1. LogsSteps
        BY DEF StacksInv, HistoryInv, LogsSteps
      <3>2. log' = log \union {Entry(node_ctr + 1, last_nodes[t], t, Cur(t).past)}
        BY DEF BlockBegin, Log
      <3>3. QED
        BY <1>6, <3>1, <3>2, LogOne
    <2>2. counting' \in [Threads -> BOOLEAN]
      BY DEF BlockBegin, Count, StacksInv, HistoryInv
    <2>3. IsSequence(blocks') /\ Len(blocks') <= MaxBlocks
      <3>1. blocks' = Push(blocks, kind) /\ Len(blocks) < MaxBlocks
        BY DEF BlockBegin, Push
      <3>2. IsSequence(blocks)
        BY DEF StacksInv, HistoryInv
      <3>3. IsSequence(blocks') /\ Len(blocks') = Len(blocks) + 1 /\ Len(blocks) \in Nat
        BY <3>1, <3>2, PushLast, LengthType
      <3>4. QED
        BY <3>1, <3>3, TaskAssumption
    <2>4. QED
      BY <1>17, <2>1, <2>2, <2>3 DEF HistoryInv, LogsSteps
  <1>22. QED
    BY <1>2, <1>3, <1>4, <1>6, <1>9, <1>12, <1>13, <1>14, <1>17, <1>18, <1>19, <1>20, <1>21,
       CodeGoesOnHere

(* What the end of a construct or a task leaves on the stack.              *)
LEMMA ClosedNodes ==
  ASSUME NEW f, NEW s, NEW lo, NEW g, Topmost(f, s, lo, g), Opens(Last(f.levels).kind) # 0
  PROVE  LET r == Closed(s)
             n == LevelAt(f, lo, g) + Opens(Last(f.levels).kind) - 1 IN
         /\ r \in Seq(NodeRecord) /\ Len(r) = n /\ n >= LevelAt(f, lo, g)
         /\ Keeps(r, s, n)
  <1> DEFINE c == Cleanup(s)
             r == Pop(c)
             at == LevelAt(f, lo, g)
             o == Opens(Last(f.levels).kind)
             n == at + o - 1
  <1>1. /\ c \in Seq(NodeRecord) /\ Len(c) = at + o /\ Keeps(c, s, Len(c))
        /\ at \in Nat /\ o \in 0..2 /\ o # 0
    BY CleanedNodes
  <1> HIDE DEF c, at, o
  <1>2. n \in Nat /\ n = Len(c) - 1 /\ n >= at /\ Len(c) > 0
    BY <1>1
  <1> HIDE DEF n
  <1>3. r \in Seq(NodeRecord) /\ Len(r) = Len(c) - 1 /\ \A i \in 1..(Len(c) - 1) : r[i] = c[i]
    BY <1>1, <1>2, PopStack
  <1> HIDE DEF r
  <1>4. Keeps(r, s, n)
    <2> SUFFICES ASSUME NEW j \in 1..n PROVE r[j] = s[j]
      BY DEF Keeps
    <2>1. j \in 1..(Len(c) - 1) /\ j \in 1..Len(c)
      BY <1>2
    <2>2. QED
      BY <1>1, <1>3, <2>1 DEF Keeps
  <1>5. Len(r) = n
    BY <1>2, <1>3
  <1>6. QED
    BY <1>2, <1>3, <1>4, <1>5 DEF r, c, n, at, o, Closed

(* A thread in a construct is in its implicit task.                        *)
LEMMA InConstruct ==
  ASSUME StacksInv, NEW t \in Threads, InWork(t), Here(t).kind # "body"
  PROVE  /\ Len(Cur(t).levels) = 2 /\ Here(t) = Cur(t).levels[2]
         /\ Last(Cur(t).levels) = Here(t) /\ Here(t).kind \in BlockKinds
         /\ Cur(t).ctx > MaxTasks /\ InOwn(t)
         /\ Dispatched(Cur(t), firstDispatch[t])
  <1>1. IsContext(Cur(t)) /\ Here(t) = Cur(t).levels[Len(Cur(t).levels)]
    BY DEF InWork, Here, Last
  <1>2. Len(Cur(t).levels) = 2
    BY <1>1 DEF IsContext
  <1>3. Here(t).kind \in BlockKinds /\ Cur(t).ctx > MaxTasks
    BY <1>1, <1>2 DEF IsContext
  <1>4. InOwn(t)
    BY <1>2 DEF InWork, InTask
  <1>5. Dispatched(Cur(t), firstDispatch[t])
    BY DispatchedKept
  <1>6. Last(Cur(t).levels) = Here(t)
    BY DEF Here
  <1>7. QED
    BY <1>1, <1>2, <1>3, <1>4, <1>5, <1>6

(* A construct is left: its FINISH node is closed, with that of its tasks. *)
LEMMA BlockEndStep ==
  ASSUME StacksInv, NEW t \in Threads, BlockEnd(t)
  PROVE  StacksInv'
  <1> DEFINE s == last_nodes[t]
             r == Closed(s)
             f2 == WithStep(t)
             f3 == LeaveLevel(f2)
  <1>1. /\ InRegionCode(t) /\ abort = "no" /\ TypeOK
        /\ Here(t).kind \in {"single", "master", "loop"}
    BY DEF BlockEnd, StacksInv, TeamInv
  <1>2. InWork(t)
    BY <1>1, CodeWhere
  <1>3. /\ Len(Cur(t).levels) = 2 /\ Last(Cur(t).levels) = Here(t) /\ Cur(t).ctx > MaxTasks
        /\ Opens(Last(Cur(t).levels).kind) = 1
    BY <1>1, <1>2, InConstruct DEF Opens
  <1>4. PICK lo \in 0..Len(s) :
          Matches(frames[t], Len(frames[t]) - 1, s, lo, Ground(t)) /\ Topmost(Cur(t), s, lo, Ground(t))
    BY <1>2, WorkStack
  <1>5. abort' = "no"
    BY <1>1, <1>2, WorkStack DEF BlockEnd, Require
  <1>6. /\ UNCHANGED <<num_threads, barrierCount, pendingFinish, implEndCount>>
        /\ UNCHANGED runtime
        /\ node_ctr' \in Nat /\ node_ctr <= node_ctr' /\ tree' \subseteq NodeRecord
        /\ steps' \subseteq [id : Nat, parent : Nat]
        /\ steps' = steps \union {NewStep(node_ctr + 1, s)}
        /\ last_nodes' = [last_nodes EXCEPT ![t] = r]
    <2>1. Handle(t, 0, {}, r)
      BY DEF BlockEnd
    <2> HIDE DEF r
    <2>2. QED
      BY <1>1, <2>1, HandleStep
  <1>7. IsContext(f2) /\ f2.ctx = Cur(t).ctx /\ f2.levels = Cur(t).levels
    BY <1>2, WithStepContext DEF InWork
  <1>8. frames' = [frames EXCEPT ![t] = WithLast(frames[t], f3)]
    BY DEF BlockEnd, SetFrame, WithLast
  <1> HIDE DEF f2
  <1>9. f3 = LeaveLevel(f2) /\ Len(f2.levels) = 2
    BY <1>3, <1>7
  <1> HIDE DEF f3
  <1>10. /\ IsContext(f3) /\ f3.ctx = Cur(t).ctx
         /\ Len(f3.levels) = 1 /\ f3.levels[1] = Cur(t).levels[1]
    BY <1>7, <1>9, ContextLeave
  <1>11. r \in Seq(NodeRecord) /\ Len(r) = LevelAt(Cur(t), lo, Ground(t)) /\ Keeps(r, s, Len(r))
    <2> DEFINE at == LevelAt(Cur(t), lo, Ground(t))
    <2>1. /\ r \in Seq(NodeRecord) /\ Len(r) = at + Opens(Last(Cur(t).levels).kind) - 1
          /\ Keeps(r, s, at + Opens(Last(Cur(t).levels).kind) - 1)
      BY <1>3, <1>4, ClosedNodes
    <2>2. at \in Nat
      BY <1>4, ContextSizes DEF Topmost
    <2> HIDE DEF at, r
    <2>3. at + Opens(Last(Cur(t).levels).kind) - 1 = at
      BY <1>3, <2>2
    <2>4. QED
      BY <2>1, <2>3 DEF at
  <1>12. lo \in Nat
    OBVIOUS
  <1> HIDE DEF r
  <1>13. Topmost(f3, r, lo, Ground(t)) /\ Keeps(r, s, lo)
    BY <1>3, <1>4, <1>10, <1>11, NodesLeave
  <1>14. Dispatched(f3, firstDispatch'[t]) /\ firstDispatch' = firstDispatch
    BY <1>10 DEF Dispatched, BlockEnd
  <1>15. RecordsInv' /\ RunOn
    BY RecordsKept DEF BlockEnd, StacksInv
  <1>16. HistoryInv'
    <2>1. LogsSteps'
      <3>1. LogsSteps
        BY DEF StacksInv, HistoryInv, LogsSteps
      <3>2. log' = log \union {Entry(node_ctr + 1, last_nodes[t], t, Cur(t).past)}
        BY DEF BlockEnd, Log
      <3>3. QED
        BY <1>6, <3>1, <3>2, LogOne
    <2>2. counting' \in [Threads -> BOOLEAN] /\ blocks' = blocks
      BY DEF BlockEnd, Count, StacksInv, HistoryInv
    <2>3. QED
      BY <1>14, <2>1, <2>2 DEF StacksInv, HistoryInv, LogsSteps
  <1>17. QED
    BY <1>2, <1>4, <1>5, <1>6, <1>8, <1>10, <1>12, <1>13, <1>14, <1>15, <1>16, CodeGoesOnHere

(* The level of a loop with one more chunk.                                *)
ChunkOf(l, e, p) ==
  [l EXCEPT !.kind = "chunk", !.entry = e, !.all = @ \union p, !.chunks = @ + 1]

LEMMA ChunkLevel ==
  ASSUME NEW l, IsLevel(l), NEW e, NEW p
  PROVE  /\ IsLevel(ChunkOf(l, e, p)) /\ ChunkOf(l, e, p).kind = "chunk"
         /\ ChunkOf(l, e, p).unwaited = l.unwaited
  <1>1. PICK k, u, i, a, c : l = [kind |-> k, unwaited |-> u, entry |-> i, all |-> a, chunks |-> c]
    BY DEF IsLevel
  <1>2. u \in BOOLEAN
    BY <1>1 DEF IsLevel
  <1> DEFINE all2 == l.all \union p
             chunks2 == l.chunks + 1
             l2 == ChunkOf(l, e, p)
  <1>3. l2 = [l EXCEPT !.kind = "chunk", !.entry = e, !.all = all2, !.chunks = chunks2]
    BY DEF ChunkOf
  <1> HIDE DEF all2, chunks2, l2
  <1>4. l2 = [kind |-> "chunk", unwaited |-> u, entry |-> e, all |-> all2, chunks |-> chunks2]
    BY <1>1, <1>3
  <1>5. QED
    BY <1>1, <1>2, <1>4 DEF IsLevel, l2

(* A chunk of a loop begins: the node of the chunk before it is closed.    *)
LEMMA LoopChunkStep ==
  ASSUME StacksInv, WaitsAreThere, NEW t \in Threads, LoopChunk(t)
  PROVE  StacksInv'
  <1> DEFINE s == last_nodes[t]
             q == CloseChunk(t, s)
             n == NewNode(node_ctr + 2, "ASYNC", Top(q))
             r == Append(q, n)
             l == Here(t)
             past == WithStep(t).past
             entry == IF l.kind = "loop" THEN past ELSE l.entry
             f2 == [Cur(t) EXCEPT !.past = entry]
             l2 == [l EXCEPT !.kind = "chunk", !.entry = entry, !.all = @ \union past,
                             !.chunks = @ + 1]
             f3 == SetLevel(f2, l2)
  <1>1. /\ InRegionCode(t) /\ abort = "no" /\ TypeOK /\ Here(t).kind \in {"loop", "chunk"}
        /\ ~Here(t).unwaited
    BY DEF LoopChunk, Waited, WaitsAreThere, StacksInv, TeamInv
  <1>2. InWork(t)
    BY <1>1, CodeWhere
  <1>3. /\ Len(Cur(t).levels) = 2 /\ Last(Cur(t).levels) = l /\ Cur(t).ctx > MaxTasks
        /\ Dispatched(Cur(t), firstDispatch[t]) /\ l = Cur(t).levels[2]
    BY <1>1, <1>2, InConstruct
  <1>4. PICK lo \in 0..Len(s) :
          Matches(frames[t], Len(frames[t]) - 1, s, lo, Ground(t)) /\ Topmost(Cur(t), s, lo, Ground(t))
    BY <1>2, WorkStack
  <1>5. abort' = "no" /\ firstDispatch' = [firstDispatch EXCEPT ![t] = FALSE]
    BY <1>1 DEF LoopChunk
  <1>6. q = IF l.kind = "loop" THEN s ELSE Pop(s)
    BY <1>1, <1>3 DEF Dispatched, CloseChunk
  <1>7. n \in NodeRecord /\ ~n.finish_flag /\ n.parent = Top(q).id
    <2>1. s \in Seq(NodeRecord) /\ node_ctr + 2 \in Nat
      BY <1>1 DEF TypeOK
    <2>2. q \in Seq(NodeRecord)
      BY <1>6, <2>1, PopType
    <2> HIDE DEF q
    <2>3. n \in NodeRecord
      BY <2>1, <2>2, NewNodeType, TopType
    <2>4. QED
      BY <2>3 DEF NewNode
  <1>8. /\ UNCHANGED <<num_threads, barrierCount, pendingFinish, implEndCount>>
        /\ UNCHANGED runtime
        /\ node_ctr' \in Nat /\ node_ctr <= node_ctr' /\ tree' \subseteq NodeRecord
        /\ steps' \subseteq [id : Nat, parent : Nat]
        /\ steps' = steps \union {NewStep(node_ctr + 1, s)}
        /\ last_nodes' = [last_nodes EXCEPT ![t] = r]
    <2>1. Handle(t, 1, {n}, r) /\ {n} \subseteq NodeRecord
      BY <1>7 DEF LoopChunk
    <2> HIDE DEF n, r
    <2>2. QED
      BY <1>1, <2>1, HandleStep
  <1>9. frames' = [frames EXCEPT ![t] = WithLast(frames[t], f3)]
    BY DEF LoopChunk, SetFrame, WithLast
  <1>10. IsLevel(l2) /\ l2.kind = "chunk" /\ l2.unwaited = FALSE
    <2>1. IsLevel(l)
      BY <1>2, <1>3 DEF InWork, IsContext
    <2>2. l.unwaited = FALSE
      <3>1. Here(t).unwaited \in BOOLEAN /\ ~Here(t).unwaited
        BY <1>1, <2>1 DEF IsLevel
      <3>2. QED
        BY <3>1
    <2> HIDE DEF l, past, entry
    <2>3. l2 = ChunkOf(l, entry, past)
      BY DEF ChunkOf
    <2> HIDE DEF l2
    <2>4. IsLevel(l2) /\ l2.kind = "chunk" /\ l2.unwaited = l.unwaited
      BY <2>1, <2>3, ChunkLevel
    <2>5. QED
      BY <2>2, <2>4
  <1> HIDE DEF l2
  <1>11. /\ IsContext(f2) /\ f2.ctx = Cur(t).ctx /\ f2.levels = Cur(t).levels
    <2>1. IsContext(Cur(t))
      BY <1>2 DEF InWork
    <2> HIDE DEF entry
    <2>2. QED
      BY <2>1, ContextPast
  <1> HIDE DEF f2
  <1>12. f2.ctx # SerialCode /\ Len(f2.levels) = 2 /\ "chunk" \in BlockKinds /\ f3 = SetLevel(f2, l2)
    BY <1>2, <1>3, <1>11 DEF InWork, BlockKinds
  <1> HIDE DEF f3
  <1>13. /\ IsContext(f3) /\ SameBelow(f2, f3) /\ f3.ctx = f2.ctx
         /\ Last(f3.levels) = l2 /\ Len(f3.levels) = Len(f2.levels)
    BY <1>10, <1>11, <1>12, ContextLevel
  <1>14. /\ SameBelow(Cur(t), f3) /\ f3.ctx = Cur(t).ctx /\ Len(f3.levels) = 2
         /\ f3.levels[2].kind = "chunk"
         /\ Last(f3.levels).kind = "chunk" /\ ~Last(f3.levels).unwaited
    <2>1. SameBelow(Cur(t), f3)
      BY <1>11, <1>13 DEF SameBelow
    <2>2. Len(f3.levels) = 2
      BY <1>12, <1>13
    <2>3. f3.levels[2] = l2
      BY <1>13, <2>2 DEF Last
    <2>4. QED
      BY <1>10, <1>11, <1>13, <2>1, <2>2, <2>3
  <1>15. lo \in Nat /\ r = Append(q, n)
    OBVIOUS
  <1>16. ~Last(Cur(t).levels).unwaited /\ Last(Cur(t).levels).kind \in {"loop", "chunk"}
    BY <1>1, <1>3
  <1>17. q = IF Last(Cur(t).levels).kind = "loop" THEN s ELSE Pop(s)
    BY <1>3, <1>6
  <1> HIDE DEF r, n, q, l
  <1>18. Topmost(f3, r, lo, Ground(t)) /\ Keeps(r, s, lo)
    BY <1>4, <1>7, <1>13, <1>14, <1>15, <1>16, <1>17, NodesChunk
  <1>19. firstDispatch \in [Threads -> BOOLEAN]
    BY DEF StacksInv, HistoryInv
  <1>20. /\ firstDispatch'[t] = FALSE
         /\ \A u \in Threads \ {t} : firstDispatch'[u] = firstDispatch[u]
         /\ firstDispatch' \in [Threads -> BOOLEAN]
    BY <1>5, <1>19
  <1>21. Dispatched(f3, firstDispatch'[t])
    BY <1>14, <1>20 DEF Dispatched
  <1>22. ~(f3.ctx > MaxTasks) => firstDispatch'[t] = firstDispatch[t]
    BY <1>3, <1>14
  <1>23. RecordsInv' /\ RunOn
    BY RecordsKept DEF LoopChunk, StacksInv
  <1>24. HistoryInv'
    <2>1. LogsSteps'
      <3>1. LogsSteps
        BY DEF StacksInv, HistoryInv, LogsSteps
      <3>2. log' = log \union {Entry(node_ctr + 1, last_nodes[t], t, Cur(t).past)}
        BY DEF LoopChunk, Log
      <3>3. QED
        BY <1>8, <3>1, <3>2, LogOne
    <2>2. counting' \in [Threads -> BOOLEAN] /\ blocks' = blocks
      BY DEF LoopChunk, Count, StacksInv, HistoryInv
    <2>3. QED
      BY <1>20, <2>1, <2>2 DEF StacksInv, HistoryInv, LogsSteps
  <1>25. QED
    BY <1>2, <1>4, <1>5, <1>8, <1>9, <1>13, <1>14, <1>15, <1>18, <1>20, <1>21, <1>22, <1>23,
       <1>24, CodeGoesOnHere

(* No chunk is left: the chunk and the loop are closed.                    *)
LEMMA LoopDrainedStep ==
  ASSUME StacksInv, WaitsAreThere, NEW t \in Threads, LoopDrained(t)
  PROVE  StacksInv'
  <1> DEFINE s == last_nodes[t]
             s1 == Closed(s)
             r == CloseChunk(t, s1)
             l == Here(t)
             x == node_ctr + 1
             past == Cur(t).past \union l.all \union {x, x + 1}
             f2 == [Cur(t) EXCEPT !.past = past]
             f3 == LeaveLevel(f2)
             between == IF l.kind = "loop" THEN WithStep(t).past ELSE l.entry
  <1>1. /\ InRegionCode(t) /\ abort = "no" /\ TypeOK /\ Here(t).kind \in {"loop", "chunk"}
        /\ ~Here(t).unwaited
    BY DEF LoopDrained, Waited, WaitsAreThere, StacksInv, TeamInv
  <1>2. InWork(t)
    BY <1>1, CodeWhere
  <1>3. /\ Len(Cur(t).levels) = 2 /\ Last(Cur(t).levels) = l /\ Cur(t).ctx > MaxTasks
        /\ Dispatched(Cur(t), firstDispatch[t]) /\ l = Cur(t).levels[2]
    BY <1>1, <1>2, InConstruct
  <1>4. PICK lo \in 0..Len(s) :
          Matches(frames[t], Len(frames[t]) - 1, s, lo, Ground(t)) /\ Topmost(Cur(t), s, lo, Ground(t))
    BY <1>2, WorkStack
  <1>5. abort' = "no" /\ firstDispatch' = [firstDispatch EXCEPT ![t] = FALSE]
    BY <1>1, <1>2, WorkStack DEF LoopDrained, Require
  <1>6. Opens(l.kind) = IF l.kind = "loop" THEN 1 ELSE 2
    BY <1>1 DEF Opens
  <1>7. r = IF l.kind = "loop" THEN s1 ELSE Pop(s1)
    BY <1>1, <1>3 DEF Dispatched, CloseChunk
  <1> DEFINE at == LevelAt(Cur(t), lo, Ground(t))
  <1>8. at \in Nat
    BY <1>4, ContextSizes DEF Topmost
  <1>9. /\ s1 \in Seq(NodeRecord) /\ Len(s1) = at + Opens(l.kind) - 1 /\ Keeps(s1, s, Len(s1))
    <2>1. Opens(Last(Cur(t).levels).kind) # 0 /\ Last(Cur(t).levels) = l
      BY <1>3, <1>6
    <2> HIDE DEF l
    <2>2. QED
      BY <1>4, <2>1, ClosedNodes
  <1> HIDE DEF at
  <1>10. r \in Seq(NodeRecord) /\ Len(r) = at /\ Keeps(r, s, Len(r))
    <2> HIDE DEF r, s1, s, l
    <2>1. CASE l.kind = "loop"
      <3>1. r = s1 /\ Len(s1) = at
        BY <1>6, <1>7, <1>8, <1>9, <2>1
      <3>2. QED
        BY <1>9, <3>1
    <2>2. CASE l.kind # "loop"
      <3>1. r = Pop(s1) /\ Len(s1) = at + 1
        BY <1>6, <1>7, <1>8, <1>9, <2>2
      <3>2. Len(s1) > 0
        BY <1>8, <3>1
      <3>3. /\ Pop(s1) \in Seq(NodeRecord) /\ Len(Pop(s1)) = Len(s1) - 1
            /\ \A i \in 1..(Len(s1) - 1) : Pop(s1)[i] = s1[i]
        BY <1>9, <3>2, PopStack
      <3>4. Len(s1) - 1 = at
        BY <1>8, <3>1
      <3>5. \A i \in 1..at : i \in 1..Len(s1)
        BY <1>8, <3>1
      <3>6. \A i \in 1..at : r[i] = s[i]
        BY <1>9, <3>1, <3>3, <3>4, <3>5 DEF Keeps
      <3>7. QED
        BY <3>1, <3>3, <3>4, <3>6 DEF Keeps
    <2>3. QED
      BY <2>1, <2>2
  <1>11. /\ steps' = steps \union {NewStep(x, s), NewStep(x + 1, s1)}
         /\ node_ctr' = x + 1 /\ last_nodes' = [last_nodes EXCEPT ![t] = r] /\ tree' = tree
         /\ UNCHANGED <<profilerRest, runtime>>
    BY DEF LoopDrained
  <1>12. /\ UNCHANGED <<num_threads, barrierCount, pendingFinish, implEndCount>>
         /\ UNCHANGED runtime
    <2>1. profilerRest' = profilerRest /\ runtime' = runtime
      BY <1>11
    <2>2. UNCHANGED <<num_threads, barrierCount, pendingFinish, implEndCount>>
      BY <2>1 DEF profilerRest
    <2>3. QED
      BY <2>1, <2>2
  <1>13. /\ node_ctr' \in Nat /\ node_ctr <= node_ctr' /\ tree' \subseteq NodeRecord
         /\ steps' \subseteq [id : Nat, parent : Nat]
    <2>1. node_ctr \in Nat /\ x \in Nat /\ x + 1 \in Nat /\ s \in Seq(NodeRecord)
      BY <1>1 DEF TypeOK
    <2> HIDE DEF s1, s
    <2>2. NewStep(x, s) \in [id : Nat, parent : Nat] /\ NewStep(x + 1, s1) \in [id : Nat, parent : Nat]
      BY <1>9, <2>1, NewStepType
    <2>3. node_ctr' \in Nat /\ node_ctr <= node_ctr'
      BY <1>11, <2>1
    <2>4. QED
      BY <1>1, <1>11, <2>2, <2>3 DEF TypeOK
  <1>14. frames' = [frames EXCEPT ![t] = WithLast(frames[t], f3)]
    BY DEF LoopDrained, SetFrame, WithLast
  <1>15. IsContext(f2) /\ f2.ctx = Cur(t).ctx /\ f2.levels = Cur(t).levels
    <2>1. IsContext(Cur(t))
      BY <1>2 DEF InWork
    <2> HIDE DEF past
    <2>2. QED
      BY <2>1, ContextPast
  <1> HIDE DEF f2
  <1>16. f3 = LeaveLevel(f2) /\ Len(f2.levels) = 2
    BY <1>3, <1>15
  <1> HIDE DEF f3
  <1>17. /\ IsContext(f3) /\ f3.ctx = Cur(t).ctx
         /\ Len(f3.levels) = 1 /\ f3.levels[1] = Cur(t).levels[1]
    BY <1>15, <1>16, ContextLeave
  <1>18. lo \in Nat
    OBVIOUS
  <1>19. log' = log \union {Entry(x, s, t, Cur(t).past), Entry(x + 1, s1, t, between)}
    BY DEF LoopDrained
  <1> HIDE DEF r, s1, l, between
  <1>20. Topmost(f3, r, lo, Ground(t)) /\ Keeps(r, s, lo)
    BY <1>3, <1>4, <1>10, <1>17, NodesLeave DEF at
  <1>21. firstDispatch \in [Threads -> BOOLEAN]
    BY DEF StacksInv, HistoryInv
  <1>22. /\ \A u \in Threads \ {t} : firstDispatch'[u] = firstDispatch[u]
         /\ firstDispatch' \in [Threads -> BOOLEAN]
    BY <1>5, <1>21
  <1>23. Dispatched(f3, firstDispatch'[t])
    BY <1>17 DEF Dispatched
  <1>24. ~(f3.ctx > MaxTasks) => firstDispatch'[t] = firstDispatch[t]
    BY <1>3, <1>17
  <1>25. RecordsInv' /\ RunOn
    BY RecordsKept DEF LoopDrained, StacksInv
  <1>26. HistoryInv'
    <2>1. LogsSteps'
      <3>1. LogsSteps
        BY DEF StacksInv, HistoryInv, LogsSteps
      <3> DEFINE y == x + 1
                 past0 == Cur(t).past
      <3>2. /\ steps' = steps \union {NewStep(x, s), NewStep(y, s1)}
            /\ log' = log \union {Entry(x, s, t, past0), Entry(y, s1, t, between)}
        BY <1>11, <1>19
      <3> HIDE DEF x, y, past0, s
      <3>3. QED
        BY <3>1, <3>2, LogTwo
    <2>2. counting' \in [Threads -> BOOLEAN] /\ blocks' = blocks
      BY DEF LoopDrained, Count, StacksInv, HistoryInv
    <2>3. QED
      BY <1>22, <2>1, <2>2 DEF StacksInv, HistoryInv, LogsSteps
  <1>27. QED
    BY <1>2, <1>4, <1>5, <1>11, <1>12, <1>13, <1>14, <1>17, <1>18, <1>20, <1>22, <1>23, <1>24,
       <1>25, <1>26, CodeGoesOnHere

(* Records of tasks that change, and stay those of the same tasks.         *)
LEMMA RecordsChange ==
  ASSUME RecordsInv, UNCHANGED taskMap,
         tasks' = [k \in DOMAIN tasks |-> tasks'[k]],
         \A k \in 1..Len(tasks) :
            /\ IsTaskRecord(tasks'[k])
            /\ tasks'[k].state = "pending" <=> tasks[k].state = "pending"
  PROVE  RecordsInv' /\ Len(tasks') = Len(tasks) /\ IsSequence(tasks')
  <1>1. IsSequence(tasks) /\ Len(tasks) <= MaxTasks
    BY DEF RecordsInv
  <1>2. IsSequence(tasks') /\ Len(tasks') = Len(tasks)
    BY <1>1, SameTasks, LengthType
  <1>3. DOMAIN taskMap' = {k \in 1..Len(tasks') : tasks'[k].state = "pending"}
    BY <1>2 DEF RecordsInv
  <1>4. QED
    BY <1>1, <1>2, <1>3 DEF RecordsInv

(* A taskwait is over: only the context and its records change.            *)
LEMMA TaskwaitEndStep ==
  ASSUME StacksInv, NEW t \in Threads, TaskwaitEnd(t)
  PROVE  StacksInv'
  <1> DEFINE s == last_nodes[t]
             children == {k \in DOMAIN tasks : tasks[k].creator = Cur(t).ctx /\ ~tasks[k].waited}
             x == Cur(t).past \union UNION {tasks[k].past : k \in children}
             f2 == [Cur(t) EXCEPT !.waiting = FALSE]
             f3 == [f2 EXCEPT !.past = x]
  <1>1. /\ abort = "no" /\ TypeOK /\ frames[t] # <<>> /\ Cur(t).waiting
    BY DEF TaskwaitEnd, StacksInv, TeamInv
  <1>2. InWork(t)
    BY <1>1, WaitingWhere
  <1>3. PICK lo \in 0..Len(s) :
          Matches(frames[t], Len(frames[t]) - 1, s, lo, Ground(t)) /\ Topmost(Cur(t), s, lo, Ground(t))
    BY <1>2, WorkStack
  <1>4. profiler' = profiler /\ UNCHANGED runtime
    BY DEF TaskwaitEnd, runtime
  <1>5. /\ UNCHANGED <<num_threads, barrierCount, pendingFinish, implEndCount>>
        /\ abort' = "no"
        /\ node_ctr' = node_ctr /\ tree' = tree /\ steps' = steps /\ last_nodes' = last_nodes
    BY <1>1, <1>4 DEF profiler
  <1>6. /\ node_ctr' \in Nat /\ node_ctr <= node_ctr' /\ tree' \subseteq NodeRecord
        /\ steps' \subseteq [id : Nat, parent : Nat]
        /\ last_nodes' = [last_nodes EXCEPT ![t] = s]
    BY <1>1, <1>5 DEF TypeOK
  <1>7. IsContext(f2) /\ f2.ctx = Cur(t).ctx /\ f2.levels = Cur(t).levels
    <2>1. IsContext(Cur(t)) /\ Cur(t).ctx # SerialCode
      BY <1>2 DEF InWork
    <2>2. f2 = [Cur(t) EXCEPT !.waiting = FALSE]
      OBVIOUS
    <2> HIDE DEF f2
    <2>3. QED
      BY ONLY <2>1, <2>2, ContextWaiting
  <1>8. frames' = [frames EXCEPT ![t] = WithLast(frames[t], f3)]
    BY DEF TaskwaitEnd, SetFrame, WithLast
  <1> HIDE DEF f2, x
  <1>9. IsContext(f3) /\ f3.ctx = Cur(t).ctx /\ f3.levels = Cur(t).levels
    BY <1>7, ContextPast
  <1> HIDE DEF f3
  <1>10. lo \in Nat
    OBVIOUS
  <1>11. Topmost(f3, s, lo, Ground(t)) /\ Keeps(s, s, lo)
    <2>1. Keeps(s, s, lo)
      BY DEF Keeps
    <2>2. QED
      BY <1>3, <1>9, <2>1, NodesSame
  <1>12. Dispatched(f3, firstDispatch[t]) /\ firstDispatch' = firstDispatch
    <2>1. Dispatched(f3, firstDispatch[t])
      BY <1>2, <1>9, DispatchedKept
    <2>2. QED
      BY <2>1 DEF TaskwaitEnd
  <1>13. RecordsInv' /\ RunOn
    <2>1. /\ tasks' = [k \in DOMAIN tasks |->
               IF k \in children THEN [tasks[k] EXCEPT !.waited = TRUE] ELSE tasks[k]]
          /\ taskMap' = taskMap
      BY DEF TaskwaitEnd
    <2> HIDE DEF children
    <2>2. RecordsInv
      BY DEF StacksInv
    <2>3. \A k \in 1..Len(tasks) : IsTaskRecord(tasks'[k]) /\ tasks'[k].state = tasks[k].state
      <3> SUFFICES ASSUME NEW k \in 1..Len(tasks)
                   PROVE  IsTaskRecord(tasks'[k]) /\ tasks'[k].state = tasks[k].state
        OBVIOUS
      <3>1. k \in DOMAIN tasks /\ IsTaskRecord(tasks[k])
        BY <2>2, LengthType DEF RecordsInv
      <3>2. tasks'[k] = tasks[k] \/ tasks'[k] = [tasks[k] EXCEPT !.waited = TRUE]
        BY <2>1, <3>1
      <3>3. QED
        BY <3>1, <3>2 DEF IsTaskRecord
    <2>4. RecordsInv' /\ Len(tasks') = Len(tasks)
      BY <2>1, <2>2, <2>3, RecordsChange
    <2>5. RunOn
      BY <2>3, <2>4 DEF RunOn, IsRunning
    <2>6. QED
      BY <2>4, <2>5
  <1>14. HistoryInv'
    <2>1. log' = log /\ blocks' = blocks /\ counting' \in [Threads -> BOOLEAN]
      BY DEF TaskwaitEnd, Resume, Count, StacksInv, HistoryInv
    <2>2. QED
      BY <1>5, <1>12, <2>1 DEF StacksInv, HistoryInv
  <1>15. QED
    BY <1>2, <1>3, <1>4, <1>5, <1>6, <1>8, <1>9, <1>10, <1>11, <1>12, <1>13, <1>14,
       CodeGoesOnHere

(* A task ends: the context is gone, and so are its nodes.                 *)
LEMMA TaskEndStep ==
  ASSUME StacksInv, NEW t \in Threads, TaskEnd(t)
  PROVE  StacksInv'
  <1> DEFINE s == last_nodes[t]
             r == Closed(s)
             fr == frames[t]
             u == Pop(fr)
             c == Cur(t).ctx
  <1>1. InRegionCode(t) /\ abort = "no" /\ TypeOK /\ IsTask(c)
    BY DEF TaskEnd, StacksInv, TeamInv
  <1>2. InWork(t)
    BY <1>1, CodeWhere
  <1>3. PICK lo \in 0..Len(s) :
          Matches(fr, Len(fr) - 1, s, lo, Ground(t)) /\ Topmost(Cur(t), s, lo, Ground(t))
    BY <1>2, WorkStack
  <1>4. abort' = "no"
    BY <1>1, <1>2, WorkStack DEF TaskEnd, Require
  <1>5. /\ UNCHANGED <<num_threads, barrierCount, pendingFinish, implEndCount>>
        /\ UNCHANGED runtime
        /\ node_ctr' \in Nat /\ node_ctr <= node_ctr' /\ tree' \subseteq NodeRecord
        /\ steps' \subseteq [id : Nat, parent : Nat]
        /\ steps' = steps \union {NewStep(node_ctr + 1, s)}
        /\ last_nodes' = [last_nodes EXCEPT ![t] = r]
    <2>1. Handle(t, 0, {}, r)
      BY DEF TaskEnd
    <2> HIDE DEF r
    <2>2. QED
      BY <1>1, <2>1, HandleStep
  <1>6. /\ FramesOK(t, fr, pc[t], NoTaskHere(t), firstDispatch[t]) /\ IsSequence(fr) /\ fr # <<>>
        /\ \A i \in 1..Len(fr) : IsContext(fr[i])
        /\ Len(fr) > Ours(t, pc[t])
    <2>1. InTask(t)
      BY <1>1, <1>2, TaskContext DEF InWork, InOwn
    <2>2. QED
      BY <1>2, <2>1 DEF StacksInv, ThreadOK, FramesInv, FramesOK, InWork, InTask
  <1>7. /\ Len(Cur(t).levels) = 1 /\ Last(Cur(t).levels).kind = "body"
        /\ Size(Cur(t), Ground(t)) = 1
    <2>1. IsContext(Cur(t)) /\ Len(Cur(t).levels) = 1 /\ ~(c > MaxTasks)
      BY <1>1, <1>2, TaskContext DEF InWork
    <2>2. Last(Cur(t).levels).kind = "body"
      BY <2>1 DEF IsContext, Last
    <2>3. QED
      BY <2>1, <2>2 DEF Size
  <1>8. r \in Seq(NodeRecord) /\ Len(r) = lo /\ Keeps(r, s, lo)
    <2> DEFINE d == Cleanup(s)
    <2>1. /\ d \in Seq(NodeRecord) /\ Len(d) = LevelAt(Cur(t), lo, Ground(t)) + Opens(Last(Cur(t).levels).kind)
          /\ Keeps(d, s, Len(d))
      BY <1>3, CleanedNodes
    <2>2. Len(d) = lo + 1 /\ lo \in Nat
      <3> HIDE DEF d
      <3>1. LevelAt(Cur(t), lo, Ground(t)) = lo + 1
        BY <1>7 DEF LevelAt
      <3>2. Opens(Last(Cur(t).levels).kind) = 0
        BY <1>7 DEF Opens
      <3>3. QED
        BY <2>1, <3>1, <3>2
    <2>3. r = Pop(d)
      BY DEF Closed
    <2> HIDE DEF r, d, s
    <2>4. Len(d) > 0 /\ Len(d) - 1 = lo /\ \A i \in 1..lo : i \in 1..Len(d)
      BY <2>2
    <2>5. /\ Pop(d) \in Seq(NodeRecord) /\ Len(Pop(d)) = Len(d) - 1
          /\ \A i \in 1..(Len(d) - 1) : Pop(d)[i] = d[i]
      BY <2>1, <2>4, PopStack
    <2>6. QED
      BY <2>1, <2>3, <2>4, <2>5 DEF Keeps
  <1>9. FramesOK(t, u, pc[t], NoTaskHere(t), firstDispatch[t])
    <2>1. u = Pop(fr)
      OBVIOUS
    <2> HIDE DEF u, fr
    <2>2. QED
      BY <1>6, <2>1, FramesPop
  <1>10. NodesOK(u, r, Ground(t))
    <2>1. u = Pop(fr) /\ IsGround(Ground(t)) /\ lo \in Nat
      BY <1>3 DEF Topmost
    <2> HIDE DEF u, r
    <2>2. QED
      BY <1>3, <1>6, <1>8, <2>1, StackPopped
  <1>11. frames' = [frames EXCEPT ![t] = u] /\ firstDispatch' = firstDispatch /\ taskMap' = taskMap
    BY DEF TaskEnd
  <1>12. c = fr[Len(fr)].ctx
    BY DEF Cur, Last
  <1>13. IsRunning(c) /\ RecordsInv /\ RunningInv
    <2>1. Len(fr) \in 1..Len(fr)
      BY <1>6, LengthType
    <2>2. QED
      BY <1>1, <1>12, <2>1 DEF StacksInv, RunningInv
  <1>14. /\ tasks' = [k \in DOMAIN tasks |-> tasks'[k]]
         /\ \A k \in 1..Len(tasks) : k # c => tasks'[k] = tasks[k]
         /\ tasks'[c].state = "done" /\ IsTaskRecord(tasks'[c])
    <2> DEFINE x == WithStep(t).past
    <2>1. tasks' = [tasks EXCEPT ![c].state = "done", ![c].past = x]
      BY DEF TaskEnd
    <2>2. IsSequence(tasks) /\ DOMAIN tasks = 1..Len(tasks) /\ c \in DOMAIN tasks
      BY <1>13, LengthType DEF RecordsInv, IsRunning
    <2>3. IsTaskRecord(tasks[c])
      BY <1>13, <2>2 DEF RecordsInv
    <2> HIDE DEF x, c
    <2>4. tasks' = [k \in DOMAIN tasks |-> tasks'[k]]
      BY <2>1
    <2>5. \A k \in DOMAIN tasks : k # c => tasks'[k] = tasks[k]
      BY <2>1
    <2>6. tasks'[c] = [tasks[c] EXCEPT !.state = "done", !.past = x]
      BY <2>1, <2>2
    <2>7. tasks'[c].state = "done" /\ IsTaskRecord(tasks'[c])
      BY <2>3, <2>6 DEF IsTaskRecord
    <2>8. QED
      BY <2>2, <2>4, <2>5, <2>7
  <1>15. RecordsInv' /\ Len(tasks') = Len(tasks)
    <2>1. \A k \in 1..Len(tasks) :
            /\ IsTaskRecord(tasks'[k])
            /\ tasks'[k].state = "pending" <=> tasks[k].state = "pending"
      BY <1>13, <1>14 DEF RecordsInv, IsRunning
    <2>2. QED
      BY <1>11, <1>13, <1>14, <2>1, RecordsChange
  <1>16. RunningInv'
    <2>1. \A v \in Threads : frames'[v] = IF v = t THEN u ELSE frames[v]
      BY <1>11 DEF StacksInv
    <2>2. \A i \in 1..Len(u) : i \in 1..Len(fr) /\ i < Len(fr) /\ u[i] = fr[i]
      BY <1>6, PopLast
    <2>3. ASSUME NEW v \in Threads, NEW i \in 1..Len(frames'[v])
          PROVE  /\ i \in 1..Len(frames[v]) /\ frames'[v][i] = frames[v][i]
                 /\ IsTask(frames[v][i].ctx) => frames[v][i].ctx # c
      <3> HIDE DEF u
      <3>1. i \in 1..Len(frames[v]) /\ frames'[v][i] = frames[v][i] /\ (v = t => i < Len(fr))
        BY <2>1, <2>2
      <3>2. Len(fr) \in 1..Len(fr)
        BY <1>6, LengthType
      <3>3. c = frames[t][Len(fr)].ctx
        BY <1>12
      <3>4. IsTask(frames[v][i].ctx) => frames[v][i].ctx # c
        BY <1>1, <1>13, <3>1, <3>2, <3>3 DEF RunningInv
      <3>5. QED
        BY <3>1, <3>4
    <2>4. ASSUME NEW v \in Threads, NEW i \in 1..Len(frames'[v]), IsTask(frames'[v][i].ctx)
          PROVE  /\ frames'[v][i].ctx \in 1..Len(tasks')
                 /\ tasks'[frames'[v][i].ctx].state = "running"
                 /\ \A w \in Threads : \A j \in 1..Len(frames'[w]) :
                      frames'[w][j].ctx = frames'[v][i].ctx => w = v /\ j = i
      <3>1. i \in 1..Len(frames[v]) /\ frames'[v][i] = frames[v][i] /\ frames[v][i].ctx # c
        BY <2>3, <2>4
      <3>2. IsRunning(frames[v][i].ctx)
        BY <1>13, <2>4, <3>1 DEF RunningInv
      <3>3. frames'[v][i].ctx \in 1..Len(tasks') /\ tasks'[frames'[v][i].ctx].state = "running"
        BY <1>14, <1>15, <3>1, <3>2 DEF IsRunning
      <3>4. ASSUME NEW w \in Threads, NEW j \in 1..Len(frames'[w]),
                   frames'[w][j].ctx = frames'[v][i].ctx
            PROVE  w = v /\ j = i
        <4>1. j \in 1..Len(frames[w]) /\ frames'[w][j] = frames[w][j]
          BY <2>3
        <4>2. QED
          BY <1>13, <2>4, <3>1, <3>4, <4>1 DEF RunningInv
      <3>5. QED
        BY <3>3, <3>4
    <2>5. QED
      BY <2>4 DEF RunningInv, IsRunning
  <1>17. HistoryInv'
    <2>1. LogsSteps'
      <3>1. LogsSteps
        BY DEF StacksInv, HistoryInv, LogsSteps
      <3>2. log' = log \union {Entry(node_ctr + 1, last_nodes[t], t, Cur(t).past)}
        BY DEF TaskEnd, Log
      <3>3. QED
        BY <1>5, <3>1, <3>2, LogOne
    <2>2. counting' \in [Threads -> BOOLEAN] /\ blocks' = blocks
      BY DEF TaskEnd, Count, StacksInv, HistoryInv
    <2>3. QED
      BY <1>11, <2>1, <2>2 DEF StacksInv, HistoryInv, LogsSteps
  <1>18. ~Held(t) /\ ~MasterIsOut
    BY <1>2 DEF InWork
  <1> HIDE DEF u, r
  <1>19. QED
    BY <1>4, <1>5, <1>8, <1>9, <1>10, <1>11, <1>15, <1>16, <1>17, <1>18, CodeStep

(* A task more on thread t, where the other contexts stay.                 *)
LEMMA RunningPush ==
  ASSUME StacksInv, RunOn, NEW t \in Threads, NEW c,
         c \in 1..Len(tasks'), tasks'[c].state = "running",
         \A v \in Threads : \A i \in 1..Len(frames[v]) : frames[v][i].ctx # c,
         NEW u, Len(u) = Len(frames[t]) + 1, u[Len(u)].ctx = c,
         \A i \in 1..Len(frames[t]) : u[i].ctx = frames[t][i].ctx,
         frames' = [frames EXCEPT ![t] = u]
  PROVE  RunningInv'
  <1>1. /\ RunningInv /\ \A v \in Threads : frames'[v] = IF v = t THEN u ELSE frames[v]
        /\ Len(frames[t]) \in Nat
    BY LengthType DEF StacksInv, ThreadOK, FramesInv, FramesOK
  <1>2. \A v \in Threads : \A i \in 1..Len(frames'[v]) :
          \/ i \in 1..Len(frames[v]) /\ frames'[v][i].ctx = frames[v][i].ctx
          \/ v = t /\ i = Len(u) /\ frames'[v][i].ctx = c
    <2> SUFFICES ASSUME NEW v \in Threads, NEW i \in 1..Len(frames'[v])
                 PROVE  \/ i \in 1..Len(frames[v]) /\ frames'[v][i].ctx = frames[v][i].ctx
                        \/ v = t /\ i = Len(u) /\ frames'[v][i].ctx = c
      OBVIOUS
    <2>1. CASE v # t
      BY <1>1, <2>1
    <2>2. CASE v = t
      <3>1. frames'[v] = u /\ i \in 1..Len(u)
        BY <1>1, <2>2
      <3>2. i \in 1..Len(frames[t]) \/ i = Len(u)
        BY <1>1, <3>1
      <3>3. QED
        BY <2>2, <3>1, <3>2
    <2>3. QED
      BY <2>1, <2>2
  <1> SUFFICES ASSUME NEW v \in Threads, NEW i \in 1..Len(frames'[v]), IsTask(frames'[v][i].ctx)
               PROVE  /\ frames'[v][i].ctx \in 1..Len(tasks')
                      /\ tasks'[frames'[v][i].ctx].state = "running"
                      /\ \A w \in Threads : \A j \in 1..Len(frames'[w]) :
                           frames'[w][j].ctx = frames'[v][i].ctx => w = v /\ j = i
    BY DEF RunningInv, IsRunning
  <1>3. CASE i \in 1..Len(frames[v]) /\ frames'[v][i].ctx = frames[v][i].ctx
    <2>1. IsRunning(frames[v][i].ctx)
      BY <1>1, <1>3 DEF RunningInv
    <2>2. frames'[v][i].ctx \in 1..Len(tasks') /\ tasks'[frames'[v][i].ctx].state = "running"
      BY <1>3, <2>1 DEF RunOn, IsRunning
    <2>3. ASSUME NEW w \in Threads, NEW j \in 1..Len(frames'[w]),
                 frames'[w][j].ctx = frames'[v][i].ctx
          PROVE  w = v /\ j = i
      <3>1. j \in 1..Len(frames[w]) /\ frames'[w][j].ctx = frames[w][j].ctx
        BY <1>2, <1>3, <2>3
      <3>2. QED
        BY <1>1, <1>3, <2>3, <3>1 DEF RunningInv
    <2>4. QED
      BY <2>2, <2>3
  <1>4. CASE v = t /\ i = Len(u) /\ frames'[v][i].ctx = c
    <2>1. ASSUME NEW w \in Threads, NEW j \in 1..Len(frames'[w]),
                 frames'[w][j].ctx = c
          PROVE  w = v /\ j = i
      BY <1>2, <1>4, <2>1
    <2>2. frames'[v][i].ctx \in 1..Len(tasks') /\ tasks'[frames'[v][i].ctx].state = "running"
      BY <1>4
    <2>3. QED
      BY <1>4, <2>1, <2>2
  <1>5. QED
    BY <1>2, <1>3, <1>4

(* A task begins on a thread: its node goes from taskMap to the stack.     *)
LEMMA TaskBeginStep ==
  ASSUME StacksInv, NEW t \in Threads, NEW k \in DOMAIN tasks, TaskBegin(t, k)
  PROVE  StacksInv'
  <1> DEFINE s == last_nodes[t]
             n == taskMap[k]
             r == Append(s, n)
             fr == frames[t]
             x == tasks[k].past
             f == Frame(k, x)
             u == Push(fr, f)
  <1>1. abort = "no" /\ TypeOK /\ TeamInv /\ RecordsInv /\ RunningInv /\ JoinInv
    BY DEF StacksInv, TeamInv
  <1>2. /\ tasks[k].state = "pending" /\ MayRun(t, k)
        /\ last_nodes' = [last_nodes EXCEPT ![t] = r]
        /\ taskMap' = Restrict(taskMap, DOMAIN taskMap \ {k})
        /\ tasks' = [tasks EXCEPT ![k].state = "running"]
        /\ frames' = [frames EXCEPT ![t] = u]
        /\ firstDispatch' = firstDispatch
    BY DEF TaskBegin, Erased, Push
  <1>3. /\ k \in 1..Len(tasks) /\ k \in DOMAIN taskMap
        /\ n \in NodeRecord /\ PlainAsync(n)
    BY <1>1, <1>2, LengthType DEF RecordsInv
  <1>4. abort' = "no"
    BY <1>1, <1>3 DEF TaskBegin, Require
  <1>5. /\ UNCHANGED <<num_threads, barrierCount, pendingFinish, implEndCount>>
        /\ UNCHANGED runtime
        /\ node_ctr' = node_ctr /\ tree' = tree /\ steps' = steps /\ log' = log /\ blocks' = blocks
    <2>1. profilerRest' = profilerRest
      BY DEF TaskBegin
    <2>2. QED
      BY <2>1 DEF TaskBegin, runtime, profilerRest
  <1>6. /\ node_ctr' \in Nat /\ node_ctr <= node_ctr' /\ tree' \subseteq NodeRecord
        /\ steps' \subseteq [id : Nat, parent : Nat] /\ s \in Seq(NodeRecord)
    BY <1>1, <1>5 DEF TypeOK
  <1>7. ~MasterIsOut
    BY <1>1, <1>2 DEF JoinInv, TasksDone
  <1>8. FramesOK(t, fr, pc[t], NoTaskHere(t), firstDispatch[t])
    BY DEF StacksInv, ThreadOK, FramesInv
  <1>9. ~NoTaskHere(t)
    <2>1. CASE frames[t] # <<>> /\ Cur(t).waiting
      BY <2>1, WaitingWhere DEF InWork
    <2>2. CASE pc[t] \in {"barrier", "join"}
      BY <1>1, <2>2, InTeam DEF NoTaskHere, InPhase, InRegionControl
    <2>3. CASE t \in Team \ released /\ frames[t] = <<>> /\ pc[t] = "idle"
      <3>1. t # Master
        <4>1. Len(fr) = 0
          BY <2>3
        <4>2. Len(fr) >= Ours(t, pc[t])
          BY <1>8 DEF FramesOK
        <4>3. Ours(t, pc[t]) = Depth(t)
          BY <2>3 DEF Ours, InRegionControl, Depth
        <4>4. QED
          BY <4>1, <4>2, <4>3 DEF Depth
      <3>2. QED
        BY <2>3, <3>1 DEF NoTaskHere
    <2>4. QED
      BY <1>2, <2>1, <2>2, <2>3 DEF MayRun
  <1>10. ~Held(t)
    <2>1. t \in Team /\ t \notin released
      BY <1>9 DEF NoTaskHere
    <2>2. team \in Nat
      BY <1>1, TeamType
    <2>3. QED
      BY <2>1, <2>2 DEF Held, Orphan, Team
  <1>11. IsTask(k) /\ k \in Contexts
    BY <1>1, <1>3, TaskAssumption, RegionAssumption, LengthType DEF RecordsInv, IsTask, Contexts
  <1>12. IsContext(f) /\ f.ctx = k /\ f.levels = <<Level("body")>>
    BY <1>11, NewContext DEF Frame
  <1>13. FramesOK(t, u, pc[t], NoTaskHere(t), firstDispatch[t])
    <2>1. u = Push(fr, f) /\ IsTask(f.ctx)
      BY <1>11, <1>12
    <2> HIDE DEF u, f, fr
    <2>2. QED
      BY <1>8, <1>9, <1>12, <2>1, FramesPush
  <1>14. NodesOK(fr, s, Ground(t)) /\ IsGround(Ground(t))
    BY <1>1, <1>10, GroundIsGround DEF StacksInv, ThreadOK, StackInv
  <1>15. Topmost(f, r, Len(s), Ground(t)) /\ Keeps(r, s, Len(s))
    <2>1. r = Append(s, n) /\ IsTask(f.ctx)
      BY <1>11, <1>12
    <2> HIDE DEF r, n, f, s
    <2>2. QED
      BY <1>3, <1>6, <1>12, <1>14, <2>1, NodesTask
  <1>16. IsSequence(fr) /\ \A i \in 1..Len(fr) : IsContext(fr[i])
    BY <1>8 DEF FramesOK
  <1>17. NodesOK(u, r, Ground(t))
    <2>1. u = Push(fr, f)
      OBVIOUS
    <2> HIDE DEF u, f, r, s, fr
    <2>2. QED
      BY <1>14, <1>15, <1>16, <2>1, StackPushed
  <1>18. /\ tasks' = [j \in DOMAIN tasks |-> tasks'[j]]
         /\ \A j \in 1..Len(tasks) : j # k => tasks'[j] = tasks[j]
         /\ tasks'[k].state = "running" /\ IsTaskRecord(tasks'[k])
    <2>1. DOMAIN tasks = 1..Len(tasks)
      BY <1>1, LengthType DEF RecordsInv
    <2>2. IsTaskRecord(tasks[k])
      BY <1>1, <1>3 DEF RecordsInv
    <2>3. tasks'[k] = [tasks[k] EXCEPT !.state = "running"]
      BY <1>2
    <2>4. tasks'[k].state = "running" /\ IsTaskRecord(tasks'[k])
      BY <2>2, <2>3 DEF IsTaskRecord
    <2>5. QED
      BY <1>2, <2>1, <2>4
  <1>19. IsSequence(tasks') /\ Len(tasks') = Len(tasks)
    BY <1>1, <1>18, SameTasks, LengthType DEF RecordsInv
  <1>20. RecordsInv' /\ RunOn
    <2>1. \A j \in 1..Len(tasks') : IsTaskRecord(tasks'[j])
      BY <1>1, <1>18, <1>19 DEF RecordsInv
    <2>2. taskMap' = [j \in DOMAIN taskMap \ {k} |-> taskMap[j]]
      BY <1>2 DEF Restrict
    <2>3. /\ DOMAIN taskMap' = DOMAIN taskMap \ {k}
          /\ taskMap' = [j \in DOMAIN taskMap' |-> taskMap'[j]]
          /\ \A j \in DOMAIN taskMap' : j \in DOMAIN taskMap /\ taskMap'[j] = taskMap[j]
      BY <2>2
    <2>4. DOMAIN taskMap' = {j \in 1..Len(tasks') : tasks'[j].state = "pending"}
      BY <1>1, <1>18, <1>19, <2>3 DEF RecordsInv
    <2>5. \A j \in DOMAIN taskMap' : taskMap'[j] \in NodeRecord /\ PlainAsync(taskMap'[j])
      BY <1>1, <2>3 DEF RecordsInv
    <2>6. RecordsInv'
      BY <1>1, <1>19, <2>1, <2>3, <2>4, <2>5 DEF RecordsInv
    <2>7. RunOn
      BY <1>18, <1>19 DEF RunOn, IsRunning
    <2>8. QED
      BY <2>6, <2>7
  <1>21. RunningInv'
    <2>1. \A v \in Threads : \A i \in 1..Len(frames[v]) : frames[v][i].ctx # k
      BY <1>1, <1>2, <1>11 DEF RunningInv, IsRunning
    <2>2. k \in 1..Len(tasks') /\ tasks'[k].state = "running"
      BY <1>3, <1>18, <1>19
    <2>3. /\ Len(u) = Len(fr) + 1 /\ u[Len(u)] = f
          /\ \A i \in 1..Len(u) : i < Len(u) => i \in 1..Len(fr) /\ u[i] = fr[i]
          /\ Len(fr) \in Nat
      BY <1>16, PushLast, LengthType
    <2>4. u[Len(u)].ctx = k
      BY <1>12, <2>3
    <2> HIDE DEF u
    <2>5. \A i \in 1..Len(fr) : u[i].ctx = fr[i].ctx
      <3> SUFFICES ASSUME NEW i \in 1..Len(fr) PROVE u[i].ctx = fr[i].ctx
        OBVIOUS
      <3>1. i \in 1..Len(u) /\ i < Len(u)
        BY <2>3
      <3>2. QED
        BY <2>3, <3>1
    <2>6. QED
      BY <1>2, <1>20, <2>1, <2>2, <2>3, <2>4, <2>5, RunningPush
  <1>22. HistoryInv'
    <2>1. counting' \in [Threads -> BOOLEAN]
      BY DEF TaskBegin, Count, StacksInv, HistoryInv
    <2>2. QED
      BY <1>2, <1>5, <2>1 DEF StacksInv, HistoryInv
  <1>23. r \in Seq(NodeRecord)
    BY <1>3, <1>6
  <1> HIDE DEF u, r
  <1>24. QED
    BY <1>2, <1>4, <1>5, <1>6, <1>7, <1>10, <1>13, <1>17, <1>20, <1>21, <1>22, <1>23, CodeStep

(* A task more: pending with a node in taskMap, or running at once.        *)
LEMMA RecordsAdded ==
  ASSUME RecordsInv, Len(tasks) + 1 <= MaxTasks, NEW now \in BOOLEAN,
         NEW rec, IsTaskRecord(rec), rec.state = IF now THEN "running" ELSE "pending",
         NEW a \in NodeRecord, PlainAsync(a), tasks' = Append(tasks, rec),
         taskMap' = IF now THEN taskMap
                    ELSE [j \in DOMAIN taskMap \union {Len(tasks) + 1} |->
                            IF j = Len(tasks) + 1 THEN a ELSE taskMap[j]]
  PROVE  /\ RecordsInv' /\ RunOn
         /\ now => /\ Len(tasks) + 1 \in 1..Len(tasks')
                   /\ tasks'[Len(tasks) + 1].state = "running"
  <1> DEFINE k == Len(tasks) + 1
  <1>1. IsSequence(tasks) /\ Len(tasks) \in Nat /\ tasks' = Push(tasks, rec)
    BY LengthType DEF RecordsInv, Push
  <1>2. /\ IsSequence(tasks') /\ Len(tasks') = k /\ tasks'[k] = rec
        /\ \A j \in 1..Len(tasks') : j < Len(tasks') => j \in 1..Len(tasks) /\ tasks'[j] = tasks[j]
    BY <1>1, PushLast
  <1>3. /\ k \in Nat /\ k \in 1..k /\ k \notin 1..Len(tasks)
        /\ \A j \in 1..k : (j = k \/ j \in 1..Len(tasks))
        /\ \A j \in 1..Len(tasks) : j \in 1..k /\ j < k
    BY <1>1
  <1>4. k <= MaxTasks
    OBVIOUS
  <1>5. taskMap' = IF now THEN taskMap
                   ELSE [j \in DOMAIN taskMap \union {k} |-> IF j = k THEN a ELSE taskMap[j]]
    OBVIOUS
  <1> HIDE DEF k
  <1>6. \A j \in 1..Len(tasks) : tasks'[j] = tasks[j]
    BY <1>2, <1>3
  <1>7. \A j \in 1..Len(tasks') : IsTaskRecord(tasks'[j])
    BY <1>2, <1>3, <1>6 DEF RecordsInv
  <1>8. DOMAIN taskMap = {j \in 1..Len(tasks) : tasks[j].state = "pending"}
    BY DEF RecordsInv
  <1>9. /\ taskMap' = [j \in DOMAIN taskMap' |-> taskMap'[j]]
        /\ DOMAIN taskMap' = IF now THEN DOMAIN taskMap ELSE DOMAIN taskMap \union {k}
        /\ \A j \in DOMAIN taskMap' : taskMap'[j] \in NodeRecord /\ PlainAsync(taskMap'[j])
    <2>1. CASE now
      BY <1>5, <2>1 DEF RecordsInv
    <2>2. CASE ~now
      <3>2. taskMap' = [j \in DOMAIN taskMap \union {k} |-> IF j = k THEN a ELSE taskMap[j]]
        BY <1>5, <2>2
      <3>1. k \notin DOMAIN taskMap
        BY <1>3, <1>8
      <3>3. \A j \in DOMAIN taskMap \union {k} : taskMap'[j] = taskMap[j] \/ taskMap'[j] = a
        BY <3>2
      <3>4. DOMAIN taskMap' = DOMAIN taskMap \union {k}
        BY <3>2
      <3>5. \A j \in DOMAIN taskMap' : taskMap'[j] \in NodeRecord /\ PlainAsync(taskMap'[j])
        <4> SUFFICES ASSUME NEW j \in DOMAIN taskMap'
                     PROVE  taskMap'[j] \in NodeRecord /\ PlainAsync(taskMap'[j])
          OBVIOUS
        <4>1. CASE j \in DOMAIN taskMap
          BY <3>1, <3>2, <4>1 DEF RecordsInv
        <4>2. CASE j \notin DOMAIN taskMap
          BY <3>2, <3>4, <4>2
        <4>3. QED
          BY <4>1, <4>2
      <3>6. taskMap' = [j \in DOMAIN taskMap' |-> taskMap'[j]]
        BY <3>2
      <3>7. QED
        BY <2>2, <3>4, <3>5, <3>6
    <2>3. QED
      BY <2>1, <2>2
  <1>10. DOMAIN taskMap' = {j \in 1..Len(tasks') : tasks'[j].state = "pending"}
    <2>1. CASE now
      BY <1>2, <1>3, <1>6, <1>8, <1>9, <2>1
    <2>2. CASE ~now
      BY <1>2, <1>3, <1>6, <1>8, <1>9, <2>2
    <2>3. QED
      BY <2>1, <2>2
  <1>11. RecordsInv'
    BY <1>2, <1>4, <1>7, <1>9, <1>10 DEF RecordsInv
  <1>12. RunOn
    BY <1>2, <1>3, <1>6 DEF RunOn, IsRunning
  <1>13. now => k \in 1..Len(tasks') /\ tasks'[k].state = "running"
    BY <1>2, <1>3
  <1>14. now => Len(tasks) + 1 \in 1..Len(tasks') /\ tasks'[Len(tasks) + 1].state = "running"
    BY <1>13 DEF k
  <1>15. QED
    BY <1>11, <1>12, <1>14 DEF IsRunning

(* The last context replaced, and another on top of it.                    *)
LEMMA PushAfter ==
  ASSUME NEW s, IsSequence(s), s # <<>>, NEW f, NEW g
  PROVE  Append(Pop(s), f) \o <<g>> = Push(WithLast(s, f), g)
  <1> DEFINE w == WithLast(s, f)
             p == Append(Pop(s), f)
             S == {p[i] : i \in DOMAIN p} \union {g}
  <1>1. p \o <<>> = w
    BY PopAndPush
  <1>2. IsSequence(Pop(s)) /\ p = Push(Pop(s), f)
    BY PopLast DEF Push
  <1>3. IsSequence(p)
    BY <1>2, PushLast
  <1>4. p \in Seq(S) /\ g \in S
    BY <1>3, SeqMonotonic DEF IsSequence
  <1> HIDE DEF p, S, w
  <1>5. p \o <<>> = p /\ p \o <<g>> = Append(p, g)
    BY <1>4
  <1>6. p \o <<g>> = Push(w, g)
    BY <1>1, <1>5 DEF Push
  <1>7. QED
    BY <1>6 DEF p, w


(* A task more on top of the context that allocated it.                    *)
LEMMA ContextsMore ==
  ASSUME NEW s, IsSequence(s), s # <<>>, NEW f, f.ctx = Last(s).ctx, NEW g,
         NEW u, u = Push(WithLast(s, f), g)
  PROVE  /\ Len(u) = Len(s) + 1 /\ u[Len(u)] = g
         /\ \A i \in 1..Len(s) : u[i].ctx = s[i].ctx
  <1> DEFINE w == WithLast(s, f)
  <1>1. /\ IsSequence(w) /\ Len(w) = Len(s) /\ w[Len(w)] = f
        /\ \A i \in 1..Len(w) : i < Len(w) => w[i] = s[i]
    BY ReplaceLast
  <1>2. u = Push(w, g) /\ Len(s) \in Nat /\ f.ctx = s[Len(s)].ctx
    BY LengthType DEF Last
  <1> HIDE DEF w
  <1>3. /\ Len(u) = Len(w) + 1 /\ u[Len(u)] = g
        /\ \A i \in 1..Len(u) : i < Len(u) => i \in 1..Len(w) /\ u[i] = w[i]
    BY <1>1, <1>2, PushLast
  <1>4. \A i \in 1..Len(s) : w[i].ctx = s[i].ctx
    BY <1>1, <1>2
  <1>5. \A i \in 1..Len(s) : u[i] = w[i]
    <2> SUFFICES ASSUME NEW i \in 1..Len(s) PROVE u[i] = w[i]
      OBVIOUS
    <2>1. i \in 1..Len(u) /\ i < Len(u)
      BY <1>1, <1>2, <1>3
    <2>2. QED
      BY <1>3, <2>1
  <1>6. QED
    BY <1>1, <1>3, <1>4, <1>5

(* The nodes a task is allocated with.                                     *)
LEMMA AllocNodes ==
  ASSUME TypeOK, NEW s \in Seq(NodeRecord), NEW f, NEW a,
         f = IF Top(s).finish_flag THEN Top(s)
             ELSE [NewNode(node_ctr + 2, "FINISH", Top(s)) EXCEPT !.finish_flag = TRUE],
         a = NewNode(IF Top(s).finish_flag THEN node_ctr + 2 ELSE node_ctr + 3, "ASYNC", f)
  PROVE  /\ f \in NodeRecord /\ f.finish_flag
         /\ ~Top(s).finish_flag => f.parent = Top(s).id
         /\ a \in NodeRecord /\ PlainAsync(a) /\ a.parent = f.id
  <1>1. node_ctr \in Nat /\ node_ctr + 2 \in Nat /\ node_ctr + 3 \in Nat
    <2>1. node_ctr \in Nat
      BY DEF TypeOK
    <2>2. QED
      BY ONLY <2>1
  <1>2. Top(s) \in NodeRecord
    BY TopType
  <1>3. NewNode(node_ctr + 2, "FINISH", Top(s)) \in NodeRecord
    BY <1>1, <1>2, NewNodeType
  <1>4. f \in NodeRecord /\ f.finish_flag /\ (~Top(s).finish_flag => f.parent = Top(s).id)
    BY <1>2, <1>3 DEF NodeRecord, NewNode
  <1>5. a \in NodeRecord
    BY <1>1, <1>4, NewNodeType
  <1>6. PlainAsync(a) /\ a.parent = f.id
    BY DEF PlainAsync, NewNode
  <1>7. QED
    BY <1>4, <1>5, <1>6

(* The record a task gets.                                                 *)
LEMMA NewRecord ==
  ASSUME StacksInv, NEW t \in Threads, InWork(t), NEW now \in BOOLEAN, NEW x, NEW rec,
         rec = [state |-> IF now THEN "running" ELSE "pending",
                waited |-> FALSE, creator |-> Cur(t).ctx,
                kin |-> {Cur(t).ctx} \union
                        IF IsTask(Cur(t).ctx) THEN tasks[Cur(t).ctx].kin ELSE {},
                past |-> x]
  PROVE  IsTaskRecord(rec) /\ rec.state = IF now THEN "running" ELSE "pending"
  <1>1. Cur(t).ctx \in Contexts
    BY DEF InWork, IsContext
  <1>2. IsTask(Cur(t).ctx) => tasks[Cur(t).ctx].kin \subseteq Contexts
    <2> SUFFICES ASSUME IsTask(Cur(t).ctx) PROVE tasks[Cur(t).ctx].kin \subseteq Contexts
      OBVIOUS
    <2>1. IsRunning(Cur(t).ctx)
      BY TaskOnTop DEF InWork
    <2>2. QED
      BY <2>1 DEF IsRunning, StacksInv, RecordsInv, IsTaskRecord
  <1>3. /\ rec.kin \subseteq Contexts /\ rec.creator \in rec.kin
        /\ rec.state = IF now THEN "running" ELSE "pending"
    BY <1>1, <1>2
  <1>4. rec = [state |-> rec.state, waited |-> rec.waited, creator |-> rec.creator,
               kin |-> rec.kin, past |-> rec.past]
    OBVIOUS
  <1>5. QED
    BY <1>3, <1>4 DEF IsTaskRecord

(* A task is allocated, and begins at once when it is undeferred.          *)
LEMMA TaskAllocStep ==
  ASSUME StacksInv, NEW t \in Threads, NEW now \in BOOLEAN, TaskAlloc(t, now)
  PROVE  StacksInv'
  <1> DEFINE s == last_nodes[t]
             k == Len(tasks) + 1
             fr == frames[t]
  <1>1. PICK f, a, s1, creator, rec :
          /\ f = IF Top(s).finish_flag THEN Top(s)
                 ELSE [NewNode(node_ctr + 2, "FINISH", Top(s)) EXCEPT !.finish_flag = TRUE]
          /\ a = NewNode(IF Top(s).finish_flag THEN node_ctr + 2 ELSE node_ctr + 3, "ASYNC", f)
          /\ s1 = IF Top(s).finish_flag THEN s ELSE Append(s, f)
          /\ creator = SetLevel(WithStep(t), [Here(t) EXCEPT !.unwaited = TRUE])
          /\ rec = [state |-> IF now THEN "running" ELSE "pending",
                    waited |-> FALSE, creator |-> Cur(t).ctx,
                    kin |-> {Cur(t).ctx} \union
                            IF IsTask(Cur(t).ctx) THEN tasks[Cur(t).ctx].kin ELSE {},
                    past |-> creator.past]
          /\ InRegionCode(t) /\ k <= MaxTasks
          /\ Handle(t, IF Top(s).finish_flag THEN 1 ELSE 2, {f, a},
                    IF now THEN Append(s1, a) ELSE s1)
          /\ taskMap' = IF now THEN taskMap
                        ELSE [j \in DOMAIN taskMap \union {k} |-> IF j = k THEN a ELSE taskMap[j]]
          /\ tasks' = Append(tasks, rec)
          /\ frames' = [frames EXCEPT ![t] =
               Append(Pop(@), creator) \o IF now THEN <<Frame(k, creator.past)>> ELSE <<>>]
    BY DEF TaskAlloc
  <1>2. /\ abort = "no" /\ TypeOK /\ TeamInv /\ RecordsInv /\ s \in Seq(NodeRecord)
        /\ abort' = "no" /\ firstDispatch' = firstDispatch /\ blocks' = blocks
        /\ counting' = [counting EXCEPT ![t] = TRUE]
        /\ log' = log \union {Entry(node_ctr + 1, s, t, Cur(t).past)}
    BY DEF TaskAlloc, Log, Count, StacksInv, TeamInv, TypeOK
  <1>3. InWork(t)
    BY <1>1, CodeWhere
  <1>4. PICK lo \in 0..Len(s) :
          Matches(fr, Len(fr) - 1, s, lo, Ground(t)) /\ Topmost(Cur(t), s, lo, Ground(t))
    BY <1>3, WorkStack
  <1>5. /\ f \in NodeRecord /\ f.finish_flag
        /\ ~Top(s).finish_flag => f.parent = Top(s).id
        /\ a \in NodeRecord /\ PlainAsync(a) /\ a.parent = f.id
    <2>1. /\ f = IF Top(s).finish_flag THEN Top(s)
                 ELSE [NewNode(node_ctr + 2, "FINISH", Top(s)) EXCEPT !.finish_flag = TRUE]
          /\ a = NewNode(IF Top(s).finish_flag THEN node_ctr + 2 ELSE node_ctr + 3, "ASYNC", f)
      BY <1>1
    <2>2. TypeOK /\ s \in Seq(NodeRecord)
      BY <1>2
    <2> HIDE DEF s
    <2>3. QED
      BY <2>1, <2>2, AllocNodes
  <1> DEFINE r == IF now THEN Append(s1, a) ELSE s1
             n == IF Top(s).finish_flag THEN 1 ELSE 2
  <1>6. /\ UNCHANGED <<num_threads, barrierCount, pendingFinish, implEndCount>>
        /\ UNCHANGED runtime
        /\ node_ctr' \in Nat /\ node_ctr <= node_ctr' /\ tree' \subseteq NodeRecord
        /\ steps' \subseteq [id : Nat, parent : Nat]
        /\ steps' = steps \union {NewStep(node_ctr + 1, s)}
        /\ last_nodes' = [last_nodes EXCEPT ![t] = r]
    <2>1. Handle(t, n, {f, a}, r) /\ {f, a} \subseteq NodeRecord /\ n \in Nat
      BY <1>1, <1>5
    <2> HIDE DEF n, r
    <2>2. QED
      BY <1>2, <2>1, HandleStep
  <1>7. /\ IsContext(creator) /\ SameBelow(Cur(t), creator)
        /\ creator.ctx = Cur(t).ctx
        /\ Last(creator.levels).kind = Last(Cur(t).levels).kind
        /\ Last(creator.levels).unwaited
        /\ Len(creator.levels) = Len(Cur(t).levels)
        /\ Len(creator.levels) = 2 => creator.levels[2].kind = Cur(t).levels[2].kind
    BY <1>1, <1>3, NewUnwaited
  <1>8. Dispatched(creator, firstDispatch[t])
    BY <1>3, <1>7, DispatchedKept
  <1>9. Topmost(creator, s1, lo, Ground(t)) /\ Keeps(s1, s, lo)
    <2>1. CASE Top(s).finish_flag
      <3> DEFINE m == [NewNode(node_ctr + 2, "FINISH", Top(s)) EXCEPT !.finish_flag = TRUE]
      <3>1. m \in NodeRecord /\ m.finish_flag /\ m.parent = Top(s).id
        <4>1. node_ctr + 2 \in Nat /\ Top(s) \in NodeRecord
          BY <1>2, TopType DEF TypeOK
        <4>2. NewNode(node_ctr + 2, "FINISH", Top(s)) \in NodeRecord
          BY <4>1, NewNodeType
        <4>3. QED
          BY <4>2 DEF NewNode, NodeRecord
      <3>2. s1 = IF Top(s).finish_flag THEN s ELSE Append(s, m)
        BY <1>1, <2>1
      <3> HIDE DEF m
      <3>3. QED
        BY <1>4, <1>7, <3>1, <3>2, NodesAlloc
    <2>2. CASE ~Top(s).finish_flag
      <3>1. f.parent = Top(s).id /\ s1 = IF Top(s).finish_flag THEN s ELSE Append(s, f)
        BY <1>1, <1>5, <2>2
      <3>2. QED
        BY <1>4, <1>5, <1>7, <3>1, NodesAlloc
    <2>3. QED
      BY <2>1, <2>2
  <1>10. IsTaskRecord(rec) /\ rec.state = IF now THEN "running" ELSE "pending"
    BY <1>1, <1>3, NewRecord
  <1>11. /\ RecordsInv' /\ RunOn
         /\ now => k \in 1..Len(tasks') /\ tasks'[k].state = "running"
    BY <1>1, <1>2, <1>5, <1>10, RecordsAdded
  <1>12. HistoryInv'
    <2>1. LogsSteps'
      <3>1. LogsSteps
        BY DEF StacksInv, HistoryInv, LogsSteps
      <3>2. QED
        BY <1>2, <1>6, <3>1, LogOne
    <2>2. counting' \in [Threads -> BOOLEAN]
      BY <1>2 DEF StacksInv, HistoryInv
    <2>3. QED
      BY <1>2, <2>1, <2>2 DEF StacksInv, HistoryInv, LogsSteps
  <1>13. IsSequence(fr) /\ fr # <<>> /\ \A i \in 1..Len(fr) : IsContext(fr[i])
    BY <1>3 DEF StacksInv, ThreadOK, FramesInv, FramesOK, InWork
  <1>14. CASE ~now
    <2>1. frames' = [frames EXCEPT ![t] = WithLast(frames[t], creator)]
      <3>1. frames' = [frames EXCEPT ![t] = Append(Pop(frames[t]), creator) \o <<>>]
        BY <1>1, <1>14
      <3>2. Append(Pop(fr), creator) \o <<>> = WithLast(fr, creator)
        BY <1>13, PopAndPush
      <3>3. QED
        BY <3>1, <3>2
    <2>2. last_nodes' = [last_nodes EXCEPT ![t] = s1] /\ lo \in Nat
      BY <1>6, <1>14
    <2>3. QED
      BY <1>2, <1>3, <1>4, <1>6, <1>7, <1>8, <1>9, <1>11, <1>12, <2>1, <2>2, CodeGoesOnHere
  <1>15. CASE now
    <2> DEFINE g == Frame(k, creator.past)
               w == WithLast(fr, creator)
               u == Push(w, g)
    <2>1. frames' = [frames EXCEPT ![t] = u]
      <3>1. frames' = [frames EXCEPT ![t] = Append(Pop(frames[t]), creator) \o <<g>>]
        BY <1>1, <1>15
      <3>2. Append(Pop(fr), creator) \o <<g>> = u
        BY <1>13, PushAfter
      <3>3. QED
        BY <3>1, <3>2
    <2>2. IsTask(k) /\ k \in Contexts /\ k \notin 1..Len(tasks)
      BY <1>1, <1>2, TaskAssumption, RegionAssumption, LengthType
         DEF RecordsInv, IsTask, Contexts
    <2>3. IsContext(g) /\ g.ctx = k /\ g.levels = <<Level("body")>>
      BY <2>2, NewContext DEF Frame
    <2>4. creator.ctx = Last(fr).ctx
      BY <1>7 DEF Cur
    <2>5. /\ Len(u) = Len(fr) + 1 /\ u[Len(u)] = g
          /\ \A i \in 1..Len(fr) : u[i].ctx = fr[i].ctx
      BY <1>13, <2>4, ContextsMore
    <2>6. FramesOK(t, w, pc[t], NoTaskHere(t), firstDispatch[t])
      BY <1>3, <1>7, <1>8, FramesHere
    <2>7. IsGround(Ground(t)) /\ ~Held(t) /\ ~MasterIsOut /\ ~NoTaskHere(t)
      BY <1>2, <1>3, GroundIsGround DEF InWork
    <2>8. s1 \in Seq(NodeRecord) /\ lo \in Nat
      BY <1>9 DEF Topmost
    <2>9. NodesOK(w, s1, Ground(t))
      <3>1. w = WithLast(fr, creator)
        OBVIOUS
      <3> HIDE DEF w
      <3>2. QED
        BY <1>4, <1>9, <1>13, <2>8, <3>1, StackReplaced
    <2>10. r = Append(s1, a) /\ u = Push(w, g)
      BY <1>15
    <2> HIDE DEF u, w, g, r
    <2>11. r \in Seq(NodeRecord)
      BY <1>5, <2>8, <2>10
    <2>12. FramesOK(t, u, pc[t], NoTaskHere(t), firstDispatch[t])
      BY <2>2, <2>3, <2>6, <2>7, <2>10, FramesPush
    <2>13. Topmost(g, r, Len(s1), Ground(t)) /\ Keeps(r, s1, Len(s1))
      BY <1>5, <2>2, <2>3, <2>7, <2>8, <2>10, NodesTask
    <2>14. NodesOK(u, r, Ground(t))
      <3>1. IsSequence(w) /\ \A i \in 1..Len(w) : IsContext(w[i])
        BY <2>6 DEF FramesOK
      <3>2. QED
        BY <2>9, <2>10, <2>13, <3>1, StackPushed
    <2>15. RunningInv'
      <3>1. \A v \in Threads : \A i \in 1..Len(frames[v]) : frames[v][i].ctx # k
        BY <2>2 DEF StacksInv, RunningInv, IsRunning
      <3>2. k \in 1..Len(tasks') /\ tasks'[k].state = "running"
        BY <1>11, <1>15
      <3>3. u[Len(u)].ctx = k
        BY <2>3, <2>5
      <3>4. QED
        BY <1>11, <2>1, <2>5, <3>1, <3>2, <3>3, RunningPush
    <2>16. /\ last_nodes' = [last_nodes EXCEPT ![t] = r]
           /\ \A v \in Threads \ {t} : firstDispatch'[v] = firstDispatch[v]
           /\ FramesOK(t, u, pc[t], NoTaskHere(t), firstDispatch'[t])
      BY <1>2, <1>6, <2>12
    <2>17. QED
      BY <1>2, <1>6, <1>11, <1>12, <2>1, <2>7, <2>11, <2>14, <2>15, <2>16, CodeStep
  <1>16. QED
    BY <1>14, <1>15

----------------------------------------------------------------------------
(* The handlers of regions                                                 *)

(* A thread's own contexts when its control point changes.                 *)
LEMMA FramesMove ==
  ASSUME NEW t \in Threads, NEW s, NEW q, NEW alone, NEW first,
         FramesOK(t, s, q, alone, first),
         NEW q2, NEW alone2, Ours(t, q2) = Ours(t, q), alone2 => Len(s) = Ours(t, q2),
         q2 \in InRegionControl => ImplicitOK(t, s[Depth(t) + 1], q2, first)
  PROVE  FramesOK(t, s, q2, alone2, first)
  BY DEF FramesOK

(* The implicit task is the topmost context of its thread.                 *)
LEMMA ImplicitOnTop ==
  ASSUME StacksInv, NEW t \in Threads, frames[t] # <<>>, Cur(t).ctx = Implicit(t)
  PROVE  /\ pc[t] \in InRegionControl
         /\ Len(frames[t]) = Depth(t) + 1 /\ Len(frames[t]) \in Nat \ {0}
         /\ Cur(t) = frames[t][Depth(t) + 1]
         /\ IsContext(Cur(t)) /\ Cur(t).ctx > MaxTasks
         /\ ImplicitOK(t, Cur(t), pc[t], firstDispatch[t])
         /\ FramesOK(t, frames[t], pc[t], NoTaskHere(t), firstDispatch[t])
         /\ \A i \in 1..(Len(frames[t]) - 1) : ~(frames[t][i].ctx > MaxTasks)
         /\ t \in Team /\ t \notin released /\ ~Held(t)
  <1>1. Cur(t).ctx > MaxTasks /\ ~IsTask(Cur(t).ctx) /\ Cur(t).ctx # SerialCode
    BY TaskAssumption, RegionAssumption DEF IsTask, SerialCode, Implicit, Threads
  <1>2. /\ Len(frames[t]) \in Nat \ {0} /\ Cur(t) = frames[t][Len(frames[t])]
        /\ IsContext(Cur(t)) /\ pc[t] \in InRegionControl
        /\ ImplicitOK(t, Cur(t), pc[t], firstDispatch[t])
        /\ Len(frames[t]) = Depth(t) + 1
    BY <1>1, TaskOnTop
  <1>3. FramesOK(t, frames[t], pc[t], NoTaskHere(t), firstDispatch[t])
    BY DEF StacksInv, ThreadOK, FramesInv
  <1>4. \A i \in 1..(Len(frames[t]) - 1) : ~(frames[t][i].ctx > MaxTasks)
    <2> SUFFICES ASSUME NEW i \in 1..(Len(frames[t]) - 1)
                 PROVE  ~(frames[t][i].ctx > MaxTasks)
      OBVIOUS
    <2>1. t = Master /\ i = 1
      BY <1>2 DEF Depth
    <2>2. frames[t][i].ctx = SerialCode
      BY <1>3, <2>1 DEF FramesOK
    <2>3. QED
      BY <2>2, TaskAssumption DEF SerialCode
  <1>5. t \in Team /\ t \notin released
    <2>1. TeamInv /\ (InPhase(t) \/ pc[t] = "locking")
      BY <1>2 DEF StacksInv, InPhase, InRegionControl
    <2>2. QED
      BY <2>1, InTeam
  <1>6. ~Held(t)
    <2>1. team \in Nat
      BY TeamType DEF StacksInv, TeamInv
    <2>2. QED
      BY <1>5, <2>1 DEF Held, Orphan, Team
  <1>7. Cur(t) = frames[t][Depth(t) + 1]
    BY <1>2
  <1>8. QED
    BY <1>1, <1>2, <1>3, <1>4, <1>5, <1>6, <1>7

(* An implicit task in its body with nothing to wait for.                  *)
Bare(f) == Len(f.levels) = 1 /\ ~f.levels[1].unwaited

LEMMA BareSize ==
  ASSUME NEW f, IsContext(f), f.ctx > MaxTasks, Bare(f), NEW lo \in Nat, NEW g
  PROVE  /\ Last(f.levels) = f.levels[1] /\ LevelSize(f.levels[1]) = 0
         /\ Opens(f.levels[1].kind) = 0
         /\ Size(f, g) = IF g.closed THEN 1 ELSE 3
         /\ LevelAt(f, lo, g) = IF g.closed THEN lo + 1 ELSE lo + 3
         /\ f.ctx # SerialCode /\ ~IsTask(f.ctx)
  <1>1. Last(f.levels) = f.levels[1] /\ f.levels[1].kind = "body"
    BY DEF Bare, Last, IsContext
  <1>2. Opens(f.levels[1].kind) = 0 /\ LevelSize(f.levels[1]) = 0
    BY <1>1 DEF Bare, LevelSize, Opens
  <1>3. Size(f, g) = IF g.closed THEN 1 ELSE 3
    BY DEF Size
  <1>4. LevelAt(f, lo, g) = IF g.closed THEN lo + 1 ELSE lo + 3
    BY <1>3 DEF LevelAt, Bare
  <1>5. f.ctx # SerialCode /\ ~IsTask(f.ctx)
    BY TaskAssumption DEF SerialCode, IsTask
  <1>6. QED
    BY <1>1, <1>2, <1>3, <1>4, <1>5

LEMMA BareNodes ==
  ASSUME NEW f, f.ctx > MaxTasks, Bare(f), NEW s, NEW lo, NEW g, Topmost(f, s, lo, g)
  PROVE  /\ s \in Seq(NodeRecord) /\ lo \in Nat
         /\ Len(s) = IF g.closed THEN lo + 1 ELSE lo + 3
         /\ s[lo + 1] = g.region
         /\ ~g.closed => s[lo + 2] = g.phase /\ PlainAsync(s[lo + 3])
  <1>1. /\ IsContext(f) /\ lo \in Nat /\ s \in Seq(NodeRecord)
        /\ OwnNodes(f, s, lo, g)
        /\ Len(s) = LevelAt(f, lo, g) + LevelSize(Last(f.levels))
    BY DEF Topmost, FrameNodes
  <1>2. /\ LevelAt(f, lo, g) = IF g.closed THEN lo + 1 ELSE lo + 3
        /\ LevelSize(Last(f.levels)) = 0
    BY <1>1, BareSize
  <1>3. QED
    BY <1>1, <1>2 DEF OwnNodes

LEMMA BareTop ==
  ASSUME NEW f, IsContext(f), f.ctx > MaxTasks, Bare(f), NEW lo \in Nat, NEW g, IsGround(g),
         NEW r \in Seq(NodeRecord), Len(r) = IF g.closed THEN lo + 1 ELSE lo + 3,
         r[lo + 1] = g.region,
         ~g.closed => /\ r[lo + 2] = g.phase /\ PlainAsync(r[lo + 3])
                      /\ r[lo + 2].parent = r[lo + 1].id
                      /\ r[lo + 3].parent = r[lo + 2].id
  PROVE  Topmost(f, r, lo, g)
  <1>1. /\ Last(f.levels) = f.levels[1] /\ LevelSize(f.levels[1]) = 0
        /\ Opens(f.levels[1].kind) = 0
        /\ LevelAt(f, lo, g) = IF g.closed THEN lo + 1 ELSE lo + 3
        /\ f.ctx # SerialCode /\ ~IsTask(f.ctx)
    BY BareSize
  <1>2. OwnNodes(f, r, lo, g)
    BY <1>1 DEF OwnNodes
  <1>3. BodyNodes(f, r, lo, g)
    <2>1. Len(f.levels) = 1
      BY DEF Bare
    <2>2. Len(f.levels) # 2
      BY <2>1
    <2>3. QED
      BY <2>2 DEF BodyNodes
  <1>4. LevelNodes(Last(f.levels), r, LevelAt(f, lo, g))
    BY <1>1 DEF LevelNodes, Bare
  <1>5. Len(r) = LevelAt(f, lo, g) + LevelSize(Last(f.levels))
    BY <1>1
  <1>6. Chain(r, lo + 1, Len(r))
    <2> SUFFICES ASSUME NEW j \in (lo + 1)..(Len(r) - 1) PROVE r[j + 1].parent = r[j].id
      BY DEF Chain
    <2>1. ~g.closed /\ (j = lo + 1 \/ j = lo + 2)
      OBVIOUS
    <2>2. CASE j = lo + 1
      <3>1. j + 1 = lo + 2
        BY <2>2
      <3>2. QED
        BY <2>1, <2>2, <3>1
    <2>3. CASE j = lo + 2
      <3>1. j + 1 = lo + 3
        BY <2>3
      <3>2. QED
        BY <2>1, <2>3, <3>1
    <2>4. QED
      BY <2>1, <2>2, <2>3
  <1>7. QED
    BY <1>2, <1>3, <1>4, <1>5, <1>6 DEF Topmost, FrameNodes

(* The ground matters only to an implicit task.                            *)
LEMMA NodesGround ==
  ASSUME NEW fr, \A i \in 1..Len(fr) : IsContext(fr[i]), Len(fr) \in Nat,
         NEW s, NEW g, NodesOK(fr, s, g), NEW g2, IsGround(g2),
         \A i \in 1..Len(fr) : fr[i].ctx > MaxTasks => g2 = g
  PROVE  NodesOK(fr, s, g2)
  <1>1. s \in Seq(NodeRecord) /\ Matches(fr, Len(fr), s, Len(s), g)
    BY DEF NodesOK
  <1>2. Matches(fr, Len(fr), s, Len(s), g2)
    <2>1. Len(s) \in Nat /\ \A j \in 1..Len(s) : s[j] = s[j]
      BY <1>1
    <2>2. QED
      BY <1>1, <2>1, SameMatch
  <1>3. QED
    BY <1>1, <1>2 DEF NodesOK

(* A step of the region handlers on thread t, in a region.                 *)
LEMMA TeamStep ==
  ASSUME StacksInv, NEW t \in Threads, TeamInv', abort' = "no", Active, Active',
         NEW fr, frames' = [frames EXCEPT ![t] = fr],
         \A u \in Threads \ {t} : /\ last_nodes'[u] = last_nodes[u] /\ pc'[u] = pc[u]
                                  /\ u \in released' <=> u \in released
                                  /\ InPhase(u) => PhaseNode(barrierCount[u])'
                                                     = PhaseNode(barrierCount[u]),
         UNCHANGED <<team, num_threads, region_nodes, firstDispatch, tasks, taskMap, blocks>>,
         NEW b \in BOOLEAN,
         counting' = counting \/ counting' = [counting EXCEPT ![t] = b],
         ThreadOK(t)', RunningInv', JoinInv', LogsSteps'
  PROVE  StacksInv'
  <1>1. \A u \in Threads : ThreadOK(u)'
    <2> SUFFICES ASSUME NEW u \in Threads PROVE ThreadOK(u)'
      OBVIOUS
    <2>1. CASE u = t
      BY <2>1
    <2>2. CASE u # t
      <3>1. frames'[u] = frames[u]
        BY <2>2 DEF StacksInv
      <3>2. Orphan(u)' <=> Orphan(u)
        BY DEF Orphan
      <3>3. ThreadOK(u)
        BY DEF StacksInv
      <3>4. QED
        BY <2>2, <3>1, <3>2, <3>3, ThreadKept
    <2>3. QED
      BY <2>1, <2>2
  <1>2. frames' = [u \in Threads |-> frames'[u]]
    BY DEF StacksInv
  <1>3. RecordsInv'
    BY RecordsKept DEF StacksInv
  <1>4. HistoryInv'
    <2>1. counting' \in [Threads -> BOOLEAN]
      BY DEF StacksInv, HistoryInv
    <2>2. QED
      BY <2>1 DEF StacksInv, HistoryInv, LogsSteps
  <1>5. QED
    BY <1>1, <1>2, <1>3, <1>4 DEF StacksInv

(* What the handlers of regions have in common.                            *)
LEMMA ContextsHere ==
  ASSUME StacksInv, NEW t \in Threads, NEW fr, frames' = [frames EXCEPT ![t] = fr]
  PROVE  frames'[t] = fr
  BY DEF StacksInv

LEMMA MasterWasIn ==
  ASSUME JoinInv, NEW t \in Threads, pc[t] \in {"work", "locking", "barrier"},
         pc'[t] \in InRegionControl, \A u \in Threads \ {t} : pc'[u] = pc[u]
  PROVE  ~MasterIsOut /\ ~MasterIsOut'
  <1>1. ~MasterIsOut
    BY DEF JoinInv
  <1>2. Master \in Threads
    BY RegionAssumption DEF Threads, Master
  <1>3. pc'[Master] \notin {"ended", "spin", "idle", "done"}
    BY <1>1, <1>2 DEF MasterIsOut, InRegionControl
  <1>4. QED
    BY <1>1, <1>3 DEF MasterIsOut

(* The step before a barrier: the phase is closed.                         *)
LEMMA BarrierBeginStep ==
  ASSUME WaitsAreThere, StacksInv, TypeOK', NEW t \in Threads, TPBarrierBegin(t)
  PROVE  StacksInv'
  <1> DEFINE s == last_nodes[t]
             r == Pop(Pop(s))
             fr == frames[t]
             f == Cur(t)
             f2 == WithStep(t)
             g == Ground(t)
             g2 == [closed |-> TRUE, region |-> region_nodes[1], phase |-> Root]
  <1>1. /\ InRegionCode(t) /\ f.ctx = Implicit(t) /\ Len(f.levels) = 1
        /\ BarrierBegin(t) /\ pc[t] = "work" /\ arrived[t] < BarriersDue
        /\ TeamInv /\ TypeOK /\ JoinInv /\ RunningInv
    BY DEF TPBarrierBegin, InImplicitBody, AtBody, BarrierBegin, StacksInv, TeamInv
  <1>2. InWork(t) /\ ~f.waiting /\ fr # <<>>
    BY <1>1, CodeWhere DEF InWork
  <1>3. Bare(f)
    <2>1. ~Here(t).unwaited
      BY DEF TPBarrierBegin, Waited, WaitsAreThere
    <2>2. Here(t) = f.levels[1]
      BY <1>1 DEF Here, Last
    <2>3. QED
      BY <1>1, <2>1, <2>2 DEF Bare
  <1>4. /\ Len(fr) = Depth(t) + 1 /\ Len(fr) \in Nat \ {0}
        /\ IsContext(f) /\ f.ctx > MaxTasks
        /\ FramesOK(t, fr, pc[t], NoTaskHere(t), firstDispatch[t])
        /\ \A i \in 1..(Len(fr) - 1) : ~(fr[i].ctx > MaxTasks)
        /\ t \in Team /\ t \notin released /\ ~Held(t) /\ f = Last(fr)
    BY <1>1, <1>2, ImplicitOnTop DEF Cur
  <1>5. PICK lo \in 0..Len(s) : Matches(fr, Len(fr) - 1, s, lo, g) /\ Topmost(f, s, lo, g)
    BY <1>2, WorkStack
  <1>6. /\ s \in Seq(NodeRecord) /\ lo \in Nat /\ Len(s) = lo + 3
        /\ s[lo + 1] = region_nodes[1]
        /\ s[lo + 2] = PhaseNode(barrierCount[t]) /\ PlainAsync(s[lo + 3])
    <2>1. g = [closed |-> FALSE, region |-> region_nodes[1], phase |-> PhaseNode(barrierCount[t])]
      BY <1>1 DEF Ground, InRegionControl
    <2>2. ~g.closed /\ g.region = region_nodes[1] /\ g.phase = PhaseNode(barrierCount[t])
      BY <2>1
    <2> HIDE DEF g, s, f
    <2>3. QED
      BY <1>3, <1>4, <1>5, <2>2, BareNodes
  <1>7. /\ r \in Seq(NodeRecord) /\ Len(r) = lo + 1 /\ Keeps(r, s, lo + 1)
        /\ Top(s) = s[lo + 3] /\ Top(Pop(s)) = s[lo + 2]
    <2>a. \A x \in Seq(NodeRecord) : Len(x) > 0 =>
            /\ Pop(x) \in Seq(NodeRecord) /\ Len(Pop(x)) = Len(x) - 1 /\ Top(x) = x[Len(x)]
            /\ \A i \in 1..(Len(x) - 1) : Pop(x)[i] = x[i]
      BY PopStack
    <2>b. /\ lo + 3 > 0 /\ lo + 3 - 1 = lo + 2 /\ lo + 2 > 0 /\ lo + 2 - 1 = lo + 1
          /\ s \in Seq(NodeRecord) /\ Len(s) = lo + 3
      BY <1>6
    <2> HIDE DEF s
    <2>c. lo \in Nat /\ Len(s) > 0
      BY <1>6
    <2>d. /\ Pop(s) \in Seq(NodeRecord) /\ Len(Pop(s)) = Len(s) - 1 /\ Top(s) = s[Len(s)]
          /\ \A i \in 1..(Len(s) - 1) : Pop(s)[i] = s[i]
      <3>1. s \in Seq(NodeRecord) /\ Len(s) > 0
        BY <2>b, <2>c
      <3>2. QED
        BY ONLY <2>a, <3>1, Zenon
    <2>1. /\ Pop(s) \in Seq(NodeRecord) /\ Len(Pop(s)) = lo + 2 /\ Top(s) = s[lo + 3]
          /\ \A i \in 1..(lo + 2) : Pop(s)[i] = s[i]
      <3>1. Len(s) = lo + 3 /\ Len(s) - 1 = lo + 2
        BY ONLY <2>b, <2>c
      <3>2. QED
        BY ONLY <2>d, <3>1
    <2>e. /\ r \in Seq(NodeRecord) /\ Len(r) = Len(Pop(s)) - 1 /\ Top(Pop(s)) = Pop(s)[Len(Pop(s))]
          /\ \A i \in 1..(Len(Pop(s)) - 1) : r[i] = Pop(s)[i]
      <3>1. Pop(s) \in Seq(NodeRecord) /\ Len(Pop(s)) > 0
        BY ONLY <2>1, <2>b, <2>c
      <3>2. QED
        BY ONLY <2>a, <3>1, Zenon
    <2>2. /\ r \in Seq(NodeRecord) /\ Len(r) = lo + 1 /\ Top(Pop(s)) = Pop(s)[lo + 2]
          /\ \A i \in 1..(lo + 1) : r[i] = Pop(s)[i]
      <3>1. Len(Pop(s)) = lo + 2 /\ Len(Pop(s)) - 1 = lo + 1
        BY ONLY <2>1, <2>c
      <3>2. QED
        BY ONLY <2>e, <3>1
    <2>3. lo + 2 \in 1..(lo + 2) /\ \A i \in 1..(lo + 1) : i \in 1..(lo + 2)
      BY <1>6
    <2>4. QED
      BY <2>1, <2>2, <2>3 DEF Keeps
  <1>8. abort' = "no"
    <2>1. Top(s).type = "ASYNC"
      BY <1>6, <1>7 DEF PlainAsync
    <2>2. Top(Pop(s)).type = "FINISH"
      BY <1>1, <1>6, <1>7, InTeam DEF InPhase
    <2>3. QED
      BY <2>1, <2>2 DEF TPBarrierBegin, BarrierBegin, Require
  <1>9. /\ steps' = steps \union {NewStep(node_ctr + 1, s)}
        /\ last_nodes' = [last_nodes EXCEPT ![t] = r]
        /\ pc' = [pc EXCEPT ![t] = "locking"]
        /\ UNCHANGED <<barrierCount, pendingFinish, team, num_threads, released, region_nodes,
                       arrived, barriers>>
    BY <1>1 DEF BarrierBegin
  <1>10. TeamInv' /\ Active /\ Active'
    BY <1>1, BarrierBeginTeam
  <1>11. IsContext(f2) /\ f2.ctx = f.ctx /\ f2.waiting = f.waiting /\ f2.levels = f.levels
    BY <1>4, WithStepContext
  <1>12. frames' = [frames EXCEPT ![t] = WithLast(fr, f2)]
    BY DEF TPBarrierBegin, SetFrame, WithLast
  <1>13. /\ \A u \in Threads : pc'[u] = IF u = t THEN "locking" ELSE pc[u]
         /\ last_nodes'[t] = r /\ \A u \in Threads \ {t} : last_nodes'[u] = last_nodes[u]
    BY <1>1, <1>9 DEF TypeOK
  <1> DEFINE u == WithLast(fr, f2)
  <1>14. frames'[t] = u
    BY <1>12, ContextsHere
  <1>15. IsGround(g2) /\ Ground(t)' = g2
    <2>1. ~region_nodes[1].finish_flag
      <3>1. 1 \in 1..2
        OBVIOUS
      <3>2. QED
        BY <1>1, <3>1 DEF TeamInv, NodeInv
    <2>2. pc'[t] = "locking" /\ region_nodes' = region_nodes
      BY <1>9, <1>13
    <2>3. QED
      BY <2>1, <2>2 DEF IsGround, Ground, InRegionControl
  <1>16. FramesOK(t, u, "locking", NoTaskHere(t)', firstDispatch[t])
    <2>1. ImplicitOK(t, f2, "locking", firstDispatch[t])
      BY <1>1, <1>2, <1>3, <1>11 DEF ImplicitOK, Bare
    <2>2. FramesOK(t, fr, "locking", NoTaskHere(t)', firstDispatch[t])
      <3>1. Ours(t, "locking") = Ours(t, pc[t]) /\ Len(fr) = Ours(t, "locking")
        BY <1>1, <1>4 DEF Ours, InRegionControl
      <3>2. ImplicitOK(t, f, "locking", firstDispatch[t])
        BY <1>1, <1>2, <1>3 DEF ImplicitOK, Bare
      <3>3. f = fr[Depth(t) + 1]
        BY <1>4 DEF Last
      <3>4. QED
        BY <1>4, <3>1, <3>2, <3>3, FramesMove
    <2>3. u = WithLast(fr, f2) /\ f2.ctx = Last(fr).ctx
      BY <1>4, <1>11
    <2> HIDE DEF u, f2, fr
    <2>4. QED
      BY <1>2, <1>11, <2>1, <2>2, <2>3, FramesReplace
  <1>17. NodesOK(u, r, g2)
    <2>1. /\ IsSequence(fr) /\ \A i \in 1..Len(fr) : IsContext(fr[i])
      BY <1>4 DEF FramesOK
    <2>2. Topmost(f2, r, lo, g2)
      <3>1. g2.closed /\ g2.region = region_nodes[1]
        OBVIOUS
      <3>2. r[lo + 1] = s[lo + 1] /\ f2.ctx > MaxTasks /\ Bare(f2)
        <4>1. lo + 1 \in 1..(lo + 1)
          BY <1>6
        <4>2. QED
          BY <1>3, <1>4, <1>7, <1>11, <4>1 DEF Keeps, Bare
      <3> HIDE DEF g2, f2, r
      <3>3. QED
        BY <1>6, <1>7, <1>11, <1>15, <3>1, <3>2, BareTop
    <2>3. Matches(fr, Len(fr) - 1, s, lo, g2)
      <3>1. /\ Len(fr) - 1 \in Nat
            /\ \A i \in 1..(Len(fr) - 1) : IsContext(fr[i]) /\ fr[i] = fr[i]
            /\ \A j \in 1..lo : s[j] = s[j]
        BY <1>4, <2>1
      <3> HIDE DEF g, g2, fr, s
      <3>2. QED
        BY <1>4, <1>5, <1>6, <3>1, SameMatch
    <2>4. Keeps(r, s, lo)
      BY <1>6, <1>7 DEF Keeps
    <2>5. u = WithLast(fr, f2)
      OBVIOUS
    <2> HIDE DEF u, fr, f2, r, g2, s
    <2>6. QED
      BY <1>2, <1>6, <2>1, <2>2, <2>3, <2>4, <2>5, StackReplaced
  <1>18. ThreadOK(t)'
    <2>1. firstDispatch' = firstDispatch
      BY DEF TPBarrierBegin, Untouched
    <2>2. FramesInv(t)'
      BY <1>13, <1>14, <1>16, <2>1 DEF FramesInv
    <2>3. NodesOK(frames'[t], last_nodes'[t], Ground(t)')
      BY <1>13, <1>14, <1>15, <1>17
    <2>4. ~Held(t)'
      <3>1. team' = team /\ team \in Nat /\ released' = released
        BY <1>1, <1>9, TeamType
      <3>2. QED
        BY <1>4, <3>1 DEF Held, Orphan, Team
    <2>5. QED
      BY <2>2, <2>3, <2>4 DEF ThreadOK, StackInv
  <1>19. RunningInv'
    <2>1. RunOn
      BY RecordsKept DEF TPBarrierBegin, Untouched, StacksInv
    <2>2. QED
      BY <1>2, <1>11, <1>12, <2>1, RunningReplace
  <1>20. JoinInv'
    <2>1. ~MasterIsOut'
      BY <1>1, <1>13, MasterWasIn DEF InRegionControl
    <2>2. BarriersDue' = BarriersDue /\ arrived' = arrived /\ Team' = Team /\ team' = team
      BY <1>9 DEF BarriersDue, Team
    <2>3. Team \subseteq Threads
      BY <1>1, TeamType
    <2>4. QED
      BY <1>1, <1>9, <1>13, <2>1, <2>2, <2>3 DEF JoinInv
  <1>21. LogsSteps'
    <2>1. LogsSteps
      BY DEF StacksInv, HistoryInv, LogsSteps
    <2>2. log' = log \union {Entry(node_ctr + 1, last_nodes[t], t, Cur(t).past)}
      BY DEF TPBarrierBegin, Log
    <2>3. QED
      BY <1>9, <2>1, <2>2, LogOne
  <1>22. /\ UNCHANGED <<team, num_threads, region_nodes, firstDispatch, tasks, taskMap, blocks>>
         /\ counting' = [counting EXCEPT ![t] = FALSE]
    BY <1>9 DEF TPBarrierBegin, Untouched, Count
  <1>23. \A v \in Threads \ {t} : /\ last_nodes'[v] = last_nodes[v] /\ pc'[v] = pc[v]
                                  /\ v \in released' <=> v \in released
                                  /\ PhaseNode(barrierCount[v])' = PhaseNode(barrierCount[v])
    BY <1>9, <1>13 DEF PhaseNode
  <1> HIDE DEF u
  <1>24. QED
    BY <1>8, <1>10, <1>12, <1>18, <1>19, <1>20, <1>21, <1>22, <1>23, TeamStep DEF u

(* A thread in captureBarrierBegin, before it has the mutex.               *)
LEMMA LockingStack ==
  ASSUME StacksInv, NEW t \in Threads, pc[t] = "locking"
  PROVE  LET s  == last_nodes[t]
             fr == frames[t] IN
         /\ fr # <<>> /\ Len(fr) = Depth(t) + 1 /\ IsSequence(fr)
         /\ \A i \in 1..Len(fr) : IsContext(fr[i])
         /\ \A i \in 1..(Len(fr) - 1) : ~(fr[i].ctx > MaxTasks)
         /\ Cur(t) = fr[Depth(t) + 1] /\ Cur(t) = Last(fr)
         /\ Cur(t).ctx > MaxTasks /\ Bare(Cur(t)) /\ ~Cur(t).waiting
         /\ Cur(t).ctx = Implicit(t)
         /\ s \in Seq(NodeRecord) /\ Len(s) \in Nat \ {0}
         /\ s[Len(s)] = region_nodes[1] /\ Top(s) = region_nodes[1]
         /\ Matches(fr, Len(fr) - 1, s, Len(s) - 1, Ground(t))
         /\ t \in Team /\ t \notin released /\ ~Held(t)
  <1> DEFINE s == last_nodes[t]
             fr == frames[t]
             g == Ground(t)
             f == Cur(t)
  <1>1. FramesOK(t, fr, pc[t], NoTaskHere(t), firstDispatch[t]) /\ NoTaskHere(t)
    BY DEF StacksInv, ThreadOK, FramesInv, NoTaskHere
  <1>2. Len(fr) = Depth(t) + 1 /\ Depth(t) \in {0, 1} /\ IsSequence(fr)
    BY <1>1 DEF FramesOK, Ours, InRegionControl, Depth
  <1>3. fr # <<>> /\ f = fr[Depth(t) + 1] /\ f = Last(fr)
    BY <1>2, LengthType DEF Cur, Last
  <1>4. ImplicitOK(t, f, "locking", firstDispatch[t])
    BY <1>1, <1>3 DEF FramesOK, InRegionControl
  <1>5. f.ctx = Implicit(t) /\ Bare(f) /\ ~f.waiting
    BY <1>4 DEF ImplicitOK, Bare
  <1>6. /\ f.ctx > MaxTasks /\ t \in Team /\ t \notin released /\ ~Held(t)
        /\ \A i \in 1..(Len(fr) - 1) : ~(fr[i].ctx > MaxTasks)
    BY <1>3, <1>5, ImplicitOnTop
  <1>7. PICK lo \in 0..Len(s) : Matches(fr, Len(fr) - 1, s, lo, g) /\ Topmost(f, s, lo, g)
    BY <1>3, <1>6, TopOfStack
  <1>8. g.closed /\ g.region = region_nodes[1]
    BY DEF Ground, InRegionControl
  <1>9. s \in Seq(NodeRecord) /\ lo \in Nat /\ Len(s) = lo + 1 /\ s[lo + 1] = region_nodes[1]
    <2> HIDE DEF g, s, f, fr
    <2>1. QED
      BY <1>5, <1>6, <1>7, <1>8, BareNodes
  <1>10. Top(s) = s[Len(s)] /\ lo = Len(s) - 1
    BY <1>9, PopStack
  <1>11. \A i \in 1..Len(fr) : IsContext(fr[i])
    BY <1>1 DEF FramesOK
  <1>12. QED
    BY <1>2, <1>3, <1>5, <1>6, <1>7, <1>9, <1>10, <1>11

(* A thread arrives at a barrier: the next phase is open.                  *)
LEMMA ArriveStep ==
  ASSUME StacksInv, TeamInv', abort' = "no", Active, Active',
         NEW t \in Threads, pc[t] = "locking", Arrive(t),
         NEW n \in NodeRecord, NEW a \in NodeRecord, PlainAsync(a),
         n.parent = region_nodes[1].id, a.parent = n.id,
         last_nodes' = [last_nodes EXCEPT ![t] = @ \o <<n, a>>],
         PhaseNode(barrierCount[t])' = n,
         \A u \in Threads \ {t} : InPhase(u) =>
            PhaseNode(barrierCount[u])' = PhaseNode(barrierCount[u]),
         UNCHANGED <<frames, steps, log, counting, released, barriers>>,
         UNCHANGED <<team, num_threads, region_nodes, firstDispatch, tasks, taskMap, blocks>>
  PROVE  StacksInv'
  <1> DEFINE s == last_nodes[t]
             r == s \o <<n, a>>
             fr == frames[t]
             f == Cur(t)
             g == Ground(t)
             q == IF team > 1 /\ arrived[t] + 1 = BarriersDue THEN "join" ELSE "barrier"
             g2 == [closed |-> FALSE, region |-> region_nodes[1], phase |-> n]
  <1>1. TypeOK /\ JoinInv /\ RunningInv /\ TeamInv
    BY DEF StacksInv, TeamInv
  <1>2. /\ fr # <<>> /\ Len(fr) = Depth(t) + 1 /\ IsSequence(fr)
        /\ \A i \in 1..Len(fr) : IsContext(fr[i])
        /\ \A i \in 1..(Len(fr) - 1) : ~(fr[i].ctx > MaxTasks)
        /\ f = fr[Depth(t) + 1] /\ f = Last(fr)
        /\ f.ctx > MaxTasks /\ Bare(f) /\ ~f.waiting
        /\ f.ctx = Implicit(t)
        /\ s \in Seq(NodeRecord) /\ Len(s) \in Nat \ {0}
        /\ s[Len(s)] = region_nodes[1]
        /\ Matches(fr, Len(fr) - 1, s, Len(s) - 1, g)
        /\ t \in Team /\ t \notin released
    BY LockingStack
  <1>3. /\ \A u \in Threads : pc'[u] = IF u = t THEN q ELSE pc[u]
        /\ \A u \in Threads : arrived'[u] = IF u = t THEN arrived[t] + 1 ELSE arrived[u]
    BY <1>1 DEF Arrive, TypeOK
  <1>4. last_nodes'[t] = r /\ \A u \in Threads \ {t} : last_nodes'[u] = last_nodes[u]
    BY <1>1 DEF TypeOK
  <1>5. IsGround(g2) /\ Ground(t)' = g2
    <2>1. ~region_nodes[1].finish_flag
      <3>1. 1 \in 1..2
        OBVIOUS
      <3>2. QED
        BY <1>1, <3>1 DEF TeamInv, NodeInv
    <2>2. pc'[t] \in {"join", "barrier"} /\ region_nodes' = region_nodes
      BY <1>3
    <2>3. QED
      BY <2>1, <2>2 DEF IsGround, Ground, InRegionControl
  <1>6. FramesOK(t, fr, q, NoTaskHere(t)', firstDispatch[t])
    <2>1. FramesOK(t, fr, pc[t], NoTaskHere(t), firstDispatch[t])
      BY DEF StacksInv, ThreadOK, FramesInv
    <2>2. Ours(t, q) = Ours(t, pc[t]) /\ Len(fr) = Ours(t, q)
      BY <1>2 DEF Ours, InRegionControl
    <2>3. ImplicitOK(t, fr[Depth(t) + 1], q, firstDispatch[t])
      BY <1>2 DEF ImplicitOK, Bare
    <2> HIDE DEF q, fr
    <2>4. QED
      BY <2>1, <2>2, <2>3, FramesMove
  <1>7. /\ r \in Seq(NodeRecord) /\ Len(r) = Len(s) + 2
        /\ \A i \in 1..Len(s) : r[i] = s[i]
        /\ r[Len(s) + 1] = n /\ r[Len(s) + 2] = a
    BY <1>2, PushTwo
  <1>8. NodesOK(fr, r, g2)
    <2> DEFINE lo == Len(s) - 1
    <2>1. /\ lo \in Nat /\ Len(s) = lo + 1 /\ Len(s) + 1 = lo + 2 /\ Len(s) + 2 = lo + 3
          /\ Len(s) \in 1..Len(s)
      BY <1>2
    <2>2. ~g2.closed /\ g2.region = region_nodes[1] /\ g2.phase = n
      OBVIOUS
    <2>0. IsContext(f)
      <3>1. Len(fr) \in 1..Len(fr) /\ f = fr[Len(fr)]
        BY <1>2, LengthType DEF Last
      <3> HIDE DEF f, fr
      <3>2. QED
        BY <1>2, <3>1
    <2> HIDE DEF lo, g2, r, f, s
    <2>3. Topmost(f, r, lo, g2)
      <3>1. Len(r) = lo + 3 /\ r[lo + 1] = region_nodes[1] /\ r[lo + 2] = n /\ r[lo + 3] = a
        BY <1>2, <1>7, <2>1
      <3>2. QED
        BY <1>2, <1>5, <1>7, <2>0, <2>1, <2>2, <3>1, BareTop
    <2>4. Matches(fr, Len(fr) - 1, s, lo, g2)
      <3>1. /\ Len(fr) - 1 \in Nat
            /\ \A i \in 1..(Len(fr) - 1) : IsContext(fr[i]) /\ fr[i] = fr[i]
            /\ \A j \in 1..lo : s[j] = s[j]
        BY <1>2, LengthType
      <3>2. Matches(fr, Len(fr) - 1, s, lo, g)
        BY <1>2 DEF lo
      <3> HIDE DEF g, fr
      <3>3. QED
        BY <1>2, <2>1, <3>1, <3>2, SameMatch
    <2>5. Keeps(r, s, lo)
      BY <1>7, <2>1 DEF Keeps
    <2>6. WithLast(fr, f) = fr
      <3>1. fr = [i \in DOMAIN fr |-> fr[i]] /\ f = fr[Len(fr)]
        BY <1>2 DEF IsSequence, Last
      <3> HIDE DEF fr
      <3>2. QED
        BY <3>1 DEF WithLast
    <2> HIDE DEF fr, g
    <2>7. QED
      BY <1>2, <2>1, <2>3, <2>4, <2>5, <2>6, StackReplaced
  <1>9. ThreadOK(t)'
    <2>1. FramesInv(t)'
      BY <1>3, <1>6 DEF FramesInv
    <2>2. NodesOK(frames'[t], last_nodes'[t], Ground(t)')
      BY <1>4, <1>5, <1>8
    <2>3. ~Held(t)'
      <3>1. team \in Nat
        BY <1>1, TeamType
      <3>2. team' = team /\ released' = released
        OBVIOUS
      <3>3. QED
        BY <1>2, <3>1, <3>2 DEF Held, Orphan, Team
    <2>4. QED
      BY <2>1, <2>2, <2>3 DEF ThreadOK, StackInv
  <1>10. RunningInv'
    <2>1. RunOn
      BY RecordsKept DEF StacksInv
    <2>2. QED
      BY <1>1, <2>1, RunningKept
  <1>11. JoinInv'
    <2>1. ~MasterIsOut'
      BY <1>1, <1>3, MasterWasIn DEF InRegionControl
    <2>2. BarriersDue' = BarriersDue /\ Team' = Team /\ team' = team
      BY DEF BarriersDue, Team
    <2>3. /\ Team \subseteq Threads /\ arrived[t] \in Nat /\ BarriersDue \in Nat /\ team \in Nat
      BY <1>1, TeamType
    <2>4. \A u \in Team : team > 1 /\ (u \in released \/ pc'[u] \in {"work", "locking", "barrier"})
                            => arrived'[u] < BarriersDue
      <3> SUFFICES ASSUME NEW u \in Team, team > 1,
                          u \in released \/ pc'[u] \in {"work", "locking", "barrier"}
                   PROVE  arrived'[u] < BarriersDue
        OBVIOUS
      <3>1. CASE u = t
        <4>1. pc'[t] = q /\ arrived'[t] = arrived[t] + 1 /\ q # "join"
          BY <1>2, <1>3, <3>1
        <4>2. arrived[t] + 1 # BarriersDue
          BY <4>1
        <4>3. arrived[t] < BarriersDue
          BY <1>1, <1>2 DEF JoinInv
        <4>4. QED
          BY <2>3, <3>1, <4>1, <4>2, <4>3
      <3>2. CASE u # t
        BY <1>1, <1>3, <2>3, <3>2 DEF JoinInv
      <3>3. QED
        BY <3>1, <3>2
    <2>5. QED
      BY <2>1, <2>2, <2>4 DEF JoinInv
  <1>12. LogsSteps'
    BY DEF StacksInv, HistoryInv, LogsSteps
  <1>13. frames' = [frames EXCEPT ![t] = fr]
    BY DEF StacksInv
  <1>14. \A v \in Threads \ {t} : /\ last_nodes'[v] = last_nodes[v] /\ pc'[v] = pc[v]
                                  /\ v \in released' <=> v \in released
    BY <1>3, <1>4
  <1> HIDE DEF fr
  <1>15. QED
    BY <1>9, <1>10, <1>11, <1>12, <1>13, <1>14, TeamStep

LEMMA BarrierArriveStep ==
  ASSUME StacksInv, TypeOK', NEW t \in Threads, TPBarrierArrive(t)
  PROVE  StacksInv'
  <1>1. /\ TypeOK /\ TeamInv /\ abort = "no" /\ node_ctr \in Nat
        /\ region_nodes[1] \in NodeRecord
    BY DEF StacksInv, TeamInv, TypeOK
  <1>2. UNCHANGED <<frames, log, counting, firstDispatch, tasks, taskMap, blocks>>
    BY DEF TPBarrierArrive, Untouched
  <1>3. CASE BarrierFirst(t)
    <2> DEFINE n == NewNode(node_ctr + 1, "FINISH", Top(last_nodes[t]))
               a == NewNode(node_ctr + 2, "ASYNC", n)
    <2>1. pc[t] = "locking" /\ Arrive(t)
          /\ last_nodes' = [last_nodes EXCEPT ![t] = @ \o <<n, a>>]
          /\ UNCHANGED <<steps, released, barriers, team, num_threads, region_nodes>>
          /\ \A u \in Threads \ {t} : barrierCount'[u] = barrierCount[u]
      BY <1>1, <1>3 DEF BarrierFirst, TypeOK
    <2>2. Top(last_nodes[t]) = region_nodes[1]
      BY <2>1, LockingStack
    <2>3. /\ TeamInv' /\ abort' = "no" /\ Active /\ Active'
          /\ PhaseNode(barrierCount[t])' = n
          /\ \A k \in 0..Len(pendingFinish) : PhaseNode(k)' = PhaseNode(k)
      BY <1>1, <1>3, <2>2, BarrierFirstTeam
    <2>4. n \in NodeRecord /\ a \in NodeRecord /\ PlainAsync(a)
          /\ n.parent = region_nodes[1].id /\ a.parent = n.id
      <3>1. node_ctr + 1 \in Nat /\ node_ctr + 2 \in Nat
        BY <1>1
      <3>2. n \in NodeRecord
        BY <1>1, <2>2, <3>1, NewNodeType
      <3>3. a \in NodeRecord
        BY <3>1, <3>2, NewNodeType
      <3>4. QED
        BY <2>2, <3>2, <3>3 DEF NewNode, PlainAsync
    <2>5. \A u \in Threads \ {t} : InPhase(u) =>
            PhaseNode(barrierCount[u])' = PhaseNode(barrierCount[u])
      <3> SUFFICES ASSUME NEW u \in Threads \ {t}, InPhase(u)
                   PROVE  PhaseNode(barrierCount[u])' = PhaseNode(barrierCount[u])
        OBVIOUS
      <3>1. barrierCount[u] \in 0..Len(pendingFinish) /\ barrierCount'[u] = barrierCount[u]
        BY <1>1, <2>1, InTeam
      <3>2. QED
        BY <2>3, <3>1 DEF PhaseNode
    <2> HIDE DEF n, a
    <2>6. QED
      BY <1>2, <2>1, <2>3, <2>4, <2>5, ArriveStep
  <1>4. CASE BarrierOther(t)
    <2> DEFINE n == LeftNode(barrierCount[t] + 1)
               a == NewNode(node_ctr + 1, "ASYNC", n)
    <2>1. pc[t] = "locking" /\ Arrive(t)
          /\ last_nodes' = [last_nodes EXCEPT ![t] = @ \o <<n, a>>]
          /\ UNCHANGED <<steps, released, barriers, team, num_threads, region_nodes>>
          /\ \A u \in Threads \ {t} : barrierCount'[u] = barrierCount[u]
      BY <1>1, <1>4 DEF BarrierOther, TypeOK
    <2>3. /\ TeamInv' /\ abort' = "no" /\ Active /\ Active'
          /\ PhaseNode(barrierCount[t])' = n
          /\ n \in NodeRecord /\ n.parent = region_nodes[1].id
          /\ \A k \in 0..Len(pendingFinish) : PhaseNode(k)' = PhaseNode(k)
      BY <1>1, <1>4, BarrierOtherTeam
    <2>4. a \in NodeRecord /\ PlainAsync(a) /\ a.parent = n.id
      <3>1. node_ctr + 1 \in Nat
        BY <1>1
      <3>2. a \in NodeRecord
        BY <2>3, <3>1, NewNodeType
      <3>3. QED
        BY <3>2 DEF NewNode, PlainAsync
    <2>5. \A u \in Threads \ {t} : InPhase(u) =>
            PhaseNode(barrierCount[u])' = PhaseNode(barrierCount[u])
      <3> SUFFICES ASSUME NEW u \in Threads \ {t}, InPhase(u)
                   PROVE  PhaseNode(barrierCount[u])' = PhaseNode(barrierCount[u])
        OBVIOUS
      <3>1. barrierCount[u] \in 0..Len(pendingFinish) /\ barrierCount'[u] = barrierCount[u]
        BY <1>1, <2>1, InTeam
      <3>2. QED
        BY <2>3, <3>1 DEF PhaseNode
    <2> HIDE DEF n, a
    <2>6. QED
      BY <1>2, <2>1, <2>3, <2>4, <2>5, ArriveStep
  <1>5. QED
    BY <1>3, <1>4 DEF TPBarrierArrive

(* The barrier is over: what the thread has done before is its past.       *)
LEMMA BarrierEndStep ==
  ASSUME StacksInv, TypeOK', NEW t \in Threads, TPBarrierEnd(t)
  PROVE  StacksInv'
  <1> DEFINE s == last_nodes[t]
             fr == frames[t]
             f == Cur(t)
             g == Ground(t)
  <1>1. /\ BarrierEnd(t) /\ pc[t] = "barrier" /\ f.ctx = Implicit(t) /\ fr # <<>>
        /\ TypeOK /\ TeamInv /\ JoinInv /\ RunningInv /\ abort = "no"
    BY DEF TPBarrierEnd, BarrierEnd, StacksInv, TeamInv
  <1>2. PICK x : frames' = [frames EXCEPT ![t] = WithLast(fr, [f EXCEPT !.past = x])]
    BY DEF TPBarrierEnd, SetFrame, WithLast
  <1> DEFINE f2 == [f EXCEPT !.past = x]
             u == WithLast(fr, f2)
  <1>3. /\ Len(fr) = Depth(t) + 1 /\ Len(fr) \in Nat \ {0} /\ f = fr[Depth(t) + 1]
        /\ IsContext(f) /\ ImplicitOK(t, f, pc[t], firstDispatch[t])
        /\ FramesOK(t, fr, pc[t], NoTaskHere(t), firstDispatch[t])
        /\ t \in Team /\ t \notin released /\ ~Held(t)
    BY <1>1, ImplicitOnTop
  <1>4. PICK lo \in 0..Len(s) : Matches(fr, Len(fr) - 1, s, lo, g) /\ Topmost(f, s, lo, g)
    BY <1>1, <1>3, TopOfStack
  <1>5. IsContext(f2) /\ f2.ctx = f.ctx /\ f2.waiting = f.waiting /\ f2.levels = f.levels
    <2>1. IsContext(f)
      BY <1>3
    <2> HIDE DEF f
    <2>2. f2 = [f EXCEPT !.past = x]
      OBVIOUS
    <2> HIDE DEF f2
    <2>3. QED
      BY <2>1, <2>2, ContextPast
  <1>6. /\ UNCHANGED profiler /\ abort' = "no"
        /\ UNCHANGED <<released, team, barriers, arrived, region_nodes>>
        /\ pc' = [pc EXCEPT ![t] = "work"]
    BY <1>1 DEF BarrierEnd, profiler
  <1>7. /\ UNCHANGED <<last_nodes, steps, num_threads, barrierCount, pendingFinish>>
        /\ \A v \in Threads : pc'[v] = IF v = t THEN "work" ELSE pc[v]
    BY <1>1, <1>6 DEF profiler, TypeOK
  <1>8. frames' = [frames EXCEPT ![t] = u]
    BY <1>2
  <1> HIDE DEF f2
  <1>9. frames'[t] = u
    BY <1>8, ContextsHere
  <1>10. TeamInv' /\ Active /\ Active'
    BY <1>1, LeaveBarrierTeam
  <1>11. NodesOK(u, s, g)
    <2>1. /\ IsSequence(fr) /\ \A i \in 1..Len(fr) : IsContext(fr[i])
      BY <1>3 DEF FramesOK
    <2>2. Topmost(f2, s, lo, g) /\ Keeps(s, s, lo) /\ lo \in Nat
      BY <1>4, <1>5, NodesSame DEF Keeps
    <2>3. u = WithLast(fr, f2)
      OBVIOUS
    <2> HIDE DEF u, fr, s, g
    <2>4. QED
      BY <1>1, <1>4, <2>1, <2>2, <2>3, StackReplaced
  <1>12. FramesOK(t, u, "work", NoTaskHere(t)', firstDispatch[t])
    <2>1. ImplicitOK(t, f2, "work", firstDispatch[t])
      BY <1>1, <1>3, <1>5 DEF ImplicitOK
    <2>2. FramesOK(t, fr, "work", NoTaskHere(t)', firstDispatch[t])
      <3>1. Ours(t, "work") = Ours(t, pc[t]) /\ Len(fr) = Ours(t, "work")
        BY <1>1, <1>3 DEF Ours, InRegionControl
      <3>2. ImplicitOK(t, fr[Depth(t) + 1], "work", firstDispatch[t])
        BY <1>1, <1>3 DEF ImplicitOK
      <3>3. QED
        BY <1>3, <3>1, <3>2, FramesMove
    <2>3. u = WithLast(fr, f2) /\ f2.ctx = Last(fr).ctx
      BY <1>3, <1>5 DEF Last
    <2> HIDE DEF u, fr
    <2>4. QED
      BY <1>1, <1>5, <2>1, <2>2, <2>3, FramesReplace
  <1>13. ThreadOK(t)'
    <2>1. firstDispatch' = firstDispatch
      BY DEF TPBarrierEnd, Untouched
    <2>2. FramesInv(t)'
      BY <1>7, <1>9, <1>12, <2>1 DEF FramesInv
    <2>3. Ground(t)' = g
      BY <1>1, <1>6, <1>7 DEF Ground, InRegionControl, PhaseNode
    <2>4. NodesOK(frames'[t], last_nodes'[t], Ground(t)')
      BY <1>7, <1>9, <1>11, <2>3
    <2>5. ~Held(t)'
      <3>1. team' = team /\ team \in Nat /\ released' = released
        BY <1>1, <1>6, TeamType
      <3>2. QED
        BY <1>3, <3>1 DEF Held, Orphan, Team
    <2>6. QED
      BY <2>2, <2>4, <2>5 DEF ThreadOK, StackInv
  <1>14. RunningInv'
    <2>1. RunOn
      BY RecordsKept DEF TPBarrierEnd, Untouched, StacksInv
    <2> HIDE DEF f
    <2>2. frames' = [frames EXCEPT ![t] = WithLast(frames[t], f2)] /\ frames[t] # <<>>
          /\ f2.ctx = Cur(t).ctx
      BY <1>1, <1>5, <1>8 DEF f
    <2>3. QED
      BY <2>1, <2>2, RunningReplace
  <1>15. JoinInv'
    <2>1. ~MasterIsOut'
      BY <1>1, <1>7, MasterWasIn DEF InRegionControl
    <2>2. BarriersDue' = BarriersDue /\ arrived' = arrived /\ Team' = Team /\ team' = team
      BY <1>6 DEF BarriersDue, Team
    <2>3. Team \subseteq Threads
      BY <1>1, TeamType
    <2>4. QED
      BY <1>1, <1>6, <1>7, <2>1, <2>2, <2>3 DEF JoinInv
  <1>16. LogsSteps'
    BY <1>7 DEF TPBarrierEnd, StacksInv, HistoryInv, LogsSteps
  <1>17. /\ UNCHANGED <<team, num_threads, region_nodes, firstDispatch, tasks, taskMap, blocks>>
         /\ counting' = [counting EXCEPT ![t] = TRUE]
    BY <1>6, <1>7 DEF TPBarrierEnd, Untouched, Count
  <1>18. \A v \in Threads \ {t} : /\ last_nodes'[v] = last_nodes[v] /\ pc'[v] = pc[v]
                                  /\ v \in released' <=> v \in released
                                  /\ PhaseNode(barrierCount[v])' = PhaseNode(barrierCount[v])
    BY <1>6, <1>7 DEF PhaseNode
  <1> HIDE DEF u
  <1>19. QED
    BY <1>6, <1>8, <1>10, <1>13, <1>14, <1>15, <1>16, <1>17, <1>18, TeamStep

(* A thread begins its implicit task: it has no other context of its own   *)
(* than the serial code of the master.                                     *)
LEMMA FramesImplicit ==
  ASSUME NEW t \in Threads, NEW s, NEW q, NEW alone, NEW first,
         FramesOK(t, s, q, alone, first), Len(s) = Depth(t),
         NEW f, IsContext(f), f.ctx = Implicit(t), Len(f.levels) = 1,
         NEW u, u = Push(s, f), NEW alone2, ~alone2
  PROVE  FramesOK(t, u, "work", alone2, first)
  <1>1. /\ IsSequence(u) /\ Len(u) = Depth(t) + 1 /\ u[Depth(t) + 1] = f
        /\ \A i \in 1..Len(u) : i < Len(u) => i \in 1..Len(s) /\ u[i] = s[i]
    <2>1. /\ IsSequence(u) /\ Len(u) = Len(s) + 1 /\ u[Len(u)] = f
          /\ \A i \in 1..Len(u) : i < Len(u) => i \in 1..Len(s) /\ u[i] = s[i]
      BY PushLast DEF FramesOK
    <2>2. Len(u) = Depth(t) + 1
      BY <2>1
    <2>3. QED
      BY <2>1, <2>2
  <1>2. Depth(t) \in Nat /\ (t = Master => Depth(t) = 1)
    BY DEF Depth
  <1>3. Ours(t, "work") = Depth(t) + 1
    BY <1>2 DEF Ours, InRegionControl
  <1>4. \A i \in 1..Len(u) : IsContext(u[i])
    <2> SUFFICES ASSUME NEW i \in 1..Len(u) PROVE IsContext(u[i])
      OBVIOUS
    <2>1. i = Depth(t) + 1 \/ i < Len(u)
      BY <1>1, <1>2
    <2>2. QED
      BY <1>1, <2>1 DEF FramesOK
  <1>5. t = Master => u[1].ctx = SerialCode
    <2> HAVE t = Master
    <2>1. 1 \in 1..Len(u) /\ 1 < Len(u)
      BY <1>1, <1>2
    <2>2. u[1] = s[1]
      BY <1>1, <2>1
    <2>3. QED
      BY <2>2 DEF FramesOK
  <1>6. ImplicitOK(t, f, "work", first)
    BY DEF ImplicitOK
  <1>7. Len(u) >= Ours(t, "work") /\ \A i \in (Ours(t, "work") + 1)..Len(u) : IsTask(u[i].ctx)
    BY <1>1, <1>2, <1>3
  <1>8. QED
    BY <1>1, <1>4, <1>5, <1>6, <1>7 DEF FramesOK

LEMMA ImplicitTaskBeginStep ==
  ASSUME StacksInv, TypeOK', NEW t \in Threads, TPImplicitTaskBegin(t)
  PROVE  StacksInv'
  <1> DEFINE fr == frames[t]
             f == Frame(Implicit(t), frames[Master][1].past)
             u == Push(fr, f)
             r1 == region_nodes[1]
             r2 == region_nodes[2]
             a == NewNode(node_ctr + 1, "ASYNC", Top(last_nodes[t]))
             g2 == [closed |-> FALSE, region |-> r1, phase |-> r2]
  <1>1. /\ ImplicitTaskBegin(t) /\ abort = "no" /\ t \in released
        /\ pc[t] = (IF t = Master THEN "forked" ELSE "idle")
        /\ TypeOK /\ TeamInv /\ JoinInv /\ RunningInv /\ NodeInv
    BY DEF TPImplicitTaskBegin, ImplicitTaskBegin, StacksInv, TeamInv
  <1>2. /\ released' = released \ {t} /\ pc' = [pc EXCEPT ![t] = "work"]
        /\ last_nodes' = [last_nodes EXCEPT ![t] = Append(last_nodes[t], a)]
        /\ UNCHANGED <<steps, num_threads, barrierCount, pendingFinish,
                       abort, team, barriers, arrived, region_nodes>>
    BY <1>1 DEF ImplicitTaskBegin
  <1>3. /\ frames' = [frames EXCEPT ![t] = u]
        /\ UNCHANGED <<log, firstDispatch, tasks, taskMap, blocks>>
        /\ counting' = [counting EXCEPT ![t] = TRUE]
    BY DEF TPImplicitTaskBegin, Push, Untouched, Count
  <1>4. TeamInv' /\ Active /\ Active' /\ t \in Team /\ barrierCount[t] = 0
    BY <1>1, ImplicitTaskBeginTeam
  <1>5. /\ \A v \in Threads : pc'[v] = IF v = t THEN "work" ELSE pc[v]
        /\ last_nodes'[t] = Append(last_nodes[t], a)
        /\ \A v \in Threads \ {t} : last_nodes'[v] = last_nodes[v]
        /\ frames'[t] = u
    <2>1. frames'[t] = u
      BY <1>3, ContextsHere
    <2> HIDE DEF u, a
    <2>2. QED
      BY <1>1, <1>2, <2>1 DEF TypeOK
  <1>6. /\ FramesOK(t, fr, pc[t], NoTaskHere(t), firstDispatch[t]) /\ Len(fr) = Depth(t)
        /\ IsSequence(fr) /\ \A i \in 1..Len(fr) : IsContext(fr[i])
    <2>1. FramesOK(t, fr, pc[t], NoTaskHere(t), firstDispatch[t]) /\ NoTaskHere(t)
      BY <1>1 DEF StacksInv, ThreadOK, FramesInv, NoTaskHere
    <2>2. Ours(t, pc[t]) = Depth(t)
      BY <1>1 DEF Ours, InRegionControl, Depth
    <2>3. QED
      BY <2>1, <2>2 DEF FramesOK
  <1>7. \A i \in 1..Len(fr) : ~(fr[i].ctx > MaxTasks)
    <2> SUFFICES ASSUME NEW i \in 1..Len(fr) PROVE ~(fr[i].ctx > MaxTasks)
      OBVIOUS
    <2>1. t = Master /\ i = 1
      BY <1>6 DEF Depth
    <2>2. fr[i].ctx = SerialCode
      BY <1>6, <2>1 DEF FramesOK
    <2>3. QED
      BY <2>2, TaskAssumption DEF SerialCode
  <1>8. PICK s \in Seq(NodeRecord) :
          last_nodes[t] = s \o <<r1, r2>> /\ NodesOK(fr, s, Ground(t))
    BY <1>1 DEF StacksInv, ThreadOK, StackInv, Held
  <1> DEFINE r == Append(last_nodes[t], a)
             L == Len(s)
  <1>9. /\ r1 \in NodeRecord /\ r2 \in NodeRecord /\ ~r1.finish_flag
        /\ r2.parent = r1.id /\ node_ctr + 1 \in Nat
    <2>1. r1 \in NodeRecord /\ r2 \in NodeRecord /\ node_ctr \in Nat
      BY <1>1 DEF TypeOK
    <2>2. ~r1.finish_flag
      <3>1. 1 \in 1..2
        OBVIOUS
      <3>2. QED
        BY <1>1, <3>1 DEF NodeInv
    <2>3. r2.parent = r1.id
      BY <1>1, <1>4 DEF NodeInv
    <2>4. QED
      BY <2>1, <2>2, <2>3
  <1>10. /\ last_nodes[t] \in Seq(NodeRecord) /\ L \in Nat /\ Len(last_nodes[t]) = L + 2
         /\ \A i \in 1..L : last_nodes[t][i] = s[i]
         /\ last_nodes[t][L + 1] = r1 /\ last_nodes[t][L + 2] = r2
    BY <1>8, <1>9, PushTwo
  <1>11. Top(last_nodes[t]) = r2
    BY <1>10, PopStack
  <1>12. a \in NodeRecord /\ PlainAsync(a) /\ a.parent = r2.id
    <2>1. a \in NodeRecord
      BY <1>9, <1>11, NewNodeType
    <2>2. QED
      BY <1>11, <2>1 DEF NewNode, PlainAsync
  <1> HIDE DEF a, r1, r2
  <1>13. /\ r \in Seq(NodeRecord) /\ Len(r) = L + 3
         /\ \A i \in 1..L : r[i] = s[i]
         /\ r[L + 1] = r1 /\ r[L + 2] = r2 /\ r[L + 3] = a
    <2>1. /\ r \in Seq(NodeRecord) /\ Len(r) = Len(last_nodes[t]) + 1
          /\ \A i \in 1..Len(last_nodes[t]) : r[i] = last_nodes[t][i]
          /\ r[Len(last_nodes[t]) + 1] = a
      BY <1>10, <1>12, PushOne
    <2> HIDE DEF L, r
    <2>2. Len(last_nodes[t]) + 1 = L + 3
      BY <1>10
    <2>3. Len(r) = L + 3 /\ r[L + 3] = a
      BY <2>1, <2>2
    <2>4. L + 1 \in 1..Len(last_nodes[t]) /\ L + 2 \in 1..Len(last_nodes[t])
          /\ \A i \in 1..L : i \in 1..Len(last_nodes[t])
      BY <1>10
    <2>5. QED
      BY <1>10, <2>1, <2>3, <2>4
  <1>14. /\ IsContext(f) /\ f.ctx = Implicit(t) /\ f.ctx > MaxTasks /\ Len(f.levels) = 1
         /\ Bare(f)
    <2>1. Implicit(t) \in Contexts /\ Implicit(t) > MaxTasks
      BY TaskAssumption, RegionAssumption DEF Implicit, Contexts, Threads
    <2>2. IsContext(f) /\ f.ctx = Implicit(t) /\ Len(f.levels) = 1
          /\ f.levels[1] = Level("body")
      BY <2>1, NewContext
    <2>3. ~Level("body").unwaited
      BY DEF Level
    <2> HIDE DEF f
    <2>4. QED
      BY <2>1, <2>2, <2>3 DEF Bare
  <1> HIDE DEF f
  <1>15. IsGround(g2) /\ Ground(t)' = g2
    <2>1. IsGround(g2)
      BY <1>9 DEF IsGround
    <2>2. pc'[t] = "work" /\ region_nodes' = region_nodes /\ PhaseNode(barrierCount[t])' = r2
      BY <1>2, <1>4, <1>5 DEF PhaseNode, r2
    <2>3. QED
      BY <2>1, <2>2 DEF Ground, InRegionControl, r1
  <1>16. NodesOK(u, r, g2)
    <2>1. ~g2.closed /\ g2.region = r1 /\ g2.phase = r2
      OBVIOUS
    <2>2. u = Push(fr, f)
      OBVIOUS
    <2> HIDE DEF u, g2, r
    <2>3. NodesOK(fr, s, g2)
      BY <1>6, <1>7, <1>8, <1>15, NodesGround, LengthType
    <2>4. Topmost(f, r, L, g2)
      <3> HIDE DEF L
      <3>1. QED
        BY <1>9, <1>10, <1>12, <1>13, <1>14, <1>15, <2>1, BareTop
    <2>5. Keeps(r, s, L)
      BY <1>13 DEF Keeps
    <2> HIDE DEF fr
    <2>6. QED
      BY <1>6, <2>2, <2>3, <2>4, <2>5, StackPushed
  <1>17. ThreadOK(t)'
    <2>1. ~NoTaskHere(t)' /\ ~Held(t)'
      <3>1. team' = team /\ team \in Nat /\ t \notin released' /\ pc'[t] = "work"
        <4>1. team \in Nat
          BY <1>1, TeamType
        <4>2. QED
          BY <1>2, <1>5, <4>1
      <3>2. QED
        BY <1>4, <3>1 DEF NoTaskHere, InRegionControl, Held, Orphan, Team
    <2>2. FramesOK(t, u, "work", NoTaskHere(t)', firstDispatch[t])
      <3>1. u = Push(fr, f)
        OBVIOUS
      <3> HIDE DEF u, fr
      <3>2. QED
        BY <1>6, <1>14, <2>1, <3>1, FramesImplicit
    <2>3. FramesInv(t)'
      BY <1>3, <1>5, <2>2, <2>1 DEF FramesInv
    <2>4. NodesOK(frames'[t], last_nodes'[t], Ground(t)')
      BY <1>5, <1>15, <1>16
    <2>5. QED
      BY <2>1, <2>3, <2>4 DEF ThreadOK, StackInv
  <1>18. RunningInv'
    <2>1. RunOn
      BY <1>3, RecordsKept DEF StacksInv
    <2>2. ~IsTask(f.ctx)
      BY <1>14, TaskAssumption DEF IsTask
    <2>3. /\ Len(u) = Len(fr) + 1 /\ u[Len(u)] = f
          /\ \A i \in 1..Len(u) : i < Len(u) => i \in 1..Len(fr) /\ u[i] = fr[i]
          /\ Len(fr) \in Nat
      BY <1>6, PushLast, LengthType
    <2>4. \A v \in Threads : frames'[v] = IF v = t THEN u ELSE frames[v]
      BY <1>3 DEF StacksInv
    <2> HIDE DEF u
    <2>5. ASSUME NEW v \in Threads, NEW i \in 1..Len(frames'[v]), IsTask(frames'[v][i].ctx)
          PROVE  i \in 1..Len(frames[v]) /\ frames'[v][i].ctx = frames[v][i].ctx
      <3>1. CASE v # t
        BY <2>4, <2>5, <3>1
      <3>2. CASE v = t
        <4>1. frames'[v] = u /\ i \in 1..Len(u) /\ i # Len(u)
          BY <2>2, <2>3, <2>4, <2>5, <3>2
        <4>2. i < Len(u)
          BY <2>3, <4>1
        <4>3. QED
          BY <2>3, <3>2, <4>1, <4>2
      <3>3. QED
        BY <3>1, <3>2
    <2>6. QED
      BY <1>1, <2>1, <2>5, RunningKept
  <1>19. JoinInv'
    <2>1. ~MasterIsOut
      BY <1>1 DEF JoinInv
    <2>2. ~MasterIsOut'
      <3>1. Master \in Threads
        BY RegionAssumption DEF Threads, Master
      <3>2. QED
        BY <1>5, <2>1, <3>1 DEF MasterIsOut
    <2>3. BarriersDue' = BarriersDue /\ arrived' = arrived /\ Team' = Team /\ team' = team
      BY <1>2 DEF BarriersDue, Team
    <2>4. Team \subseteq Threads
      BY <1>1, TeamType
    <2>5. QED
      BY <1>1, <1>2, <1>5, <2>2, <2>3, <2>4 DEF JoinInv
  <1>20. LogsSteps'
    BY <1>2, <1>3 DEF StacksInv, HistoryInv, LogsSteps
  <1>21. \A v \in Threads \ {t} : /\ last_nodes'[v] = last_nodes[v] /\ pc'[v] = pc[v]
                                  /\ v \in released' <=> v \in released
                                  /\ PhaseNode(barrierCount[v])' = PhaseNode(barrierCount[v])
    BY <1>2, <1>5 DEF PhaseNode
  <1>22. /\ UNCHANGED <<team, num_threads, region_nodes, firstDispatch, tasks, taskMap, blocks>>
         /\ abort' = "no"
    BY <1>1, <1>2, <1>3
  <1> HIDE DEF u
  <1>23. QED
    BY <1>3, <1>4, <1>17, <1>18, <1>19, <1>20, <1>21, <1>22, TeamStep

(* A thread ends its implicit task.                                        *)
LEMMA FramesEnd ==
  ASSUME NEW t \in Threads, NEW s, NEW q \in InRegionControl, NEW alone, NEW first,
         FramesOK(t, s, q, alone, first), Len(s) = Depth(t) + 1, NEW u, u = Pop(s),
         NEW q2, q2 \notin InRegionControl, NEW alone2
  PROVE  FramesOK(t, u, q2, alone2, first)
  <1>1. Depth(t) \in Nat /\ (t = Master => Depth(t) = 1)
    BY DEF Depth
  <1>2. IsSequence(s) /\ s # <<>>
    BY <1>1, LengthType DEF FramesOK
  <1>3. /\ IsSequence(u) /\ Len(u) = Depth(t)
        /\ \A i \in 1..Len(u) : i \in 1..Len(s) /\ u[i] = s[i]
    <2>1. /\ IsSequence(u) /\ Len(u) = Len(s) - 1
          /\ \A i \in 1..Len(u) : i \in 1..Len(s) /\ u[i] = s[i]
      BY <1>2, PopLast
    <2>2. QED
      BY <1>1, <2>1
  <1>4. Ours(t, q2) = Depth(t)
    BY <1>1 DEF Ours
  <1>5. \A i \in 1..Len(u) : IsContext(u[i])
    BY <1>3 DEF FramesOK
  <1>6. t = Master => u[1].ctx = SerialCode
    <2> HAVE t = Master
    <2>1. 1 \in 1..Len(u)
      BY <1>1, <1>3
    <2>2. QED
      BY <1>3, <2>1 DEF FramesOK
  <1>7. Len(u) >= Ours(t, q2) /\ \A i \in (Ours(t, q2) + 1)..Len(u) : IsTask(u[i].ctx)
    BY <1>1, <1>3, <1>4
  <1>8. QED
    BY <1>3, <1>4, <1>5, <1>6, <1>7 DEF FramesOK

(* The stack of a thread at the end of its implicit task.                  *)
LEMMA PopThree ==
  ASSUME NEW d \in Seq(NodeRecord), NEW lo \in Nat, Len(d) = lo + 3
  PROVE  /\ Pop(Pop(d)) \in Seq(NodeRecord) /\ Pop(Pop(d)) # <<>>
         /\ Pop(Pop(Pop(d))) \in Seq(NodeRecord) /\ Len(Pop(Pop(Pop(d)))) = lo
         /\ Keeps(Pop(Pop(Pop(d))), d, lo)
  <1>1. /\ Pop(d) \in Seq(NodeRecord) /\ Len(Pop(d)) = lo + 2
        /\ \A i \in 1..(lo + 2) : Pop(d)[i] = d[i]
    BY PopStack
  <1>2. /\ Pop(Pop(d)) \in Seq(NodeRecord) /\ Len(Pop(Pop(d))) = lo + 1
        /\ \A i \in 1..(lo + 1) : Pop(Pop(d))[i] = Pop(d)[i]
    BY <1>1, PopStack
  <1>3. /\ Pop(Pop(Pop(d))) \in Seq(NodeRecord) /\ Len(Pop(Pop(Pop(d)))) = lo
        /\ \A i \in 1..lo : Pop(Pop(Pop(d)))[i] = Pop(Pop(d))[i]
    <2> DEFINE e == Pop(Pop(d))
    <2>1. e \in Seq(NodeRecord) /\ Len(e) = lo + 1
      BY <1>2
    <2> HIDE DEF e
    <2>2. Len(e) > 0 /\ Len(e) - 1 = lo
      BY <2>1
    <2>3. /\ Pop(e) \in Seq(NodeRecord) /\ Len(Pop(e)) = Len(e) - 1
          /\ \A i \in 1..(Len(e) - 1) : Pop(e)[i] = e[i]
      <3>1. e \in Seq(NodeRecord) /\ Len(e) > 0
        BY <2>1, <2>2
      <3> QED
        BY ONLY <3>1, PopStack
    <2>4. QED
      BY <2>2, <2>3 DEF e
  <1>4. Pop(Pop(d)) # <<>>
    BY <1>2
  <1>5. \A i \in 1..lo : i \in 1..(lo + 1) /\ i \in 1..(lo + 2)
    OBVIOUS
  <1>6. QED
    BY <1>1, <1>2, <1>3, <1>4, <1>5 DEF Keeps

(* When the master ends its implicit task the other threads have nothing   *)
(* left to do in the region.                                               *)
LEMMA MasterEnds ==
  ASSUME TypeOK, ControlInv, JoinInv, MayEnd(Master)
  PROVE  /\ released = {}
         /\ \A t \in Threads \ {Master} : pc[t] \notin {"work", "locking", "barrier"}
  <1>1. Master \notin released
    BY DEF MayEnd, ControlInv
  <1>2. \A t \in Threads : t \notin Team => t \notin released /\ pc[t] = "idle"
    BY DEF ControlInv
  <1>3. CASE team = 1
    <2>1. Team = {Master}
      BY <1>3 DEF Team, Master
    <2>2. released \subseteq Threads
      BY DEF TypeOK
    <2>3. QED
      BY <1>1, <1>2, <2>1, <2>2
  <1>4. CASE team # 1
    <2>1. team > 1 /\ BarriersDue \in Nat /\ released \subseteq Threads
      <3>1. released \subseteq Threads
        BY DEF TypeOK
      <3>2. QED
        BY <1>4, <3>1, TeamType
    <2>2. \A t \in Team : arrived[t] = BarriersDue
      BY <1>4 DEF MayEnd
    <2>3. \A t \in Team : t \notin released /\ pc[t] \notin {"work", "locking", "barrier"}
      BY <2>1, <2>2 DEF JoinInv
    <2>4. QED
      BY <1>2, <2>1, <2>3
  <1>5. QED
    BY <1>3, <1>4

LEMMA ImplicitTaskEndStep ==
  ASSUME StacksInv, TypeOK', NEW t \in Threads, TPImplicitTaskEnd(t)
  PROVE  StacksInv'
  <1> DEFINE s == last_nodes[t]
             d == Cleanup(s)
             r == Pop(Pop(Pop(d)))
             fr == frames[t]
             f == Cur(t)
             u == Pop(fr)
             g == Ground(t)
             g2 == [closed |-> TRUE, region |-> Root, phase |-> Root]
  <1>1. /\ ImplicitTaskEnd(t) /\ MayEnd(t) /\ fr # <<>> /\ f.ctx = Implicit(t)
        /\ Len(f.levels) = 1 /\ abort = "no"
        /\ TypeOK /\ TeamInv /\ JoinInv /\ RunningInv
    BY DEF TPImplicitTaskEnd, ImplicitTaskEnd, AtBody, StacksInv, TeamInv
  <1>2. /\ pc[t] \in {"work", "join"}
        /\ steps' = steps \union {NewStep(node_ctr + 1, s)}
        /\ last_nodes' = [last_nodes EXCEPT ![t] = r]
        /\ pc' = [pc EXCEPT ![t] = "ended"]
        /\ UNCHANGED <<num_threads, barrierCount, pendingFinish,
                       released, team, barriers, arrived, region_nodes>>
    BY <1>1 DEF ImplicitTaskEnd, MayEnd
  <1>3. /\ frames' = [frames EXCEPT ![t] = u]
        /\ UNCHANGED <<firstDispatch, tasks, taskMap, blocks>>
        /\ counting' = [counting EXCEPT ![t] = FALSE]
        /\ log' = log \union {Entry(node_ctr + 1, s, t, f.past)}
        /\ t = Master => TasksDone
    BY DEF TPImplicitTaskEnd, Log, Untouched, Count
  <1>4. TeamInv' /\ Active /\ Active'
    BY <1>1, ImplicitTaskEndTeam
  <1>5. /\ Len(fr) = Depth(t) + 1 /\ Len(fr) \in Nat \ {0}
        /\ IsContext(f) /\ f.ctx > MaxTasks
        /\ FramesOK(t, fr, pc[t], NoTaskHere(t), firstDispatch[t])
        /\ \A i \in 1..(Len(fr) - 1) : ~(fr[i].ctx > MaxTasks)
        /\ t \in Team /\ t \notin released /\ ~Held(t)
    BY <1>1, ImplicitOnTop
  <1>6. IsSequence(fr) /\ \A i \in 1..Len(fr) : IsContext(fr[i])
    BY <1>5 DEF FramesOK
  <1>7. PICK lo \in 0..Len(s) : Matches(fr, Len(fr) - 1, s, lo, g) /\ Topmost(f, s, lo, g)
    BY <1>1, <1>5, TopOfStack
  <1>8. d \in Seq(NodeRecord) /\ lo \in Nat /\ Len(d) = lo + 3 /\ Keeps(d, s, Len(d))
    <2>1. /\ d \in Seq(NodeRecord)
          /\ Len(d) = LevelAt(f, lo, g) + Opens(Last(f.levels).kind)
          /\ Keeps(d, s, Len(d))
      BY <1>7, CleanedNodes
    <2>2. Opens(Last(f.levels).kind) = 0
      <3>1. Last(f.levels).kind = "body"
        BY <1>1, <1>5 DEF IsContext, Last
      <3>2. QED
        BY <3>1 DEF Opens
    <2>3. ~g.closed
      BY <1>2 DEF Ground, InRegionControl
    <2>4. Size(f, g) = 3
      BY <1>5, <2>3 DEF Size
    <2>5. LevelAt(f, lo, g) = lo + 3
      BY <1>1, <2>4 DEF LevelAt
    <2> HIDE DEF d
    <2>6. lo \in Nat
      BY <1>7
    <2>7. QED
      BY <2>1, <2>2, <2>5, <2>6
  <1> HIDE DEF d
  <1>9. /\ r \in Seq(NodeRecord) /\ Len(r) = lo /\ Keeps(r, s, lo)
        /\ Pop(Pop(d)) # <<>>
    <2>1. /\ r \in Seq(NodeRecord) /\ Len(r) = lo /\ Keeps(r, d, lo)
          /\ Pop(Pop(d)) # <<>>
      BY <1>8, PopThree
    <2>2. Keeps(r, s, lo)
      <3> HIDE DEF r
      <3>1. \A i \in 1..lo : i \in 1..Len(d)
        BY <1>8
      <3>2. QED
        BY <1>8, <2>1, <3>1 DEF Keeps
    <2>3. QED
      BY <2>1, <2>2
  <1>10. abort' = "no"
    BY <1>1, <1>9 DEF ImplicitTaskEnd, Require, d
  <1> HIDE DEF r
  <1>11. /\ \A v \in Threads : pc'[v] = IF v = t THEN "ended" ELSE pc[v]
         /\ last_nodes'[t] = r /\ \A v \in Threads \ {t} : last_nodes'[v] = last_nodes[v]
         /\ frames'[t] = u
    <2>1. frames'[t] = u
      BY <1>3, ContextsHere
    <2> HIDE DEF u
    <2>2. QED
      BY <1>1, <1>2, <2>1 DEF TypeOK, r
  <1>12. IsGround(g2) /\ Ground(t)' = g2
    <2>1. IsGround(g2)
      BY DEF IsGround, Root
    <2>2. pc'[t] = "ended"
      BY <1>11
    <2>3. QED
      BY <2>1, <2>2 DEF Ground, InRegionControl
  <1>13. NodesOK(u, r, g2)
    <2>1. u = Pop(fr)
      OBVIOUS
    <2> HIDE DEF u, fr, g2
    <2>2. QED
      BY <1>1, <1>5, <1>6, <1>7, <1>8, <1>9, <1>12, <2>1, StackPopped
  <1>14. ThreadOK(t)'
    <2>1. FramesOK(t, u, "ended", NoTaskHere(t)', firstDispatch[t])
      <3>1. u = Pop(fr) /\ pc[t] \in InRegionControl /\ "ended" \notin InRegionControl
        BY <1>2 DEF InRegionControl
      <3> HIDE DEF u, fr
      <3>2. QED
        BY <1>5, <3>1, FramesEnd
    <2>2. FramesInv(t)'
      BY <1>3, <1>11, <2>1 DEF FramesInv
    <2>3. NodesOK(frames'[t], last_nodes'[t], Ground(t)')
      BY <1>11, <1>12, <1>13
    <2>4. ~Held(t)'
      <3>1. team \in Nat
        BY <1>1, TeamType
      <3>2. team' = team /\ released' = released
        BY <1>2
      <3>3. QED
        BY <1>5, <3>1, <3>2 DEF Held, Orphan, Team
    <2>5. QED
      BY <2>2, <2>3, <2>4 DEF ThreadOK, StackInv
  <1>15. RunningInv'
    <2>1. RunOn
      BY <1>3, RecordsKept DEF StacksInv
    <2>2. \A v \in Threads : frames'[v] = IF v = t THEN u ELSE frames[v]
      BY <1>3 DEF StacksInv
    <2>3. \A i \in 1..Len(u) : i \in 1..Len(fr) /\ u[i] = fr[i]
      BY <1>1, <1>6, PopLast
    <2> HIDE DEF u
    <2>4. \A v \in Threads : \A i \in 1..Len(frames'[v]) :
            i \in 1..Len(frames[v]) /\ frames'[v][i].ctx = frames[v][i].ctx
      BY <2>2, <2>3
    <2>5. QED
      BY <1>1, <2>1, <2>4, RunningKept
  <1>16. JoinInv'
    <2>1. BarriersDue' = BarriersDue /\ arrived' = arrived /\ Team' = Team /\ team' = team
          /\ released' = released /\ TasksDone' = TasksDone
      BY <1>2, <1>3 DEF BarriersDue, Team, TasksDone
    <2>2. Team \subseteq Threads /\ Master \in Threads
      BY <1>1, TeamType
    <2>3. \A v \in Team : team > 1 /\ (v \in released \/ pc'[v] \in {"work", "locking", "barrier"})
                            => arrived[v] < BarriersDue
      BY <1>1, <1>5, <1>11, <2>2 DEF JoinInv
    <2>4. MasterIsOut' => /\ TasksDone /\ released = {}
                          /\ \A v \in Threads : pc'[v] \notin {"work", "locking", "barrier"}
      <3>1. CASE t = Master
        <4>1. /\ released = {}
              /\ \A v \in Threads \ {Master} : pc[v] \notin {"work", "locking", "barrier"}
          <5>1. MayEnd(Master) /\ ControlInv
            BY <1>1, <3>1 DEF TeamInv
          <5>2. QED
            BY <1>1, <5>1, MasterEnds
        <4>2. QED
          BY <1>3, <1>11, <3>1, <4>1
      <3>2. CASE t # Master
        <4>1. MasterIsOut' <=> MasterIsOut
          BY <1>11, <2>2, <3>2 DEF MasterIsOut
        <4>2. QED
          BY <1>1, <1>11, <4>1 DEF JoinInv
      <3>3. QED
        BY <3>1, <3>2
    <2>5. QED
      BY <2>1, <2>3, <2>4 DEF JoinInv
  <1>17. LogsSteps'
    <2>1. LogsSteps
      BY DEF StacksInv, HistoryInv, LogsSteps
    <2> HIDE DEF s
    <2>2. QED
      BY <1>2, <1>3, <2>1, LogOne
  <1>18. \A v \in Threads \ {t} : /\ last_nodes'[v] = last_nodes[v] /\ pc'[v] = pc[v]
                                  /\ v \in released' <=> v \in released
                                  /\ PhaseNode(barrierCount[v])' = PhaseNode(barrierCount[v])
    BY <1>2, <1>11 DEF PhaseNode
  <1>19. UNCHANGED <<team, num_threads, region_nodes, firstDispatch, tasks, taskMap, blocks>>
    BY <1>2, <1>3
  <1> HIDE DEF u
  <1>20. QED
    BY <1>3, <1>4, <1>10, <1>14, <1>15, <1>16, <1>17, <1>18, <1>19, TeamStep

(* The end of an implicit task is counted: the thread leaves the region.   *)
LEMMA CountImplicitEndStep ==
  ASSUME StacksInv, TypeOK', NEW t \in Threads, TPCountImplicitEnd(t)
  PROVE  StacksInv'
  <1> DEFINE fr == frames[t]
             q == IF t = Master THEN "spin" ELSE "idle"
  <1>1. /\ CountImplicitEnd(t) /\ pc[t] = "ended" /\ abort = "no"
        /\ TypeOK /\ TeamInv /\ JoinInv /\ RunningInv
    BY DEF TPCountImplicitEnd, CountImplicitEnd, StacksInv, TeamInv
  <1>2. /\ pc' = [pc EXCEPT ![t] = q]
        /\ UNCHANGED <<last_nodes, steps, num_threads, barrierCount, pendingFinish, abort,
                       released, team, barriers, arrived, region_nodes>>
    BY <1>1 DEF CountImplicitEnd
  <1>3. UNCHANGED <<frames, log, counting, firstDispatch, tasks, taskMap, blocks>>
    BY DEF TPCountImplicitEnd, Untouched
  <1>4. TeamInv' /\ Active /\ Active' /\ t \in Team /\ t \notin released
    BY <1>1, CountImplicitEndTeam
  <1>5. \A v \in Threads : pc'[v] = IF v = t THEN q ELSE pc[v]
    BY <1>1, <1>2 DEF TypeOK
  <1>6. Team \subseteq Threads /\ Master \in Threads /\ team \in Nat
    BY <1>1, TeamType
  <1>7. FramesOK(t, fr, pc[t], NoTaskHere(t), firstDispatch[t]) /\ StackInv(t)
    BY DEF StacksInv, ThreadOK, FramesInv
  <1>8. q \notin InRegionControl /\ pc[t] \notin InRegionControl /\ NoTaskHere(t)
    BY <1>1 DEF InRegionControl, NoTaskHere
  <1>9. FramesOK(t, fr, q, NoTaskHere(t)', firstDispatch[t])
    <2>1. Ours(t, q) = Ours(t, pc[t])
      BY <1>8 DEF Ours
    <2>2. Len(fr) = Ours(t, q)
      BY <1>7, <1>8, <2>1 DEF FramesOK
    <2> HIDE DEF q, fr
    <2>3. QED
      BY <1>7, <1>8, <2>1, <2>2, FramesMove
  <1>10. ThreadOK(t)'
    <2>1. FramesInv(t)'
      BY <1>3, <1>5, <1>9 DEF FramesInv
    <2>2. ~Held(t) /\ ~Held(t)'
      BY <1>2, <1>4, <1>6 DEF Held, Orphan, Team
    <2>3. Ground(t)' = Ground(t)
      <3>1. pc'[t] \notin InRegionControl
        BY <1>5, <1>8
      <3>2. QED
        BY <1>8, <3>1 DEF Ground
    <2>4. NodesOK(frames'[t], last_nodes'[t], Ground(t)')
      BY <1>2, <1>3, <1>7, <2>2, <2>3 DEF StackInv
    <2>5. QED
      BY <2>1, <2>2, <2>4 DEF ThreadOK, StackInv
  <1>11. RunningInv'
    <2>1. RunOn
      BY <1>3, RecordsKept DEF StacksInv
    <2>2. QED
      BY <1>1, <1>3, <2>1, RunningKept
  <1>12. JoinInv'
    <2>1. BarriersDue' = BarriersDue /\ Team' = Team /\ TasksDone' = TasksDone
      BY <1>2, <1>3 DEF BarriersDue, Team, TasksDone
    <2>2. MasterIsOut' <=> MasterIsOut
      BY <1>1, <1>5, <1>6 DEF MasterIsOut
    <2>3. \A v \in Threads : pc'[v] \in {"work", "locking", "barrier"} => pc'[v] = pc[v]
      BY <1>5
    <2>4. QED
      BY <1>1, <1>2, <1>6, <2>1, <2>2, <2>3 DEF JoinInv
  <1>13. LogsSteps'
    BY <1>2, <1>3 DEF StacksInv, HistoryInv, LogsSteps
  <1>14. \A v \in Threads \ {t} : /\ last_nodes'[v] = last_nodes[v] /\ pc'[v] = pc[v]
                                  /\ v \in released' <=> v \in released
                                  /\ PhaseNode(barrierCount[v])' = PhaseNode(barrierCount[v])
    BY <1>2, <1>5 DEF PhaseNode
  <1>15. frames' = [frames EXCEPT ![t] = fr]
    BY <1>3 DEF StacksInv
  <1> HIDE DEF fr
  <1>16. QED
    BY <1>1, <1>2, <1>3, <1>4, <1>10, <1>11, <1>12, <1>13, <1>14, <1>15, TeamStep

----------------------------------------------------------------------------
(* Serial code                                                             *)

(* The ground of a thread outside its implicit task.                       *)
Outside == [closed |-> TRUE, region |-> Root, phase |-> Root]

(* No thread has anything left to do in a region.                          *)
Quiet == TasksDone /\ \A t \in Threads : pc[t] \notin InRegionControl /\ ~Held(t)

(* So it is while the master runs serial code.                             *)
LEMMA SerialQuiet ==
  ASSUME StacksInv, ~Active
  PROVE  Quiet /\ released = {}
  <1>1. ControlInv /\ JoinInv
    BY DEF StacksInv, TeamInv
  <1>2. pc[Master] \in {"idle", "done"} /\ released = {}
    BY <1>1 DEF ControlInv, Active
  <1>3. TasksDone
    BY <1>1, <1>2 DEF JoinInv, MasterIsOut
  <1>4. \A t \in Threads : pc[t] \notin InRegionControl
    BY <1>1, <1>2 DEF ControlInv, InRegionControl
  <1>5. \A t \in Threads : ~Held(t)
    BY <1>2 DEF Held, Orphan
  <1>6. QED
    BY <1>2, <1>3, <1>4, <1>5 DEF Quiet

LEMMA QuietContexts ==
  ASSUME StacksInv, Quiet, NEW t \in Threads
  PROVE  /\ FramesOK(t, frames[t], pc[t], NoTaskHere(t), firstDispatch[t])
         /\ IsSequence(frames[t]) /\ Len(frames[t]) = Depth(t)
         /\ \A i \in 1..Len(frames[t]) : IsContext(frames[t][i])
         /\ t = Master => frames[t][1].ctx = SerialCode
         /\ last_nodes[t] \in Seq(NodeRecord)
         /\ NodesOK(frames[t], last_nodes[t], Outside)
  <1>3. TasksDone
    BY DEF Quiet
  <1>4. pc[t] \notin InRegionControl
    BY DEF Quiet
  <1>5. ~Held(t)
    BY DEF Quiet
  <1>6. Ground(t) = Outside
    BY <1>4 DEF Ground, Outside
  <1>7. FramesOK(t, frames[t], pc[t], NoTaskHere(t), firstDispatch[t]) /\ StackInv(t)
    BY DEF StacksInv, ThreadOK, FramesInv
  <1>8. Len(frames[t]) = Depth(t)
    BY <1>3, <1>4, NoTasksLeft DEF Ours, Depth
  <1>9. /\ IsSequence(frames[t]) /\ \A i \in 1..Len(frames[t]) : IsContext(frames[t][i])
        /\ t = Master => frames[t][1].ctx = SerialCode
    BY <1>7 DEF FramesOK
  <1>10. NodesOK(frames[t], last_nodes[t], Outside)
    BY <1>5, <1>6, <1>7 DEF StackInv
  <1>11. last_nodes[t] \in Seq(NodeRecord)
    BY <1>10 DEF NodesOK
  <1>12. QED
    BY <1>7, <1>8, <1>9, <1>10, <1>11

(* The serial code has one node, the root.                                 *)
LEMMA SerialSize ==
  ASSUME NEW f, IsContext(f), f.ctx = SerialCode, NEW s, NEW hi, NEW g,
         FrameNodes(f, s, 0, hi, g)
  PROVE  hi = 1 /\ s[1] = Root
  <1>1. Len(f.levels) = 1
    BY TaskAssumption DEF IsContext, SerialCode
  <1>2. Last(f.levels) = f.levels[1] /\ f.levels[1].kind = "body" /\ ~f.levels[1].unwaited
    BY <1>1 DEF IsContext, Last
  <1>3. Opens("body") = 0
    BY DEF Opens
  <1>4. LevelSize(Last(f.levels)) = 0
    BY <1>2, <1>3 DEF LevelSize
  <1>5. Size(f, g) = 1
    BY TaskAssumption DEF Size, SerialCode
  <1>6. LevelAt(f, 0, g) = 1
    BY <1>1, <1>5 DEF LevelAt
  <1>7. hi = LevelAt(f, 0, g) + LevelSize(Last(f.levels)) /\ OwnNodes(f, s, 0, g)
    BY DEF FrameNodes
  <1>8. s[0 + 1] = Root
    BY <1>7 DEF OwnNodes
  <1>9. QED
    BY <1>4, <1>6, <1>7, <1>8

LEMMA QuietNodes ==
  ASSUME StacksInv, Quiet, NEW t \in Threads
  PROVE  /\ Len(last_nodes[t]) = Depth(t)
         /\ t # Master => last_nodes[t] = <<>>
         /\ t = Master => last_nodes[t] = <<Root>>
  <1> DEFINE s == last_nodes[t]
             fr == frames[t]
  <1>1. /\ s \in Seq(NodeRecord) /\ Len(s) \in Nat /\ Len(fr) = Depth(t)
        /\ \A i \in 1..Len(fr) : IsContext(fr[i])
        /\ t = Master => fr[1].ctx = SerialCode
        /\ Matches(fr, Len(fr), s, Len(s), Outside)
    BY QuietContexts, LenProperties DEF NodesOK
  <1>2. CASE t # Master
    <2>1. Len(fr) = 0
      BY <1>1, <1>2 DEF Depth
    <2>2. Len(s) = 0
      <3>1. Matches(fr, 0, s, Len(s), Outside)
        BY <1>1, <2>1
      <3>2. 0 + 1 = 1
        OBVIOUS
      <3>3. QED
        BY <3>1, <3>2 DEF Matches
    <2>3. s = <<>>
      BY <1>1, <2>2, EmptySeq
    <2>4. QED
      BY <1>2, <2>2, <2>3 DEF Depth
  <1>3. CASE t = Master
    <2>1. Len(fr) = 1
      BY <1>1, <1>3 DEF Depth
    <2>2. Matches(fr, 0 + 1, s, Len(s), Outside)
      BY <1>1, <2>1
    <2>3. PICK lo \in 0..Len(s) :
            Matches(fr, 0, s, lo, Outside) /\ FrameNodes(fr[0 + 1], s, lo, Len(s), Outside)
      <3> HIDE DEF s, fr
      <3> QED
        BY <1>1, <2>2, Peel
    <2>4. lo = 0
      <3>1. 0 + 1 = 1
        OBVIOUS
      <3>2. QED
        BY <2>3, <3>1 DEF Matches
    <2>5. FrameNodes(fr[1], s, 0, Len(s), Outside)
      BY <2>3, <2>4
    <2>6. IsContext(fr[1]) /\ fr[1].ctx = SerialCode
      BY <1>1, <1>3, <2>1
    <2>7. Len(s) = 1 /\ s[1] = Root
      <3> HIDE DEF s, fr
      <3> QED
        BY <2>5, <2>6, SerialSize
    <2>8. s = <<Root>>
      BY <1>1, <2>7
    <2>9. QED
      BY <1>3, <2>7, <2>8 DEF Depth
  <1>4. QED
    BY <1>2, <1>3

(* The context of the serial code gets another past.                       *)
LEMMA QuietStep ==
  ASSUME StacksInv, Quiet, NEW f, NEW x, f = [Cur(Master) EXCEPT !.past = x],
         frames' = [frames EXCEPT ![Master] = WithLast(frames[Master], f)],
         UNCHANGED <<tasks, firstDispatch>>, taskMap' = taskMap,
         \A t \in Threads : pc'[t] \notin InRegionControl
  PROVE  /\ \A t \in Threads :
              FramesInv(t)' /\ NodesOK(frames'[t], last_nodes[t], Ground(t)')
         /\ RunningInv' /\ RecordsInv' /\ frames' = [t \in Threads |-> frames'[t]]
         /\ TasksDone'
  <1> DEFINE fr == frames[Master]
             u  == WithLast(fr, f)
             s  == last_nodes[Master]
  <1>1. Master \in Threads
    BY RegionAssumption DEF Threads, Master
  <1>2. /\ FramesOK(Master, fr, pc[Master], NoTaskHere(Master), firstDispatch[Master])
        /\ IsSequence(fr) /\ Len(fr) = 1 /\ fr # <<>> /\ IsContext(fr[1])
        /\ \A i \in 1..Len(fr) : IsContext(fr[i])
        /\ fr[1].ctx = SerialCode /\ Cur(Master) = fr[1] /\ Last(fr) = fr[1]
        /\ NodesOK(fr, s, Outside)
    <2>1. /\ FramesOK(Master, fr, pc[Master], NoTaskHere(Master), firstDispatch[Master])
          /\ IsSequence(fr) /\ Len(fr) = 1
          /\ \A i \in 1..Len(fr) : IsContext(fr[i])
          /\ fr[1].ctx = SerialCode
          /\ NodesOK(fr, s, Outside)
      BY <1>1, QuietContexts DEF Depth
    <2>2. fr # <<>>
      BY <2>1, LengthType
    <2>3. IsContext(fr[1]) /\ Cur(Master) = fr[1] /\ Last(fr) = fr[1]
      BY <2>1 DEF Cur, Last
    <2>4. QED
      BY <2>1, <2>2, <2>3
  <1>3. IsContext(f) /\ f.ctx = SerialCode /\ f.levels = Last(fr).levels
    <2>1. IsContext(Cur(Master)) /\ Cur(Master).ctx = SerialCode /\ Cur(Master) = Last(fr)
      BY <1>2
    <2>2. QED
      BY <2>1, ContextPast
  <1>4. /\ frames'[Master] = u
        /\ \A t \in Threads \ {Master} : frames'[t] = frames[t]
        /\ frames' = [t \in Threads |-> frames'[t]]
    BY <1>1 DEF StacksInv
  <1> HIDE DEF s, fr
  <1>5. NodesOK(u, s, Outside)
    <2>1. PICK lo \in 0..Len(s) :
            Matches(fr, Len(fr) - 1, s, lo, Outside) /\ Topmost(Last(fr), s, lo, Outside)
      BY <1>2, StackTop
    <2>2. Topmost(f, s, lo, Outside) /\ Keeps(s, s, lo) /\ lo \in Nat
      <3>1. f.ctx = Last(fr).ctx /\ f.levels = Last(fr).levels
        BY <1>2, <1>3
      <3>2. IsContext(f) /\ Topmost(Last(fr), s, lo, Outside)
        BY <1>3, <2>1
      <3>3. Topmost(f, s, lo, Outside)
        BY ONLY <3>1, <3>2, NodesSame
      <3>4. lo \in Nat
        BY <2>1
      <3>5. QED
        BY <3>3, <3>4 DEF Keeps
    <2>3. u = WithLast(fr, f)
      OBVIOUS
    <2> HIDE DEF u
    <2>4. QED
      BY <1>2, <2>1, <2>2, <2>3, StackReplaced
  <1>6. ASSUME NEW q, q \notin InRegionControl, NEW alone
        PROVE  FramesOK(Master, u, q, alone, firstDispatch[Master])
    <2>1. pc[Master] \notin InRegionControl
      BY <1>1 DEF Quiet
    <2>2. Ours(Master, q) = 1 /\ Ours(Master, pc[Master]) = 1
      BY <1>6, <2>1 DEF Ours, Depth
    <2>3. FramesOK(Master, fr, q, alone, firstDispatch[Master])
      BY <1>1, <1>2, <1>6, <2>2, FramesMove
    <2>4. f.ctx = Last(fr).ctx /\ u = WithLast(fr, f)
      BY <1>2, <1>3
    <2> HIDE DEF u
    <2>5. QED
      BY <1>1, <1>2, <1>3, <1>6, <2>3, <2>4, FramesReplace
  <1>7. ASSUME NEW t \in Threads
        PROVE  FramesInv(t)' /\ NodesOK(frames'[t], last_nodes[t], Ground(t)')
    <2>0. pc'[t] \notin InRegionControl
      OBVIOUS
    <2>1. Ground(t)' = Outside
      BY <2>0 DEF Ground, Outside
    <2>2. CASE t = Master
      <3>1. FramesOK(Master, u, pc'[Master], NoTaskHere(Master)', firstDispatch[Master])
        BY <1>6, <2>0, <2>2
      <3>2. FramesInv(t)'
        BY <1>4, <2>2, <3>1 DEF FramesInv
      <3>3. QED
        BY <1>4, <1>5, <2>1, <2>2, <3>2 DEF s
    <2>3. CASE t # Master
      <3>1. /\ FramesOK(t, frames[t], pc[t], NoTaskHere(t), firstDispatch[t])
            /\ Len(frames[t]) = Depth(t) /\ NodesOK(frames[t], last_nodes[t], Outside)
        BY QuietContexts
      <3>2. Ours(t, pc[t]) = Depth(t) /\ Ours(t, pc'[t]) = Depth(t)
        BY <2>0 DEF Quiet, Ours, Depth
      <3>3. FramesOK(t, frames[t], pc'[t], NoTaskHere(t)', firstDispatch[t])
        BY <2>0, <3>1, <3>2, FramesMove
      <3>4. frames'[t] = frames[t]
        BY <1>4, <2>3
      <3>5. FramesInv(t)'
        BY <3>3, <3>4 DEF FramesInv
      <3>6. QED
        BY <2>1, <3>1, <3>4, <3>5
    <2>4. QED
      BY <2>2, <2>3
  <1>8. RecordsInv' /\ RunOn
    BY RecordsKept DEF StacksInv
  <1>9. RunningInv'
    BY <1>1, <1>2, <1>3, <1>8, RunningReplace DEF fr
  <1>10. TasksDone'
    BY DEF Quiet, TasksDone
  <1>11. QED
    BY <1>4, <1>7, <1>8, <1>9, <1>10

(* A region begins: the threads it counts in get its nodes, on top of what *)
(* they have, which is the root for the master and nothing for the others. *)
LEMMA ParallelBeginStep ==
  ASSUME StacksInv, TypeOK', NEW req \in Requests, NEW b \in 0..MaxBarriers,
         TPParallelBegin(req, b)
  PROVE  StacksInv'
  <1> DEFINE n  == ExpectedTeam(req)
             f1 == NewNode(node_ctr + 2, "FINISH", Top(last_nodes[Master]))
             f2 == NewNode(node_ctr + 3, "FINISH", f1)
             f  == WithStep(Master)
             fr == frames[Master]
  <1>1. /\ ParallelBegin(req, b) /\ abort = "no"
        /\ TypeOK /\ TeamInv /\ JoinInv
    BY DEF TPParallelBegin, ParallelBegin, StacksInv, TeamInv
  <1>2. /\ Require(\A t \in (1..n) \ {Master} : last_nodes[t] = <<>>, "stack_not_empty")
        /\ steps' = steps \union {NewStep(node_ctr + 1, last_nodes[Master])}
        /\ last_nodes' = [t \in Threads |->
             IF t \in 1..n THEN last_nodes[t] \o <<f1, f2>> ELSE last_nodes[t]]
        /\ region_nodes' = <<f1, f2>>
        /\ barriers' = b /\ arrived' = [t \in Threads |-> 0]
    BY <1>1 DEF ParallelBegin
  <1>3. /\ log' = log \union {Entry(node_ctr + 1, last_nodes[Master], Master, Cur(Master).past)}
        /\ frames' = [frames EXCEPT ![Master] = WithLast(fr, f)]
        /\ counting' = [counting EXCEPT ![Master] = FALSE]
        /\ UNCHANGED <<firstDispatch, tasks, taskMap, blocks>>
    BY DEF TPParallelBegin, Log, SetFrame, WithLast, Count, Untouched
  <1>4. /\ TeamInv' /\ ~Active /\ Active'
        /\ pc'[Master] = "forked" /\ \A t \in Threads \ {Master} : pc'[t] = "idle"
        /\ released' = 1..team' /\ team' <= num_threads' /\ num_threads' = n
        /\ n \in Threads
        /\ region_nodes'[1] \in NodeRecord /\ region_nodes'[2] \in NodeRecord
    BY <1>1, ParallelBeginTeam
  <1>5. Quiet
    BY <1>4, SerialQuiet
  <1> HIDE DEF n, f1, f2
  <1>6. /\ 1..n \subseteq Threads /\ Master \in Threads /\ n \in Nat /\ team' \in Nat
    <2>1. n \in Nat /\ n <= NumThreads /\ NumThreads \in Nat \ {0}
      BY <1>4, RegionAssumption DEF Threads
    <2>2. team' \in Nat
      BY DEF TypeOK, Threads
    <2>3. QED
      BY <2>1, <2>2 DEF Threads, Master
  <1>7. abort' = "no"
    <2>1. \A t \in (1..n) \ {Master} : last_nodes[t] = <<>>
      BY <1>5, <1>6, QuietNodes
    <2>2. QED
      BY <2>1, <1>1, <1>2 DEF Require
  <1>8. \A t \in Threads : pc'[t] \notin InRegionControl
    BY <1>4 DEF InRegionControl
  <1>9. /\ \A t \in Threads : FramesInv(t)' /\ NodesOK(frames'[t], last_nodes[t], Ground(t)')
        /\ RunningInv' /\ RecordsInv' /\ frames' = [t \in Threads |-> frames'[t]]
        /\ TasksDone'
    <2>1. f = [Cur(Master) EXCEPT !.past = @ \union {node_ctr + 1}]
      BY DEF WithStep
    <2>2. PICK x : f = [Cur(Master) EXCEPT !.past = x]
      BY <2>1
    <2> HIDE DEF f
    <2>3. QED
      BY <1>3, <1>5, <1>8, <2>2, QuietStep
  <1>10. ASSUME NEW t \in Threads
         PROVE  StackInv(t)'
    <2>1. Held(t)' <=> t \in 1..n
      <3>1. t \in Nat
        BY DEF Threads
      <3>2. Held(t)' <=> t \in 1..team' \/ t \in (team' + 1)..n
        BY <1>4 DEF Held, Orphan
      <3>3. team' <= n
        BY <1>4
      <3>4. \A i, j, k \in Nat : j <= k => (i \in 1..j \/ i \in (j + 1)..k <=> i \in 1..k)
        OBVIOUS
      <3>5. (t \in 1..team' \/ t \in (team' + 1)..n) <=> t \in 1..n
        BY <1>6, <3>1, <3>3, <3>4
      <3>6. QED
        BY ONLY <3>2, <3>5, Zenon
    <2>2. CASE t \in 1..n
      <3>1. last_nodes'[t] = last_nodes[t] \o <<f1, f2>>
        BY <1>2, <2>2
      <3>2. region_nodes'[1] = f1 /\ region_nodes'[2] = f2
        BY <1>2
      <3>3. last_nodes'[t] = last_nodes[t] \o <<region_nodes'[1], region_nodes'[2]>>
        BY <3>1, <3>2
      <3>4. last_nodes[t] \in Seq(NodeRecord)
        BY <1>1 DEF TypeOK
      <3>5. QED
        BY <1>9, <2>1, <2>2, <3>3, <3>4 DEF StackInv
    <2>3. CASE t \notin 1..n
      <3>1. last_nodes'[t] = last_nodes[t]
        BY <1>2, <2>3
      <3>2. QED
        BY <1>9, <2>1, <2>3, <3>1 DEF StackInv
    <2>4. QED
      BY <2>2, <2>3
  <1>11. JoinInv'
    <2>1. ~MasterIsOut'
      BY <1>4 DEF MasterIsOut
    <2>2. ASSUME NEW t \in Team', team' > 1
          PROVE  arrived'[t] < BarriersDue'
      <3>1. t \in Threads
        <4>1. t \in 1..n
          BY <1>4, <1>6, <2>2 DEF Team
        <4>2. QED
          BY <1>6, <4>1
      <3>2. arrived'[t] = 0
        BY <1>2, <3>1
      <3>3. BarriersDue' = b + 1
        BY <1>2, <2>2 DEF BarriersDue
      <3>4. QED
        BY <3>2, <3>3
    <2>3. QED
      BY <2>1, <2>2 DEF JoinInv
  <1>12. LogsSteps'
    <2>1. LogsSteps
      BY DEF StacksInv, HistoryInv, LogsSteps
    <2>2. QED
      BY <1>2, <1>3, <2>1, LogOne
  <1>13. HistoryInv'
    <2>1. counting' \in [Threads -> BOOLEAN]
      BY <1>3 DEF StacksInv, HistoryInv
    <2>2. QED
      BY <1>3, <1>12, <2>1 DEF StacksInv, HistoryInv, LogsSteps
  <1>14. \A t \in Threads : ThreadOK(t)'
    BY <1>9, <1>10 DEF ThreadOK
  <1>15. QED
    BY <1>4, <1>7, <1>9, <1>11, <1>13, <1>14 DEF StacksInv

(* A step of the master when no thread has anything to do in a region, and *)
(* after which it is in serial code.                                       *)
LEMMA SerialStep ==
  ASSUME StacksInv, Quiet, TeamInv', ~Active', abort' = "no",
         NEW f, NEW x, f = [Cur(Master) EXCEPT !.past = x],
         frames' = [frames EXCEPT ![Master] = WithLast(frames[Master], f)],
         UNCHANGED <<tasks, firstDispatch, taskMap, blocks, last_nodes>>,
         NEW b \in BOOLEAN, counting' = [counting EXCEPT ![Master] = b],
         LogsSteps'
  PROVE  StacksInv'
  <1>1. ControlInv'
    BY DEF TeamInv
  <1>2. pc'[Master] \in {"idle", "done"} /\ released' = {}
        /\ \A t \in Threads \ {Master} : pc'[t] = "idle"
    BY <1>1 DEF ControlInv, Active
  <1>3. \A t \in Threads : pc'[t] \notin InRegionControl /\ ~Held(t)'
    <2>1. \A t \in Threads : pc'[t] \notin InRegionControl
      BY <1>2 DEF InRegionControl
    <2>2. \A t \in Threads : ~Held(t)'
      BY <1>2 DEF Held, Orphan
    <2>3. QED
      BY <2>1, <2>2
  <1>4. /\ \A t \in Threads : FramesInv(t)' /\ NodesOK(frames'[t], last_nodes[t], Ground(t)')
        /\ RunningInv' /\ RecordsInv' /\ frames' = [t \in Threads |-> frames'[t]]
        /\ TasksDone'
    BY <1>3, QuietStep
  <1>5. \A t \in Threads : ThreadOK(t)'
    BY <1>3, <1>4 DEF ThreadOK, StackInv
  <1>6. JoinInv'
    <2>1. Team' \subseteq Threads
      <3>1. team' \in Nat /\ team' <= NumThreads /\ NumThreads \in Nat \ {0}
        BY RegionAssumption DEF TeamInv, TypeOK, Threads
      <3>2. QED
        BY <3>1 DEF Team, Threads
    <2>2. \A t \in Threads : pc'[t] \notin {"work", "locking", "barrier"}
      BY <1>3 DEF InRegionControl
    <2>3. QED
      BY <1>2, <1>4, <2>1, <2>2 DEF JoinInv
  <1>7. HistoryInv'
    <2>1. counting' \in [Threads -> BOOLEAN]
      BY DEF StacksInv, HistoryInv
    <2>2. QED
      BY <2>1 DEF StacksInv, HistoryInv, LogsSteps
  <1>8. QED
    BY <1>4, <1>5, <1>6, <1>7 DEF StacksInv

(* The region is over, for every thread that was counted in.               *)
LEMMA ParallelEndStep ==
  ASSUME StacksInv, TypeOK', TPParallelEnd
  PROVE  StacksInv'
  <1>1. /\ ParallelEnd /\ abort = "no" /\ TypeOK /\ TeamInv /\ JoinInv
    BY DEF TPParallelEnd, ParallelEnd, StacksInv, TeamInv
  <1>2. /\ TeamInv' /\ ~Active' /\ team = num_threads /\ released = {}
        /\ \A u \in Threads : pc[u] \in {"idle", "spin"}
    BY <1>1, ParallelEndTeam
  <1>3. UNCHANGED <<last_nodes, steps, abort>> /\ pc[Master] = "spin"
    BY <1>1 DEF ParallelEnd
  <1>4. Quiet
    <2>1. TasksDone
      BY <1>1, <1>3 DEF JoinInv, MasterIsOut
    <2>2. \A t \in Threads : pc[t] \notin InRegionControl
      BY <1>2 DEF InRegionControl
    <2>3. \A t \in Threads : ~Held(t)
      <3>1. num_threads \in Nat
        BY <1>1, TeamType
      <3>2. (team + 1)..num_threads = {}
        BY <1>2, <3>1
      <3>3. QED
        BY <1>2, <3>2 DEF Held, Orphan
    <2>4. QED
      BY <2>1, <2>2, <2>3 DEF Quiet
  <1> DEFINE x == {l.id : l \in log}
             f == [Cur(Master) EXCEPT !.past = x]
  <1>5. frames' = [frames EXCEPT ![Master] = WithLast(frames[Master], f)]
    <2>1. Master \in Threads
      BY RegionAssumption DEF Threads, Master
    <2>2. Len(frames[Master]) = 1
      BY <1>4, <2>1, QuietContexts DEF Depth
    <2>3. Cur(Master) = frames[Master][1]
      BY <2>2 DEF Cur, Last
    <2>4. frames' = [frames EXCEPT ![Master][1].past = x]
      BY DEF TPParallelEnd
    <2> HIDE DEF x
    <2>5. QED
      BY <2>2, <2>3, <2>4 DEF WithLast
  <1>6. LogsSteps'
    BY <1>3 DEF TPParallelEnd, StacksInv, HistoryInv, LogsSteps
  <1>7. /\ UNCHANGED <<tasks, firstDispatch, taskMap, blocks>>
        /\ counting' = [counting EXCEPT ![Master] = TRUE]
    BY DEF TPParallelEnd, Untouched, Count
  <1>8. f = [Cur(Master) EXCEPT !.past = x]
    OBVIOUS
  <1> HIDE DEF f, x
  <1>9. QED
    BY <1>1, <1>2, <1>3, <1>4, <1>5, <1>6, <1>7, <1>8, SerialStep

(* The last step of the master is logged.                                  *)
LEMMA FinishProfileStep ==
  ASSUME StacksInv, TypeOK', TPFinishProfile
  PROVE  StacksInv'
  <1> DEFINE f == WithStep(Master)
  <1>1. /\ FinishProfile /\ abort = "no" /\ TypeOK /\ TeamInv
    BY DEF TPFinishProfile, FinishProfile, StacksInv, TeamInv
  <1>2. TeamInv' /\ ~Active /\ ~Active'
    BY <1>1, FinishProfileTeam
  <1>3. /\ UNCHANGED <<last_nodes, abort>>
        /\ steps' = steps \union {NewStep(node_ctr + 1, last_nodes[Master])}
    BY <1>1 DEF FinishProfile
  <1>4. /\ log' = log \union {Entry(node_ctr + 1, last_nodes[Master], Master, Cur(Master).past)}
        /\ frames' = [frames EXCEPT ![Master] = WithLast(frames[Master], f)]
        /\ counting' = [counting EXCEPT ![Master] = FALSE]
        /\ UNCHANGED <<firstDispatch, tasks, taskMap, blocks>>
    BY DEF TPFinishProfile, Log, SetFrame, WithLast, Count, Untouched
  <1>5. Quiet
    BY <1>2, SerialQuiet
  <1>6. PICK x : f = [Cur(Master) EXCEPT !.past = x]
    <2>1. f = [Cur(Master) EXCEPT !.past = @ \union {node_ctr + 1}]
      BY DEF WithStep
    <2>2. QED
      BY <2>1
  <1> HIDE DEF f
  <1>7. LogsSteps'
    <2>1. LogsSteps
      BY DEF StacksInv, HistoryInv, LogsSteps
    <2>2. QED
      BY <1>3, <1>4, <2>1, LogOne
  <1>8. QED
    BY <1>1, <1>2, <1>3, <1>4, <1>5, <1>6, <1>7, SerialStep

----------------------------------------------------------------------------
(* The invariant                                                           *)

LEMMA StacksInvInit == TasksInit => StacksInv
  <1> SUFFICES ASSUME TasksInit PROVE StacksInv
    OBVIOUS
  <1> DEFINE f == Frame(SerialCode, {})
  <1>1. Init /\ TeamInv /\ ~Active /\ Master \in Threads /\ abort = "no"
    BY TeamInvInit, RegionAssumption DEF TasksInit, Init, Threads, Master
  <1>2. /\ \A t \in Threads : pc[t] = "idle"
        /\ released = {} /\ steps = {} /\ arrived = [t \in Threads |-> 0] /\ team = 1
        /\ last_nodes = [t \in Threads |-> IF t = Master THEN <<Root>> ELSE <<>>]
    BY <1>1 DEF Init
  <1>3. /\ frames = [t \in Threads |-> IF t = Master THEN <<f>> ELSE <<>>]
        /\ tasks = <<>> /\ taskMap = <<>> /\ blocks = <<>> /\ log = {}
        /\ firstDispatch = [t \in Threads |-> FALSE]
        /\ counting = [t \in Threads |-> t = Master]
    BY DEF TasksInit
  <1>4. IsContext(f) /\ f.ctx = SerialCode
    <2>1. SerialCode \in Contexts
      BY TaskAssumption, RegionAssumption DEF SerialCode, Contexts
    <2>2. QED
      BY <2>1, NewContext
  <1>5. Len(f.levels) = 1 /\ f.levels[1] = Level("body") /\ Last(f.levels) = Level("body")
    <2>1. SerialCode \in Contexts
      BY TaskAssumption, RegionAssumption DEF SerialCode, Contexts
    <2>2. QED
      BY <2>1, NewContext
  <1> HIDE DEF f
  <1>6. \A t \in Threads : pc[t] \notin InRegionControl /\ ~Held(t) /\ Ground(t) = Outside
    <2>1. \A t \in Threads : pc[t] \notin InRegionControl
      BY <1>2 DEF InRegionControl
    <2>2. QED
      BY <1>1, <1>2, <2>1 DEF Held, Orphan, Ground, Outside
  <1>7. IsGround(Outside)
    BY DEF Outside, IsGround, Root
  <1>8. Root \in NodeRecord
    BY DEF Root, NodeRecord
  <1>9. NodesOK(<<>>, <<>>, Outside)
    <2>1. Matches(<<>>, 0, <<>>, 0, Outside)
      <3> DEFINE b == [i \in 1..(0 + 1) |-> 0]
      <3>1. b \in [1..(0 + 1) -> 0..0] /\ b[1] = 0 /\ b[0 + 1] = 0
        OBVIOUS
      <3>2. \A i, j \in 1..(0 + 1) : i <= j => b[i] <= b[j]
        OBVIOUS
      <3>3. 1..0 = {}
        OBVIOUS
      <3> HIDE DEF b
      <3>4. QED
        BY <3>1, <3>2, <3>3 DEF Matches
    <2>2. Len(<<>>) = 0 /\ <<>> \in Seq(NodeRecord)
      OBVIOUS
    <2>3. QED
      BY <1>7, <2>1, <2>2 DEF NodesOK
  <1>10. NodesOK(<<f>>, <<Root>>, Outside)
    <2>1. <<Root>> \in Seq(NodeRecord) /\ Len(<<Root>>) = 1 /\ <<Root>>[1] = Root
      BY <1>8
    <2>2. FrameNodes(f, <<Root>>, 0, 1, Outside)
      <3>1. Size(f, Outside) = 1
        BY <1>4, TaskAssumption DEF Size, SerialCode
      <3>2. LevelAt(f, 0, Outside) = 1
        BY <1>5, <3>1 DEF LevelAt
      <3>3. LevelSize(Last(f.levels)) = 0 /\ Opens(Last(f.levels).kind) = 0
            /\ ~Last(f.levels).unwaited
        BY <1>5 DEF Level, LevelSize, Opens
      <3>4. LevelNodes(Last(f.levels), <<Root>>, 1)
        BY <3>3 DEF LevelNodes
      <3>5. OwnNodes(f, <<Root>>, 0, Outside)
        BY <1>4, <2>1, TaskAssumption DEF OwnNodes, SerialCode, IsTask
      <3>6. BodyNodes(f, <<Root>>, 0, Outside)
        BY <1>5 DEF BodyNodes
      <3>7. Chain(<<Root>>, 0 + 1, 1)
        BY DEF Chain
      <3>8. QED
        BY <3>2, <3>3, <3>4, <3>5, <3>6, <3>7 DEF FrameNodes
    <2>3. Matches(<<f>>, 1, <<Root>>, 1, Outside)
      <3> DEFINE b == [i \in 1..(1 + 1) |-> i - 1]
      <3>1. b \in [1..(1 + 1) -> 0..1] /\ b[1] = 0 /\ b[1 + 1] = 1
        OBVIOUS
      <3>2. \A i, j \in 1..(1 + 1) : i <= j => b[i] <= b[j]
        OBVIOUS
      <3> HIDE DEF b
      <3>3. \A i \in 1..1 : i = 1 /\ <<f>>[i] = f
        OBVIOUS
      <3>4. \A i \in 1..1 : FrameNodes(<<f>>[i], <<Root>>, b[i], b[i + 1], Outside)
        BY <2>2, <3>1, <3>3
      <3>5. QED
        BY <3>1, <3>2, <3>4 DEF Matches
    <2>4. Len(<<f>>) = 1
      OBVIOUS
    <2>5. QED
      BY <1>7, <2>1, <2>3, <2>4 DEF NodesOK
  <1>11. ASSUME NEW t \in Threads
         PROVE  ThreadOK(t)
    <2>1. StackInv(t)
      BY <1>2, <1>3, <1>6, <1>9, <1>10 DEF StackInv
    <2>2. Ours(t, pc[t]) = Depth(t)
      BY <1>6 DEF Ours, Depth
    <2>3. CASE t = Master
      <3>1. frames[t] = <<f>> /\ Len(<<f>>) = 1 /\ <<f>>[1] = f
        BY <1>3, <2>3
      <3>2. IsSequence(<<f>>)
        <4>1. <<f>> \in Seq({f})
          OBVIOUS
        <4>2. QED
          BY <4>1, SequenceOf
      <3>3. Depth(t) = 1 /\ (1 + 1)..1 = {} /\ \A i \in 1..1 : i = 1
        BY <2>3 DEF Depth
      <3>4. FramesOK(t, <<f>>, pc[t], NoTaskHere(t), firstDispatch[t])
        BY <1>4, <1>6, <2>2, <3>1, <3>2, <3>3 DEF FramesOK
      <3>5. QED
        BY <2>1, <3>1, <3>4 DEF ThreadOK, FramesInv
    <2>4. CASE t # Master
      <3>1. frames[t] = <<>> /\ Len(<<>>) = 0
        BY <1>3, <2>4
      <3>2. IsSequence(<<>>)
        <4>1. <<>> \in Seq({})
          OBVIOUS
        <4>2. QED
          BY <4>1, SequenceOf
      <3>3. Depth(t) = 0 /\ (0 + 1)..0 = {} /\ 1..0 = {}
        BY <2>4 DEF Depth
      <3>4. FramesOK(t, <<>>, pc[t], NoTaskHere(t), firstDispatch[t])
        BY <1>6, <2>2, <2>4, <3>1, <3>2, <3>3 DEF FramesOK
      <3>5. QED
        BY <2>1, <3>1, <3>4 DEF ThreadOK, FramesInv
    <2>5. QED
      BY <2>3, <2>4
  <1>12. Len(tasks) = 0 /\ 1..Len(tasks) = {} /\ DOMAIN tasks = {} /\ IsSequence(tasks)
    <2>1. <<>> \in Seq({})
      OBVIOUS
    <2>2. IsSequence(<<>>)
      BY <2>1, SequenceOf
    <2>3. QED
      BY <1>3, <2>2
  <1>13. RecordsInv
    <2>1. DOMAIN taskMap = {} /\ taskMap = [k \in DOMAIN taskMap |-> taskMap[k]]
      BY <1>3
    <2>2. QED
      BY <1>12, <2>1, TaskAssumption DEF RecordsInv
  <1>14. RunningInv
    <2>1. \A t \in Threads : \A i \in 1..Len(frames[t]) : ~IsTask(frames[t][i].ctx)
      <3> SUFFICES ASSUME NEW t \in Threads, NEW i \in 1..Len(frames[t])
                   PROVE  ~IsTask(frames[t][i].ctx)
        OBVIOUS
      <3>1. frames[t] = <<f>> /\ i = 1
        <4>1. Len(<<>>) = 0 /\ Len(<<f>>) = 1 /\ 1..0 = {} /\ \A j \in 1..1 : j = 1
          OBVIOUS
        <4>2. QED
          BY <1>3, <4>1
      <3>2. frames[t][i] = f
        BY <3>1
      <3>3. QED
        BY <1>4, <3>2 DEF IsTask, SerialCode
    <2>2. QED
      BY <2>1 DEF RunningInv
  <1>15. JoinInv
    <2>1. ~(team > 1)
      BY <1>2
    <2>2. TasksDone
      BY <1>12 DEF TasksDone
    <2>3. QED
      BY <1>2, <2>1, <2>2 DEF JoinInv
  <1>16. HistoryInv
    <2>1. <<>> \in Seq({}) /\ Len(<<>>) = 0
      OBVIOUS
    <2>2. IsSequence(blocks) /\ Len(blocks) <= MaxBlocks
      <3>1. IsSequence(<<>>)
        BY <2>1, SequenceOf
      <3>2. 0 <= MaxBlocks
        BY TaskAssumption
      <3>3. QED
        BY <1>3, <2>1, <3>1, <3>2
    <2>3. {l.id : l \in log} = {s.id : s \in steps}
      BY <1>2, <1>3
    <2>4. QED
      BY <1>3, <2>2, <2>3 DEF HistoryInv
  <1>17. frames = [t \in Threads |-> frames[t]]
    BY <1>3
  <1>18. QED
    BY <1>1, <1>11, <1>13, <1>14, <1>15, <1>16, <1>17 DEF StacksInv

LEMMA StacksInvKept ==
  ASSUME StacksInv, UNCHANGED allVars
  PROVE  StacksInv'
  <1>1. /\ UNCHANGED <<last_nodes, node_ctr, tree, steps, num_threads, barrierCount,
                       pendingFinish, implEndCount, abort>>
        /\ UNCHANGED <<pc, released, team, barriers, arrived, region, region_nodes>>
        /\ UNCHANGED <<taskMap, firstDispatch, counting, tasks, frames, blocks, log>>
    BY DEF allVars, vars, taskVars, profiler, runtime
  <1>2. TeamInv'
    <2>1. TypeOK'
      <3>1. TypeOK /\ UNCHANGED vars
        BY DEF StacksInv, TeamInv, allVars
      <3>2. QED
        BY <3>1, TypeStep
    <2>2. ControlInv'
      BY <1>1 DEF StacksInv, TeamInv, ControlInv, Active, Team
    <2>3. CountInv'
      <3>1. Counted' = Counted
        BY <1>1 DEF Counted, Team
      <3>2. QED
        BY <1>1, <3>1 DEF StacksInv, TeamInv, CountInv, Active
    <2>4. PhaseInv'
      BY <1>1 DEF StacksInv, TeamInv, PhaseInv, InPhase
    <2>5. NodeInv'
      BY <1>1 DEF StacksInv, TeamInv, NodeInv, Active
    <2>6. QED
      BY <2>1, <2>2, <2>3, <2>4, <2>5 DEF TeamInv
  <1>3. \A t \in Threads : ThreadOK(t)'
    <2> SUFFICES ASSUME NEW t \in Threads PROVE ThreadOK(t)'
      OBVIOUS
    <2>1. ThreadOK(t)
      BY DEF StacksInv
    <2>2. Orphan(t)' <=> Orphan(t)
      BY <1>1 DEF Orphan, Active
    <2>3. PhaseNode(barrierCount[t])' = PhaseNode(barrierCount[t])
      BY <1>1 DEF PhaseNode
    <2>4. QED
      BY <1>1, <2>1, <2>2, <2>3, ThreadKept
  <1>4. RecordsInv' /\ RunOn
    BY <1>1, RecordsKept DEF StacksInv
  <1>5. RunningInv'
    BY <1>1, <1>4, RunningKept DEF StacksInv
  <1>6. JoinInv'
    BY <1>1 DEF StacksInv, JoinInv, MasterIsOut, BarriersDue, Team, TasksDone
  <1>7. HistoryInv'
    BY <1>1 DEF StacksInv, HistoryInv
  <1>8. QED
    BY <1>1, <1>2, <1>3, <1>4, <1>5, <1>6, <1>7 DEF StacksInv

(* The handlers of regions, with the counter and the history, are those    *)
(* of OpenmpRegions.                                                       *)
LEMMA RegionStep ==
  ASSUME TypeOK, Next
  PROVE  TypeOK'
  BY TypeStep

LEMMA StacksThreadStep ==
  ASSUME WaitsAreThere, StacksInv, NEW t \in Threads, TaskThreadStep(t)
  PROVE  StacksInv'
  <1>1. TypeOK
    BY DEF StacksInv, TeamInv
  <1>2. ThreadStep(t) => TypeOK'
    BY <1>1, RegionStep DEF Next
  <1>3. CASE TPImplicitTaskBegin(t)
    <2>1. ThreadStep(t)
      BY <1>3 DEF TPImplicitTaskBegin, ThreadStep
    <2>2. QED
      BY <1>2, <1>3, <2>1, ImplicitTaskBeginStep
  <1>4. CASE TPBarrierBegin(t)
    <2>1. ThreadStep(t)
      BY <1>4 DEF TPBarrierBegin, ThreadStep
    <2>2. QED
      BY <1>2, <1>4, <2>1, BarrierBeginStep
  <1>5. CASE TPBarrierArrive(t)
    <2>1. ThreadStep(t)
      BY <1>5 DEF TPBarrierArrive, ThreadStep
    <2>2. QED
      BY <1>2, <1>5, <2>1, BarrierArriveStep
  <1>6. CASE TPBarrierEnd(t)
    <2>1. ThreadStep(t)
      BY <1>6 DEF TPBarrierEnd, ThreadStep
    <2>2. QED
      BY <1>2, <1>6, <2>1, BarrierEndStep
  <1>7. CASE TPImplicitTaskEnd(t)
    <2>1. ThreadStep(t)
      BY <1>7 DEF TPImplicitTaskEnd, ThreadStep
    <2>2. QED
      BY <1>2, <1>7, <2>1, ImplicitTaskEndStep
  <1>8. CASE TPCountImplicitEnd(t)
    <2>1. ThreadStep(t)
      BY <1>8 DEF TPCountImplicitEnd, ThreadStep
    <2>2. QED
      BY <1>2, <1>8, <2>1, CountImplicitEndStep
  <1>9. CASE \E now \in BOOLEAN : TaskAlloc(t, now)
    BY <1>9, TaskAllocStep
  <1>10. CASE \E k \in DOMAIN tasks : TaskBegin(t, k)
    BY <1>10, TaskBeginStep
  <1>11. CASE TaskEnd(t)
    BY <1>11, TaskEndStep
  <1>12. CASE TaskwaitBegin(t)
    BY <1>12, TaskwaitBeginStep
  <1>13. CASE TaskwaitEnd(t)
    BY <1>13, TaskwaitEndStep
  <1>14. CASE \E kind \in Kinds : BlockBegin(t, kind)
    BY <1>14, BlockBeginStep
  <1>15. CASE BlockEnd(t)
    BY <1>15, BlockEndStep
  <1>16. CASE LoopChunk(t)
    BY <1>16, LoopChunkStep
  <1>17. CASE LoopDrained(t)
    BY <1>17, LoopDrainedStep
  <1>18. QED
    BY <1>3, <1>4, <1>5, <1>6, <1>7, <1>8, <1>9, <1>10, <1>11, <1>12, <1>13, <1>14,
       <1>15, <1>16, <1>17 DEF TaskThreadStep

LEMMA StacksInvStep ==
  ASSUME WaitsAreThere
  PROVE  StacksInv /\ [TasksNext]_allVars => StacksInv'
  <1> SUFFICES ASSUME StacksInv, [TasksNext]_allVars PROVE StacksInv'
    OBVIOUS
  <1>1. TypeOK
    BY DEF StacksInv, TeamInv
  <1>2. CASE \E req \in Requests, b \in 0..MaxBarriers : TPParallelBegin(req, b)
    <2>1. PICK req \in Requests, b \in 0..MaxBarriers : TPParallelBegin(req, b)
      BY <1>2
    <2>2. Next
      BY <2>1 DEF TPParallelBegin, Next
    <2>3. QED
      BY <1>1, <2>1, <2>2, RegionStep, ParallelBeginStep
  <1>3. CASE \E t \in Threads : TaskThreadStep(t)
    BY <1>3, StacksThreadStep
  <1>4. CASE TPParallelEnd
    <2>1. Next
      BY <1>4 DEF TPParallelEnd, Next
    <2>2. QED
      BY <1>1, <1>4, <2>1, RegionStep, ParallelEndStep
  <1>5. CASE TPFinishProfile
    <2>1. Next
      BY <1>5 DEF TPFinishProfile, Next
    <2>2. QED
      BY <1>1, <1>5, <2>1, RegionStep, FinishProfileStep
  <1>6. CASE Finished /\ UNCHANGED taskVars
    BY <1>6, StacksInvKept DEF Finished, allVars
  <1>7. CASE UNCHANGED allVars
    BY <1>7, StacksInvKept
  <1>8. QED
    BY <1>2, <1>3, <1>4, <1>5, <1>6, <1>7 DEF TasksNext

(* What every thread has on its stack of open nodes is exactly what the    *)
(* contexts suspended on it and the one it runs have opened there, in      *)
(* their order, however tasks are spread over the threads.                 *)
THEOREM StacksInvariant ==
  ASSUME WaitsAreThere
  PROVE  TasksSpec => []StacksInv
  <1>1. StacksInv /\ [TasksNext]_allVars => StacksInv'
    BY StacksInvStep
  <1>2. QED
    BY <1>1, StacksInvInit, PTL DEF TasksSpec

(* No assertion of the profiler fails when explicit tasks run on the       *)
(* stacks of the regions, at once or later and on any thread, if the       *)
(* program waits for its tasks before each barrier and at the end of the   *)
(* chunks of a loop.                                                       *)
THEOREM NoAssertFailsWithTasks ==
  ASSUME WaitsAreThere
  PROVE  TasksSpec => []NoAssertFails
  <1>1. StacksInv => NoAssertFails
    BY DEF StacksInv, NoAssertFails
  <1>2. QED
    BY <1>1, StacksInvariant, PTL

(* The records of the tasks, the map of their nodes, the contexts of the   *)
(* threads and the history always have their types, and taskMap has a node *)
(* for exactly the tasks that have not begun.                              *)
THEOREM TasksTypeCorrect ==
  ASSUME WaitsAreThere
  PROVE  TasksSpec => []TasksTypeOK
  <1>1. StacksInv => TasksTypeOK
    <2> SUFFICES ASSUME StacksInv PROVE TasksTypeOK
      OBVIOUS
    <2>1. DOMAIN tasks = 1..Len(tasks) /\ RecordsInv /\ HistoryInv
      BY LengthType DEF StacksInv, RecordsInv
    <2>2. \A k \in DOMAIN taskMap : taskMap[k] \in [type : {"ASYNC"}, finish_flag : {FALSE},
                                                   id : Nat, parent : Nat]
      BY <2>1 DEF RecordsInv, PlainAsync, NodeRecord
    <2>3. \A k \in DOMAIN tasks : /\ tasks[k].state \in {"pending", "running", "done"}
                                  /\ tasks[k].creator \in tasks[k].kin
                                  /\ tasks[k].kin \subseteq Contexts
      BY <2>1 DEF RecordsInv, IsTaskRecord
    <2>4. \A t \in Threads : \A i \in DOMAIN frames[t] : frames[t][i].ctx \in Contexts
      <3> SUFFICES ASSUME NEW t \in Threads, NEW i \in DOMAIN frames[t]
                   PROVE  frames[t][i].ctx \in Contexts
        OBVIOUS
      <3>1. FramesOK(t, frames[t], pc[t], NoTaskHere(t), firstDispatch[t])
        BY DEF StacksInv, ThreadOK, FramesInv
      <3>2. i \in 1..Len(frames[t])
        BY <3>1, LengthType DEF FramesOK
      <3>3. QED
        BY <3>1, <3>2 DEF FramesOK, IsContext
    <2>5. DOMAIN taskMap = {k \in DOMAIN tasks : tasks[k].state = "pending"}
      BY <2>1 DEF RecordsInv
    <2>6. Len(tasks) <= MaxTasks
      BY <2>1 DEF RecordsInv
    <2>7. QED
      BY <2>1, <2>2, <2>3, <2>4, <2>5, <2>6 DEF TasksTypeOK, HistoryInv
  <1>2. QED
    BY <1>1, StacksInvariant, PTL

(* When the master is back in serial code no task is left: all have run,   *)
(* taskMap is empty, the stacks of the other threads are empty and the     *)
(* master's holds the root alone, whichever threads ran the tasks.         *)
THEOREM SerialCodeIsWithoutTasks ==
  ASSUME WaitsAreThere
  PROVE  TasksSpec => []SerialCodeHasNoTasks
  <1>1. StacksInv => SerialCodeHasNoTasks
    <2> SUFFICES ASSUME StacksInv, ~Active
                 PROVE  /\ TasksDone /\ taskMap = <<>>
                        /\ last_nodes = [t \in Threads |-> IF t = Master THEN <<Root>> ELSE <<>>]
      BY DEF SerialCodeHasNoTasks, Active
    <2>1. Quiet /\ TasksDone
      BY SerialQuiet DEF Quiet
    <2>2. DOMAIN tasks = 1..Len(tasks)
      BY LengthType DEF StacksInv, RecordsInv
    <2>3. DOMAIN taskMap = {}
      BY <2>1, <2>2 DEF StacksInv, RecordsInv, TasksDone
    <2>4. taskMap = <<>>
      <3>1. taskMap = [k \in {} |-> taskMap[k]]
        BY <2>3 DEF StacksInv, RecordsInv
      <3>2. QED
        BY <3>1
    <2>5. last_nodes = [t \in Threads |-> IF t = Master THEN <<Root>> ELSE <<>>]
      <3>1. last_nodes = [t \in Threads |-> last_nodes[t]]
        BY DEF StacksInv, TeamInv, TypeOK
      <3>2. \A t \in Threads : last_nodes[t] = IF t = Master THEN <<Root>> ELSE <<>>
        BY <2>1, QuietNodes
      <3>3. QED
        BY <3>1, <3>2
    <2>6. QED
      BY <2>1, <2>4, <2>5
  <1>2. QED
    BY <1>1, StacksInvariant, PTL

=============================================================================

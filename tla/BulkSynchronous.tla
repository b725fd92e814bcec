-------------------------- MODULE BulkSynchronous --------------------------
(***************************************************************************)
(* What the profiler has to record of a parallel region, without stacks,   *)
(* counters and locks: its threads work in numbered phases.  A thread goes *)
(* to the next phase only when no other is behind it, so that no two are   *)
(* ever more than one phase apart; it leaves in the last phase, after      *)
(* which no further phase is opened; and the region is over when all have  *)
(* left.                                                                   *)
(***************************************************************************)
EXTENDS Naturals

CONSTANT Workers  \* the threads there are

VARIABLES
  members,  \* the threads in the region, none in serial code
  phases,   \* the phases opened so far
  at,       \* the phase of each member that has not left, or 0
  left      \* the members that have left

phaseVars == <<members, phases, at, left>>

Nobody == [t \in Workers |-> 0]

Serial == members = {} /\ phases = 0 /\ at = Nobody /\ left = {}

Fork(S) ==
  /\ members = {}
  /\ members' = S
  /\ phases' = 1
  /\ at' = [t \in Workers |-> IF t \in S THEN 1 ELSE 0]
  /\ UNCHANGED left

Advance(t) ==
  /\ t \in members \ left
  /\ \A u \in members \ left : at[u] >= at[t]
  /\ at' = [at EXCEPT ![t] = @ + 1]
  /\ \/ at[t] < phases /\ UNCHANGED phases
     \/ at[t] = phases /\ left = {} /\ phases' = phases + 1
  /\ UNCHANGED <<members, left>>

Leave(t) ==
  /\ t \in members \ left
  /\ at[t] = phases
  /\ at' = [at EXCEPT ![t] = 0]
  /\ left' = left \union {t}
  /\ UNCHANGED <<members, phases>>

Join ==
  /\ members # {} /\ left = members
  /\ members' = {} /\ phases' = 0 /\ left' = {}
  /\ UNCHANGED at

PhaseNext ==
  \/ \E S \in SUBSET Workers : S # {} /\ Fork(S)
  \/ \E t \in Workers : Advance(t) \/ Leave(t)
  \/ Join

PhaseSpec == Serial /\ [][PhaseNext]_phaseVars

=============================================================================

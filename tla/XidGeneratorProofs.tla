------------------------- MODULE XidGeneratorProofs -------------------------
(***************************************************************************)
(* XidGenerator keeps its safety invariants and implements XidCycle, for   *)
(* every finite set of threads and every MaxXid.                           *)
(***************************************************************************)
EXTENDS XidGenerator, FiniteSetTheorems, TLAPS

\* The part of the state that BoundedOvershoot and the refinement rest on:
\* the monitor excludes, a reset finds the counter full, and what a call is
\* about to return is in range.
Monitored ==
    \A t \in Threads : pc[t] \in {"recheck", "reset"} => monitor = t

Full == \A t \in Threads : pc[t] = "reset" => xidGen > MaxXid

DrawnInRange == \A t \in Threads : pc[t] = "return" => xid[t] \in 1..MaxXid

IInv == TypeOK /\ Monitored /\ Full /\ DrawnInRange

\* The counter, the monitor, the program counters and the locals of the
\* generator keep their types, whatever the threads and MAX_XID are.
THEOREM Typing == Spec => []TypeOK
<1> USE DEF TypeOK, Locations
<1>1. Init => TypeOK
  BY DEF Init
<1>2. TypeOK /\ [Next]_vars => TypeOK'
  BY DEF Next, Step, Call, Increment, EnterMonitor, Recheck, Reset, Return, Goto, vars
<1>3. QED
  BY <1>1, <1>2, PTL DEF Spec

\* The initial state satisfies the inductive invariant.
LEMMA InitIInv == Init => IInv
  BY XidAssumption DEF Init, IInv, TypeOK, Locations, Monitored, Full, DrawnInRange

\* Every step of every thread preserves the inductive invariant.
LEMMA NextIInv == IInv /\ [Next]_vars => IInv'
<1> SUFFICES ASSUME IInv, [Next]_vars
             PROVE  IInv'
  OBVIOUS
<1> USE XidAssumption DEF IInv, TypeOK, Locations, Goto
<1>1. ASSUME NEW t \in Threads, Call(t)
      PROVE  IInv'
  BY <1>1 DEF Call, Monitored, Full, DrawnInRange
<1>2. ASSUME NEW t \in Threads, Increment(t)
      PROVE  IInv'
  <2>1. TypeOK' /\ Monitored'
    BY <1>2 DEF Increment, Monitored
  <2>2. Full' /\ DrawnInRange'
    BY <1>2 DEF Increment, Full, DrawnInRange
  <2>3. QED
    BY <2>1, <2>2
<1>3. ASSUME NEW t \in Threads, EnterMonitor(t)
      PROVE  IInv'
  BY <1>3 DEF EnterMonitor, Monitored, Full, DrawnInRange
<1>4. ASSUME NEW t \in Threads, Recheck(t)
      PROVE  IInv'
  <2>1. TypeOK' /\ Monitored'
    BY <1>4 DEF Recheck, Monitored
  <2>2. Full' /\ DrawnInRange'
    BY <1>4 DEF Recheck, Full, DrawnInRange
  <2>3. QED
    BY <2>1, <2>2
<1>5. ASSUME NEW t \in Threads, Reset(t)
      PROVE  IInv'
  BY <1>5 DEF Reset, Monitored, Full, DrawnInRange
<1>6. ASSUME NEW t \in Threads, Return(t)
      PROVE  IInv'
  BY <1>6 DEF Return, Monitored, Full, DrawnInRange
<1>7. CASE UNCHANGED vars
  BY <1>7 DEF vars, Monitored, Full, DrawnInRange
<1>8. QED
  BY <1>1, <1>2, <1>3, <1>4, <1>5, <1>6, <1>7 DEF Next, Step

\* The inductive invariant holds throughout, whatever the threads do.
LEMMA Invariance == Spec => []IInv
  BY InitIInv, NextIInv, PTL DEF Spec

\* No reset takes back ids drawn since its thread overshot: set(0) is only
\* reached by the owner of the monitor, with the counter above MAX_XID.
THEOREM ResetsSafe == Spec => []ResetsOnlyWhenFull
<1>1. IInv => ResetsOnlyWhenFull
  BY DEF IInv, Monitored, Full, ResetsOnlyWhenFull
<1>2. QED
  BY <1>1, Invariance, PTL

-----------------------------------------------------------------------------
\* Increment is the only step that can bring a thread into Late or raise the
\* counter, and above MAX_XID it does both.
LEMMA OvershootStep ==
    IInv /\ BoundedOvershoot /\ [Next]_vars => BoundedOvershoot'
<1> SUFFICES ASSUME IInv, BoundedOvershoot, [Next]_vars
             PROVE  BoundedOvershoot'
  OBVIOUS
<1> USE XidAssumption DEF IInv, TypeOK, Locations, Goto
<1>1. IsFiniteSet(Late) /\ IsFiniteSet(Late')
  BY FS_Subset DEF Late
<1>2. /\ Cardinality(Late) \in Nat
      /\ Cardinality(Late') \in Nat
      /\ xidGen' \in Nat
  BY <1>1, FS_CardinalityType, NextIInv
<1>3. ASSUME xidGen' = xidGen, Late' = Late
      PROVE  BoundedOvershoot'
  BY <1>3 DEF BoundedOvershoot
<1>4. ASSUME xidGen' <= MaxXid
      PROVE  BoundedOvershoot'
  BY <1>2, <1>4 DEF BoundedOvershoot
<1>5. ASSUME NEW t \in Threads, Increment(t)
      PROVE  BoundedOvershoot'
  <2>1. CASE xidGen + 1 <= MaxXid
    BY <1>4, <1>5, <2>1 DEF Increment
  <2>2. CASE xidGen + 1 > MaxXid
    <3>1. t \notin Late /\ Late' = Late \cup {t}
      BY <1>5, <2>2 DEF Increment, Late
    <3>2. Cardinality(Late') = Cardinality(Late) + 1
      BY <1>1, <3>1, FS_AddElement
    <3>3. xidGen' = xidGen + 1
      BY <1>5 DEF Increment
    <3>4. QED
      BY <1>2, <3>2, <3>3 DEF BoundedOvershoot
  <2>3. QED
    BY <2>1, <2>2
<1>6. ASSUME NEW t \in Threads, Call(t) \/ Return(t) \/ EnterMonitor(t)
      PROVE  BoundedOvershoot'
  <2>1. xidGen' = xidGen /\ Late' = Late
    BY <1>6 DEF Call, Return, EnterMonitor, Late
  <2>2. QED
    BY <1>3, <2>1
<1>7. ASSUME NEW t \in Threads, Recheck(t)
      PROVE  BoundedOvershoot'
  <2>1. CASE xidGen > MaxXid
    <3>1. xidGen' = xidGen /\ Late' = Late
      BY <1>7, <2>1 DEF Recheck, Late
    <3>2. QED
      BY <1>3, <3>1
  <2>2. CASE xidGen <= MaxXid
    BY <1>4, <1>7, <2>2 DEF Recheck
  <2>3. QED
    BY <2>1, <2>2
<1>8. ASSUME NEW t \in Threads, Reset(t)
      PROVE  BoundedOvershoot'
  BY <1>4, <1>8 DEF Reset
<1>9. CASE UNCHANGED vars
  BY <1>3, <1>9 DEF vars, Late
<1>10. QED
  BY <1>5, <1>6, <1>7, <1>8, <1>9 DEF Next, Step

\* The counter passes MAX_XID by at most one per thread still on its way to
\* the reset, so the AtomicLong does not grow with the number of calls.
THEOREM OvershootBounded == Spec => []BoundedOvershoot
<1>1. Init => BoundedOvershoot
  <2>1. Init => IsFiniteSet(Late)
    BY XidAssumption, FS_Subset DEF Late
  <2>2. Init => Cardinality(Late) \in Nat
    BY <2>1, FS_CardinalityType
  <2>3. QED
    BY <2>2, XidAssumption DEF Init, BoundedOvershoot
<1>2. QED
  BY <1>1, OvershootStep, Invariance, PTL DEF Spec

-----------------------------------------------------------------------------
\* Every step of the generator is a step of the cyclic counter, or none.
LEMMA StepSimulation ==
    IInv /\ [Next]_vars => [Cycle!CycleNext]_(Cycle!abstractVars)
<1> SUFFICES ASSUME IInv, [Next]_vars
             PROVE  [Cycle!CycleNext]_(Cycle!abstractVars)
  OBVIOUS
<1> USE XidAssumption DEF IInv, TypeOK, Locations, Goto
<1>1. ASSUME NEW t \in Threads, Increment(t), xidGen + 1 <= MaxXid
      PROVE  Cycle!Draw(t)
  <2> DEFINE last == IF xidGen \in 1..MaxXid THEN xidGen ELSE MaxXid
             held == [u \in Threads |-> IF pc[u] = "return" THEN xid[u] ELSE 0]
  <2>1. Cycle!Successor(last) = xidGen + 1
    BY <1>1 DEF Cycle!Successor
  <2>2. last' = xidGen + 1
    BY <1>1 DEF Increment
  <2>3. held[t] = 0
    BY <1>1 DEF Increment
  <2>4. held' = [held EXCEPT ![t] = xidGen + 1]
    <3>1. pc' = [pc EXCEPT ![t] = "return"] /\ xid' = [xid EXCEPT ![t] = xidGen + 1]
      <4>1. ~(xidGen + 1 > MaxXid)
        BY <1>1
      <4>2. QED
        BY <1>1, <4>1, Zenon DEF Increment
    <3>2. ASSUME NEW u \in Threads
          PROVE  held'[u] = [held EXCEPT ![t] = xidGen + 1][u]
      <4>1. CASE u = t
        BY <3>1, <4>1
      <4>2. CASE u # t
        BY <3>1, <4>2
      <4>3. QED
        BY <4>1, <4>2
    <3>3. QED
      BY <3>2
  <2>5. QED
    BY <2>1, <2>2, <2>3, <2>4 DEF Cycle!Draw
<1>2. ASSUME NEW t \in Threads, Return(t)
      PROVE  Cycle!HandOver(t)
  <2> DEFINE held == [u \in Threads |-> IF pc[u] = "return" THEN xid[u] ELSE 0]
  <2>1. pc' = [pc EXCEPT ![t] = "idle"] /\ xid' = [xid EXCEPT ![t] = 0]
    BY <1>2 DEF Return
  <2>2. ASSUME NEW u \in Threads
        PROVE  held'[u] = [held EXCEPT ![t] = 0][u]
    BY <2>1
  <2>3. held' = [held EXCEPT ![t] = 0]
    BY <2>2
  <2>4. held[t] # 0 /\ UNCHANGED xidGen
    BY <1>2 DEF Return, DrawnInRange
  <2>5. QED
    BY <2>3, <2>4 DEF Cycle!HandOver
<1>3. ASSUME NEW t \in Threads, Increment(t), xidGen + 1 > MaxXid
      PROVE  UNCHANGED Cycle!abstractVars
  BY <1>3 DEF Increment, Cycle!abstractVars
<1>4. ASSUME NEW t \in Threads, Call(t) \/ EnterMonitor(t) \/ Recheck(t)
      PROVE  UNCHANGED Cycle!abstractVars
  BY <1>4 DEF Call, EnterMonitor, Recheck, Cycle!abstractVars
<1>5. ASSUME NEW t \in Threads, Reset(t)
      PROVE  UNCHANGED Cycle!abstractVars
  BY <1>5 DEF Reset, Full, Cycle!abstractVars
<1>6. CASE UNCHANGED vars
  BY <1>6 DEF vars, Cycle!abstractVars
<1>7. QED
  BY <1>1, <1>2, <1>3, <1>4, <1>5, <1>6 DEF Next, Step, Cycle!CycleNext

\* nextXid() implements the cyclic counter: every id is drawn exactly once
\* per round, in order, however increments and resets interleave.
THEOREM Refinement == Spec => ImplementsCycle
<1>1. Init => Cycle!CycleInit
  BY XidAssumption DEF Init, Cycle!CycleInit
<1>2. QED
  BY <1>1, StepSimulation, Invariance, PTL DEF Spec, ImplementsCycle, Cycle!CycleSpec
=============================================================================

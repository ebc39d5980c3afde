---------------------------- MODULE XidGenerator ----------------------------
(***************************************************************************)
(* StandardXidGenerator.nextXid of the Java runtime: an AtomicLong that    *)
(* any number of threads increment without a lock, and that whoever        *)
(* overshoots MAX_XID sets back to 0 inside a synchronized block, after    *)
(* reading it again there.  Every atomic operation on the AtomicLong is a  *)
(* step of its own; between two of them every other thread may run.        *)
(***************************************************************************)
EXTENDS Integers, FiniteSets

CONSTANTS Threads,   \* the threads that call nextXid()
          MaxXid,    \* MAX_XID
          NoThread   \* the owner of the monitor when nobody holds it

ASSUME XidAssumption ==
    /\ MaxXid \in Nat \ {0}
    /\ IsFiniteSet(Threads)
    /\ NoThread \notin Threads

VARIABLES xidGen,    \* the AtomicLong
          monitor,   \* the thread inside synchronized(this), or NoThread
          pc,        \* pc[t]: the next operation of t
          xid        \* xid[t]: the local variable of t's call

vars == <<xidGen, monitor, pc, xid>>

Locations == {"idle", "increment", "enter", "recheck", "reset", "return"}

Init ==
    /\ xidGen = 0
    /\ monitor = NoThread
    /\ pc = [t \in Threads |-> "idle"]
    /\ xid = [t \in Threads |-> 0]

Goto(t, location) == pc' = [pc EXCEPT ![t] = location]

-----------------------------------------------------------------------------
(* Faulty variants of the operations below, which no behaviour takes: each   *)
(* shows that a property at the end of the module depends on the code.       *)

\* An entry that does not wait for the monitor.
EnterUnlocked(t) ==
    /\ pc[t] = "enter"
    /\ monitor' = t
    /\ Goto(t, "recheck")
    /\ UNCHANGED <<xidGen, xid>>

\* A recheck that takes the first reading for granted.
RecheckSkipped(t) ==
    /\ pc[t] = "recheck"
    /\ Goto(t, "reset")
    /\ UNCHANGED <<xidGen, monitor, xid>>

\* A recheck with the comparison the wrong way round.
RecheckInverted(t) ==
    /\ pc[t] = "recheck"
    /\ IF xidGen < MaxXid
       THEN Goto(t, "reset") /\ UNCHANGED monitor
       ELSE Goto(t, "increment") /\ monitor' = NoThread
    /\ UNCHANGED <<xidGen, xid>>

\* Resets to the wrong end of the range, and to one below it.
ResetToMax(t) ==
    /\ pc[t] = "reset"
    /\ xidGen' = MaxXid
    /\ monitor' = NoThread
    /\ Goto(t, "increment")
    /\ UNCHANGED xid

-----------------------------------------------------------------------------
\* t calls nextXid().
Call(t) ==
    /\ pc[t] = "idle"
    /\ Goto(t, "increment")
    /\ UNCHANGED <<xidGen, monitor, xid>>

\* xid = xidGen.incrementAndGet(), and the branch on xid > MAX_XID.
Increment(t) ==
    /\ pc[t] = "increment"
    /\ xidGen' = xidGen + 1
    /\ xid' = [xid EXCEPT ![t] = xidGen + 1]
    /\ Goto(t, IF xidGen + 1 > MaxXid THEN "enter" ELSE "return")
    /\ UNCHANGED monitor

EnterMonitor(t) ==
    /\ pc[t] = "enter"
    /\ monitor = NoThread
    /\ monitor' = t
    /\ Goto(t, "recheck")
    /\ UNCHANGED <<xidGen, xid>>

\* The read of xidGen inside the monitor.  A thread that finds the counter
\* already reset leaves the monitor and tries again.
Recheck(t) ==
    /\ pc[t] = "recheck"
    /\ IF xidGen > MaxXid
       THEN Goto(t, "reset") /\ UNCHANGED monitor
       ELSE Goto(t, "increment") /\ monitor' = NoThread
    /\ UNCHANGED <<xidGen, xid>>

\* xidGen.set(0), the end of the block, and the next turn of the loop.
Reset(t) ==
    /\ pc[t] = "reset"
    /\ xidGen' = 0
    /\ monitor' = NoThread
    /\ Goto(t, "increment")
    /\ UNCHANGED xid

Return(t) ==
    /\ pc[t] = "return"
    /\ Goto(t, "idle")
    /\ xid' = [xid EXCEPT ![t] = 0]
    /\ UNCHANGED <<xidGen, monitor>>

Step(t) ==
    \/ Increment(t)
    \/ EnterMonitor(t)
    \/ Recheck(t)
    \/ Reset(t)
    \/ Return(t)

Next == \E t \in Threads : Call(t) \/ Step(t)

Spec == Init /\ [][Next]_vars

\* A started call keeps running; nothing obliges a thread to call again.
FairSpec == Spec /\ \A t \in Threads : WF_vars(Step(t))
-----------------------------------------------------------------------------
TypeOK ==
    /\ xidGen \in Nat
    /\ monitor \in Threads \cup {NoThread}
    /\ pc \in [Threads -> Locations]
    /\ xid \in [Threads -> Nat]

\* The threads that drew a value above MAX_XID and have not yet retried.
Late == {t \in Threads : pc[t] \in {"enter", "recheck", "reset"}}

\* The counter passes MAX_XID by no more than the number of threads that are
\* on their way to reset it, so the 64 bits of the AtomicLong never wrap,
\* however many resets race with increments.
BoundedOvershoot == xidGen <= MaxXid + Cardinality(Late)

\* A thread about to execute xidGen.set(0) holds the monitor, and the counter
\* is still above MAX_XID: a reset never takes back ids that other threads
\* have drawn since this thread overshot.
ResetsOnlyWhenFull ==
    \A t \in Threads : pc[t] = "reset" => monitor = t /\ xidGen > MaxXid

\* nextXid() is a cyclic counter: the increment that stays within MAX_XID is
\* the atomic draw, and every other step of the loop is invisible.
Cycle == INSTANCE XidCycle WITH
    last <- IF xidGen \in 1..MaxXid THEN xidGen ELSE MaxXid,
    held <- [t \in Threads |-> IF pc[t] = "return" THEN xid[t] ELSE 0]

ImplementsCycle == Cycle!CycleSpec

\* Whenever calls are running, one of them gets its id: overshooting threads
\* cannot keep each other in the retry loop for ever.
SomeCallReturns ==
    (\E t \in Threads : pc[t] # "idle") ~> (\E t \in Threads : pc[t] = "return")
=============================================================================

------------------------------ MODULE XidCycle ------------------------------
(***************************************************************************)
(* What an XidGenerator promises its callers: the transaction ids are      *)
(* drawn, atomically and one at a time, in the cyclic order                *)
(* 1, 2, ..., MaxXid, 1, 2, ...  Two draws therefore return the same id    *)
(* only when the MaxXid - 1 other ids have been drawn in between.          *)
(***************************************************************************)
EXTENDS Naturals

CONSTANTS Threads,   \* the threads that share the generator
          MaxXid     \* the largest transaction id

VARIABLES last,      \* the id drawn last (MaxXid before the first draw)
          held       \* held[t]: the id a call of t has drawn, 0 when there is none

abstractVars == <<last, held>>

Successor(x) == IF x = MaxXid THEN 1 ELSE x + 1

CycleInit ==
    /\ last = MaxXid
    /\ held = [t \in Threads |-> 0]

Draw(t) ==
    /\ held[t] = 0
    /\ last' = Successor(last)
    /\ held' = [held EXCEPT ![t] = Successor(last)]

HandOver(t) ==
    /\ held[t] # 0
    /\ held' = [held EXCEPT ![t] = 0]
    /\ UNCHANGED last

CycleNext == \E t \in Threads : Draw(t) \/ HandOver(t)

CycleSpec == CycleInit /\ [][CycleNext]_abstractVars
=============================================================================

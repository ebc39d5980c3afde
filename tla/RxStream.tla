------------------------------ MODULE RxStream ------------------------------
(***************************************************************************)
(* What the receiving half of a Connection promises: the messages of the   *)
(* switch come out whole, once each and in the order sent, whatever the    *)
(* segments they travel in.                                                *)
(***************************************************************************)
EXTENDS Naturals, Sequences

CONSTANT Message     \* the messages a switch may send

VARIABLES sent,      \* the messages the switch has sent
          received   \* the messages that have reached the RX queue

streamVars == <<sent, received>>

StreamInit ==
    /\ sent = <<>>
    /\ received = <<>>

Emit(m) ==
    /\ sent' = Append(sent, m)
    /\ UNCHANGED received

Deliver ==
    /\ Len(received) < Len(sent)
    /\ received' = Append(received, sent[Len(received) + 1])
    /\ UNCHANGED sent

StreamNext == (\E m \in Message : Emit(m)) \/ Deliver

StreamSpec == StreamInit /\ [][StreamNext]_streamVars
=============================================================================

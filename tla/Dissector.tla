------------------------------ MODULE Dissector -----------------------------
(***************************************************************************)
(* The loop of the Wireshark dissector over the octets of a captured       *)
(* connection: a call of p_of.dissector gets a segment, or the octets that *)
(* the last call asked for, and shows the messages that are whole.  An     *)
(* octet is the message it belongs to and its position in it.              *)
(***************************************************************************)
EXTENDS Naturals, Sequences

CONSTANT PeekLen    \* the octets that the dissector looks at first (4)

VARIABLES sent,     \* history: the messages that have been sent
          sock,     \* the octets that have not been captured, in order
          d,        \* where the dissector is
          kept,     \* the octets that Wireshark keeps for the next call
          goal,     \* desegment_len: how many that call must get, 0 for one more segment
          tvb, at,  \* buf and offset of the call
          shown     \* the messages shown

callVars == <<d, kept, goal, tvb, at>>
dissectorVars == <<callVars, shown>>

DissectorInit ==
    /\ d = "idle" /\ kept = <<>> /\ goal = 0
    /\ tvb = <<>> /\ at = 0
    /\ shown = <<>>

\* Wireshark joins a segment to what it has kept, and calls the dissector
\* once the octets are there that it has asked for.  What the segment holds
\* behind them is dissected by a call of its own, as another segment is.
Segment ==
    /\ d = "idle"
    /\ \E n \in 1..Len(sock) :
          LET joined == kept \o SubSeq(sock, 1, n)
          IN  /\ goal > 0 => Len(joined) <= goal
              /\ sock' = SubSeq(sock, n + 1, Len(sock))
              /\ IF Len(joined) < goal
                 THEN kept' = joined /\ UNCHANGED <<d, goal, tvb>>
                 ELSE d' = "loop" /\ kept' = <<>> /\ goal' = 0 /\ tvb' = joined
    /\ UNCHANGED <<sent, at, shown>>
-----------------------------------------------------------------------------
(* One turn of the loop.                                                    *)

Peeked == at + PeekLen <= Len(tvb)

\* The message that starts at offset.
Now == sent[tvb[at + 1].id]

\* Obviously broken: unknown version, or a type or a length out of range.
Broken == Now.fault = "header"

Complete == Peeked /\ ~Broken /\ at + Now.size <= Len(tvb)
Rest == SubSeq(tvb, at + 1, Len(tvb))

\* The call returns; Wireshark keeps some octets.
Returns(octets, n) ==
    /\ d' = "idle" /\ tvb' = <<>> /\ at' = 0
    /\ kept' = octets /\ goal' = n
    /\ UNCHANGED <<sent, sock, shown>>

\* dissect_of_message(), and `until offset >= buf:len()'.
Show ==
    /\ d = "loop" /\ Complete /\ Now.fault = "none"
    /\ shown' = Append(shown, Now)
    /\ IF at + Now.size >= Len(tvb) THEN d' = "idle" /\ tvb' = <<>> /\ at' = 0
       ELSE at' = at + Now.size /\ UNCHANGED <<d, tvb>>
    /\ UNCHANGED <<sent, sock, kept, goal>>

\* A faulty variant: the offset of the unfinished message is not told.
AskFromStart ==
    /\ d = "loop" /\ Peeked /\ ~Broken /\ ~Complete
    /\ Returns(tvb, at + Now.size)

\* The rest of the message is missing.
AskForMessage ==
    /\ d = "loop" /\ Peeked /\ ~Broken /\ ~Complete
    /\ Returns(Rest, Now.size)

\* The length is missing: DESEGMENT_ONE_MORE_SEGMENT.
AskForSegment ==
    /\ d = "loop" /\ ~Peeked
    /\ Returns(Rest, 0)

\* The loop breaks off, or an error ends the call.  What follows in the
\* stream is then looked at from wherever a segment starts: not modelled.
Lose ==
    /\ d = "loop" /\ Peeked
    /\ Broken \/ (Complete /\ Now.fault = "body")
    /\ d' = "lost"
    /\ UNCHANGED <<sent, sock, kept, goal, tvb, at, shown>>

Dissect == Segment \/ Show \/ AskForMessage \/ AskForSegment \/ Lose
=============================================================================

------------------------------ MODULE Streams -------------------------------
(***************************************************************************)
(* The stream that a switch sends, and what takes it apart: the thread of  *)
(* a Connection, or the Wireshark dissector in a capture of the stream.    *)
(* Neither does anything to the other; a behaviour has one of them.        *)
(***************************************************************************)
EXTENDS ConnectionReader

CONSTANT PeekLen

\* The dissector looks at an octet at least, and at no more than a header.
ASSUME PeekAssumption == PeekLen \in 1..HeaderLen

VARIABLES observer,                      \* "thread" or "capture"
          d, kept, goal, tvb, at, shown

Capture == INSTANCE Dissector

readerVars == <<link, r, rd, parseVars, stopVars>>
captureVars == <<d, kept, goal, tvb, at, shown>>
allVars == <<vars, observer, captureVars>>

InitStreams ==
    /\ observer \in {"thread", "capture"}
    /\ Init
    /\ Capture!DissectorInit

NextStreams ==
    /\ \/ observer = "thread" /\ Next /\ UNCHANGED captureVars
       \/ observer = "capture" /\ (\E m \in Message : SwitchSends(m)) /\ UNCHANGED captureVars
       \/ observer = "capture" /\ Capture!Dissect /\ UNCHANGED readerVars
    /\ UNCHANGED observer

\* The thread and a stop() in progress are scheduled; nobody has to call
\* stop(), and the switch owes nothing.  Whatever is sent is captured.
SpecStreams ==
    /\ InitStreams /\ [][NextStreams]_allVars
    /\ WF_allVars(observer = "thread" /\ Thread /\ UNCHANGED <<observer, captureVars>>)
    /\ WF_allVars(observer = "thread" /\ Stop /\ stopper # "idle" /\ UNCHANGED <<observer, captureVars>>)
    /\ WF_allVars(observer = "capture" /\ Capture!Dissect /\ UNCHANGED <<observer, readerVars>>)
-----------------------------------------------------------------------------
\* The messages that have come out of the stream.
Out == IF observer = "thread" THEN rx ELSE shown

\* The octets that have been taken off the stream and belong to no message
\* that has come out.
HeldBack ==
    CASE observer = "thread" -> Held
      [] observer = "capture" -> IF d = "loop" THEN Capture!Rest ELSE kept

\* The octets of the messages after the first n.
Pending(n) ==
    FlattenSeq([i \in 1..(Len(sent) - n) |-> Bytes(sent[n + i], n + i)])

Over == IF observer = "thread" THEN r = "dead" ELSE d = "lost"

\* Reassembly neither loses, repeats nor reorders an octet: what the reader,
\* or Wireshark for the dissector, holds and what is still to come are the
\* messages that have not come out.  Either ends only when the connection was
\* reset, or the first message that has not come out is one that it rejects.
NoByteLost ==
    link # "reset" =>
        IF Over THEN Len(Out) < Len(sent) /\ sent[Len(Out) + 1].fault # "none"
        ELSE HeldBack \o sock = Pending(Len(Out))

\* The messages come out in order, once each.
Stream == INSTANCE RxStream WITH received <- Out

ImplementsStream == Stream!StreamSpec

\* Every message that is sent, and that no faulty one precedes, reaches the
\* RX queue, unless the connection is reset or stop() is called first; in a
\* capture, it is shown.
EveryMessageArrives ==
    \A n \in 1..MaxSent :
        (Len(sent) >= n /\ \A i \in 1..n : sent[i].fault = "none")
            ~> (Len(Out) >= n \/ link = "reset" \/ finished)

\* stop() returns, wherever in its loop the thread is when it is called, and
\* also when the thread is dead or the peer has gone.
StopTerminates == stopper # "idle" ~> stopper = "closed"
=============================================================================

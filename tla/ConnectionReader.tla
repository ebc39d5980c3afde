-------------------------- MODULE ConnectionReader --------------------------
(***************************************************************************)
(* The thread of a Python Connection: the event loop of run(), the         *)
(* reassembly of messages from socket segments in process_read(), and      *)
(* stop(), which another thread calls.  A byte is abstracted to the        *)
(* message it belongs to and its position in it; a header is the first     *)
(* HeaderLen bytes of a message.                                           *)
(***************************************************************************)
EXTENDS Naturals, Sequences, SequencesExt

CONSTANTS HeaderLen,  \* the bytes of an OpenFlow header (8)
          ReadMax,    \* the most bytes one sock.recv() returns (4096)
          Sizes,      \* the message lengths the switch uses
          MaxSent     \* bound: the messages the switch sends

ASSUME ReaderAssumption ==
    /\ HeaderLen \in Nat \ {0}
    /\ ReadMax \in Nat \ {0}
    /\ Sizes \subseteq {n \in Nat : n >= HeaderLen}
    /\ MaxSent \in Nat

VARIABLES sent,        \* history: the messages the switch has sent
          sock,        \* the bytes in the socket, in order
          link,        \* what the peer did to the connection
          r,           \* where the thread is
          rd,          \* the descriptors select() found readable
          read_buffer, \* the bytes kept between two calls of process_read()
          buf, offset, \* the locals of process_read()
          rx,          \* what has been appended to self.rx
          finished,    \* self.finished
          pipe,        \* the bytes in the wakeup pipe
          stopper      \* where the thread that calls stop() is

peerVars == <<sent, sock, link>>
parseVars == <<read_buffer, buf, offset, rx>>
stopVars == <<finished, pipe, stopper>>
vars == <<peerVars, r, rd, parseVars, stopVars>>

\* A fault is in the header (unknown version, length below HeaderLen) or in
\* the body; both make the parser raise.
Message == [size : Sizes, fault : {"none", "header", "body"}]

Bytes(m, id) == [k \in 1..m.size |-> [id |-> id, at |-> k]]

Init ==
    /\ sent = <<>> /\ sock = <<>> /\ link = "up"
    /\ r = "while" /\ rd = {}
    /\ read_buffer = <<>> /\ buf = <<>> /\ offset = 0 /\ rx = <<>>
    /\ finished = FALSE /\ pipe = 0 /\ stopper = "idle"
-----------------------------------------------------------------------------
(* The switch.                                                              *)

SwitchSends(m) ==
    /\ link = "up"
    /\ Len(sent) < MaxSent
    /\ sent' = Append(sent, m)
    /\ sock' = sock \o Bytes(m, Len(sent) + 1)
    /\ UNCHANGED <<link, r, rd, parseVars, stopVars>>

\* The switch closes its end: what it sent can still be read.
SwitchCloses ==
    /\ link = "up"
    /\ link' = "eof"
    /\ UNCHANGED <<sent, sock, r, rd, parseVars, stopVars>>

\* The connection is reset: unread bytes are gone and recv() raises.
SwitchResets ==
    /\ link = "up"
    /\ link' = "reset"
    /\ sock' = <<>>
    /\ UNCHANGED <<sent, r, rd, parseVars, stopVars>>
-----------------------------------------------------------------------------
(* The tests of the loop in process_read().                                 *)

\* The message whose header starts at offset.
Current == sent[buf[offset + 1].id]

HasHeader == offset + HeaderLen <= Len(buf)

\* A body check that wants one byte more than the message has, and none.
HasBodyStrict == HasHeader /\ offset + Current.size < Len(buf)

HasBody == HasHeader /\ offset + Current.size <= Len(buf)
-----------------------------------------------------------------------------
(* Faulty variants of the operations below, which no behaviour takes: each   *)
(* shows that a property at the end of the module depends on the code.       *)

\* The rest of the buffer is dropped.
KeepNothing ==
    /\ r = "parse"
    /\ \/ ~HasHeader
       \/ HasHeader /\ Current.fault # "header" /\ ~HasBody
    /\ read_buffer' = <<>>
    /\ buf' = <<>>
    /\ offset' = 0
    /\ r' = IF "pipe" \in rd THEN "wakeup" ELSE "while"
    /\ UNCHANGED <<peerVars, rd, rx, stopVars>>

\* The wakeup byte is written before the flag is set.
StopSwapped ==
    \/ /\ stopper = "idle"
       /\ pipe' = pipe + 1
       /\ stopper' = "write"
       /\ UNCHANGED <<peerVars, r, rd, parseVars, finished>>
    \/ /\ stopper = "write"
       /\ finished' = TRUE
       /\ stopper' = "join"
       /\ UNCHANGED <<peerVars, r, rd, parseVars, pipe>>
    \/ /\ stopper = "join"
       /\ r \in {"exited", "dead"}
       /\ stopper' = "closed"
       /\ UNCHANGED <<peerVars, r, rd, parseVars, finished, pipe>>
-----------------------------------------------------------------------------
(* The event loop.                                                          *)

\* while not self.finished
TestFinished ==
    /\ r = "while"
    /\ r' = IF finished THEN "exited" ELSE "select"
    /\ UNCHANGED <<peerVars, rd, parseVars, stopVars>>

Readable == {d \in {"sock", "pipe"} : IF d = "pipe" THEN pipe > 0
                                       ELSE sock # <<>> \/ link # "up"}

\* select() blocks until the socket or the pipe is readable.
Select ==
    /\ r = "select"
    /\ Readable # {}
    /\ rd' = Readable
    /\ r' = IF "sock" \in Readable THEN "recv" ELSE "wakeup"
    /\ UNCHANGED <<peerVars, parseVars, stopVars>>

\* recvd = sock.recv(4096): any leading part of what is there, nothing at the
\* end of the stream.  What was kept comes before it.
Recv ==
    /\ r = "recv"
    /\ link # "reset"
    /\ \E n \in (IF sock = <<>> THEN {0} ELSE 1..Len(sock)) :
          /\ n <= ReadMax
          /\ buf' = read_buffer \o SubSeq(sock, 1, n)
          /\ sock' = SubSeq(sock, n + 1, Len(sock))
    /\ offset' = 0
    /\ r' = "parse"
    /\ UNCHANGED <<sent, link, rd, read_buffer, rx, stopVars>>

\* recv() raises, and the exception ends the thread.
RecvRaises ==
    /\ r = "recv"
    /\ link = "reset"
    /\ r' = "dead"
    /\ UNCHANGED <<peerVars, rd, parseVars, stopVars>>

\* One turn of the loop over a complete message that parses.  parse_message()
\* returns an object of a generated class or raises, and no such class defines
\* a length or a truth value: "if not msg: continue" is never taken.
Parse ==
    /\ r = "parse"
    /\ HasBody
    /\ Current.fault = "none"
    /\ rx' = Append(rx, Current)
    /\ offset' = offset + Current.size
    /\ UNCHANGED <<peerVars, r, rd, read_buffer, buf, stopVars>>

\* A message the parser rejects raises out of process_read() and run().
ParseRaises ==
    /\ r = "parse"
    /\ HasHeader
    /\ \/ Current.fault = "header"
       \/ Current.fault = "body" /\ HasBody
    /\ r' = "dead"
    /\ UNCHANGED <<peerVars, rd, parseVars, stopVars>>

\* No complete message is left: keep the rest for the next read.
KeepRest ==
    /\ r = "parse"
    /\ \/ ~HasHeader
       \/ HasHeader /\ Current.fault # "header" /\ ~HasBody
    /\ read_buffer' = SubSeq(buf, offset + 1, Len(buf))
    /\ buf' = <<>>
    /\ offset' = 0
    /\ r' = IF "pipe" \in rd THEN "wakeup" ELSE "while"
    /\ UNCHANGED <<peerVars, rd, rx, stopVars>>

\* os.read(self.wakeup_rd, 1)
DrainWakeup ==
    /\ r = "wakeup"
    /\ pipe > 0
    /\ pipe' = pipe - 1
    /\ r' = "while"
    /\ UNCHANGED <<peerVars, rd, parseVars, finished, stopper>>

Thread ==
    \/ TestFinished \/ Select \/ Recv \/ RecvRaises
    \/ Parse \/ ParseRaises \/ KeepRest \/ DrainWakeup
-----------------------------------------------------------------------------
(* stop(), called once.                                                     *)

SetFinished ==
    /\ stopper = "idle"
    /\ finished' = TRUE
    /\ stopper' = "write"
    /\ UNCHANGED <<peerVars, r, rd, parseVars, pipe>>

WriteWakeup ==
    /\ stopper = "write"
    /\ pipe' = pipe + 1
    /\ stopper' = "join"
    /\ UNCHANGED <<peerVars, r, rd, parseVars, finished>>

\* self.join() returns when the thread has ended; then the descriptors are
\* closed.
JoinAndClose ==
    /\ stopper = "join"
    /\ r \in {"exited", "dead"}
    /\ stopper' = "closed"
    /\ UNCHANGED <<peerVars, r, rd, parseVars, finished, pipe>>

Stop == SetFinished \/ WriteWakeup \/ JoinAndClose
-----------------------------------------------------------------------------
Next ==
    \/ \E m \in Message : SwitchSends(m)
    \/ SwitchCloses
    \/ SwitchResets
    \/ Thread
    \/ Stop

-----------------------------------------------------------------------------
\* The bytes read off the socket that belong to no delivered message yet.
Held == IF r = "parse" THEN SubSeq(buf, offset + 1, Len(buf)) ELSE read_buffer
=============================================================================

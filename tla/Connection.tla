----------------------------- MODULE Connection -----------------------------
(***************************************************************************)
(* The threads that share a Python Connection: connect(), send(), recv()   *)
(* and its variants, transact() and transact_multipart(), with the RX      *)
(* queue and its condition variable, the TX lock and the xid counter       *)
(* between them.  The reader thread is taken at the granularity that       *)
(* ConnectionReader justifies: it appends whole messages to the RX queue,  *)
(* in the order sent, until it ends.                                       *)
(***************************************************************************)
EXTENDS Naturals, Sequences, FiniteSets, SequencesExt

CONSTANTS Clients,    \* the threads that call methods of the connection
          Ops,        \* Ops[c]: the operations client c uses
          OwnXids,    \* the clients that put an xid of their own in a message
          Retriers,   \* the clients that repeat a transact() that timed out
          Opener,     \* the client that calls connect(), NoClient if it is done
          NoClient,
          WireCap,    \* requests the socket buffers hold before sendall() blocks
          SockCap,    \* messages the socket buffers hold before the switch blocks
          MaxCalls,   \* bound: MaxCalls[c] calls of client c
          MaxParts,   \* bound: replies to one multipart request
          MaxAsync    \* bound: messages the switch sends unasked

Operations == {"connect", "send", "transact", "multipart", "generator",
               "recv_any", "recv_class"}

ASSUME ConnectionAssumption ==
    /\ Clients \subseteq Nat \ {0}
    /\ NoClient \notin Clients
    /\ Opener \in Clients \cup {NoClient}
    /\ Ops \in [Clients -> SUBSET Operations]
    /\ OwnXids \subseteq Clients /\ Retriers \subseteq Clients
    /\ WireCap \in Nat \ {0} /\ SockCap \in Nat \ {0}
    /\ MaxCalls \in [Clients -> Nat] /\ MaxParts \in Nat \ {0} /\ MaxAsync \in Nat

VARIABLES
    next_xid,  \* self.next_xid
    tx_lock,   \* the owner of self.tx_lock, or NoClient
    rx,        \* self.rx
    alive,     \* is_alive() of the reader thread
    closed,    \* stop() has closed the socket
    opened,    \* connect() has returned the connection
    pc,        \* pc[c]: the next step of client c
    msg,       \* msg[c]: the message of c's call; id tells messages apart
    loaded,    \* loaded[c]: next_xid as c's "+= 1" has read it
    expired,   \* expired[c]: the deadline of c's recv() has passed
    got,       \* got[c]: the messages c's call has received so far
    result,    \* result[c]: how c's last call ended
    calls,     \* calls[c]: the messages c has made
    wire,      \* requests the switch has not finished with
    sock,      \* messages of the switch the reader has not appended
    emitted,   \* the number of messages the switch has sent
    asyncs,    \* how many of them unasked
    taken,     \* history: the serial numbers of the messages recv() has returned
    settled    \* history: the requests whose call returned normally

clientVars == <<pc, msg, loaded, expired, got, result, calls, taken, settled>>
threadVars == <<alive, closed>>
switchVars == <<wire, sock, emitted, asyncs>>
vars == <<next_xid, tx_lock, rx, opened, threadVars, clientVars, switchVars>>

NoMsg == [op |-> "none", xid |-> 0, id |-> <<0, 0>>]

FirstXid == 1

Init ==
    /\ next_xid = FirstXid
    /\ tx_lock = NoClient
    /\ rx = <<>>
    /\ alive = TRUE /\ closed = FALSE
    /\ opened = (Opener = NoClient)
    /\ pc = [c \in Clients |-> "idle"]
    /\ msg = [c \in Clients |-> NoMsg]
    /\ loaded = [c \in Clients |-> 0]
    /\ expired = [c \in Clients |-> FALSE]
    /\ got = [c \in Clients |-> <<>>]
    /\ result = [c \in Clients |-> "none"]
    /\ calls = [c \in Clients |-> 0]
    /\ wire = <<>> /\ sock = <<>> /\ emitted = 0 /\ asyncs = 0
    /\ taken = {} /\ settled = {}
-----------------------------------------------------------------------------
(* The reader thread.                                                       *)

\* A faulty variant: the message is appended, nobody is notified.
DeliverSilently ==
    /\ alive
    /\ sock # <<>>
    /\ rx' = Append(rx, Head(sock))
    /\ sock' = Tail(sock)
    /\ UNCHANGED <<next_xid, tx_lock, opened, threadVars, clientVars, wire, emitted, asyncs>>

\* process_read() appends the next message and notifies every waiting thread.
Deliver ==
    /\ alive
    /\ sock # <<>>
    /\ rx' = Append(rx, Head(sock))
    /\ sock' = Tail(sock)
    /\ pc' = [c \in Clients |-> IF pc[c] = "wait" THEN "scan" ELSE pc[c]]
    /\ UNCHANGED <<next_xid, tx_lock, opened, threadVars, msg, loaded, expired,
                   got, result, calls, taken, settled, wire, emitted, asyncs>>

\* The thread ends, by stop() or by an exception.  Nobody is notified.
ReaderEnds ==
    /\ alive
    /\ alive' = FALSE
    /\ UNCHANGED <<next_xid, tx_lock, rx, opened, closed, clientVars, switchVars>>

\* stop() closes the socket once the thread has ended.
CloseSocket ==
    /\ ~alive /\ ~closed
    /\ closed' = TRUE
    /\ UNCHANGED <<next_xid, tx_lock, rx, opened, alive, clientVars, switchVars>>
-----------------------------------------------------------------------------
(* The calls.                                                               *)

Goto(c, location) == pc' = [pc EXCEPT ![c] = location]

End(c, how) ==
    /\ Goto(c, "done")
    /\ result' = [result EXCEPT ![c] = how]

Sends(op) == op \notin {"recv_any", "recv_class"}

\* The caller starts an operation on a new message.  Every operation begins
\* by asserting that the reader thread is alive.  A message that already has
\* an xid keeps it.
Begin(c, op) ==
    /\ pc[c] = "idle"
    /\ calls[c] < MaxCalls[c]
    /\ IF op = "connect" THEN ~opened /\ c = Opener /\ calls[c] = 0
                         ELSE opened /\ op \in Ops[c]
    /\ calls' = [calls EXCEPT ![c] = @ + 1]
    /\ msg' = [msg EXCEPT ![c] =
                  [op |-> op, id |-> <<c, calls[c] + 1>>,
                   xid |-> IF c \in OwnXids /\ Sends(op)
                           THEN 100 * c + calls[c] + 1 ELSE 0]]
    /\ got' = [got EXCEPT ![c] = <<>>]
    /\ IF alive
       THEN /\ Goto(c, IF ~Sends(op) THEN "recv"
                       ELSE IF c \in OwnXids THEN "lock" ELSE "read_xid")
            /\ result' = [result EXCEPT ![c] = "none"]
       ELSE End(c, "assertion")
    /\ UNCHANGED <<next_xid, tx_lock, rx, opened, threadVars, loaded, expired,
                   taken, settled, switchVars>>

\* transact() again with the message that got no answer: it has an xid now.
Retry(c) ==
    /\ c \in Retriers
    /\ pc[c] = "idle"
    /\ calls[c] < MaxCalls[c]
    /\ msg[c].op = "transact" /\ result[c] = "timeout"
    /\ calls' = [calls EXCEPT ![c] = @ + 1]
    /\ got' = [got EXCEPT ![c] = <<>>]
    /\ IF alive THEN Goto(c, "lock") /\ result' = [result EXCEPT ![c] = "none"]
                ELSE End(c, "assertion")
    /\ UNCHANGED <<next_xid, tx_lock, rx, opened, threadVars, msg, loaded,
                   expired, taken, settled, switchVars>>

\* _gen_xid(), one access to self.next_xid at a time.
ReadXid(c) ==
    /\ pc[c] = "read_xid"
    /\ msg' = [msg EXCEPT ![c].xid = next_xid]
    /\ Goto(c, "load_xid")
    /\ UNCHANGED <<next_xid, tx_lock, rx, opened, threadVars, loaded, expired,
                   got, result, calls, taken, settled, switchVars>>

LoadXid(c) ==
    /\ pc[c] = "load_xid"
    /\ loaded' = [loaded EXCEPT ![c] = next_xid]
    /\ Goto(c, "store_xid")
    /\ UNCHANGED <<next_xid, tx_lock, rx, opened, threadVars, msg, expired,
                   got, result, calls, taken, settled, switchVars>>

\* A faulty variant: the counter is read but not advanced.
StoreSameXid(c) ==
    /\ pc[c] = "store_xid"
    /\ next_xid' = loaded[c]
    /\ loaded' = [loaded EXCEPT ![c] = 0]
    /\ Goto(c, "lock")
    /\ UNCHANGED <<tx_lock, rx, opened, threadVars, msg, expired, got, result,
                   calls, taken, settled, switchVars>>

StoreXid(c) ==
    /\ pc[c] = "store_xid"
    /\ next_xid' = loaded[c] + 1
    /\ loaded' = [loaded EXCEPT ![c] = 0]
    /\ Goto(c, "lock")
    /\ UNCHANGED <<tx_lock, rx, opened, threadVars, msg, expired, got, result,
                   calls, taken, settled, switchVars>>

LockTx(c) ==
    /\ pc[c] = "lock"
    /\ tx_lock = NoClient
    /\ tx_lock' = c
    /\ Goto(c, "sendall")
    /\ UNCHANGED <<next_xid, rx, opened, threadVars, msg, loaded, expired, got,
                   result, calls, taken, settled, switchVars>>

\* sendall() blocks, with the lock held, until the request fits; send() alone
\* is then done, the others wait for an answer.
SendAll(c) ==
    /\ pc[c] = "sendall"
    /\ ~closed
    /\ Len(wire) < WireCap
    /\ wire' = Append(wire, [op |-> msg[c].op, xid |-> msg[c].xid,
                             id |-> msg[c].id, part |-> 1])
    /\ tx_lock' = NoClient
    /\ IF msg[c].op = "send"
       THEN End(c, "sent")
       ELSE Goto(c, "recv") /\ UNCHANGED result
    /\ UNCHANGED <<next_xid, rx, opened, threadVars, msg, loaded, expired, got,
                   calls, taken, settled, sock, emitted, asyncs>>

\* A faulty variant: the exception leaves the lock held.
SendRaisesLocked(c) ==
    /\ pc[c] = "sendall"
    /\ End(c, "error")
    /\ UNCHANGED <<next_xid, tx_lock, rx, opened, threadVars, msg, loaded, expired,
                   got, calls, taken, settled, switchVars>>

\* sendall() on a closed or broken socket raises; the with statement frees
\* the lock.
SendRaises(c) ==
    /\ pc[c] = "sendall"
    /\ tx_lock' = NoClient
    /\ End(c, "error")
    /\ UNCHANGED <<next_xid, rx, opened, threadVars, msg, loaded, expired, got,
                   calls, taken, settled, switchVars>>

\* recv() asserts that the thread is alive and computes its deadline.
EnterRecv(c) ==
    /\ pc[c] = "recv"
    /\ IF alive
       THEN Goto(c, "scan") /\ expired' = [expired EXCEPT ![c] = FALSE] /\ UNCHANGED result
       ELSE End(c, "assertion") /\ UNCHANGED expired
    /\ UNCHANGED <<next_xid, tx_lock, rx, opened, threadVars, msg, loaded, got,
                   calls, taken, settled, switchVars>>

\* The consumer of transact_multipart_generator() drops it between two replies.
Abandon(c) ==
    /\ pc[c] = "recv"
    /\ msg[c].op = "generator"
    /\ got[c] # <<>>
    /\ End(c, "abandoned")
    /\ UNCHANGED <<next_xid, tx_lock, rx, opened, threadVars, msg, loaded, expired,
                   got, calls, taken, settled, switchVars>>

\* The predicate of recv(): connect() filters by type, recv_any() not at all,
\* recv_class() by class, the transactions by xid.
Wanted(c, m) ==
    CASE msg[c].op = "connect" -> m.type = "hello"
      [] msg[c].op = "recv_any" -> TRUE
      [] msg[c].op = "recv_class" -> m.type = "async"
      [] OTHER -> m.xid = msg[c].xid

Matches(c) == {i \in DOMAIN rx : Wanted(c, rx[i])}

\* A faulty variant: the queue is searched from its end.
LastMatch(c) == CHOOSE i \in Matches(c) : \A j \in Matches(c) : j <= i

First(c) == CHOOSE i \in Matches(c) : \A j \in Matches(c) : i <= j

\* A faulty variant: REPLY_MORE is not looked at.
AcceptFirst(c, m) ==
    LET op == msg[c].op
    IN  IF op = "transact" /\ m.type = "error"
        THEN End(c, "error") /\ UNCHANGED <<got, settled, opened>>
        ELSE /\ got' = [got EXCEPT ![c] = Append(@, m)]
             /\ End(c, "reply")
             /\ settled' = settled \cup {msg[c].id}
             /\ opened' = (opened \/ op = "connect")

\* What the operation makes of the message m that recv() returned.
Accept(c, m) ==
    LET op == msg[c].op
        multi == op \in {"multipart", "generator"}
        bad == \/ op = "transact" /\ m.type = "error"
               \/ multi /\ m.type \notin {"more", "last"}
    IN  CASE bad -> End(c, "error") /\ UNCHANGED <<got, settled, opened>>
          [] ~bad /\ multi /\ m.type = "more" ->
                /\ got' = [got EXCEPT ![c] = Append(@, m)]
                /\ Goto(c, "recv")
                /\ UNCHANGED <<result, settled, opened>>
          [] OTHER ->
                /\ got' = [got EXCEPT ![c] = Append(@, m)]
                /\ End(c, "reply")
                /\ settled' = settled \cup {msg[c].id}
                /\ opened' = (opened \/ op = "connect")

\* A faulty variant: the message is returned and stays in the queue.
Peek(c) ==
    /\ pc[c] = "scan"
    /\ Matches(c) # {}
    /\ taken' = taken \cup {rx[First(c)].seq}
    /\ Accept(c, rx[First(c)])
    /\ UNCHANGED <<next_xid, tx_lock, rx, threadVars, msg, loaded, expired, calls, switchVars>>

\* One pass over the queue with the condition held: return the first match,
\* give up if the deadline has passed, or wait.
Take(c) ==
    /\ pc[c] = "scan"
    /\ Matches(c) # {}
    /\ rx' = RemoveAt(rx, First(c))
    /\ taken' = taken \cup {rx[First(c)].seq}
    /\ Accept(c, rx[First(c)])
    /\ UNCHANGED <<next_xid, tx_lock, threadVars, msg, loaded, expired, calls, switchVars>>

GiveUp(c) ==
    /\ pc[c] = "scan"
    /\ Matches(c) = {}
    /\ expired[c]
    /\ End(c, "timeout")
    /\ UNCHANGED <<next_xid, tx_lock, rx, opened, threadVars, msg, loaded, expired,
                   got, calls, taken, settled, switchVars>>

Wait(c) ==
    /\ pc[c] = "scan"
    /\ Matches(c) = {}
    /\ ~expired[c]
    /\ Goto(c, "wait")
    /\ UNCHANGED <<next_xid, tx_lock, rx, opened, threadVars, msg, loaded, expired,
                   got, result, calls, taken, settled, switchVars>>

\* A faulty variant: wait() is called without the time that is left.
ExpireAsleep(c) ==
    /\ pc[c] \in {"scan", "wait"}
    /\ ~expired[c]
    /\ expired' = [expired EXCEPT ![c] = TRUE]
    /\ UNCHANGED <<next_xid, tx_lock, rx, opened, threadVars, pc, msg, loaded, got,
                   result, calls, taken, settled, switchVars>>

\* The deadline passes; a waiting thread wakes up and scans once more.
Expire(c) ==
    /\ pc[c] \in {"scan", "wait"}
    /\ ~expired[c]
    /\ expired' = [expired EXCEPT ![c] = TRUE]
    /\ Goto(c, "scan")
    /\ UNCHANGED <<next_xid, tx_lock, rx, opened, threadVars, msg, loaded, got,
                   result, calls, taken, settled, switchVars>>

\* The call returns or raises; the caller goes on.
Leave(c) ==
    /\ pc[c] = "done"
    /\ Goto(c, "idle")
    /\ got' = [got EXCEPT ![c] = <<>>]
    /\ expired' = [expired EXCEPT ![c] = FALSE]
    /\ UNCHANGED <<next_xid, tx_lock, rx, opened, threadVars, msg, loaded,
                   result, calls, taken, settled, switchVars>>

ClientStep(c) ==
    \/ ReadXid(c) \/ LoadXid(c) \/ StoreXid(c)
    \/ LockTx(c) \/ SendAll(c)
    \/ EnterRecv(c) \/ Abandon(c)
    \/ Take(c) \/ GiveUp(c) \/ Wait(c) \/ Leave(c)
-----------------------------------------------------------------------------
(* The switch: it answers requests in any order, or not at all.             *)

Put(type, xid, id, part) ==
    /\ Len(sock) < SockCap
    /\ emitted' = emitted + 1
    /\ sock' = Append(sock, [type |-> type, xid |-> xid, for |-> id,
                             part |-> part, seq |-> emitted + 1])

\* A single answer, or the last part of one, and the request is done with.
Answer(i) ==
    LET q == wire[i]
    IN  /\ q.op # "connect"
        /\ \/ Put("error", q.xid, q.id, q.part)
           \/ q.op = "transact" /\ Put("reply", q.xid, q.id, q.part)
           \/ q.op \in {"multipart", "generator"} /\ Put("last", q.xid, q.id, q.part)
        /\ wire' = RemoveAt(wire, i)
        /\ UNCHANGED <<next_xid, tx_lock, rx, opened, threadVars, clientVars, asyncs>>

\* A part with REPLY_MORE set: more will follow.
AnswerMore(i) ==
    /\ wire[i].op \in {"multipart", "generator"}
    /\ wire[i].part < MaxParts
    /\ Put("more", wire[i].xid, wire[i].id, wire[i].part)
    /\ wire' = [wire EXCEPT ![i].part = @ + 1]
    /\ UNCHANGED <<next_xid, tx_lock, rx, opened, threadVars, clientVars, asyncs>>

Ignore(i) ==
    /\ wire' = RemoveAt(wire, i)
    /\ UNCHANGED <<next_xid, tx_lock, rx, opened, threadVars, clientVars, sock,
                   emitted, asyncs>>

\* The switch's HELLO (when it has not been exchanged), or an event of its own.
Unasked(type) ==
    /\ IF type = "hello" THEN Opener # NoClient /\ emitted = 0
                         ELSE opened /\ asyncs < MaxAsync
    /\ Put(type, 0, <<0, 0>>, 1)
    /\ asyncs' = IF type = "hello" THEN asyncs ELSE asyncs + 1
    /\ UNCHANGED <<next_xid, tx_lock, rx, opened, threadVars, clientVars, wire>>

SwitchStep ==
    \/ \E i \in DOMAIN wire : Answer(i) \/ AnswerMore(i) \/ Ignore(i)
    \/ \E type \in {"hello", "async"} : Unasked(type)
-----------------------------------------------------------------------------
Next ==
    \/ Deliver \/ ReaderEnds \/ CloseSocket
    \/ \E c \in Clients :
          \/ \E op \in Operations : Begin(c, op)
          \/ Retry(c)
          \/ SendRaises(c)
          \/ Expire(c)
          \/ ClientStep(c)
    \/ SwitchStep

Spec == Init /\ [][Next]_vars

\* Started calls are scheduled, time passes, the reader runs, sendall() on a
\* closed socket raises.  The switch owes nothing: it may stop reading, which
\* blocks sendall() for ever.
FairSpec ==
    /\ Spec
    /\ WF_vars(Deliver)
    /\ \A c \in Clients :
          /\ WF_vars(ClientStep(c))
          /\ WF_vars(Expire(c))
          /\ WF_vars(closed /\ SendRaises(c))

\* A switch that keeps reading its end of the socket.
SwitchReads == WF_vars(\E i \in DOMAIN wire : Ignore(i))
-----------------------------------------------------------------------------
Message == [type : {"hello", "async", "reply", "error", "more", "last"},
            xid : Nat, for : Nat \X Nat, part : Nat \ {0}, seq : Nat \ {0}]

Request == [op : Operations, xid : Nat, id : Nat \X Nat, part : 1..MaxParts]

Call == [op : Operations \cup {"none"}, xid : Nat, id : Nat \X Nat]

Locations == {"idle", "read_xid", "load_xid", "store_xid", "lock", "sendall",
              "recv", "scan", "wait", "done"}

Results == {"none", "sent", "reply", "error", "timeout", "assertion", "abandoned"}

ConnectionTyped ==
    /\ next_xid \in Nat \ {0}
    /\ tx_lock \in Clients \cup {NoClient}
    /\ rx \in Seq(Message)
    /\ alive \in BOOLEAN /\ closed \in BOOLEAN /\ opened \in BOOLEAN

ClientsTyped ==
    /\ pc \in [Clients -> Locations]
    /\ msg \in [Clients -> Call]
    /\ loaded \in [Clients -> Nat]
    /\ expired \in [Clients -> BOOLEAN]
    /\ got \in [Clients -> Seq(Message)]
    /\ result \in [Clients -> Results]
    /\ calls \in [Clients -> Nat]
    /\ taken \subseteq Nat /\ settled \subseteq Nat \X Nat

SwitchTyped ==
    /\ wire \in Seq(Request) /\ Len(wire) <= WireCap
    /\ sock \in Seq(Message) /\ Len(sock) <= SockCap
    /\ emitted \in Nat /\ asyncs \in 0..MaxAsync

\* The connection, its clients and the switch.
TypeOK == ConnectionTyped /\ ClientsTyped /\ SwitchTyped

\* A thread that waits on the condition has nothing to find: no message it
\* wants is in the queue, whoever appended it and whenever the scan ran.
NoLostWakeup == \A c \in Clients : pc[c] = "wait" => Matches(c) = {}

\* A message of the switch is in the socket, in the queue, or has been
\* returned by one recv(); the queue keeps the order of arrival.
ExactlyOnce ==
    LET queued == rx \o sock
        seqs == [i \in DOMAIN queued |-> queued[i].seq]
    IN  /\ \A i, j \in DOMAIN seqs : i < j => seqs[i] < seqs[j]
        /\ taken \cap ToSet(seqs) = {}
        /\ taken \cup ToSet(seqs) = 1..emitted

Returned(c, ops) == pc[c] = "done" /\ result[c] = "reply" /\ msg[c].op \in ops

\* A transaction that returns normally returns answers to its own request,
\* never those to another thread's or to an earlier, timed out one.
OwnReply ==
    \A c \in Clients :
        Returned(c, {"transact", "multipart", "generator"}) =>
            \A i \in DOMAIN got[c] : got[c][i].for = msg[c].id

\* A multipart transaction that returns normally has every part, in order.
MultipartWhole ==
    \A c \in Clients :
        Returned(c, {"multipart", "generator"}) =>
            \A i \in DOMAIN got[c] :
                /\ got[c][i].part = i
                /\ got[c][i].type = (IF i = Len(got[c]) THEN "last" ELSE "more")

\* A transaction that returned normally leaves no answer of its own behind,
\* in the queue or on the way to it, for a later recv() to trip over.
NothingLeftBehind ==
    \A i \in DOMAIN (rx \o sock) : (rx \o sock)[i].for \notin settled

\* A recv() ends within its deadline whatever the switch, the other threads
\* and the reader do, the end of the reader included.
RecvReturns ==
    \A c \in Clients : pc[c] \in {"scan", "wait"} ~> pc[c] \notin {"scan", "wait"}

\* If the switch keeps reading, every call ends: no thread keeps the TX lock
\* from the others, whether its sendall() succeeds or raises.
CallEnds == SwitchReads => \A c \in Clients : pc[c] # "idle" ~> pc[c] = "done"
=============================================================================

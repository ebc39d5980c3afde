-------------------------- MODULE ConnectionProofs --------------------------
(***************************************************************************)
(* Connection keeps its types, loses no wakeup and hands out each message  *)
(* at most once, for any number of clients, whatever they call, any socket *)
(* buffers and any number of messages.                                     *)
(*                                                                         *)
(* The transactions of the threads that share it need more.  As long as at *)
(* most one of them has the connection draw its xids (two that do can get  *)
(* the same one, as a run of MCConnection shows), each gets the answers to *)
(* its own requests.  If besides no message is sent twice, it leaves none  *)
(* of them behind; and if no thread takes messages without looking at      *)
(* them, a multipart one gets all parts.                                   *)
(***************************************************************************)
EXTENDS Connection, WellFoundedInduction, SequenceTheorems, TLAPS

-----------------------------------------------------------------------------
(* Removing an element of a sequence.                                       *)

\* RemoveAt() yields a sequence over the same set, without the ith element.
LEMMA RemoveAtProperties ==
    ASSUME NEW S, NEW s \in Seq(S), NEW i \in 1..Len(s)
    PROVE  /\ RemoveAt(s, i) \in Seq(S)
           /\ Len(RemoveAt(s, i)) = Len(s) - 1
           /\ \A k \in 1..Len(s) - 1 :
                 RemoveAt(s, i)[k] = IF k < i THEN s[k] ELSE s[k + 1]
<1> DEFINE front == SubSeq(s, 1, i - 1)
           back == SubSeq(s, i + 1, Len(s))
<1>1. /\ front \in Seq(S) /\ Len(front) = i - 1
      /\ \A k \in 1..i - 1 : front[k] = s[k]
  <2>1. \A k \in 1..i - 1 : s[k] \in S
    BY ElementOfSeq
  <2>2. QED
    BY <2>1, SubSeqProperties
<1>2. /\ back \in Seq(S) /\ Len(back) = Len(s) - i
      /\ \A k \in 1..Len(s) - i : back[k] = s[k + i]
  <2>1. \A k \in i + 1..Len(s) : s[k] \in S
    BY ElementOfSeq
  <2>2. QED
    BY <2>1, SubSeqProperties
<1>3. RemoveAt(s, i) = front \o back
  BY DEF RemoveAt
<1> HIDE DEF front, back
<1>4. /\ front \o back \in Seq(S)
      /\ Len(front \o back) = Len(s) - 1
      /\ \A k \in 1..Len(s) - 1 :
            (front \o back)[k] = IF k <= i - 1 THEN front[k] ELSE back[k - (i - 1)]
  BY <1>1, <1>2, ConcatProperties
<1>5. ASSUME NEW k \in 1..Len(s) - 1
      PROVE  (front \o back)[k] = IF k < i THEN s[k] ELSE s[k + 1]
  <2>1. CASE k < i
    BY <2>1, <1>1, <1>4
  <2>2. CASE k >= i
    <3>1. k - (i - 1) \in 1..Len(s) - i
      BY <2>2
    <3>2. back[k - (i - 1)] = s[(k - (i - 1)) + i]
      BY <3>1, <1>2
    <3>3. QED
      BY <2>2, <3>2, <1>4
  <2>3. QED
    <3>1. Len(s) \in Nat
      BY LenProperties
    <3>2. k < i \/ k >= i
      BY <3>1
    <3>3. QED
      BY <2>1, <2>2, <3>2
<1>6. QED
  BY <1>3, <1>4, <1>5

\* Removing an element of the front of a concatenation.
LEMMA RemoveAtConcat ==
    ASSUME NEW S, NEW s \in Seq(S), NEW t \in Seq(S), NEW i \in 1..Len(s)
    PROVE  RemoveAt(s, i) \o t = RemoveAt(s \o t, i)
<1> DEFINE q == s \o t
           r == RemoveAt(s, i)
<1>1. q \in Seq(S) /\ Len(q) = Len(s) + Len(t) /\ i \in 1..Len(q)
      /\ \A k \in 1..Len(q) : q[k] = IF k <= Len(s) THEN s[k] ELSE t[k - Len(s)]
  BY ConcatProperties
<1>2. /\ r \in Seq(S) /\ Len(r) = Len(s) - 1
      /\ \A k \in 1..Len(s) - 1 : r[k] = IF k < i THEN s[k] ELSE s[k + 1]
  BY RemoveAtProperties
<1> HIDE DEF q, r
<1>3. /\ RemoveAt(q, i) \in Seq(S) /\ Len(RemoveAt(q, i)) = Len(q) - 1
      /\ \A k \in 1..Len(q) - 1 : RemoveAt(q, i)[k] = IF k < i THEN q[k] ELSE q[k + 1]
  BY <1>1, RemoveAtProperties
<1>4. /\ r \o t \in Seq(S) /\ Len(r \o t) = Len(r) + Len(t)
      /\ \A k \in 1..Len(r) + Len(t) :
            (r \o t)[k] = IF k <= Len(r) THEN r[k] ELSE t[k - Len(r)]
  BY <1>2, ConcatProperties
<1>5. ASSUME NEW k \in 1..Len(q) - 1
      PROVE  (r \o t)[k] = RemoveAt(q, i)[k]
  <2>1. CASE k < i
    BY <2>1, <1>1, <1>2, <1>3, <1>4
  <2>2. CASE i <= k /\ k <= Len(r)
    BY <2>2, <1>1, <1>2, <1>3, <1>4
  <2>3. CASE k > Len(r)
    <3>1. (r \o t)[k] = t[k - (Len(s) - 1)]
      BY <2>3, <1>1, <1>2, <1>4
    <3>2. RemoveAt(q, i)[k] = t[(k + 1) - Len(s)]
      BY <2>3, <1>1, <1>2, <1>3
    <3>3. k - (Len(s) - 1) = (k + 1) - Len(s)
      OBVIOUS
    <3>4. QED
      BY <3>1, <3>2, <3>3
  <2>4. QED
    BY <2>1, <2>2, <2>3, <1>1, <1>2, LenProperties
<1>6. r \o t = RemoveAt(q, i)
  <2>1. Len(r \o t) = Len(q) - 1
    BY <1>1, <1>2, <1>4, LenProperties
  <2>2. QED
    BY <2>1, <1>3, <1>4, <1>5, SeqEqual
<1>7. QED
  BY <1>6 DEF q, r

-----------------------------------------------------------------------------
(* Types.                                                                   *)

\* The message of a call that has begun is that of an operation, which is why
\* a request has one.
Chosen == \A c \in Clients : pc[c] # "idle" => msg[c].op \in Operations

\* The initial state has the right types.
LEMMA InitTyped == Init => TypeOK
<1> SUFFICES ASSUME Init PROVE TypeOK
  OBVIOUS
<1>1. ConnectionTyped
  <2>1. opened \in BOOLEAN
    BY Zenon DEF Init
  <2>2. rx \in Seq(Message)
    BY EmptySeq DEF Init
  <2>3. next_xid \in Nat \ {0} /\ tx_lock \in Clients \cup {NoClient}
    BY DEF Init, FirstXid
  <2>4. QED
    BY Zenon, <2>1, <2>2, <2>3 DEF Init, ConnectionTyped
<1>2. ClientsTyped
  BY EmptySeq DEF Init, ClientsTyped, NoMsg, Call, Locations, Results
<1>3. SwitchTyped
  BY EmptySeq, ConnectionAssumption DEF Init, SwitchTyped
<1>4. QED
  BY <1>1, <1>2, <1>3 DEF TypeOK

\* The first match is a place of the queue, if there is one.
LEMMA FirstMatch ==
    ASSUME ConnectionTyped, NEW c \in Clients, Matches(c) # {}
    PROVE  /\ rx \in Seq(Message)
           /\ First(c) \in Matches(c)
           /\ First(c) \in 1..Len(rx) /\ rx[First(c)] \in Message
           /\ \A j \in Matches(c) : First(c) <= j
<1>1. rx \in Seq(Message) /\ Matches(c) \subseteq 1..Len(rx) /\ Len(rx) \in Nat
  BY LenProperties DEF Matches, ConnectionTyped
<1>2. \E i \in Matches(c) : \A j \in Matches(c) : i <= j
  <2>1. Matches(c) \subseteq Nat
    BY <1>1
  <2> DEFINE less == OpToRel(<, Nat)
  <2>2. \E i \in Matches(c) : \A j \in Matches(c) : ~(<<j, i>> \in less)
    <3>1. IsWellFoundedOn(less, Nat)
      BY NatLessThanWellFounded
    <3> HIDE DEF less
    <3>2. QED
      BY <2>1, <3>1, WFMin
  <2>3. \A i, j \in Nat : j < i => <<j, i>> \in less
    BY DEF OpToRel
  <2> HIDE DEF less
  <2>4. PICK i \in Matches(c) : \A j \in Matches(c) : ~(<<j, i>> \in less)
    BY <2>2
  <2>5. ASSUME NEW j \in Matches(c)
        PROVE  i <= j
    <3>1. i \in Nat /\ j \in Nat /\ ~(j < i)
      BY <2>1, <2>3, <2>4
    <3>2. QED
      BY <3>1
  <2>6. QED
    BY <2>5
<1>3. First(c) \in Matches(c) /\ \A j \in Matches(c) : First(c) <= j
  BY <1>2 DEF First
<1>4. QED
  BY <1>1, <1>3, ElementOfSeq

\* Every step keeps the types: one step of the proof per action, and under it
\* one per group of variables.
LEMMA NextTyped == TypeOK /\ Chosen /\ [Next]_vars => TypeOK'
<1> SUFFICES ASSUME ConnectionTyped, ClientsTyped, SwitchTyped, Chosen, [Next]_vars
             PROVE  ConnectionTyped' /\ ClientsTyped' /\ SwitchTyped'
  BY DEF TypeOK
<1> USE DEF clientVars, threadVars, switchVars, Goto, End
<1>1. CASE Deliver
  <2>1. ConnectionTyped'
    <3>1. rx' \in Seq(Message)
      BY <1>1, HeadTailProperties, AppendProperties DEF Deliver, ConnectionTyped, SwitchTyped
    <3>2. QED
      BY <1>1, <3>1, Zenon DEF Deliver, ConnectionTyped
  <2>2. ClientsTyped'
    BY <1>1 DEF Deliver, ClientsTyped, Locations
  <2>3. SwitchTyped'
    <3>1. /\ sock # <<>> /\ sock' = Tail(sock)
          /\ UNCHANGED <<wire, emitted, asyncs>>
      BY <1>1 DEF Deliver
    <3>2. sock' \in Seq(Message) /\ Len(sock') = Len(sock) - 1
      BY <3>1, HeadTailProperties DEF SwitchTyped
    <3>3. Len(sock') <= SockCap
      BY <3>2, LenProperties, ConnectionAssumption DEF SwitchTyped
    <3>4. QED
      BY <3>1, <3>2, <3>3 DEF SwitchTyped
  <2>4. QED
    BY <2>1, <2>2, <2>3
<1>2. CASE ReaderEnds
  <2>1. ConnectionTyped'
    BY <1>2, Zenon DEF ReaderEnds, ConnectionTyped
  <2>2. ClientsTyped'
    BY <1>2 DEF ReaderEnds, ClientsTyped
  <2>3. SwitchTyped'
    BY <1>2 DEF ReaderEnds, SwitchTyped
  <2>4. QED
    BY <2>1, <2>2, <2>3
<1>3. CASE CloseSocket
  <2>1. ConnectionTyped'
    BY <1>3 DEF CloseSocket, ConnectionTyped
  <2>2. ClientsTyped'
    BY <1>3 DEF CloseSocket, ClientsTyped
  <2>3. SwitchTyped'
    BY <1>3 DEF CloseSocket, SwitchTyped
  <2>4. QED
    BY <2>1, <2>2, <2>3
<1>4. ASSUME NEW c \in Clients, NEW op \in Operations, Begin(c, op)
      PROVE  ConnectionTyped' /\ ClientsTyped' /\ SwitchTyped'
  <2>1. ConnectionTyped'
    BY <1>4 DEF Begin, ConnectionTyped
  <2>2. ClientsTyped'
    <3>1. pc' \in [Clients -> Locations]
      BY ZenonT(30), <1>4 DEF Begin, ClientsTyped, Locations
    <3>2. result' \in [Clients -> Results]
      BY <1>4 DEF Begin, ClientsTyped, Results
    <3>3. /\ c \in Nat /\ calls[c] \in Nat
      BY ConnectionAssumption DEF ClientsTyped
    <3>4. /\ 100 * c + calls[c] + 1 \in Nat
          /\ <<c, calls[c] + 1>> \in Nat \X Nat
      BY <3>3
    <3>5. msg' \in [Clients -> Call]
      BY <1>4, <3>4 DEF Begin, ClientsTyped, Call
    <3>6. calls' \in [Clients -> Nat] /\ got' \in [Clients -> Seq(Message)]
      BY <1>4, <3>3, EmptySeq DEF Begin, ClientsTyped
    <3>7. QED
      BY <1>4, <3>1, <3>2, <3>5, <3>6, Zenon DEF Begin, ClientsTyped, Locations, Results
  <2>3. SwitchTyped'
    BY <1>4 DEF Begin, SwitchTyped
  <2>4. QED
    BY <2>1, <2>2, <2>3
<1>5. ASSUME NEW c \in Clients, Retry(c)
      PROVE  ConnectionTyped' /\ ClientsTyped' /\ SwitchTyped'
  <2>1. ConnectionTyped'
    BY <1>5 DEF Retry, ConnectionTyped
  <2>2. ClientsTyped'
    <3>1. pc' \in [Clients -> Locations]
      BY ZenonT(30), <1>5 DEF Retry, ClientsTyped, Locations
    <3>2. result' \in [Clients -> Results]
      BY <1>5 DEF Retry, ClientsTyped, Results
    <3>3. calls' \in [Clients -> Nat] /\ got' \in [Clients -> Seq(Message)]
      BY <1>5, EmptySeq DEF Retry, ClientsTyped
    <3>4. QED
      BY <1>5, <3>1, <3>2, <3>3, Zenon DEF Retry, ClientsTyped, Locations, Results
  <2>3. SwitchTyped'
    BY <1>5 DEF Retry, SwitchTyped
  <2>4. QED
    BY <2>1, <2>2, <2>3
<1>6. ASSUME NEW c \in Clients, ReadXid(c)
      PROVE  ConnectionTyped' /\ ClientsTyped' /\ SwitchTyped'
  <2>1. ConnectionTyped'
    BY <1>6 DEF ReadXid, ConnectionTyped
  <2>2. ClientsTyped'
    <3>1. pc' \in [Clients -> Locations]
      BY <1>6 DEF ReadXid, ClientsTyped, Locations
    <3>2. next_xid \in Nat
      BY DEF ConnectionTyped
    <3>3. msg' \in [Clients -> Call]
      <4>1. [msg[c] EXCEPT !.xid = next_xid] \in Call
        <5>1. msg[c] \in Call
          BY DEF ClientsTyped
        <5>2. QED
          BY <3>2, <5>1 DEF Call
      <4>2. msg' = [msg EXCEPT ![c] = [msg[c] EXCEPT !.xid = next_xid]]
        BY <1>6 DEF ReadXid
      <4>3. QED
        BY <4>1, <4>2 DEF ClientsTyped
    <3>4. QED
      BY <1>6, <3>1, <3>3, Zenon DEF ReadXid, ClientsTyped, Locations
  <2>3. SwitchTyped'
    BY <1>6 DEF ReadXid, SwitchTyped
  <2>4. QED
    BY <2>1, <2>2, <2>3
<1>7. ASSUME NEW c \in Clients, LoadXid(c)
      PROVE  ConnectionTyped' /\ ClientsTyped' /\ SwitchTyped'
  <2>1. ConnectionTyped'
    BY <1>7 DEF LoadXid, ConnectionTyped
  <2>2. ClientsTyped'
    <3>1. pc' \in [Clients -> Locations]
      BY <1>7 DEF LoadXid, ClientsTyped, Locations
    <3>2. next_xid \in Nat
      BY DEF ConnectionTyped
    <3>3. loaded' \in [Clients -> Nat]
      BY <1>7, <3>2 DEF LoadXid, ClientsTyped
    <3>4. QED
      BY <1>7, <3>1, <3>3, Zenon DEF LoadXid, ClientsTyped, Locations
  <2>3. SwitchTyped'
    BY <1>7 DEF LoadXid, SwitchTyped
  <2>4. QED
    BY <2>1, <2>2, <2>3
<1>8. ASSUME NEW c \in Clients, StoreXid(c)
      PROVE  ConnectionTyped' /\ ClientsTyped' /\ SwitchTyped'
  <2>1. ConnectionTyped'
    <3>1. next_xid' \in Nat \ {0}
      BY <1>8 DEF StoreXid, ClientsTyped
    <3>2. QED
      BY <1>8, <3>1, Zenon DEF StoreXid, ConnectionTyped
  <2>2. ClientsTyped'
    BY <1>8 DEF StoreXid, ClientsTyped, Locations, Results
  <2>3. SwitchTyped'
    BY <1>8 DEF StoreXid, SwitchTyped
  <2>4. QED
    BY <2>1, <2>2, <2>3
<1>9. ASSUME NEW c \in Clients,
             LockTx(c) \/ SendRaises(c) \/ Abandon(c) \/ GiveUp(c) \/ Wait(c)
             \/ Leave(c) \/ Expire(c)
      PROVE  ConnectionTyped' /\ ClientsTyped' /\ SwitchTyped'
  <2> USE DEF LockTx, SendRaises, Abandon, GiveUp, Wait, Leave, Expire
  <2>1. ConnectionTyped'
    <3>1. tx_lock' \in Clients \cup {NoClient}
      BY <1>9 DEF ConnectionTyped
    <3>2. UNCHANGED <<next_xid, rx, alive, closed, opened>>
      BY <1>9
    <3>3. QED
      BY <3>1, <3>2, Zenon DEF ConnectionTyped
  <2>2. ClientsTyped'
    <3>1. pc' \in [Clients -> Locations] /\ result' \in [Clients -> Results]
      BY <1>9 DEF ClientsTyped, Locations, Results
    <3>2. got' \in [Clients -> Seq(Message)]
      <4>1. got' = got \/ got' = [got EXCEPT ![c] = <<>>]
        BY <1>9
      <4>2. QED
        BY <4>1, EmptySeq DEF ClientsTyped
    <3>3. expired' \in [Clients -> BOOLEAN]
      BY <1>9 DEF ClientsTyped
    <3>4. UNCHANGED <<msg, loaded, calls, taken, settled>>
      BY <1>9
    <3>5. QED
      BY <3>1, <3>2, <3>3, <3>4, Zenon DEF ClientsTyped
  <2>3. SwitchTyped'
    <3>1. UNCHANGED <<wire, sock, emitted, asyncs>>
      BY <1>9
    <3>2. QED
      BY <3>1 DEF SwitchTyped
  <2>4. QED
    BY <2>1, <2>2, <2>3
<1>10. ASSUME NEW c \in Clients, SendAll(c)
      PROVE  ConnectionTyped' /\ ClientsTyped' /\ SwitchTyped'
  <2>1. ConnectionTyped'
    BY <1>10 DEF SendAll, ConnectionTyped
  <2>2. ClientsTyped'
    <3>1. pc' \in [Clients -> Locations]
      BY ZenonT(30), <1>10 DEF SendAll, ClientsTyped, Locations
    <3>2. result' \in [Clients -> Results]
      BY <1>10 DEF SendAll, ClientsTyped, Results
    <3>3. QED
      BY <1>10, <3>1, <3>2, Zenon DEF SendAll, ClientsTyped, Locations, Results
  <2>3. SwitchTyped'
    <3> DEFINE q == [op |-> msg[c].op, xid |-> msg[c].xid, id |-> msg[c].id, part |-> 1]
    <3>1. q \in Request
      <4>1. 1 \in 1..MaxParts
        BY ConnectionAssumption
      <4>2. QED
        BY <1>10, <4>1 DEF SendAll, Chosen, ClientsTyped, Call, Request
    <3>2. wire' = Append(wire, q) /\ Len(wire) < WireCap /\ UNCHANGED <<sock, emitted, asyncs>>
      BY <1>10 DEF SendAll
    <3> HIDE DEF q
    <3>3. wire' \in Seq(Request) /\ Len(wire') <= WireCap
      BY <3>1, <3>2, AppendProperties, LenProperties, ConnectionAssumption DEF SwitchTyped
    <3>4. QED
      BY <3>2, <3>3 DEF SwitchTyped
  <2>4. QED
    BY <2>1, <2>2, <2>3
<1>11. ASSUME NEW c \in Clients, EnterRecv(c)
      PROVE  ConnectionTyped' /\ ClientsTyped' /\ SwitchTyped'
  <2>1. ConnectionTyped'
    BY <1>11 DEF EnterRecv, ConnectionTyped
  <2>2. ClientsTyped'
    <3>1. pc' \in [Clients -> Locations]
      BY <1>11 DEF EnterRecv, ClientsTyped, Locations
    <3>2. result' \in [Clients -> Results] /\ expired' \in [Clients -> BOOLEAN]
      BY <1>11 DEF EnterRecv, ClientsTyped, Results
    <3>3. QED
      BY <1>11, <3>1, <3>2, Zenon DEF EnterRecv, ClientsTyped, Locations, Results
  <2>3. SwitchTyped'
    BY <1>11 DEF EnterRecv, SwitchTyped
  <2>4. QED
    BY <2>1, <2>2, <2>3
<1>12. ASSUME NEW c \in Clients, Take(c)
      PROVE  ConnectionTyped' /\ ClientsTyped' /\ SwitchTyped'
  <2>1. ConnectionTyped'
    <3>1. rx' \in Seq(Message)
      BY <1>12, FirstMatch, RemoveAtProperties DEF Take
    <3>2. opened' \in BOOLEAN
      BY <1>12, Zenon DEF Take, Accept, ConnectionTyped
    <3>3. QED
      BY <1>12, <3>1, <3>2, Zenon DEF Take, ConnectionTyped
  <2>2. ClientsTyped'
    <3>1. First(c) \in 1..Len(rx) /\ rx[First(c)] \in Message
      BY <1>12, FirstMatch DEF Take
    <3>2. taken' \subseteq Nat
      BY <1>12, <3>1 DEF Take, ClientsTyped, Message
    <3> DEFINE m == rx[First(c)]
    <3>3. Accept(c, m) /\ m \in Message
      BY <1>12, <3>1 DEF Take
    <3> HIDE DEF m
    <3>4. /\ pc' \in [Clients -> Locations]
          /\ result' \in [Clients -> Results]
      BY <3>3 DEF Accept, ClientsTyped, Locations, Results
    <3>5. got' \in [Clients -> Seq(Message)]
      <4>1. Append(got[c], m) \in Seq(Message)
        BY <3>3, AppendProperties DEF ClientsTyped
      <4>2. got' = got \/ got' = [got EXCEPT ![c] = Append(got[c], m)]
        BY <3>3 DEF Accept
      <4>3. QED
        BY <4>1, <4>2 DEF ClientsTyped
    <3>6. settled' \subseteq Nat \X Nat
      <4>1. msg[c].id \in Nat \X Nat
        BY DEF ClientsTyped, Call
      <4>2. settled' = settled \/ settled' = settled \cup {msg[c].id}
        BY <3>3 DEF Accept
      <4>3. QED
        BY <4>1, <4>2 DEF ClientsTyped
    <3>7. UNCHANGED <<msg, loaded, expired, calls>>
      BY <1>12 DEF Take
    <3>8. QED
      BY <3>2, <3>4, <3>5, <3>6, <3>7, Zenon DEF ClientsTyped
  <2>3. SwitchTyped'
    BY <1>12 DEF Take, Accept, SwitchTyped
  <2>4. QED
    BY <2>1, <2>2, <2>3
<1>13. CASE SwitchStep
  <2>1. ConnectionTyped' /\ ClientsTyped'
    <3>1. UNCHANGED <<next_xid, tx_lock, rx, alive, closed, opened, pc, msg, loaded,
                      expired, got, result, calls, taken, settled>>
      BY <1>13 DEF SwitchStep, Answer, AnswerMore, Ignore, Unasked
    <3>2. QED
      BY <3>1, Zenon DEF ConnectionTyped, ClientsTyped
  <2>2. SwitchTyped'
    <3>1. ASSUME NEW i \in DOMAIN wire
          PROVE  /\ i \in 1..Len(wire) /\ wire[i] \in Request
                 /\ RemoveAt(wire, i) \in Seq(Request)
                 /\ Len(RemoveAt(wire, i)) <= WireCap
      <4>1. i \in 1..Len(wire) /\ Len(wire) \in Nat
        BY <3>1, LenProperties DEF SwitchTyped
      <4>2. wire[i] \in Request
        BY <4>1, ElementOfSeq DEF SwitchTyped
      <4>3. RemoveAt(wire, i) \in Seq(Request) /\ Len(RemoveAt(wire, i)) = Len(wire) - 1
        BY <4>1, RemoveAtProperties DEF SwitchTyped
      <4>4. QED
        BY <4>1, <4>2, <4>3, ConnectionAssumption DEF SwitchTyped
    <3>2. ASSUME NEW type \in {"hello", "async", "reply", "error", "more", "last"},
                 NEW xid \in Nat, NEW id \in Nat \X Nat, NEW part \in Nat \ {0},
                 Put(type, xid, id, part)
          PROVE  sock' \in Seq(Message) /\ Len(sock') <= SockCap /\ emitted' \in Nat
      <4> DEFINE m == [type |-> type, xid |-> xid, for |-> id, part |-> part,
                       seq |-> emitted + 1]
      <4>1. m \in Message
        BY DEF SwitchTyped, Message
      <4>2. sock' = Append(sock, m) /\ Len(sock) < SockCap /\ emitted' = emitted + 1
        BY <3>2 DEF Put
      <4> HIDE DEF m
      <4>3. QED
        BY <4>1, <4>2, AppendProperties, LenProperties, ConnectionAssumption DEF SwitchTyped
    <3>3. ASSUME NEW i \in DOMAIN wire, Answer(i)
          PROVE  SwitchTyped'
      <4>1. sock' \in Seq(Message) /\ Len(sock') <= SockCap /\ emitted' \in Nat
        <5>1. /\ wire[i].xid \in Nat /\ wire[i].id \in Nat \X Nat
              /\ wire[i].part \in Nat \ {0}
          BY <3>1, <3>3, ConnectionAssumption DEF Request
        <5>2. \E type \in {"reply", "error", "last"} :
                 Put(type, wire[i].xid, wire[i].id, wire[i].part)
          BY <3>3 DEF Answer
        <5>3. QED
          BY <5>1, <5>2, <3>2
      <4>2. wire' = RemoveAt(wire, i) /\ asyncs' = asyncs
        BY <3>3 DEF Answer
      <4>3. QED
        BY <4>1, <4>2, <3>1, <3>3 DEF SwitchTyped
    <3>4. ASSUME NEW i \in DOMAIN wire, AnswerMore(i)
          PROVE  SwitchTyped'
      <4>1. /\ i \in 1..Len(wire) /\ wire[i] \in Request
            /\ wire[i].xid \in Nat /\ wire[i].id \in Nat \X Nat
            /\ wire[i].part \in 1..MaxParts /\ wire[i].part \in Nat \ {0}
        BY <3>1, <3>4, ConnectionAssumption DEF Request
      <4>2. sock' \in Seq(Message) /\ Len(sock') <= SockCap /\ emitted' \in Nat
        BY <4>1, <3>4, <3>2 DEF AnswerMore
      <4>3. [wire[i] EXCEPT !.part = wire[i].part + 1] \in Request
        <5>1. wire[i].part + 1 \in 1..MaxParts
          BY SMTT(30), <4>1, <3>4, ConnectionAssumption DEF AnswerMore
        <5>2. QED
          BY <4>1, <5>1 DEF Request
      <4>4. wire' = [wire EXCEPT ![i] = [wire[i] EXCEPT !.part = wire[i].part + 1]]
        BY <3>4 DEF AnswerMore
      <4>5. wire' \in Seq(Request) /\ Len(wire') = Len(wire)
        BY <4>1, <4>3, <4>4, ExceptSeq DEF SwitchTyped
      <4>6. QED
        BY <4>2, <4>5, <3>4 DEF AnswerMore, SwitchTyped
    <3>5. ASSUME NEW i \in DOMAIN wire, Ignore(i)
          PROVE  SwitchTyped'
      BY <3>1, <3>5 DEF Ignore, SwitchTyped
    <3>6. ASSUME NEW type \in {"hello", "async"}, Unasked(type)
          PROVE  SwitchTyped'
      <4>1. sock' \in Seq(Message) /\ Len(sock') <= SockCap /\ emitted' \in Nat
        BY <3>6, <3>2 DEF Unasked
      <4>2. asyncs' \in 0..MaxAsync /\ wire' = wire
        BY <3>6, ConnectionAssumption DEF Unasked, SwitchTyped
      <4>3. QED
        BY <4>1, <4>2 DEF SwitchTyped
    <3>7. QED
      BY <1>13, <3>3, <3>4, <3>5, <3>6 DEF SwitchStep
  <2>3. QED
    BY <2>1, <2>2
<1>14. CASE UNCHANGED vars
  <2>1. ConnectionTyped'
    BY <1>14 DEF vars, ConnectionTyped
  <2>2. ClientsTyped'
    BY <1>14 DEF vars, ClientsTyped, Locations, Results
  <2>3. SwitchTyped'
    BY <1>14 DEF vars, SwitchTyped
  <2>4. QED
    BY <2>1, <2>2, <2>3
<1>15. QED
  BY <1>1, <1>2, <1>3, <1>4, <1>5, <1>6, <1>7, <1>8, <1>9, <1>10, <1>11, <1>12, <1>13, <1>14
     DEF Next, ClientStep

\* Begin chooses an operation, and no other step lets an idle client begin a
\* call with a message that has none.
LEMMA NextChosen == TypeOK /\ Chosen /\ [Next]_vars => Chosen'
<1> SUFFICES ASSUME ConnectionTyped, ClientsTyped, Chosen, [Next]_vars,
                    NEW d \in Clients, pc'[d] # "idle"
             PROVE  msg'[d].op \in Operations
  BY DEF TypeOK, Chosen
<1> USE DEF ClientsTyped, Chosen, Goto, End, clientVars
<1>1. ASSUME NEW c \in Clients, NEW op \in Operations, Begin(c, op)
      PROVE  msg'[d].op \in Operations
  BY <1>1 DEF Begin
<1>2. ASSUME NEW c \in Clients, Retry(c)
      PROVE  msg'[d].op \in Operations
  BY <1>2 DEF Retry, Operations
<1>3. ASSUME NEW c \in Clients, ReadXid(c)
      PROVE  msg'[d].op \in Operations
  BY <1>3 DEF ReadXid, Call
<1>4. ASSUME NEW c \in Clients,
             SendRaises(c) \/ Expire(c) \/ LoadXid(c) \/ StoreXid(c) \/ LockTx(c)
             \/ SendAll(c) \/ EnterRecv(c) \/ Abandon(c) \/ GiveUp(c) \/ Wait(c)
      PROVE  msg'[d].op \in Operations
  <2>1. msg' = msg /\ pc[c] # "idle" /\ (\A b \in Clients \ {c} : pc'[b] = pc[b])
    BY <1>4 DEF SendRaises, Expire, LoadXid, StoreXid, LockTx, SendAll, EnterRecv,
                Abandon, GiveUp, Wait
  <2>2. QED
    BY <2>1
<1>5. ASSUME NEW c \in Clients, Take(c) \/ Leave(c)
      PROVE  msg'[d].op \in Operations
  <2>1. msg' = msg /\ pc[c] # "idle" /\ (\A b \in Clients \ {c} : pc'[b] = pc[b])
    BY <1>5 DEF Take, Accept, Leave
  <2>2. QED
    BY <2>1
<1>6. CASE Deliver \/ ReaderEnds \/ CloseSocket \/ SwitchStep \/ UNCHANGED vars
  <2>1. msg' = msg /\ (\A b \in Clients : pc[b] = "idle" => pc'[b] = "idle")
    BY <1>6 DEF Deliver, ReaderEnds, CloseSocket, SwitchStep, Answer, AnswerMore,
                Ignore, Unasked, vars
  <2>2. QED
    BY <2>1
<1>7. QED
  BY <1>1, <1>2, <1>3, <1>4, <1>5, <1>6 DEF Next, ClientStep

\* Every variable of the connection, of its clients and of the switch keeps
\* its type, whatever the clients call and in whatever order.
THEOREM Typing == Spec => []TypeOK
<1>1. Init => TypeOK /\ Chosen
  <2>1. Init => Chosen
    BY DEF Init, Chosen
  <2>2. QED
    BY <2>1, InitTyped
<1>2. TypeOK /\ Chosen /\ [Next]_vars => TypeOK' /\ Chosen'
  BY NextTyped, NextChosen
<1>3. QED
  BY <1>1, <1>2, PTL DEF Spec

-----------------------------------------------------------------------------
(* Waiting threads.                                                         *)

\* Deliver wakes every waiting thread, a thread waits only after a scan that
\* found nothing, and all other steps of others only take messages away.
LEMMA NextNoLostWakeup == TypeOK /\ NoLostWakeup /\ [Next]_vars => NoLostWakeup'
<1> SUFFICES ASSUME ConnectionTyped, ClientsTyped, NoLostWakeup, [Next]_vars,
                    NEW d \in Clients, pc'[d] = "wait"
             PROVE  Matches(d)' = {}
  BY DEF TypeOK, NoLostWakeup
<1> USE DEF ClientsTyped, Goto, End, clientVars
<1>1. ASSUME pc[d] = "wait", msg'[d] = msg[d], rx' = rx
      PROVE  Matches(d)' = {}
  BY <1>1 DEF NoLostWakeup, Matches, Wanted
<1>2. CASE Deliver
  BY <1>2 DEF Deliver
<1>3. CASE ReaderEnds \/ CloseSocket \/ SwitchStep \/ UNCHANGED vars
  BY <1>1, <1>3 DEF ReaderEnds, CloseSocket, SwitchStep, Answer, AnswerMore, Ignore,
                    Unasked, vars
<1>4. ASSUME NEW c \in Clients, NEW op \in Operations, Begin(c, op)
      PROVE  Matches(d)' = {}
  BY <1>1, <1>4 DEF Begin
<1>5. ASSUME NEW c \in Clients,
             SendRaises(c) \/ Expire(c) \/ LoadXid(c) \/ StoreXid(c) \/ LockTx(c)
             \/ SendAll(c) \/ EnterRecv(c) \/ Abandon(c) \/ GiveUp(c)
             \/ Retry(c) \/ ReadXid(c) \/ Leave(c)
      PROVE  Matches(d)' = {}
  <2>1. rx' = rx /\ pc'[c] # "wait" /\ (\A b \in Clients \ {c} : pc'[b] = pc[b])
    BY <1>5 DEF SendRaises, Expire, LoadXid, StoreXid, LockTx, SendAll, EnterRecv,
                Abandon, GiveUp, Retry, ReadXid, Leave
  <2>2. \A b \in Clients \ {c} : msg'[b] = msg[b]
    BY <1>5 DEF SendRaises, Expire, LoadXid, StoreXid, LockTx, SendAll, EnterRecv,
                Abandon, GiveUp, Retry, ReadXid, Leave
  <2>3. QED
    BY <1>1, <2>1, <2>2
<1>6. ASSUME NEW c \in Clients, Wait(c)
      PROVE  Matches(d)' = {}
  <2>1. CASE d = c
    BY <1>6, <2>1 DEF Wait, Matches, Wanted
  <2>2. CASE d # c
    BY <1>1, <1>6, <2>2 DEF Wait
  <2>3. QED
    BY <2>1, <2>2
<1>7. ASSUME NEW c \in Clients, Take(c)
      PROVE  Matches(d)' = {}
  <2>1. pc[d] = "wait" /\ msg' = msg
    BY <1>7 DEF Take, Accept
  <2>2. /\ First(c) \in 1..Len(rx) /\ rx \in Seq(Message)
        /\ rx' = RemoveAt(rx, First(c))
    BY <1>7, FirstMatch DEF Take
  <2>3. ASSUME NEW k \in DOMAIN rx'
        PROVE  \E j \in DOMAIN rx : rx'[k] = rx[j]
    <3>1. /\ k \in 1..Len(rx) - 1 /\ Len(rx) \in Nat /\ DOMAIN rx = 1..Len(rx)
      BY <2>2, RemoveAtProperties, LenProperties
    <3>2. rx'[k] = IF k < First(c) THEN rx[k] ELSE rx[k + 1]
      BY <2>2, <3>1, RemoveAtProperties
    <3>3. k \in DOMAIN rx /\ k + 1 \in DOMAIN rx
      BY <3>1
    <3>4. QED
      BY <3>2, <3>3
  <2>4. \A j \in DOMAIN rx : ~Wanted(d, rx[j])
    BY <2>1 DEF NoLostWakeup, Matches
  <2>5. \A m : Wanted(d, m)' <=> Wanted(d, m)
    BY <2>1 DEF Wanted
  <2>6. QED
    BY <2>3, <2>4, <2>5 DEF Matches
<1>8. QED
  BY <1>2, <1>3, <1>4, <1>5, <1>6, <1>7 DEF Next, ClientStep

\* A thread that waits has no message to wait for in the queue: notify_all()
\* under the condition, and a scan before every wait(), lose no wakeup.
THEOREM WakeupsKept == Spec => []NoLostWakeup
<1>1. Init => NoLostWakeup
  BY DEF Init, NoLostWakeup
<1>2. QED
  BY <1>1, Typing, NextNoLostWakeup, PTL DEF Spec

-----------------------------------------------------------------------------
(* Delivery.                                                                *)

\* The messages on their way, and what ExactlyOnce says of them.
Queued == rx \o sock

\* The serial numbers grow.
Ordered(q) == \A i, j \in 1..Len(q) : i < j => q[i].seq < q[j].seq

\* The first n messages are in q or handed out, none in both.
Counted(q, n, handed) ==
    /\ \A i \in 1..Len(q) : q[i].seq \notin handed
    /\ handed \cup {q[i].seq : i \in 1..Len(q)} = 1..n

Delivering == Ordered(Queued) /\ Counted(Queued, emitted, taken)

\* ExactlyOnce in these terms.
LEMMA ExactlyOnceMeans ==
    TypeOK => (ExactlyOnce <=> Delivering)
<1> SUFFICES ASSUME ConnectionTyped, SwitchTyped
             PROVE  ExactlyOnce <=> Ordered(Queued) /\ Counted(Queued, emitted, taken)
  BY DEF TypeOK, Delivering
<1>1. Queued \in Seq(Message) /\ DOMAIN Queued = 1..Len(Queued)
  BY ConcatProperties, LenProperties DEF ConnectionTyped, SwitchTyped, Queued
<1> DEFINE seqs == [i \in DOMAIN Queued |-> Queued[i].seq]
<1>2. /\ DOMAIN seqs = 1..Len(Queued)
      /\ \A i \in 1..Len(Queued) : seqs[i] = Queued[i].seq
  BY <1>1
<1>3. ToSet(seqs) = {Queued[i].seq : i \in 1..Len(Queued)}
  BY <1>2 DEF ToSet
<1>4. ExactlyOnce <=> /\ \A i, j \in DOMAIN seqs : i < j => seqs[i] < seqs[j]
                      /\ taken \cap ToSet(seqs) = {}
                      /\ taken \cup ToSet(seqs) = 1..emitted
  BY Zenon DEF ExactlyOnce, Queued
<1> HIDE DEF seqs
<1>5. QED
  BY <1>2, <1>3, <1>4 DEF Ordered, Counted

\* A step that moves a message from the socket to the queue keeps Queued.
LEMMA MovedKeepsQueued ==
    ASSUME NEW s \in Seq(Message), NEW t \in Seq(Message), t # <<>>
    PROVE  Append(s, Head(t)) \o Tail(t) = s \o t
<1>1. Head(t) \in Message /\ Tail(t) \in Seq(Message) /\ Len(Tail(t)) = Len(t) - 1
      /\ Len(t) \in Nat \ {0} /\ Len(s) \in Nat /\ Head(t) = t[1]
      /\ \A k \in 1..Len(t) - 1 : Tail(t)[k] = t[k + 1]
  BY HeadTailProperties, EmptySeq, LenProperties
<1> DEFINE a == Append(s, Head(t))
<1>2. a \in Seq(Message) /\ Len(a) = Len(s) + 1
      /\ \A k \in 1..Len(s) + 1 : a[k] = IF k <= Len(s) THEN s[k] ELSE Head(t)
  BY <1>1, AppendProperties
<1> HIDE DEF a
<1>3. a \o Tail(t) \in Seq(Message) /\ Len(a \o Tail(t)) = Len(s) + Len(t)
      /\ \A k \in 1..Len(s) + Len(t) : (a \o Tail(t))[k] =
            IF k <= Len(s) + 1 THEN a[k] ELSE Tail(t)[k - (Len(s) + 1)]
  <2>1. Len(a) + Len(Tail(t)) = Len(s) + Len(t)
    BY <1>1, <1>2
  <2>2. /\ a \o Tail(t) \in Seq(Message) /\ Len(a \o Tail(t)) = Len(a) + Len(Tail(t))
        /\ \A k \in 1..Len(a) + Len(Tail(t)) : (a \o Tail(t))[k] =
              IF k <= Len(a) THEN a[k] ELSE Tail(t)[k - Len(a)]
    BY <1>1, <1>2, ConcatProperties
  <2>3. QED
    BY <1>2, <2>1, <2>2
<1>4. s \o t \in Seq(Message) /\ Len(s \o t) = Len(s) + Len(t)
      /\ \A k \in 1..Len(s) + Len(t) : (s \o t)[k] =
            IF k <= Len(s) THEN s[k] ELSE t[k - Len(s)]
  BY ConcatProperties
<1>5. ASSUME NEW k \in 1..Len(s) + Len(t)
      PROVE  (a \o Tail(t))[k] = (s \o t)[k]
  <2>1. CASE k <= Len(s) + 1
    BY <2>1, <1>1, <1>2, <1>3, <1>4
  <2>2. CASE k > Len(s) + 1
    <3>1. k - (Len(s) + 1) \in 1..Len(t) - 1
      BY <2>2, <1>1
    <3>2. Tail(t)[k - (Len(s) + 1)] = t[(k - (Len(s) + 1)) + 1]
      BY <3>1, <1>1
    <3>3. (k - (Len(s) + 1)) + 1 = k - Len(s)
      BY <1>1
    <3>4. QED
      BY <2>2, <3>2, <3>3, <1>1, <1>3, <1>4
  <2>3. k <= Len(s) + 1 \/ k > Len(s) + 1
    BY <1>1
  <2>4. QED
    BY <2>1, <2>2, <2>3
<1>6. a \o Tail(t) = s \o t
  BY <1>3, <1>4, <1>5, SeqEqual
<1>7. QED
  BY <1>6 DEF a

\* A message with the next serial number goes to the end.
LEMMA AppendedCounts ==
    ASSUME NEW q \in Seq(Message), NEW n \in Nat, NEW handed, NEW m \in Message,
           m.seq = n + 1, Ordered(q), Counted(q, n, handed)
    PROVE  Ordered(Append(q, m)) /\ Counted(Append(q, m), n + 1, handed)
<1> DEFINE r == Append(q, m)
<1>1. r \in Seq(Message) /\ Len(r) = Len(q) + 1 /\ r[Len(q) + 1] = m
      /\ \A k \in 1..Len(q) : r[k] = q[k]
  BY AppendProperties
<1>2. Len(q) \in Nat
  BY LenProperties
<1> HIDE DEF r
<1>3. \A k \in 1..Len(q) : q[k].seq \in 1..n
  BY DEF Counted
<1>4. Ordered(r)
  <2> SUFFICES ASSUME NEW i \in 1..Len(r), NEW j \in 1..Len(r), i < j
               PROVE  r[i].seq < r[j].seq
    BY DEF Ordered
  <2>1. i \in 1..Len(q) /\ r[i] = q[i]
    BY <1>1, <1>2
  <2>2. CASE j = Len(q) + 1
    BY <2>1, <2>2, <1>1, <1>3
  <2>3. CASE j # Len(q) + 1
    BY <2>1, <2>3, <1>1, <1>2 DEF Ordered
  <2>4. QED
    BY <2>2, <2>3
<1>5. {r[k].seq : k \in 1..Len(r)} = {q[k].seq : k \in 1..Len(q)} \cup {n + 1}
  <2>1. 1..Len(r) = 1..Len(q) \cup {Len(q) + 1}
    BY <1>1, <1>2
  <2>2. QED
    BY <2>1, <1>1
<1>6. Counted(r, n + 1, handed)
  <2>1. handed \subseteq 1..n
    BY DEF Counted
  <2>2. \A k \in 1..Len(r) : r[k].seq \notin handed
    BY <2>1, <1>1, <1>2 DEF Counted
  <2>3. handed \cup {r[k].seq : k \in 1..Len(r)} = 1..n + 1
    <3>1. handed \cup {q[k].seq : k \in 1..Len(q)} = 1..n
      BY DEF Counted
    <3>2. 1..n + 1 = 1..n \cup {n + 1}
      OBVIOUS
    <3>3. QED
      BY <1>5, <3>1, <3>2
  <2>4. QED
    BY <2>2, <2>3 DEF Counted
<1>7. QED
  BY <1>4, <1>6 DEF r

\* A message is taken out of the queue and counts as handed out.
LEMMA RemovedCounts ==
    ASSUME NEW q \in Seq(Message), NEW n \in Nat, NEW handed, NEW i \in 1..Len(q),
           Ordered(q), Counted(q, n, handed)
    PROVE  Ordered(RemoveAt(q, i)) /\ Counted(RemoveAt(q, i), n, handed \cup {q[i].seq})
<1> DEFINE r == RemoveAt(q, i)
<1>1. r \in Seq(Message) /\ Len(r) = Len(q) - 1 /\ Len(q) \in Nat
      /\ \A k \in 1..Len(q) - 1 : r[k] = IF k < i THEN q[k] ELSE q[k + 1]
  BY RemoveAtProperties, LenProperties
<1> HIDE DEF r
<1>2. \A k \in 1..Len(q) : q[k].seq \in Nat
  <2>1. \A k \in 1..Len(q) : q[k] \in Message
    BY ElementOfSeq
  <2>2. QED
    BY <2>1 DEF Message
<1>3. Ordered(r)
  <2> SUFFICES ASSUME NEW k \in 1..Len(r), NEW j \in 1..Len(r), k < j
               PROVE  r[k].seq < r[j].seq
    BY DEF Ordered
  <2>1. PICK k1 \in {k, k + 1}, j1 \in {j, j + 1} :
            k1 < j1 /\ r[k] = q[k1] /\ r[j] = q[j1]
            /\ k1 \in 1..Len(q) /\ j1 \in 1..Len(q)
    BY <1>1
  <2>2. QED
    BY <2>1 DEF Ordered
<1>4. \A k \in 1..Len(q) : k # i => q[k].seq # q[i].seq
  BY <1>2 DEF Ordered
<1>5. {q[k].seq : k \in 1..Len(q)} = {r[k].seq : k \in 1..Len(r)} \cup {q[i].seq}
  <2>1. ASSUME NEW k \in 1..Len(q), k # i
        PROVE  \E j \in 1..Len(r) : q[k].seq = r[j].seq
    <3>1. CASE k < i
      BY <3>1, <1>1
    <3>2. CASE k > i
      <4>1. k - 1 \in 1..Len(r) /\ r[k - 1] = q[(k - 1) + 1]
        BY <3>2, <1>1
      <4>2. (k - 1) + 1 = k
        OBVIOUS
      <4>3. QED
        BY <4>1, <4>2
    <3>3. QED
      BY <2>1, <3>1, <3>2
  <2>2. ASSUME NEW j \in 1..Len(r)
        PROVE  \E k \in 1..Len(q) : r[j].seq = q[k].seq
    <3>1. j \in 1..Len(q) /\ j + 1 \in 1..Len(q)
      BY <1>1
    <3>2. QED
      BY <1>1, <3>1
  <2>3. {q[k].seq : k \in 1..Len(q)} \subseteq {r[k].seq : k \in 1..Len(r)} \cup {q[i].seq}
    BY <2>1
  <2>4. {r[k].seq : k \in 1..Len(r)} \cup {q[i].seq} \subseteq {q[k].seq : k \in 1..Len(q)}
    <3>1. {r[k].seq : k \in 1..Len(r)} \subseteq {q[k].seq : k \in 1..Len(q)}
      BY <2>2
    <3>2. QED
      BY <3>1
  <2>5. QED
    BY <2>3, <2>4
<1>6. \A j \in 1..Len(r) : r[j].seq # q[i].seq
  <2> TAKE j \in 1..Len(r)
  <2>1. PICK k \in 1..Len(q) : k # i /\ r[j] = q[k]
    <3>1. j \in 1..Len(q) /\ j + 1 \in 1..Len(q)
      BY <1>1
    <3>2. CASE j < i
      BY <3>1, <3>2, <1>1
    <3>3. CASE j >= i
      BY <3>1, <3>3, <1>1
    <3>4. QED
      BY <3>2, <3>3, <1>1
  <2>2. QED
    BY <2>1, <1>4
<1>7. \A j \in 1..Len(r) : r[j].seq \notin handed
  <2> TAKE j \in 1..Len(r)
  <2>1. \E k \in 1..Len(q) : r[j] = q[k]
    <3>1. j \in 1..Len(q) /\ j + 1 \in 1..Len(q)
      BY <1>1
    <3>2. QED
      BY <1>1, <3>1
  <2>2. QED
    BY <2>1 DEF Counted
<1>8. Counted(r, n, handed \cup {q[i].seq})
  BY <1>5, <1>6, <1>7 DEF Counted
<1>9. QED
  BY <1>3, <1>8 DEF r

\* The same in the next state.
LEMMA ExactlyOnceMeansNext == TypeOK' => (ExactlyOnce' <=> Delivering')
  BY ExactlyOnceMeans, PTL

\* Deliver moves a message, recv() removes one and hands it out, the switch adds
\* one with the next number; nothing else touches the messages.
LEMMA NextExactlyOnce ==
    TypeOK /\ TypeOK' /\ ExactlyOnce /\ [Next]_vars => ExactlyOnce'
<1> SUFFICES ASSUME TypeOK, TypeOK', [Next]_vars,
                    Ordered(Queued), Counted(Queued, emitted, taken)
             PROVE  Ordered(Queued') /\ Counted(Queued', emitted', taken')
  BY ExactlyOnceMeans, ExactlyOnceMeansNext DEF Delivering
<1> USE DEF TypeOK, clientVars
<1>1. /\ rx \in Seq(Message) /\ sock \in Seq(Message) /\ Queued \in Seq(Message)
      /\ emitted \in Nat
  BY ConcatProperties DEF ConnectionTyped, SwitchTyped, Queued
<1>2. ASSUME UNCHANGED <<Queued, emitted, taken>>
      PROVE  Ordered(Queued') /\ Counted(Queued', emitted', taken')
  BY <1>2
<1>3. CASE Deliver
  <2>1. Queued' = Queued
    BY <1>1, <1>3, MovedKeepsQueued DEF Deliver, Queued
  <2>2. QED
    BY <1>2, <1>3, <2>1 DEF Deliver
<1>4. ASSUME NEW c \in Clients, Take(c)
      PROVE  Ordered(Queued') /\ Counted(Queued', emitted', taken')
  <2>1. /\ First(c) \in 1..Len(rx)
        /\ rx' = RemoveAt(rx, First(c)) /\ sock' = sock /\ emitted' = emitted
        /\ taken' = taken \cup {rx[First(c)].seq}
    BY <1>4, FirstMatch DEF Take, switchVars
  <2>2. Queued' = RemoveAt(Queued, First(c))
    BY <1>1, <2>1, RemoveAtConcat DEF Queued
  <2>3. First(c) \in 1..Len(Queued) /\ Queued[First(c)] = rx[First(c)]
    BY <1>1, <2>1, ConcatProperties, LenProperties DEF Queued
  <2>4. QED
    BY <1>1, <2>1, <2>2, <2>3, RemovedCounts
<1>5. ASSUME NEW type, NEW xid, NEW id, NEW part, Put(type, xid, id, part),
             rx' = rx, taken' = taken
      PROVE  Ordered(Queued') /\ Counted(Queued', emitted', taken')
  <2> DEFINE m == [type |-> type, xid |-> xid, for |-> id, part |-> part,
                   seq |-> emitted + 1]
  <2>1. sock' = Append(sock, m) /\ emitted' = emitted + 1 /\ m.seq = emitted + 1
    BY <1>5 DEF Put
  <2>2. m \in Message
    <3>1. sock' \in Seq(Message) /\ m = sock'[Len(sock')] /\ Len(sock') \in 1..Len(sock')
      BY <1>1, <2>1, LenProperties DEF SwitchTyped
    <3>2. QED
      BY <3>1, ElementOfSeq
  <2> HIDE DEF m
  <2>3. Queued' = Append(Queued, m)
    BY <1>1, <1>5, <2>1, <2>2, AppendIsConcat, ConcatAssociative DEF Queued
  <2>4. QED
    BY <1>1, <1>5, <2>1, <2>2, <2>3, AppendedCounts
<1>6. CASE SwitchStep
  <2>1. rx' = rx /\ taken' = taken
    BY <1>6 DEF SwitchStep, Answer, AnswerMore, Ignore, Unasked
  <2>2. \/ \E type, xid, id, part : Put(type, xid, id, part)
        \/ UNCHANGED <<sock, emitted>>
    BY <1>6 DEF SwitchStep, Answer, AnswerMore, Ignore, Unasked
  <2>3. QED
    BY <1>2, <1>5, <2>1, <2>2 DEF Queued
<1>7. ASSUME NEW c \in Clients,
             SendRaises(c) \/ Expire(c) \/ LoadXid(c) \/ StoreXid(c) \/ LockTx(c)
             \/ SendAll(c) \/ EnterRecv(c) \/ Abandon(c) \/ GiveUp(c) \/ Wait(c)
             \/ Retry(c) \/ ReadXid(c) \/ Leave(c)
             \/ \E op \in Operations : Begin(c, op)
      PROVE  Ordered(Queued') /\ Counted(Queued', emitted', taken')
  <2>1. UNCHANGED <<rx, sock, emitted, taken>>
    BY <1>7 DEF SendRaises, Expire, LoadXid, StoreXid, LockTx, SendAll, EnterRecv,
                Abandon, GiveUp, Wait, Retry, ReadXid, Leave, Begin, switchVars
  <2>2. QED
    BY <1>2, <2>1 DEF Queued
<1>8. CASE ReaderEnds \/ CloseSocket \/ UNCHANGED vars
  <2>1. UNCHANGED <<rx, sock, emitted, taken>>
    BY <1>8 DEF ReaderEnds, CloseSocket, vars, switchVars
  <2>2. QED
    BY <1>2, <2>1 DEF Queued
<1>9. QED
  BY <1>3, <1>4, <1>6, <1>7, <1>8 DEF Next, ClientStep

\* No message of the switch is lost between the socket and the callers of
\* recv(), none is handed out twice, and those still on their way keep the
\* order in which the switch sent them.
THEOREM Delivery == Spec => []ExactlyOnce
<1>1. Init => ExactlyOnce
  <2> SUFFICES ASSUME Init PROVE ExactlyOnce
    OBVIOUS
  <2>1. Queued = <<>> /\ Len(Queued) = 0
    BY EmptySeq, ConcatProperties, ConcatEmptySeq DEF Init, Queued
  <2>2. Ordered(Queued) /\ Counted(Queued, emitted, taken)
    BY <2>1 DEF Init, Ordered, Counted
  <2>3. QED
    BY <2>2, InitTyped, ExactlyOnceMeans DEF Delivering
<1>2. QED
  BY <1>1, Typing, NextExactlyOnce, PTL DEF Spec
-----------------------------------------------------------------------------
(* Transactions: whose xids are whose.                                      *)

\* The client sends messages whose xid the connection has to draw.
Draws(c) == c \notin OwnXids /\ (c = Opener \/ \E op \in Ops[c] : Sends(op))

\* One client at most draws; the others' own xids, 100 to each client in the
\* model, are not used up.
OneDrawer ==
    /\ \A c, e \in Clients : Draws(c) /\ Draws(e) => c = e
    /\ \A c \in Clients : MaxCalls[c] < 100

Transactions == {"transact", "multipart", "generator"}

\* Where a client is while it draws an xid, and until its message is sent.
Drawing == {"read_xid", "load_xid", "store_xid"}
Unsent == Drawing \cup {"lock", "sendall"}
-----------------------------------------------------------------------------
(* The inductive invariant.                                                 *)

\* The message of a call is that call's, with the xid the client gave it.
Numbered(c) ==
    /\ calls[c] <= MaxCalls[c]
    /\ \/ msg[c] = NoMsg
       \/ /\ msg[c].id[1] = c /\ msg[c].id[2] \in 1..calls[c]
          /\ c \in OwnXids /\ Sends(msg[c].op) => msg[c].xid = 100 * c + msg[c].id[2]

\* A drawn xid is one that the counter has passed, or is about to pass.
Drawn(c) ==
    /\ c \notin OwnXids /\ msg[c].xid # 0 =>
          /\ Draws(c)
          /\ \/ msg[c].xid < next_xid
             \/ msg[c].xid = next_xid /\ pc[c] \in {"load_xid", "store_xid"}
    /\ Draws(c) => next_xid <= calls[c] + 1
    /\ pc[c] \in Drawing => Draws(c) /\ next_xid <= calls[c]
    /\ pc[c] = "read_xid" => msg[c].xid = 0
    /\ pc[c] \in {"load_xid", "store_xid"} => msg[c].xid = next_xid
    /\ pc[c] = "store_xid" => loaded[c] = next_xid

\* From the lock on a message has an xid, and so has one that is repeated.
Labelled(c) ==
    /\ pc[c] \in Unsent => Sends(msg[c].op) /\ msg[c].op # "none"
    /\ pc[c] \in {"lock", "sendall", "recv", "scan", "wait"} /\ Sends(msg[c].op) => msg[c].xid # 0
    /\ pc[c] \in {"recv", "scan", "wait"} => msg[c].op \in Operations \ {"send"}
    /\ result[c] = "timeout" /\ msg[c].op = "transact" => msg[c].xid # 0

\* What a transaction has received answers its request.
GotOwn(c) ==
    msg[c].op \in Transactions => \A i \in DOMAIN got[c] : got[c][i].for = msg[c].id

CallInv(c) == Numbered(c) /\ Drawn(c) /\ Labelled(c) /\ GotOwn(c)

CallsInv == \A c \in Clients : CallInv(c)

\* The xid x of a request or an answer that carries the id of a call: no
\* other call of the client, and no call of another, has that xid.
Known(id, x) ==
    \/ id = <<0, 0>> /\ x = 0
    \/ /\ id[1] \in Clients /\ id[2] \in 1..calls[id[1]]
       /\ id[1] \in OwnXids => x = 100 * id[1] + id[2]
       /\ id[1] \notin OwnXids => Draws(id[1]) /\ x # 0 /\ x < next_xid
       /\ id = msg[id[1]].id => x = msg[id[1]].xid
       /\ id[1] \notin OwnXids /\ id # msg[id[1]].id /\ msg[id[1]].xid # 0 => x < msg[id[1]].xid

WireKnown == \A i \in 1..Len(wire) : Known(wire[i].id, wire[i].xid)

QueueKnown == \A i \in 1..Len(Queued) : Known(Queued[i].for, Queued[i].xid)

XidsInv == CallsInv /\ WireKnown /\ QueueKnown
-----------------------------------------------------------------------------
(* How steps change the queue.                                              *)

\* Pairs are equal that agree in both components.
LEMMA PairEqual == \A p, q \in Nat \X Nat : p = q <=> p[1] = q[1] /\ p[2] = q[2]
OBVIOUS

\* The messages on their way are a sequence.
LEMMA QueuedTyped ==
    ASSUME TypeOK
    PROVE  /\ rx \in Seq(Message) /\ sock \in Seq(Message) /\ Queued \in Seq(Message)
           /\ Len(rx) \in Nat /\ Len(sock) \in Nat /\ Len(Queued) = Len(rx) + Len(sock)
           /\ DOMAIN Queued = 1..Len(Queued)
           /\ \A i \in 1..Len(Queued) : Queued[i] \in Message
           /\ \A i \in 1..Len(rx) : i \in 1..Len(Queued) /\ Queued[i] = rx[i]
<1>1. rx \in Seq(Message) /\ sock \in Seq(Message)
  BY DEF TypeOK, ConnectionTyped, SwitchTyped
<1>2. /\ Queued \in Seq(Message) /\ Len(Queued) = Len(rx) + Len(sock)
      /\ \A i \in 1..Len(rx) + Len(sock) : Queued[i] = IF i <= Len(rx) THEN rx[i] ELSE sock[i - Len(rx)]
  BY <1>1, ConcatProperties DEF Queued
<1>3. Len(rx) \in Nat /\ Len(sock) \in Nat
  BY <1>1, LenProperties
<1>4. \A i \in 1..Len(Queued) : Queued[i] \in Message
  BY <1>2, ElementOfSeq
<1>5. DOMAIN Queued = 1..Len(Queued)
  BY <1>2, LenProperties
<1>6. QED
  BY <1>1, <1>2, <1>3, <1>4, <1>5

\* recv() takes the first match out of the messages on their way.
LEMMA TakeQueued ==
    ASSUME TypeOK, NEW c \in Clients, Take(c)
    PROVE  /\ First(c) \in 1..Len(rx) /\ First(c) \in Matches(c)
           /\ First(c) \in 1..Len(Queued) /\ Queued[First(c)] = rx[First(c)]
           /\ Queued' = RemoveAt(Queued, First(c))
<1>1. /\ First(c) \in 1..Len(rx) /\ First(c) \in Matches(c)
      /\ rx' = RemoveAt(rx, First(c)) /\ sock' = sock
  BY FirstMatch DEF Take, switchVars, TypeOK
<1>2. Queued' = RemoveAt(Queued, First(c))
  BY <1>1, QueuedTyped, RemoveAtConcat DEF Queued
<1>3. QED
  BY <1>1, <1>2, QueuedTyped

\* The switch puts a message behind them.
LEMMA PutQueued ==
    ASSUME TypeOK, TypeOK', NEW type, NEW xid, NEW id, NEW part, Put(type, xid, id, part), rx' = rx
    PROVE  LET m == [type |-> type, xid |-> xid, for |-> id, part |-> part, seq |-> emitted + 1]
           IN  m \in Message /\ Queued' = Append(Queued, m)
<1> DEFINE m == [type |-> type, xid |-> xid, for |-> id, part |-> part, seq |-> emitted + 1]
<1>1. sock' = Append(sock, m) /\ m.seq = emitted + 1
  BY DEF Put
<1>2. rx \in Seq(Message) /\ sock \in Seq(Message) /\ Queued \in Seq(Message)
  BY QueuedTyped
<1>3. m \in Message
  <2>1. sock' \in Seq(Message) /\ m = sock'[Len(sock')] /\ Len(sock') \in 1..Len(sock')
    BY <1>1, <1>2, LenProperties DEF SwitchTyped, TypeOK
  <2>2. QED
    BY <2>1, ElementOfSeq
<1> HIDE DEF m
<1>4. Queued' = Append(Queued, m)
  BY <1>1, <1>2, <1>3, AppendIsConcat, ConcatAssociative DEF Queued
<1>5. QED
  BY <1>3, <1>4 DEF m

\* Deliver moves a message from the one part to the other.
LEMMA DeliverQueued ==
    ASSUME TypeOK, Deliver
    PROVE  Queued' = Queued
BY QueuedTyped, MovedKeepsQueued DEF Deliver, Queued

\* Every step of a client but Take and SendAll leaves wire and queue alone.
ClientOnly(c) ==
    \/ SendRaises(c) \/ Expire(c) \/ LoadXid(c) \/ StoreXid(c) \/ LockTx(c)
    \/ EnterRecv(c) \/ Abandon(c) \/ GiveUp(c) \/ Wait(c)
    \/ Retry(c) \/ ReadXid(c) \/ Leave(c)
    \/ \E op \in Operations : Begin(c, op)

\* Such a step changes neither the messages on their way nor the requests.
LEMMA ClientOnlyQueued ==
    ASSUME NEW c \in Clients, ClientOnly(c)
    PROVE  Queued' = Queued /\ wire' = wire
<1>1. UNCHANGED <<rx, sock, wire>>
  BY DEF ClientOnly, SendRaises, Expire, LoadXid, StoreXid, LockTx, EnterRecv,
         Abandon, GiveUp, Wait, Retry, ReadXid, Leave, Begin, switchVars
<1>2. QED
  BY <1>1 DEF Queued

\* The kinds of steps.
LEMMA Steps ==
    ASSUME [Next]_vars
    PROVE  \/ \E c \in Clients : ClientOnly(c)
           \/ \E c \in Clients : SendAll(c)
           \/ \E c \in Clients : Take(c)
           \/ \E i \in DOMAIN wire : Answer(i) \/ AnswerMore(i) \/ Ignore(i)
           \/ \E type \in {"hello", "async"} : Unasked(type)
           \/ Deliver
           \/ ReaderEnds \/ CloseSocket \/ UNCHANGED vars
BY DEF Next, ClientStep, ClientOnly, SwitchStep
-----------------------------------------------------------------------------
(* Each call keeps what the invariant says of it.                           *)

\* The types of a call.
LEMMA CallTyped ==
    ASSUME TypeOK, NEW c \in Clients
    PROVE  /\ c \in Nat \ {0} /\ MaxCalls[c] \in Nat /\ calls[c] \in Nat /\ next_xid \in Nat \ {0}
           /\ msg[c] \in Call /\ msg[c].xid \in Nat /\ msg[c].id \in Nat \X Nat
           /\ msg[c].id[1] \in Nat /\ msg[c].id[2] \in Nat
           /\ loaded[c] \in Nat /\ got[c] \in Seq(Message) /\ pc[c] \in Locations
<1>1. msg[c] \in Call
  BY DEF TypeOK, ClientsTyped
<1>2. msg[c].xid \in Nat /\ msg[c].id \in Nat \X Nat
  BY <1>1 DEF Call
<1>3. QED
  BY <1>1, <1>2, ConnectionAssumption DEF TypeOK, ClientsTyped, ConnectionTyped

SameCall(c) ==
    /\ calls'[c] = calls[c] /\ msg'[c] = msg[c] /\ pc'[c] = pc[c]
    /\ loaded'[c] = loaded[c] /\ result'[c] = result[c] /\ got'[c] = got[c]

\* A call stays as it is when another client takes a step, unless that draws
\* an xid: then this one does not.
LEMMA OtherCall ==
    ASSUME TypeOK, NEW c \in Clients, CallInv(c), SameCall(c),
           next_xid' = next_xid \/ (next_xid' = next_xid + 1 /\ ~Draws(c))
    PROVE  CallInv(c)'
<1>1. msg[c].xid \in Nat /\ next_xid \in Nat /\ calls[c] \in Nat
  BY CallTyped
<1>2. Numbered(c)'
  BY DEF CallInv, Numbered, SameCall
<1>3. Drawn(c)'
  <2>1. CASE next_xid' = next_xid
    BY <2>1 DEF CallInv, Drawn, SameCall
  <2>2. CASE ~Draws(c)
    <3>1. pc[c] \notin Drawing /\ (c \notin OwnXids => msg[c].xid = 0)
      BY <2>2 DEF CallInv, Drawn
    <3>2. QED
      BY <2>2, <3>1 DEF Drawn, SameCall, Drawing, Draws
  <2>3. QED
    BY <2>1, <2>2
<1>4. Labelled(c)' /\ GotOwn(c)'
  BY DEF CallInv, Labelled, GotOwn, SameCall
<1>5. QED
  BY <1>2, <1>3, <1>4 DEF CallInv

\* A new call has a number of its own and an xid of the client's, or none yet.
LEMMA BeginCall ==
    ASSUME TypeOK, CallsInv, NEW c \in Clients, NEW op \in Operations, Begin(c, op)
    PROVE  CallInv(c)'
<1> DEFINE m == [op |-> op, id |-> <<c, calls[c] + 1>>,
                 xid |-> IF c \in OwnXids /\ Sends(op) THEN 100 * c + calls[c] + 1 ELSE 0]
<1>1. /\ calls'[c] = calls[c] + 1 /\ msg'[c] = m /\ got'[c] = <<>> /\ next_xid' = next_xid
      /\ loaded' = loaded /\ calls[c] < MaxCalls[c]
      /\ \/ pc'[c] = "done" /\ result'[c] = "assertion"
         \/ /\ pc'[c] = IF ~Sends(op) THEN "recv" ELSE IF c \in OwnXids THEN "lock" ELSE "read_xid"
            /\ result'[c] = "none"
  BY DEF Begin, Goto, End, TypeOK, ClientsTyped
<1>2. /\ m.op = op /\ m.id = <<c, calls[c] + 1>> /\ m.id[1] = c /\ m.id[2] = calls[c] + 1
      /\ m.xid = IF c \in OwnXids /\ Sends(op) THEN 100 * c + calls[c] + 1 ELSE 0
  OBVIOUS
<1>3. c \in Nat \ {0} /\ MaxCalls[c] \in Nat /\ calls[c] \in Nat /\ next_xid \in Nat \ {0}
  BY CallTyped
<1> HIDE DEF m
<1>4. Numbered(c)'
  BY <1>1, <1>2, <1>3 DEF Numbered
<1>5. Sends(op) /\ c \notin OwnXids => Draws(c)
  BY DEF Begin, Draws
<1>6. Drawn(c)'
  <2>1. c \notin OwnXids => m.xid = 0
    BY <1>2
  <2>2. Draws(c) => next_xid <= calls[c] + 1
    BY DEF CallsInv, CallInv, Drawn
  <2>3. pc'[c] \in Drawing => pc'[c] = "read_xid" /\ Draws(c) /\ c \notin OwnXids
    BY <1>1, <1>5 DEF Drawing
  <2>4. (Draws(c) => next_xid <= calls'[c] + 1) /\ (Draws(c) => next_xid <= calls'[c])
    BY <1>1, <1>3, <2>2
  <2>5. QED
    BY <1>1, <2>1, <2>3, <2>4 DEF Drawn, Drawing
<1>7. Labelled(c)'
  <2>1. pc'[c] \in Unsent => Sends(op) /\ op # "none"
    BY <1>1 DEF Unsent, Drawing, Operations
  <2>2. pc'[c] \in {"lock", "sendall", "recv", "scan", "wait"} /\ Sends(op) => c \in OwnXids
    BY <1>1
  <2>3. c \in OwnXids /\ Sends(op) => m.xid # 0
    BY <1>2, <1>3
  <2>4. pc'[c] \in {"recv", "scan", "wait"} => op \in Operations \ {"send"}
    BY <1>1 DEF Sends
  <2>5. QED
    BY <1>1, <1>2, <2>1, <2>2, <2>3, <2>4 DEF Labelled
<1>8. GotOwn(c)'
  BY <1>1 DEF GotOwn
<1>9. QED
  BY <1>4, <1>6, <1>7, <1>8 DEF CallInv

\* A message that is sent again keeps its number and its xid.
LEMMA RetryCall ==
    ASSUME TypeOK, CallsInv, NEW c \in Clients, Retry(c)
    PROVE  CallInv(c)'
<1>1. /\ calls'[c] = calls[c] + 1 /\ msg' = msg /\ got'[c] = <<>> /\ next_xid' = next_xid
      /\ loaded' = loaded /\ calls[c] < MaxCalls[c] /\ pc'[c] \in {"lock", "done"}
      /\ result'[c] # "timeout" /\ msg[c].op = "transact" /\ result[c] = "timeout" /\ pc[c] = "idle"
  BY DEF Retry, Goto, End, TypeOK, ClientsTyped
<1>2. MaxCalls[c] \in Nat /\ calls[c] \in Nat /\ next_xid \in Nat \ {0} /\ msg[c].id[2] \in Nat
  BY CallTyped
<1>3. Numbered(c) /\ Drawn(c) /\ Labelled(c)
  BY DEF CallsInv, CallInv
<1>4. Numbered(c)'
  BY <1>1, <1>2, <1>3 DEF Numbered
<1>5. Drawn(c)'
  <2>1. Draws(c) => next_xid <= calls'[c] + 1
    BY <1>1, <1>2, <1>3 DEF Drawn
  <2>2. pc'[c] \notin Drawing /\ pc'[c] \notin {"load_xid", "store_xid"}
    BY <1>1 DEF Drawing
  <2>3. QED
    BY <1>1, <1>3, <2>1, <2>2 DEF Drawn, Drawing
<1>6. Labelled(c)'
  BY <1>1, <1>3 DEF Labelled, Sends, Unsent, Drawing
<1>7. GotOwn(c)'
  BY <1>1 DEF GotOwn
<1>8. QED
  BY <1>4, <1>5, <1>6, <1>7 DEF CallInv

\* The three accesses to the counter.
LEMMA DrawCall ==
    ASSUME TypeOK, CallsInv, NEW c \in Clients, ReadXid(c) \/ LoadXid(c) \/ StoreXid(c)
    PROVE  CallInv(c)' /\ Draws(c) /\ c \notin OwnXids
<1>1. /\ calls[c] \in Nat /\ next_xid \in Nat \ {0} /\ msg[c] \in Call /\ msg[c].xid \in Nat
      /\ loaded[c] \in Nat /\ Numbered(c) /\ Drawn(c) /\ Labelled(c) /\ GotOwn(c)
  BY CallTyped DEF CallsInv, CallInv
<1>2. Draws(c) /\ c \notin OwnXids /\ next_xid <= calls[c] /\ Sends(msg[c].op) /\ msg[c].op # "none"
  BY <1>1 DEF ReadXid, LoadXid, StoreXid, Drawn, Drawing, Draws, Labelled, Unsent
<1>3. calls' = calls /\ got' = got /\ result' = result
  BY DEF ReadXid, LoadXid, StoreXid
<1>4. msg'[c].op = msg[c].op /\ msg'[c].id = msg[c].id
  BY <1>1 DEF ReadXid, LoadXid, StoreXid, TypeOK, ClientsTyped, Call
<1>5. msg[c] # NoMsg
  BY <1>1 DEF ReadXid, LoadXid, StoreXid, Labelled, Unsent, Drawing, NoMsg
<1>6. Numbered(c)'
  BY <1>1, <1>2, <1>3, <1>4, <1>5 DEF Numbered
<1>7. CASE ReadXid(c)
  <2>1. msg'[c].xid = next_xid /\ pc'[c] = "load_xid" /\ next_xid' = next_xid
    BY <1>1, <1>7 DEF ReadXid, Goto, TypeOK, ClientsTyped, Call
  <2>2. Drawn(c)'
    BY <1>1, <1>2, <1>3, <2>1 DEF Drawn, Drawing
  <2>3. Labelled(c)' /\ GotOwn(c)'
    BY <1>1, <1>2, <1>3, <1>4, <2>1 DEF Labelled, GotOwn, Unsent, Drawing
  <2>4. QED
    BY <1>2, <1>6, <2>2, <2>3 DEF CallInv
<1>8. CASE LoadXid(c)
  <2>1. msg' = msg /\ pc[c] = "load_xid" /\ pc'[c] = "store_xid" /\ next_xid' = next_xid /\ loaded'[c] = next_xid
    BY <1>8 DEF LoadXid, Goto, TypeOK, ClientsTyped
  <2>2. Drawn(c)'
    BY <1>1, <1>2, <1>3, <2>1 DEF Drawn, Drawing
  <2>3. Labelled(c)' /\ GotOwn(c)'
    BY <1>1, <1>2, <1>3, <2>1 DEF Labelled, GotOwn, Unsent, Drawing
  <2>4. QED
    BY <1>2, <1>6, <2>2, <2>3 DEF CallInv
<1>9. CASE StoreXid(c)
  <2>1. /\ msg' = msg /\ pc[c] = "store_xid" /\ pc'[c] = "lock" /\ next_xid' = next_xid + 1
        /\ msg[c].xid = next_xid
    BY <1>1, <1>9 DEF StoreXid, Goto, TypeOK, ClientsTyped, Drawn
  <2>2. Drawn(c)'
    BY <1>1, <1>2, <1>3, <2>1 DEF Drawn, Drawing
  <2>3. Labelled(c)' /\ GotOwn(c)'
    BY <1>1, <1>2, <1>3, <2>1 DEF Labelled, GotOwn, Unsent, Drawing
  <2>4. QED
    BY <1>2, <1>6, <2>2, <2>3 DEF CallInv
<1>10. QED
  BY <1>7, <1>8, <1>9

\* The steps that only move a client on.
LEMMA MoveCall ==
    ASSUME TypeOK, CallsInv, NEW c \in Clients,
           \/ SendRaises(c) \/ Expire(c) \/ LockTx(c) \/ SendAll(c) \/ EnterRecv(c)
           \/ Abandon(c) \/ GiveUp(c) \/ Wait(c) \/ Leave(c)
    PROVE  CallInv(c)'
<1>1. /\ calls[c] \in Nat /\ next_xid \in Nat \ {0} /\ msg[c].xid \in Nat
      /\ Numbered(c) /\ Drawn(c) /\ Labelled(c) /\ GotOwn(c)
  BY CallTyped DEF CallsInv, CallInv
<1>2. /\ calls' = calls /\ msg' = msg /\ next_xid' = next_xid /\ loaded' = loaded
      /\ got'[c] = got[c] \/ got'[c] = <<>>
  BY DEF SendRaises, Expire, LockTx, SendAll, EnterRecv, Abandon, GiveUp, Wait, Leave,
         TypeOK, ClientsTyped
<1>3. /\ pc[c] \notin Drawing /\ pc'[c] \notin Drawing
      /\ pc'[c] = "sendall" => pc[c] = "lock"
      /\ pc'[c] # "lock"
      /\ pc'[c] \in {"sendall", "recv", "scan", "wait"} =>
            pc[c] \in {"lock", "sendall", "recv", "scan", "wait"}
      /\ pc'[c] \in {"recv", "scan", "wait"} =>
            pc[c] \in {"recv", "scan", "wait"} \/ (pc[c] = "sendall" /\ msg[c].op # "send")
      /\ result'[c] = "timeout" => result[c] = "timeout" \/ pc[c] = "scan"
  BY DEF SendRaises, Expire, LockTx, SendAll, EnterRecv, Abandon, GiveUp, Wait, Leave,
         Goto, End, Drawing, TypeOK, ClientsTyped
<1>4. Numbered(c)'
  BY <1>1, <1>2 DEF Numbered
<1>5. Drawn(c)'
  BY <1>1, <1>2, <1>3 DEF Drawn, Drawing
<1>6. Labelled(c)'
  <2>1. msg[c].op \in Operations \cup {"none"}
    BY CallTyped DEF Call
  <2>2. QED
    BY <1>1, <1>2, <1>3, <2>1 DEF Labelled, Unsent, Drawing, Sends
<1>7. GotOwn(c)'
  BY <1>1, <1>2 DEF GotOwn
<1>8. QED
  BY <1>4, <1>5, <1>6, <1>7 DEF CallInv

\* The clients' own xids do not meet, and lie beyond those drawn.
LEMMA Blocks ==
    \A c, e \in Nat \ {0}, k, j \in Nat :
        1 <= k /\ k < 100 /\ 1 <= j /\ j < 100 =>
            /\ ~(100 * c + k <= 100)
            /\ 100 * c + k = 100 * e + j => c = e /\ k = j
OBVIOUS

\* An answer that has a transaction's xid answers its request.
LEMMA OwnMatch ==
    ASSUME TypeOK, OneDrawer, XidsInv, NEW c \in Clients, pc[c] = "scan",
           msg[c].op \in Transactions, NEW i \in 1..Len(Queued), Queued[i].xid = msg[c].xid
    PROVE  Queued[i].for = msg[c].id
<1> DEFINE id == Queued[i].for
           x == Queued[i].xid
           e == id[1]
<1>1. /\ c \in Nat \ {0} /\ MaxCalls[c] \in Nat /\ calls[c] \in Nat /\ next_xid \in Nat \ {0}
      /\ msg[c].xid \in Nat /\ msg[c].id \in Nat \X Nat
      /\ msg[c].id[1] \in Nat /\ msg[c].id[2] \in Nat
  BY CallTyped
<1>2. Queued[i] \in Message
  BY QueuedTyped
<1>3. id \in Nat \X Nat /\ x \in Nat /\ id[1] \in Nat /\ id[2] \in Nat
  BY <1>2 DEF Message
<1>4. Numbered(c) /\ Drawn(c) /\ Labelled(c)
  BY DEF XidsInv, CallsInv, CallInv
<1>5. Sends(msg[c].op) /\ msg[c] # NoMsg
  BY DEF Sends, Transactions, NoMsg
<1>6. msg[c].xid # 0
  BY <1>4, <1>5 DEF Labelled
<1>7. msg[c].id[1] = c /\ msg[c].id[2] \in 1..calls[c] /\ calls[c] <= MaxCalls[c]
      /\ (c \in OwnXids => msg[c].xid = 100 * c + msg[c].id[2])
  BY <1>4, <1>5 DEF Numbered
<1>8. Known(id, x)
  BY DEF XidsInv, QueueKnown
<1> HIDE DEF id, x
<1>9. x = msg[c].xid
  BY DEF x
<1>10. /\ e \in Clients /\ id[2] \in 1..calls[e]
       /\ e \in OwnXids => x = 100 * e + id[2]
       /\ e \notin OwnXids => Draws(e) /\ x # 0 /\ x < next_xid
       /\ e \notin OwnXids /\ id # msg[e].id /\ msg[e].xid # 0 => x < msg[e].xid
  BY <1>6, <1>8, <1>9 DEF Known
<1>11. e \in Nat \ {0} /\ calls[e] \in Nat /\ calls[e] < 100 /\ calls[c] < 100
       /\ (Draws(e) => next_xid <= calls[e] + 1)
  <2>1. /\ e \in Nat \ {0} /\ calls[e] \in Nat /\ MaxCalls[e] \in Nat /\ calls[e] <= MaxCalls[e]
        /\ MaxCalls[e] < 100 /\ MaxCalls[c] < 100
        /\ (Draws(e) => next_xid <= calls[e] + 1)
    BY <1>10, CallTyped DEF XidsInv, CallsInv, CallInv, Numbered, Drawn, OneDrawer
  <2>2. QED
    BY <1>1, <1>7, <2>1
<1>12. CASE c \in OwnXids
  <2> DEFINE k == msg[c].id[2]
             j == id[2]
  <2> HIDE DEF k, j
  <2>1. x = 100 * c + k /\ k \in Nat /\ 1 <= k /\ k < 100
    BY <1>1, <1>7, <1>9, <1>11, <1>12 DEF k
  <2>2. e \in OwnXids
    <3>1. SUFFICES ASSUME e \notin OwnXids
                   PROVE  FALSE
      OBVIOUS
    <3>2. x < next_xid /\ next_xid <= calls[e] + 1
      BY <1>10, <1>11, <3>1
    <3>3. x \in Nat /\ x <= 100
      BY <1>1, <1>9, <1>11, <3>2
    <3>4. QED
      BY <1>1, <2>1, <3>3, Blocks
  <2>3. x = 100 * e + j /\ j \in Nat /\ 1 <= j /\ j < 100
    BY <1>3, <1>10, <1>11, <2>2 DEF j
  <2>4. c = e /\ k = j
    <3>1. c \in Nat \ {0} /\ e \in Nat \ {0} /\ 100 * c + k = 100 * e + j
      BY <1>1, <1>11, <2>1, <2>3
    <3> HIDE DEF e
    <3>2. QED
      BY <2>1, <2>3, <3>1, Blocks
  <2>5. id[1] = msg[c].id[1] /\ id[2] = msg[c].id[2]
    BY <1>7, <2>4 DEF j, k
  <2>6. id = msg[c].id
    BY <1>1, <1>3, <2>5, PairEqual
  <2>7. QED
    BY <2>6 DEF id
<1>13. CASE c \notin OwnXids
  <2>1. Draws(c) /\ msg[c].xid < next_xid
    <3>1. pc[c] \notin {"load_xid", "store_xid"}
      OBVIOUS
    <3>2. QED
      BY <1>4, <1>6, <1>13, <3>1 DEF Drawn
  <2>2. x < 101
    <3>1. next_xid <= calls[c] + 1
      BY <1>4, <2>1 DEF Drawn
    <3>2. QED
      BY <1>1, <1>9, <1>11, <2>1, <3>1
  <2>3. e \notin OwnXids
    <3>1. SUFFICES ASSUME e \in OwnXids
                   PROVE  FALSE
      OBVIOUS
    <3>2. x = 100 * e + id[2] /\ id[2] >= 1 /\ e >= 1
      BY <1>3, <1>10, <1>11, <3>1
    <3>3. QED
      BY <1>3, <1>11, <2>2, <3>2
  <2>4. e = c
    BY <1>10, <2>1, <2>3 DEF OneDrawer
  <2>5. id = msg[c].id
    <3>1. SUFFICES ASSUME id # msg[c].id
                   PROVE  FALSE
      OBVIOUS
    <3>2. x < msg[c].xid
      BY <1>6, <1>10, <1>13, <2>4, <3>1
    <3>3. QED
      BY <1>1, <1>9, <3>2
  <2>6. QED
    BY <2>5 DEF id
<1>14. QED
  BY <1>12, <1>13

\* recv() gives a transaction one of its own answers.
LEMMA TakeCall ==
    ASSUME TypeOK, OneDrawer, XidsInv, NEW c \in Clients, Take(c)
    PROVE  CallInv(c)' /\ (msg[c].op \in Transactions => rx[First(c)].for = msg[c].id)
<1>1. /\ got[c] \in Seq(Message) /\ Numbered(c) /\ Drawn(c) /\ Labelled(c) /\ GotOwn(c)
      /\ pc[c] = "scan"
  BY CallTyped DEF XidsInv, CallsInv, CallInv, Take
<1> DEFINE m == rx[First(c)]
<1>2. /\ First(c) \in Matches(c) /\ First(c) \in 1..Len(Queued) /\ Queued[First(c)] = m
      /\ First(c) \in 1..Len(rx)
  BY TakeQueued
<1>3. msg[c].op \in Transactions => m.for = msg[c].id
  <2>1. SUFFICES ASSUME msg[c].op \in Transactions
                 PROVE  m.for = msg[c].id
    OBVIOUS
  <2>2. m.xid = msg[c].xid
    BY <1>2, <2>1 DEF Matches, Wanted, Transactions
  <2>3. QED
    BY <1>1, <1>2, <2>1, <2>2, OwnMatch
<1>4. m \in Message
  BY <1>2, QueuedTyped
<1>5. /\ calls' = calls /\ msg' = msg /\ next_xid' = next_xid /\ loaded' = loaded
      /\ got'[c] = got[c] \/ got'[c] = Append(got[c], m)
      /\ pc'[c] \in {"recv", "done"}
      /\ result'[c] = result[c] \/ result'[c] # "timeout"
  BY DEF Take, Accept, Goto, End, TypeOK, ClientsTyped
<1>6. Numbered(c)'
  BY <1>1, <1>5 DEF Numbered
<1>7. Drawn(c)'
  BY <1>1, <1>5 DEF Drawn, Drawing
<1>8. Labelled(c)'
  BY <1>1, <1>5 DEF Labelled, Unsent, Drawing
<1> HIDE DEF m
<1>9. GotOwn(c)'
  <2>1. CASE got'[c] = got[c]
    BY <1>1, <1>5, <2>1 DEF GotOwn
  <2>2. CASE got'[c] = Append(got[c], m)
    <3>1. /\ DOMAIN got'[c] = 1..Len(got[c]) + 1 /\ Len(got[c]) \in Nat
          /\ DOMAIN got[c] = 1..Len(got[c])
          /\ got'[c][Len(got[c]) + 1] = m
          /\ \A i \in 1..Len(got[c]) : got'[c][i] = got[c][i]
      BY <1>1, <1>4, <2>2, AppendProperties, LenProperties
    <3>2. SUFFICES ASSUME msg[c].op \in Transactions, NEW i \in DOMAIN got'[c]
                   PROVE  got'[c][i].for = msg[c].id
      BY <1>5 DEF GotOwn
    <3>3. CASE i = Len(got[c]) + 1
      BY <1>3, <3>1, <3>2, <3>3
    <3>4. CASE i # Len(got[c]) + 1
      BY <1>1, <3>1, <3>2, <3>4 DEF GotOwn
    <3>5. QED
      BY <3>3, <3>4
  <2>3. QED
    BY <1>5, <2>1, <2>2
<1>10. QED
  BY <1>3, <1>6, <1>7, <1>8, <1>9 DEF CallInv, m
-----------------------------------------------------------------------------
(* The invariant is inductive.                                              *)

\* A step of one client leaves the calls of the others alone.
LEMMA ClientOnlyOthers ==
    ASSUME TypeOK, NEW c \in Clients, ClientOnly(c) \/ SendAll(c) \/ Take(c),
           NEW e \in Clients, e # c
    PROVE  SameCall(e)
<1> USE DEF TypeOK, ClientsTyped, SameCall
<1>1. CASE SendRaises(c) \/ Expire(c) \/ LockTx(c) \/ Abandon(c) \/ GiveUp(c) \/ Wait(c) \/ Leave(c)
  BY <1>1 DEF SendRaises, Expire, LockTx, Abandon, GiveUp, Wait, Leave, Goto, End
<1>2. CASE EnterRecv(c) \/ Retry(c) \/ SendAll(c)
  BY <1>2 DEF EnterRecv, Retry, SendAll, Goto, End
<1>3. CASE ReadXid(c) \/ LoadXid(c) \/ StoreXid(c)
  BY <1>3 DEF ReadXid, LoadXid, StoreXid, Goto, End
<1>4. CASE \E op \in Operations : Begin(c, op)
  BY <1>4 DEF Begin, Goto, End
<1>5. CASE Take(c)
  BY <1>5 DEF Take, Accept, Goto, End
<1>6. QED
  BY <1>1, <1>2, <1>3, <1>4, <1>5 DEF ClientOnly

\* The counter stays, or the one client that draws advances it.
LEMMA Advances ==
    ASSUME TypeOK, CallsInv, [Next]_vars
    PROVE  \/ next_xid' = next_xid
           \/ \E c \in Clients : StoreXid(c) /\ Draws(c) /\ next_xid' = next_xid + 1
<1>1. \/ \E c \in Clients : StoreXid(c)
      \/ next_xid' = next_xid
  BY DEF Next, ClientStep, SwitchStep, vars, SendRaises, Expire, LockTx, Abandon, GiveUp,
         Wait, Leave, EnterRecv, Retry, SendAll, ReadXid, LoadXid, Begin, Take, Deliver,
         ReaderEnds, CloseSocket, Answer, AnswerMore, Ignore, Unasked
<1>2. ASSUME NEW c \in Clients, StoreXid(c)
      PROVE  Draws(c) /\ next_xid' = next_xid + 1
  BY <1>2, DrawCall DEF StoreXid, CallsInv, CallInv, Drawn
<1>3. QED
  BY <1>1, <1>2

\* The steps of the switch and of the reader leave the calls alone.
LEMMA SwitchOnly ==
    ASSUME (\E i \in DOMAIN wire : Answer(i) \/ AnswerMore(i) \/ Ignore(i))
           \/ (\E type \in {"hello", "async"} : Unasked(type))
           \/ ReaderEnds \/ CloseSocket \/ UNCHANGED vars
    PROVE  UNCHANGED clientVars /\ UNCHANGED <<next_xid, rx, opened>>
BY DEF Answer, AnswerMore, Ignore, Unasked, ReaderEnds, CloseSocket, vars, clientVars

\* Every call keeps its part of the invariant in every step.
LEMMA NextCalls ==
    ASSUME TypeOK, OneDrawer, XidsInv, [Next]_vars
    PROVE  CallsInv'
<1>1. CallsInv
  BY DEF XidsInv
<1>2. ASSUME NEW c \in Clients, ClientOnly(c) \/ SendAll(c) \/ Take(c), NEW e \in Clients
      PROVE  CallInv(e)'
  <2>1. CASE e = c
    <3>1. CASE \E op \in Operations : Begin(c, op)
      BY <1>1, <2>1, <3>1, BeginCall
    <3>2. CASE Retry(c)
      BY <1>1, <2>1, <3>2, RetryCall
    <3>3. CASE ReadXid(c) \/ LoadXid(c) \/ StoreXid(c)
      BY <1>1, <2>1, <3>3, DrawCall
    <3>4. CASE Take(c)
      BY <2>1, <3>4, TakeCall
    <3>5. CASE \/ SendRaises(c) \/ Expire(c) \/ LockTx(c) \/ SendAll(c) \/ EnterRecv(c)
               \/ Abandon(c) \/ GiveUp(c) \/ Wait(c) \/ Leave(c)
      BY <1>1, <2>1, <3>5, MoveCall
    <3>6. QED
      BY <1>2, <3>1, <3>2, <3>3, <3>4, <3>5 DEF ClientOnly
  <2>2. CASE e # c
    <3>1. SameCall(e)
      BY <1>2, <2>2, ClientOnlyOthers
    <3>2. next_xid' = next_xid \/ (next_xid' = next_xid + 1 /\ ~Draws(e))
      <4>1. SUFFICES ASSUME NEW d \in Clients, StoreXid(d), Draws(d), next_xid' = next_xid + 1
                     PROVE  ~Draws(e)
        BY <1>1, Advances
      <4>2. d = c
        <5>1. SUFFICES ASSUME d # c PROVE FALSE
          OBVIOUS
        <5>2. SameCall(d)
          BY <1>2, <5>1, ClientOnlyOthers
        <5>3. pc[d] = "store_xid" /\ pc'[d] = "lock"
          BY <4>1 DEF StoreXid, Goto, TypeOK, ClientsTyped
        <5>4. QED
          BY <5>2, <5>3 DEF SameCall
      <4>3. QED
        BY <2>2, <4>1, <4>2 DEF OneDrawer
    <3>3. QED
      BY <1>1, <3>1, <3>2, OtherCall DEF CallsInv
  <2>3. QED
    BY <2>1, <2>2
<1>3. ASSUME Deliver, NEW e \in Clients
      PROVE  CallInv(e)'
  <2>1. /\ calls' = calls /\ msg' = msg /\ loaded' = loaded /\ result' = result /\ got' = got
        /\ next_xid' = next_xid /\ pc'[e] = IF pc[e] = "wait" THEN "scan" ELSE pc[e]
    BY <1>3 DEF Deliver
  <2>2. Numbered(e) /\ Drawn(e) /\ Labelled(e) /\ GotOwn(e)
    BY <1>1 DEF CallsInv, CallInv
  <2>3. Numbered(e)' /\ GotOwn(e)'
    BY <2>1, <2>2 DEF Numbered, GotOwn
  <2>4. Drawn(e)'
    BY <2>1, <2>2 DEF Drawn, Drawing
  <2>5. Labelled(e)'
    BY <2>1, <2>2 DEF Labelled, Unsent, Drawing
  <2>6. QED
    BY <2>3, <2>4, <2>5 DEF CallInv
<1>4. ASSUME UNCHANGED clientVars, next_xid' = next_xid, NEW e \in Clients
      PROVE  CallInv(e)'
  <2>1. SameCall(e)
    BY <1>4 DEF clientVars, SameCall
  <2>2. QED
    BY <1>1, <1>4, <2>1, OtherCall DEF CallsInv
<1>5. SUFFICES ASSUME NEW e \in Clients
               PROVE  CallInv(e)'
  BY DEF CallsInv
<1>6. QED
  BY <1>2, <1>3, <1>4, Steps, SwitchOnly

\* What a step does to the message of a client.
LEMMA Messages ==
    ASSUME TypeOK, CallsInv, [Next]_vars, NEW c \in Clients
    PROVE  /\ calls'[c] = calls[c] \/ calls'[c] = calls[c] + 1
           /\ \/ msg'[c] = msg[c]
              \/ /\ msg'[c].id = <<c, calls[c] + 1>> /\ calls'[c] = calls[c] + 1
                 /\ c \notin OwnXids => msg'[c].xid = 0
              \/ /\ c \notin OwnXids /\ msg[c].xid = 0
                 /\ msg'[c].id = msg[c].id /\ msg'[c].xid = next_xid
<1>1. ASSUME NEW e \in Clients, ClientOnly(e) \/ SendAll(e) \/ Take(e), e # c
      PROVE  calls'[c] = calls[c] /\ msg'[c] = msg[c]
  BY <1>1, ClientOnlyOthers DEF SameCall
<1>2. CASE \E op \in Operations : Begin(c, op)
  <2>1. PICK op \in Operations : Begin(c, op)
    BY <1>2
  <2> DEFINE m == [op |-> op, id |-> <<c, calls[c] + 1>>,
                   xid |-> IF c \in OwnXids /\ Sends(op) THEN 100 * c + calls[c] + 1 ELSE 0]
  <2>2. calls'[c] = calls[c] + 1 /\ msg'[c] = m
    BY <2>1 DEF Begin, TypeOK, ClientsTyped
  <2>3. m.id = <<c, calls[c] + 1>> /\ (c \notin OwnXids => m.xid = 0)
    OBVIOUS
  <2> HIDE DEF m
  <2>4. QED
    BY <2>2, <2>3
<1>3. CASE ReadXid(c)
  <2>1. c \notin OwnXids /\ msg[c].xid = 0
    BY <1>3, DrawCall DEF ReadXid, CallsInv, CallInv, Drawn
  <2>2. calls' = calls /\ msg'[c].id = msg[c].id /\ msg'[c].xid = next_xid
    BY <1>3 DEF ReadXid, TypeOK, ClientsTyped, Call
  <2>3. QED
    BY <2>1, <2>2
<1>4. CASE \/ SendRaises(c) \/ Expire(c) \/ LockTx(c) \/ SendAll(c) \/ EnterRecv(c)
           \/ Abandon(c) \/ GiveUp(c) \/ Wait(c) \/ Leave(c) \/ LoadXid(c) \/ StoreXid(c)
           \/ Take(c) \/ Retry(c)
  BY <1>4 DEF SendRaises, Expire, LockTx, SendAll, EnterRecv, Abandon, GiveUp, Wait, Leave,
              LoadXid, StoreXid, Take, Retry, TypeOK, ClientsTyped
<1>5. CASE Deliver \/ UNCHANGED clientVars
  BY <1>5 DEF Deliver, clientVars
<1>6. QED
  BY <1>1, <1>2, <1>3, <1>4, <1>5, Steps, SwitchOnly DEF ClientOnly

\* What is known of an answer stays true of it.
LEMMA KnownKept ==
    ASSUME TypeOK, TypeOK', CallsInv, [Next]_vars, NEW id \in Nat \X Nat, NEW x \in Nat, Known(id, x)
    PROVE  Known(id, x)'
<1>1. CASE id = <<0, 0>> /\ x = 0
  BY <1>1 DEF Known
<1>2. CASE ~(id = <<0, 0>> /\ x = 0)
  <2> DEFINE c == id[1]
  <2>1. /\ c \in Clients /\ id[2] \in 1..calls[c]
        /\ c \in OwnXids => x = 100 * c + id[2]
        /\ c \notin OwnXids => Draws(c) /\ x # 0 /\ x < next_xid
        /\ id = msg[c].id => x = msg[c].xid
        /\ c \notin OwnXids /\ id # msg[c].id /\ msg[c].xid # 0 => x < msg[c].xid
    BY <1>2 DEF Known
  <2> HIDE DEF c
  <2>2. calls[c] \in Nat /\ next_xid \in Nat /\ msg[c].id \in Nat \X Nat /\ id[2] \in Nat
    BY <2>1, CallTyped
  <2>3. /\ calls'[c] = calls[c] \/ calls'[c] = calls[c] + 1
        /\ \/ msg'[c] = msg[c]
           \/ /\ msg'[c].id = <<c, calls[c] + 1>> /\ calls'[c] = calls[c] + 1
              /\ c \notin OwnXids => msg'[c].xid = 0
           \/ /\ c \notin OwnXids /\ msg[c].xid = 0
              /\ msg'[c].id = msg[c].id /\ msg'[c].xid = next_xid
    BY <2>1, Messages
  <2>4. next_xid' = next_xid \/ next_xid' = next_xid + 1
    BY Advances
  <2>5. id[2] \in 1..calls'[c]
    BY <2>1, <2>2, <2>3
  <2>6. c \notin OwnXids => Draws(c) /\ x # 0 /\ x < next_xid'
    BY <2>1, <2>2, <2>4
  <2>7. id # <<c, calls[c] + 1>>
    BY <2>1, <2>2
  <2>8. id = msg'[c].id /\ c \in OwnXids => x = msg'[c].xid
    BY <2>1, <2>3, <2>7
  <2>9. id = msg'[c].id /\ c \notin OwnXids => x = msg'[c].xid
    BY <2>1, <2>3, <2>7
  <2>10. c \notin OwnXids /\ id # msg'[c].id /\ msg'[c].xid # 0 => x < msg'[c].xid
    BY <2>1, <2>3
  <2>11. QED
    BY <2>1, <2>5, <2>6, <2>8, <2>9, <2>10 DEF Known, Draws, c
<1>3. QED
  BY <1>1, <1>2

\* The requests are a sequence.
LEMMA WireTyped ==
    ASSUME TypeOK
    PROVE  /\ wire \in Seq(Request) /\ Len(wire) \in Nat /\ DOMAIN wire = 1..Len(wire)
           /\ \A i \in 1..Len(wire) : /\ wire[i] \in Request /\ wire[i].xid \in Nat
                                      /\ wire[i].id \in Nat \X Nat /\ wire[i].part \in Nat \ {0}
<1>1. wire \in Seq(Request)
  BY DEF TypeOK, SwitchTyped
<1>2. Len(wire) \in Nat /\ DOMAIN wire = 1..Len(wire) /\ \A i \in 1..Len(wire) : wire[i] \in Request
  BY <1>1, LenProperties, ElementOfSeq
<1>3. QED
  BY <1>1, <1>2, ConnectionAssumption DEF Request

\* sendall() puts the client's message behind the requests.
LEMMA SendWire ==
    ASSUME TypeOK, TypeOK', NEW c \in Clients, SendAll(c)
    PROVE  /\ Len(wire') = Len(wire) + 1
           /\ \A i \in 1..Len(wire) : wire'[i] = wire[i]
           /\ wire'[Len(wire) + 1] = [op |-> msg[c].op, xid |-> msg[c].xid,
                                      id |-> msg[c].id, part |-> 1]
           /\ Queued' = Queued /\ msg' = msg /\ calls' = calls /\ settled' = settled
<1> DEFINE q == [op |-> msg[c].op, xid |-> msg[c].xid, id |-> msg[c].id, part |-> 1]
<1>1. wire' = Append(wire, q) /\ UNCHANGED <<rx, sock, msg, calls, settled>>
  BY DEF SendAll
<1>2. wire \in Seq(Request) /\ wire' \in Seq(Request)
  BY WireTyped DEF TypeOK, SwitchTyped
<1> HIDE DEF q
<1>3. Len(wire') = Len(wire) + 1 /\ (\A i \in 1..Len(wire) : wire'[i] = wire[i])
      /\ wire'[Len(wire) + 1] = q
  BY <1>1, <1>2, AppendProperties
<1>4. QED
  BY <1>1, <1>3 DEF q, Queued

\* An answer carries the xid and the id of a request that the switch holds.
LEMMA AnswerQueued ==
    ASSUME TypeOK, TypeOK', NEW i \in DOMAIN wire, Answer(i) \/ AnswerMore(i)
    PROVE  /\ i \in 1..Len(wire)
           /\ \E m \in Message :
                /\ Queued' = Append(Queued, m)
                /\ m.xid = wire[i].xid /\ m.for = wire[i].id /\ m.part = wire[i].part
                /\ wire[i].op # "connect"
                /\ m.type = "more" <=> AnswerMore(i)
                /\ m.type = "more" => wire[i].op \in {"multipart", "generator"}
                /\ m.type = "last" => wire[i].op \in {"multipart", "generator"}
                /\ m.type = "reply" => wire[i].op = "transact"
                /\ m.type \in {"more", "last", "reply", "error"}
<1>1. i \in 1..Len(wire) /\ rx' = rx
  BY WireTyped DEF Answer, AnswerMore
<1>2. ASSUME NEW type, Put(type, wire[i].xid, wire[i].id, wire[i].part)
      PROVE  \E m \in Message :
                /\ Queued' = Append(Queued, m)
                /\ m.xid = wire[i].xid /\ m.for = wire[i].id /\ m.part = wire[i].part
                /\ m.type = type
  <2> DEFINE m == [type |-> type, xid |-> wire[i].xid, for |-> wire[i].id,
                   part |-> wire[i].part, seq |-> emitted + 1]
  <2>1. m \in Message /\ Queued' = Append(Queued, m)
    BY <1>1, <1>2, PutQueued
  <2>2. m.xid = wire[i].xid /\ m.for = wire[i].id /\ m.part = wire[i].part /\ m.type = type
    OBVIOUS
  <2> HIDE DEF m
  <2>3. QED
    BY <2>1, <2>2
<1>3. ASSUME Answer(i)
      PROVE  ~AnswerMore(i)
  <2>1. wire' = RemoveAt(wire, i) /\ wire \in Seq(Request) /\ Len(wire) \in Nat
    BY <1>3, WireTyped DEF Answer
  <2>2. Len(wire') = Len(wire) - 1
    BY <1>1, <2>1, RemoveAtProperties
  <2>3. AnswerMore(i) => Len(wire') = Len(wire)
    BY WireTyped, LenProperties DEF AnswerMore
  <2>4. QED
    BY <2>1, <2>2, <2>3
<1>4. CASE AnswerMore(i)
  <2>1. /\ wire[i].op \in {"multipart", "generator"}
        /\ Put("more", wire[i].xid, wire[i].id, wire[i].part)
    BY <1>4 DEF AnswerMore
  <2>2. QED
    BY <1>1, <1>2, <1>4, <2>1
<1>5. CASE Answer(i)
  <2>1. PICK type \in {"last", "reply", "error"} :
           /\ Put(type, wire[i].xid, wire[i].id, wire[i].part)
           /\ wire[i].op # "connect"
           /\ type = "last" => wire[i].op \in {"multipart", "generator"}
           /\ type = "reply" => wire[i].op = "transact"
    BY <1>5 DEF Answer
  <2>2. QED
    BY <1>1, <1>2, <1>3, <1>5, <2>1
<1>6. QED
  BY <1>4, <1>5

\* An answer to nobody.
LEMMA UnaskedQueued ==
    ASSUME TypeOK, TypeOK', NEW type \in {"hello", "async"}, Unasked(type)
    PROVE  /\ wire' = wire
           /\ \E m \in Message : /\ Queued' = Append(Queued, m) /\ m.xid = 0
                                  /\ m.for = <<0, 0>> /\ m.type \in {"hello", "async"}
<1>1. Put(type, 0, <<0, 0>>, 1) /\ rx' = rx /\ wire' = wire
  BY DEF Unasked
<1> DEFINE m == [type |-> type, xid |-> 0, for |-> <<0, 0>>, part |-> 1, seq |-> emitted + 1]
<1>2. m \in Message /\ Queued' = Append(Queued, m)
  BY <1>1, PutQueued
<1>3. m.xid = 0 /\ m.for = <<0, 0>> /\ m.type \in {"hello", "async"}
  OBVIOUS
<1> HIDE DEF m
<1>4. QED
  BY <1>1, <1>2, <1>3

\* The requests that are left when one is done with, or has one part less to come.
LEMMA SwitchWire ==
    ASSUME TypeOK, NEW i \in DOMAIN wire, Answer(i) \/ AnswerMore(i) \/ Ignore(i)
    PROVE  /\ i \in 1..Len(wire)
           /\ Answer(i) \/ Ignore(i) =>
                 /\ Len(wire') = Len(wire) - 1
                 /\ \A k \in 1..Len(wire) - 1 : wire'[k] = IF k < i THEN wire[k] ELSE wire[k + 1]
           /\ AnswerMore(i) =>
                 /\ Len(wire') = Len(wire)
                 /\ \A k \in 1..Len(wire) : k # i => wire'[k] = wire[k]
                 /\ wire'[i] = [wire[i] EXCEPT !.part = @ + 1]
<1>1. i \in 1..Len(wire) /\ wire \in Seq(Request) /\ Len(wire) \in Nat
  BY WireTyped
<1>2. Answer(i) \/ Ignore(i) => wire' = RemoveAt(wire, i)
  BY DEF Answer, Ignore
<1>3. /\ Len(RemoveAt(wire, i)) = Len(wire) - 1
      /\ \A k \in 1..Len(wire) - 1 : RemoveAt(wire, i)[k] = IF k < i THEN wire[k] ELSE wire[k + 1]
  BY <1>1, RemoveAtProperties
<1> DEFINE q == [wire[i] EXCEPT !.part = @ + 1]
<1>4. AnswerMore(i) => wire' = [wire EXCEPT ![i] = q]
  BY DEF AnswerMore
<1> HIDE DEF q
<1>5. AnswerMore(i) => /\ Len(wire') = Len(wire)
                       /\ \A k \in 1..Len(wire) : k # i => wire'[k] = wire[k]
                       /\ wire'[i] = q
  BY <1>1, <1>4, LenProperties
<1>6. QED
  BY <1>1, <1>2, <1>3, <1>5 DEF q

\* What is known of xids stays known.
LEMMA AllKnownKept ==
    ASSUME TypeOK, TypeOK', CallsInv, [Next]_vars
    PROVE  \A id \in Nat \X Nat, x \in Nat : Known(id, x) => Known(id, x)'
BY KnownKept

\* Requests carry an xid that only their call has.
LEMMA NextWireKnown ==
    ASSUME TypeOK, TypeOK', OneDrawer, XidsInv, [Next]_vars
    PROVE  WireKnown'
<1>1. \A id \in Nat \X Nat, x \in Nat : Known(id, x) => Known(id, x)'
  BY AllKnownKept DEF XidsInv
<1>2. ASSUME NEW k \in 1..Len(wire'), NEW id \in Nat \X Nat, NEW x \in Nat, Known(id, x),
             wire'[k].id = id, wire'[k].xid = x
      PROVE  Known(wire[k].id, wire[k].xid)'
  BY <1>1, <1>2 DEF Known
<1>3. ASSUME NEW k \in 1..Len(wire'), NEW i \in 1..Len(wire),
             wire'[k].id = wire[i].id, wire'[k].xid = wire[i].xid
      PROVE  Known(wire[k].id, wire[k].xid)'
  <2>1. Known(wire[i].id, wire[i].xid) /\ wire[i].id \in Nat \X Nat /\ wire[i].xid \in Nat
    BY WireTyped DEF XidsInv, WireKnown
  <2>2. QED
    BY <1>2, <1>3, <2>1
<1>4. SUFFICES ASSUME NEW k \in 1..Len(wire')
               PROVE  Known(wire[k].id, wire[k].xid)'
  BY DEF WireKnown
<1>5. Len(wire) \in Nat
  BY WireTyped
<1>6. CASE wire' = wire
  BY <1>3, <1>6
<1>7. ASSUME NEW c \in Clients, SendAll(c)
      PROVE  Known(wire[k].id, wire[k].xid)'
  <2> DEFINE q == [op |-> msg[c].op, xid |-> msg[c].xid, id |-> msg[c].id, part |-> 1]
  <2>1. /\ Len(wire') = Len(wire) + 1 /\ wire'[Len(wire) + 1] = q
        /\ \A i \in 1..Len(wire) : wire'[i] = wire[i]
    BY <1>7, SendWire
  <2>2. q.id = msg[c].id /\ q.xid = msg[c].xid
    OBVIOUS
  <2> HIDE DEF q
  <2>3. CASE k # Len(wire) + 1
    BY <1>3, <1>5, <2>3, <2>1
  <2>4. CASE k = Len(wire) + 1
    <3>1. wire'[k].id = msg[c].id /\ wire'[k].xid = msg[c].xid
      BY <2>4, <2>1, <2>2
    <3>2. msg[c].id \in Nat \X Nat /\ msg[c].xid \in Nat
      BY CallTyped
    <3>3. pc[c] = "sendall" /\ Sends(msg[c].op) /\ msg[c].xid # 0 /\ msg[c] # NoMsg
      BY <1>7 DEF XidsInv, CallsInv, CallInv, SendAll, Labelled, Unsent, NoMsg
    <3>4. Known(msg[c].id, msg[c].xid)
      BY <3>3 DEF Known, XidsInv, CallsInv, CallInv, Numbered, Drawn
    <3>5. QED
      BY <1>2, <3>1, <3>2, <3>4
  <2>5. QED
    BY <2>3, <2>4
<1>8. ASSUME NEW i \in DOMAIN wire, Answer(i) \/ AnswerMore(i) \/ Ignore(i)
      PROVE  Known(wire[k].id, wire[k].xid)'
  <2>1. i \in 1..Len(wire) /\ wire[i] \in Request
    BY WireTyped
  <2>2. CASE Answer(i) \/ Ignore(i)
    <3>1. k \in 1..Len(wire) - 1 /\ wire'[k] = IF k < i THEN wire[k] ELSE wire[k + 1]
      BY <1>8, <2>2, SwitchWire
    <3>2. k \in 1..Len(wire) /\ k + 1 \in 1..Len(wire)
      BY <1>5, <3>1
    <3>3. QED
      BY <1>3, <3>1, <3>2
  <2>3. CASE AnswerMore(i)
    <3>1. k \in 1..Len(wire) /\ (k # i => wire'[k] = wire[k])
          /\ wire'[i] = [wire[i] EXCEPT !.part = @ + 1]
      BY <1>8, <2>3, SwitchWire
    <3>2. wire'[i].id = wire[i].id /\ wire'[i].xid = wire[i].xid
      BY <2>1, <3>1 DEF Request
    <3>3. QED
      BY <1>3, <2>1, <3>1, <3>2
  <2>4. QED
    BY <1>8, <2>2, <2>3
<1>9. ASSUME NEW c \in Clients, ClientOnly(c) \/ Take(c)
      PROVE  wire' = wire
  BY <1>9, ClientOnlyQueued DEF Take, switchVars
<1>10. ASSUME NEW type \in {"hello", "async"}, Unasked(type)
       PROVE  wire' = wire
  BY <1>10 DEF Unasked
<1>11. CASE Deliver \/ ReaderEnds \/ CloseSocket \/ UNCHANGED vars
  BY <1>6, <1>11 DEF Deliver, ReaderEnds, CloseSocket, vars, switchVars
<1>12. QED
  BY <1>6, <1>7, <1>8, <1>9, <1>10, <1>11, Steps

\* How the messages on their way change.
LEMMA QueueSteps ==
    ASSUME TypeOK, TypeOK', [Next]_vars
    PROVE  \/ Queued' = Queued
           \/ \E c \in Clients : Take(c)
           \/ \E i \in DOMAIN wire : Answer(i) \/ AnswerMore(i)
           \/ \E type \in {"hello", "async"} : Unasked(type)
<1>1. ASSUME NEW c \in Clients, ClientOnly(c) \/ SendAll(c)
      PROVE  Queued' = Queued
  BY <1>1, ClientOnlyQueued, SendWire
<1>2. CASE Deliver
  BY <1>2, DeliverQueued
<1>3. CASE (\E i \in DOMAIN wire : Ignore(i)) \/ ReaderEnds \/ CloseSocket \/ UNCHANGED vars
  BY <1>3 DEF Ignore, ReaderEnds, CloseSocket, vars, switchVars, Queued
<1>4. QED
  BY <1>1, <1>2, <1>3, Steps

\* Of the messages on their way all but one stay, or one is put behind them.
LEMMA QueueAfter ==
    ASSUME TypeOK
    PROVE  /\ \A i \in 1..Len(Queued) :
                 Queued' = RemoveAt(Queued, i) =>
                    /\ Len(Queued') = Len(Queued) - 1
                    /\ \A k \in 1..Len(Queued) - 1 :
                          Queued'[k] = IF k < i THEN Queued[k] ELSE Queued[k + 1]
           /\ \A m \in Message :
                 Queued' = Append(Queued, m) =>
                    /\ Len(Queued') = Len(Queued) + 1 /\ Queued'[Len(Queued) + 1] = m
                    /\ \A k \in 1..Len(Queued) : Queued'[k] = Queued[k]
<1>1. Queued \in Seq(Message)
  BY QueuedTyped
<1>2. \A i \in 1..Len(Queued) :
         /\ Len(RemoveAt(Queued, i)) = Len(Queued) - 1
         /\ \A k \in 1..Len(Queued) - 1 :
               RemoveAt(Queued, i)[k] = IF k < i THEN Queued[k] ELSE Queued[k + 1]
  BY <1>1, RemoveAtProperties
<1>3. \A m \in Message :
         /\ Len(Append(Queued, m)) = Len(Queued) + 1
         /\ Append(Queued, m)[Len(Queued) + 1] = m
         /\ \A k \in 1..Len(Queued) : Append(Queued, m)[k] = Queued[k]
  BY <1>1, AppendProperties
<1>4. ASSUME NEW i \in 1..Len(Queued), Queued' = RemoveAt(Queued, i)
      PROVE  /\ Len(Queued') = Len(Queued) - 1
             /\ \A k \in 1..Len(Queued) - 1 :
                   Queued'[k] = IF k < i THEN Queued[k] ELSE Queued[k + 1]
  BY Zenon, <1>2, <1>4
<1>5. ASSUME NEW m \in Message, Queued' = Append(Queued, m)
      PROVE  /\ Len(Queued') = Len(Queued) + 1 /\ Queued'[Len(Queued) + 1] = m
             /\ \A k \in 1..Len(Queued) : Queued'[k] = Queued[k]
  BY Zenon, <1>3, <1>5
<1>6. QED
  BY Zenon, <1>4, <1>5

\* Answers carry an xid that only their call has.
LEMMA NextQueueKnown ==
    ASSUME TypeOK, TypeOK', OneDrawer, XidsInv, [Next]_vars
    PROVE  QueueKnown'
<1>1. \A id \in Nat \X Nat, x \in Nat : Known(id, x) => Known(id, x)'
  BY AllKnownKept DEF XidsInv
<1>2. ASSUME NEW k \in 1..Len(Queued'), NEW id \in Nat \X Nat, NEW x \in Nat, Known(id, x),
             Queued'[k].for = id, Queued'[k].xid = x
      PROVE  Known(Queued[k].for, Queued[k].xid)'
  BY <1>1, <1>2 DEF Known
<1>3. \A i \in 1..Len(Queued) : /\ Known(Queued[i].for, Queued[i].xid)
                                /\ Queued[i].for \in Nat \X Nat /\ Queued[i].xid \in Nat
  BY QueuedTyped DEF XidsInv, QueueKnown, Message
<1>4. ASSUME NEW k \in 1..Len(Queued'), NEW i \in 1..Len(Queued), Queued'[k] = Queued[i]
      PROVE  Known(Queued[k].for, Queued[k].xid)'
  BY <1>2, <1>3, <1>4
<1>5. Len(Queued) \in Nat
  BY QueuedTyped
<1>6. SUFFICES ASSUME NEW k \in 1..Len(Queued')
               PROVE  Known(Queued[k].for, Queued[k].xid)'
  BY DEF QueueKnown
<1>7. CASE Queued' = Queued
  BY <1>4, <1>7
<1>8. ASSUME NEW c \in Clients, Take(c)
      PROVE  Known(Queued[k].for, Queued[k].xid)'
  <2>1. First(c) \in 1..Len(Queued) /\ Queued' = RemoveAt(Queued, First(c))
    BY <1>8, TakeQueued
  <2> DEFINE i == First(c)
  <2> HIDE DEF i
  <2>2. k \in 1..Len(Queued) - 1 /\ Queued'[k] = IF k < i THEN Queued[k] ELSE Queued[k + 1]
    BY <2>1, QueueAfter DEF i
  <2>3. k \in 1..Len(Queued) /\ k + 1 \in 1..Len(Queued)
    BY <1>5, <2>2
  <2>4. QED
    BY <1>4, <2>2, <2>3
<1>9. ASSUME NEW m \in Message, Queued' = Append(Queued, m), Known(m.for, m.xid)
      PROVE  Known(Queued[k].for, Queued[k].xid)'
  <2>1. /\ Len(Queued') = Len(Queued) + 1 /\ Queued'[Len(Queued) + 1] = m
        /\ \A j \in 1..Len(Queued) : Queued'[j] = Queued[j]
    BY <1>9, QueueAfter
  <2>2. m.for \in Nat \X Nat /\ m.xid \in Nat
    BY DEF Message
  <2>3. CASE k = Len(Queued) + 1
    BY <1>2, <1>9, <2>1, <2>2, <2>3
  <2>4. CASE k # Len(Queued) + 1
    BY <1>4, <1>5, <2>1, <2>4
  <2>5. QED
    BY <2>3, <2>4
<1>10. ASSUME NEW i \in DOMAIN wire, Answer(i) \/ AnswerMore(i)
       PROVE  Known(Queued[k].for, Queued[k].xid)'
  <2>1. PICK m \in Message : /\ Queued' = Append(Queued, m)
                             /\ m.xid = wire[i].xid /\ m.for = wire[i].id
    BY <1>10, AnswerQueued
  <2>2. Known(wire[i].id, wire[i].xid)
    BY WireTyped DEF XidsInv, WireKnown
  <2>3. QED
    BY <1>9, <2>1, <2>2
<1>11. ASSUME NEW type \in {"hello", "async"}, Unasked(type)
       PROVE  Known(Queued[k].for, Queued[k].xid)'
  <2>1. PICK m \in Message : Queued' = Append(Queued, m) /\ m.xid = 0 /\ m.for = <<0, 0>>
    BY <1>11, UnaskedQueued
  <2>2. Known(m.for, m.xid)
    BY <2>1 DEF Known
  <2>3. QED
    BY <1>9, <2>1, <2>2
<1>12. QED
  BY <1>7, <1>8, <1>10, <1>11, QueueSteps

\* The invariant holds initially and is kept by every step.
LEMMA XidsKept ==
    ASSUME OneDrawer
    PROVE  /\ Init => XidsInv
           /\ TypeOK /\ TypeOK' /\ XidsInv /\ [Next]_vars => XidsInv'
<1>1. ASSUME Init
      PROVE  XidsInv
  <2>1. Queued = <<>> /\ Len(Queued) = 0
    BY <1>1, EmptySeq, ConcatProperties, ConcatEmptySeq DEF Init, Queued
  <2>2. WireKnown /\ QueueKnown
    BY <1>1, <2>1 DEF Init, WireKnown, QueueKnown
  <2>3. ASSUME NEW c \in Clients
        PROVE  CallInv(c)
    <3>1. /\ pc[c] = "idle" /\ msg[c] = NoMsg /\ result[c] = "none" /\ calls[c] = 0
          /\ got[c] = <<>> /\ next_xid = 1 /\ MaxCalls[c] \in Nat
      BY <1>1, ConnectionAssumption DEF Init, FirstXid
    <3>2. NoMsg.xid = 0 /\ NoMsg.op = "none"
      BY DEF NoMsg
    <3>3. QED
      BY <3>1, <3>2 DEF CallInv, Numbered, Drawn, Labelled, GotOwn, Transactions, Drawing, Unsent
  <2>4. QED
    BY <2>2, <2>3 DEF XidsInv, CallsInv
<1>2. TypeOK /\ TypeOK' /\ XidsInv /\ [Next]_vars => XidsInv'
  BY NextCalls, NextWireKnown, NextQueueKnown DEF XidsInv
<1>3. QED
  BY <1>1, <1>2

\* A transaction that returns normally has received nothing but answers to its
\* own request: transact() and its variants match on the xid, which is enough
\* as long as only one of the threads has _gen_xid() make its xids.
THEOREM OwnReplies ==
    ASSUME OneDrawer
    PROVE  Spec => []OwnReply
<1>1. /\ Init => XidsInv
      /\ TypeOK /\ TypeOK' /\ XidsInv /\ [Next]_vars => XidsInv'
  BY XidsKept
<1>2. XidsInv => OwnReply
  BY DEF XidsInv, CallsInv, CallInv, GotOwn, OwnReply, Returned, Transactions
<1>3. QED
  BY <1>1, <1>2, Typing, PTL DEF Spec
-----------------------------------------------------------------------------
(* What is on its way for a request.  No message is repeated from here on.  *)

Multi == {"multipart", "generator"}

\* One client at most draws, and none repeats a message that timed out.
NoRepeats == OneDrawer /\ Retriers = {}

\* The switch holds a request once.
Requests ==
    \A i \in 1..Len(wire) :
        /\ wire[i].id # <<0, 0>>
        /\ \A j \in 1..Len(wire) : wire[i].id = wire[j].id => i = j

\* Of several answers to a request, the earlier ones are parts before the later.
InOrder ==
    \A i, j \in 1..Len(Queued) :
        i < j /\ Queued[i].for = Queued[j].for /\ Queued[i].for # <<0, 0>> =>
            Queued[i].type = "more" /\ Queued[i].part < Queued[j].part

\* So are those to a request that the switch has not finished with.
Ahead ==
    \A i \in 1..Len(wire), j \in 1..Len(Queued) :
        Queued[j].for = wire[i].id =>
            Queued[j].type = "more" /\ Queued[j].part < wire[i].part

Asking(id) == \E i \in 1..Len(wire) : wire[i].id = id
Answering(id) == \E j \in 1..Len(Queued) : Queued[j].for = id

\* A message that is not sent yet, or never will be, has no answer.
Fresh(c) ==
    pc[c] \in Unsent \/ ~Sends(msg[c].op) => ~Asking(msg[c].id) /\ ~Answering(msg[c].id)

\* A request is of the kind of the call, and so are the answers.
Asked(c) == \A i \in 1..Len(wire) : wire[i].id = msg[c].id => wire[i].op = msg[c].op

Fitting(c) ==
    \A j \in 1..Len(Queued) : Queued[j].for = msg[c].id =>
        msg[c].op # "connect" /\ (Queued[j].type = "more" => msg[c].op \in Multi)

\* A request that is settled has no answer, and will have none: the switch
\* does not answer the HELLO of connect().
Closed(id) ==
    /\ id[1] \in Clients /\ id[2] \in 1..calls[id[1]]
    /\ id = msg[id[1]].id => pc[id[1]] \in {"done", "idle"}
    /\ ~Answering(id)
    /\ \A i \in 1..Len(wire) : wire[i].id = id => wire[i].op = "connect"

AnswersInv ==
    /\ Requests /\ InOrder /\ Ahead
    /\ \A c \in Clients : Fresh(c) /\ Asked(c) /\ Fitting(c)
    /\ \A id \in settled : Closed(id)

\* The id of a message tells whose it is.
LEMMA MessageIds ==
    ASSUME TypeOK, CallsInv
    PROVE  \A c \in Clients :
              /\ msg[c] # NoMsg => /\ msg[c].id[1] = c /\ msg[c].id # <<0, 0>>
                                   /\ msg[c].id[2] \in 1..calls[c]
                                   /\ \A e \in Clients : msg[e].id = msg[c].id => e = c
              /\ msg[c] = NoMsg => msg[c].id = <<0, 0>> /\ msg[c].op = "none"
              /\ pc[c] \in Unsent \cup {"recv", "scan", "wait"} \/ ~Sends(msg[c].op) =>
                    msg[c] # NoMsg
<1> TAKE c \in Clients
<1>1. NoMsg.id = <<0, 0>> /\ NoMsg.op = "none" /\ NoMsg.xid = 0 /\ <<0, 0>>[1] = 0 /\ Sends("none")
  BY DEF NoMsg, Sends
<1>2. \A e \in Clients : e # 0 /\ Numbered(e)
  BY ConnectionAssumption DEF CallsInv, CallInv
<1>3. Numbered(c) /\ Labelled(c)
  BY DEF CallsInv, CallInv
<1>4. msg[c] # NoMsg => /\ msg[c].id[1] = c /\ msg[c].id # <<0, 0>>
                        /\ msg[c].id[2] \in 1..calls[c]
                        /\ \A e \in Clients : msg[e].id = msg[c].id => e = c
  BY <1>1, <1>2 DEF Numbered
<1>5. pc[c] \in Unsent \cup {"recv", "scan", "wait"} \/ ~Sends(msg[c].op) => msg[c] # NoMsg
  BY <1>1, <1>3 DEF Labelled
<1>6. QED
  BY <1>1, <1>4, <1>5

\* Steps that send, answer and settle nothing.
LEMMA Undisturbed ==
    ASSUME AnswersInv, wire' = wire, Queued' = Queued, calls' = calls, settled' = settled,
           \A e \in Clients :
              /\ msg'[e].id = msg[e].id /\ msg'[e].op = msg[e].op
              /\ pc'[e] \in Unsent => pc[e] \in Unsent
              /\ pc[e] \in {"done", "idle"} => pc'[e] \in {"done", "idle"}
    PROVE  AnswersInv'
<1>1. Requests' /\ InOrder' /\ Ahead'
  BY DEF AnswersInv, Requests, InOrder, Ahead
<1>2. ASSUME NEW c \in Clients
      PROVE  Fresh(c)' /\ Asked(c)' /\ Fitting(c)'
  <2>1. Fresh(c) /\ Asked(c) /\ Fitting(c)
    BY DEF AnswersInv
  <2>2. QED
    BY <2>1 DEF Fresh, Asked, Fitting, Asking, Answering, Sends
<1>3. ASSUME NEW id \in settled'
      PROVE  Closed(id)'
  <2>1. Closed(id)
    BY <1>3 DEF AnswersInv
  <2>2. QED
    BY <2>1 DEF Closed, Answering
<1>4. QED
  BY <1>1, <1>2, <1>3 DEF AnswersInv

\* A client that goes on with its call.
LEMMA MoveAnswers ==
    ASSUME TypeOK, AnswersInv, NEW c \in Clients, ClientOnly(c), ~Retry(c),
           ~\E op \in Operations : Begin(c, op)
    PROVE  AnswersInv'
<1>1. wire' = wire /\ Queued' = Queued
  BY ClientOnlyQueued
<1>2. /\ calls' = calls /\ settled' = settled
      /\ \A e \in Clients : msg'[e].id = msg[e].id /\ msg'[e].op = msg[e].op
  <2>1. CASE ReadXid(c)
    <3>1. calls' = calls /\ settled' = settled /\ msg' = [msg EXCEPT ![c].xid = next_xid]
      BY <2>1 DEF ReadXid
    <3>2. \A e \in Clients : msg[e] \in Call
      BY CallTyped
    <3>3. msg'[c].id = msg[c].id /\ msg'[c].op = msg[c].op
      BY <3>1, <3>2 DEF TypeOK, ClientsTyped, Call
    <3>4. \A e \in Clients : e # c => msg'[e] = msg[e]
      BY <3>1 DEF TypeOK, ClientsTyped
    <3>5. QED
      BY <3>1, <3>3, <3>4
  <2>2. CASE ~ReadXid(c)
    BY <2>2 DEF ClientOnly, SendRaises, Expire, LoadXid, StoreXid, LockTx, EnterRecv, Abandon,
                GiveUp, Wait, Leave
  <2>3. QED
    BY <2>1, <2>2
<1>3. \A e \in Clients : e # c => pc'[e] = pc[e]
  BY ClientOnlyOthers DEF SameCall
<1>4. /\ pc'[c] \in Unsent => pc[c] \in Unsent
      /\ pc[c] \in {"done", "idle"} => pc'[c] \in {"done", "idle"}
  BY DEF ClientOnly, SendRaises, Expire, LoadXid, StoreXid, LockTx, EnterRecv, Abandon, GiveUp,
         Wait, ReadXid, Leave, Goto, End, Unsent, Drawing, TypeOK, ClientsTyped
<1>5. QED
  BY <1>1, <1>2, <1>3, <1>4, Undisturbed

\* The number of a new call is on nothing yet.
LEMMA NewIds ==
    ASSUME TypeOK, XidsInv, NEW c \in Clients
    PROVE  LET id == <<c, calls[c] + 1>> IN ~Asking(id) /\ ~Answering(id)
<1> DEFINE id == <<c, calls[c] + 1>>
<1>1. c # 0 /\ calls[c] \in Nat
  BY CallTyped
<1>2. \A x : ~Known(id, x)
  BY <1>1 DEF Known
<1>3. ~Asking(id) /\ ~Answering(id)
  BY <1>2 DEF Asking, Answering, XidsInv, WireKnown, QueueKnown
<1>4. QED
  BY <1>3

\* A client that begins a call.
LEMMA BeginAnswers ==
    ASSUME TypeOK, XidsInv, AnswersInv, NEW c \in Clients, NEW op \in Operations, Begin(c, op)
    PROVE  AnswersInv'
<1> DEFINE new == <<c, calls[c] + 1>>
<1>1. wire' = wire /\ Queued' = Queued
  BY ClientOnlyQueued DEF ClientOnly
<1>2. /\ settled' = settled /\ calls'[c] = calls[c] + 1 /\ msg'[c].id = new
      /\ calls[c] \in Nat
  <2> DEFINE m == [op |-> op, id |-> new,
                   xid |-> IF c \in OwnXids /\ Sends(op) THEN 100 * c + calls[c] + 1 ELSE 0]
  <2>1. settled' = settled /\ calls'[c] = calls[c] + 1 /\ msg'[c] = m
    BY DEF Begin, TypeOK, ClientsTyped
  <2>2. m.id = new
    OBVIOUS
  <2> HIDE DEF m
  <2>3. QED
    BY <2>1, <2>2, CallTyped
<1>3. \A e \in Clients : e # c => pc'[e] = pc[e] /\ msg'[e] = msg[e] /\ calls'[e] = calls[e]
  <2>1. ClientOnly(c)
    BY DEF ClientOnly
  <2>2. QED
    BY <2>1, ClientOnlyOthers DEF SameCall
<1>4. ~Asking(new) /\ ~Answering(new)
  BY NewIds DEF XidsInv
<1>5. Requests' /\ InOrder' /\ Ahead'
  BY <1>1 DEF AnswersInv, Requests, InOrder, Ahead
<1>6. ASSUME NEW e \in Clients
      PROVE  Fresh(e)' /\ Asked(e)' /\ Fitting(e)'
  <2>1. CASE e # c
    <3>1. Fresh(e) /\ Asked(e) /\ Fitting(e) /\ pc'[e] = pc[e] /\ msg'[e] = msg[e]
      BY <1>3, <2>1 DEF AnswersInv
    <3>2. QED
      BY <1>1, <3>1 DEF Fresh, Asked, Fitting, Asking, Answering
  <2>2. CASE e = c
    BY <1>1, <1>2, <1>4, <2>2 DEF Fresh, Asked, Fitting, Asking, Answering
  <2>3. QED
    BY <2>1, <2>2
<1>7. ASSUME NEW id \in settled'
      PROVE  Closed(id)'
  <2>1. Closed(id)
    BY <1>2, <1>7 DEF AnswersInv
  <2>2. id[1] \in Clients /\ id[2] \in 1..calls[id[1]]
    BY <2>1 DEF Closed
  <2>3. id[2] \in 1..calls'[id[1]] /\ (id[1] = c => id # new)
    BY <1>2, <1>3, <2>2
  <2>4. id = msg'[id[1]].id => pc'[id[1]] \in {"done", "idle"}
    BY <1>2, <1>3, <2>1, <2>2, <2>3 DEF Closed
  <2>5. QED
    BY <1>1, <2>1, <2>2, <2>3, <2>4 DEF Closed, Answering
<1>8. QED
  BY <1>5, <1>6, <1>7 DEF AnswersInv

\* A client that sends its message.
LEMMA SendAnswers ==
    ASSUME TypeOK, TypeOK', XidsInv, AnswersInv, NEW c \in Clients, SendAll(c)
    PROVE  AnswersInv'
<1> DEFINE q == [op |-> msg[c].op, xid |-> msg[c].xid, id |-> msg[c].id, part |-> 1]
           n == Len(wire) + 1
<1>1. /\ Len(wire') = n /\ wire'[n] = q
      /\ \A i \in 1..Len(wire) : wire'[i] = wire[i]
      /\ Queued' = Queued /\ msg' = msg /\ calls' = calls /\ settled' = settled
  BY SendWire
<1>2. q.op = msg[c].op /\ q.id = msg[c].id
  OBVIOUS
<1> HIDE DEF q
<1>3. Len(wire) \in Nat
  BY WireTyped
<1>4. /\ pc[c] = "sendall" /\ pc'[c] \notin Unsent /\ Sends(msg[c].op) /\ msg[c] # NoMsg
      /\ \A e \in Clients : e # c => pc'[e] = pc[e]
  <2>1. pc[c] = "sendall" /\ pc'[c] \in {"done", "recv"}
    BY DEF SendAll, Goto, End, TypeOK, ClientsTyped
  <2>2. Sends(msg[c].op) /\ msg[c] # NoMsg
    BY <2>1 DEF XidsInv, CallsInv, CallInv, Labelled, Unsent, NoMsg
  <2>3. QED
    BY <2>1, <2>2, ClientOnlyOthers DEF SameCall, Unsent, Drawing
<1>5. ~Asking(msg[c].id) /\ ~Answering(msg[c].id)
  BY <1>4 DEF AnswersInv, Fresh, Unsent
<1>6. \A k \in 1..Len(wire') : k \in 1..Len(wire) \/ k = n
  BY <1>1, <1>3
<1>7. \A e \in Clients : e # c => msg[e].id # msg[c].id
  BY <1>4, MessageIds DEF XidsInv
<1>8. msg[c].id # <<0, 0>>
  BY <1>4, MessageIds DEF XidsInv
<1> HIDE DEF n
<1>9. Requests'
  BY <1>1, <1>2, <1>5, <1>6, <1>8 DEF AnswersInv, Requests, Asking
<1>10. InOrder' /\ Ahead'
  BY <1>1, <1>2, <1>5, <1>6 DEF AnswersInv, InOrder, Ahead, Answering
<1>11. ASSUME NEW e \in Clients
       PROVE  Fresh(e)' /\ Asked(e)' /\ Fitting(e)'
  <2>1. Fresh(e) /\ Asked(e) /\ Fitting(e)
    BY DEF AnswersInv
  <2>2. Asked(e)' /\ Fitting(e)'
    BY <1>1, <1>2, <1>6, <1>7, <2>1 DEF Asked, Fitting
  <2>3. Fresh(e)'
    BY <1>1, <1>2, <1>4, <1>6, <1>7, <2>1 DEF Fresh, Asking, Answering
  <2>4. QED
    BY <2>2, <2>3
<1>12. ASSUME NEW id \in settled'
       PROVE  Closed(id)'
  <2>1. Closed(id)
    BY <1>1, <1>12 DEF AnswersInv
  <2>2. id # msg[c].id
    BY <1>4, <2>1, MessageIds DEF Closed, XidsInv
  <2>3. id = msg[id[1]].id => pc'[id[1]] \in {"done", "idle"}
    BY <1>4, <2>1, <2>2 DEF Closed
  <2>4. QED
    BY <1>1, <1>2, <1>6, <2>1, <2>2, <2>3 DEF Closed, Answering
<1>13. QED
  BY <1>9, <1>10, <1>11, <1>12 DEF AnswersInv

\* The requests that are left are requests of before, each once.
LEMMA SwitchRequests ==
    ASSUME TypeOK, Requests, NEW i \in DOMAIN wire, Answer(i) \/ AnswerMore(i) \/ Ignore(i)
    PROVE  /\ Requests'
           /\ \A k \in 1..Len(wire') : \E j \in 1..Len(wire) :
                 /\ wire'[k].id = wire[j].id /\ wire'[k].op = wire[j].op
                 /\ j # i => wire'[k].part = wire[j].part
                 /\ j = i => AnswerMore(i) /\ wire'[k].part = wire[j].part + 1
<1>1. Len(wire) \in Nat /\ i \in 1..Len(wire) /\ wire[i] \in Request
  BY WireTyped
<1>2. CASE Answer(i) \/ Ignore(i)
  <2> DEFINE from(k) == IF k < i THEN k ELSE k + 1
  <2>1. /\ Len(wire') = Len(wire) - 1
        /\ \A k \in 1..Len(wire) - 1 : wire'[k] = IF k < i THEN wire[k] ELSE wire[k + 1]
    BY <1>2, SwitchWire
  <2>2. \A k \in 1..Len(wire') :
           from(k) \in 1..Len(wire) /\ from(k) # i /\ wire'[k] = wire[from(k)]
    BY <1>1, <2>1
  <2>3. \A k, l \in 1..Len(wire') : from(k) = from(l) => k = l
    BY <1>1, <2>1
  <2> HIDE DEF from
  <2>4. Requests'
    BY <2>2, <2>3 DEF Requests
  <2>5. QED
    BY <2>2, <2>4
<1>3. CASE AnswerMore(i)
  <2>1. /\ Len(wire') = Len(wire)
        /\ \A k \in 1..Len(wire) : k # i => wire'[k] = wire[k]
        /\ wire'[i] = [wire[i] EXCEPT !.part = @ + 1]
    BY <1>3, SwitchWire
  <2>2. wire'[i].id = wire[i].id /\ wire'[i].op = wire[i].op /\ wire'[i].part = wire[i].part + 1
    BY <1>1, <2>1 DEF Request
  <2>3. \A k \in 1..Len(wire') : k \in 1..Len(wire) /\ wire'[k].id = wire[k].id
    BY <2>1, <2>2
  <2>4. Requests'
    BY <2>1, <2>3 DEF Requests
  <2>5. QED
    BY <1>3, <2>1, <2>2, <2>4
<1>4. QED
  BY <1>2, <1>3

\* The switch drops a request.
LEMMA IgnoreAnswers ==
    ASSUME TypeOK, AnswersInv, NEW i \in DOMAIN wire, Ignore(i)
    PROVE  AnswersInv'
<1>1. /\ Requests'
      /\ \A k \in 1..Len(wire') : \E j \in 1..Len(wire) :
            wire'[k].id = wire[j].id /\ wire'[k].op = wire[j].op /\ wire'[k].part = wire[j].part
  <2>1. ~AnswerMore(i)
    <3>1. Len(wire') = Len(wire) - 1 /\ Len(wire) \in Nat /\ i \in 1..Len(wire)
      BY SwitchWire, WireTyped
    <3>2. AnswerMore(i) => Len(wire') = Len(wire)
      BY SwitchWire
    <3>3. QED
      BY <3>1, <3>2
  <2>2. QED
    BY <2>1, SwitchRequests DEF AnswersInv
<1>2. Queued' = Queued /\ UNCHANGED <<pc, msg, calls, settled>>
  BY DEF Ignore, clientVars, Queued
<1>3. InOrder' /\ Ahead'
  BY <1>1, <1>2 DEF AnswersInv, InOrder, Ahead
<1>4. ASSUME NEW c \in Clients
      PROVE  Fresh(c)' /\ Asked(c)' /\ Fitting(c)'
  <2>1. Fresh(c) /\ Asked(c) /\ Fitting(c)
    BY DEF AnswersInv
  <2>2. QED
    BY <1>1, <1>2, <2>1 DEF Fresh, Asked, Fitting, Asking, Answering
<1>5. ASSUME NEW id \in settled'
      PROVE  Closed(id)'
  <2>1. Closed(id)
    BY <1>2, <1>5 DEF AnswersInv
  <2>2. QED
    BY <1>1, <1>2, <2>1 DEF Closed, Answering
<1>6. QED
  BY <1>1, <1>3, <1>4, <1>5 DEF AnswersInv

\* The switch sends an answer.
LEMMA ReplyAnswers ==
    ASSUME TypeOK, TypeOK', AnswersInv, NEW i \in DOMAIN wire, Answer(i) \/ AnswerMore(i)
    PROVE  AnswersInv'
<1>1. PICK m \in Message :
         /\ Queued' = Append(Queued, m)
         /\ m.for = wire[i].id /\ m.part = wire[i].part
         /\ wire[i].op # "connect"
         /\ m.type = "more" <=> AnswerMore(i)
         /\ m.type = "more" => wire[i].op \in Multi
  BY AnswerQueued DEF Multi
<1> DEFINE n == Len(Queued) + 1
<1>2. /\ Len(Queued') = n /\ Queued'[n] = m
      /\ \A j \in 1..Len(Queued) : Queued'[j] = Queued[j]
  BY <1>1, QueueAfter
<1>3. Len(Queued) \in Nat /\ i \in 1..Len(wire)
  BY QueuedTyped, WireTyped
<1>4. \A k \in 1..Len(Queued') : k \in 1..Len(Queued) \/ k = n
  BY <1>2, <1>3
<1>5. \A k \in 1..Len(Queued') : k # n => k < n
  BY <1>2, <1>3
<1> HIDE DEF n
<1>6. /\ Requests'
      /\ \A k \in 1..Len(wire') : \E j \in 1..Len(wire) :
            /\ wire'[k].id = wire[j].id /\ wire'[k].op = wire[j].op
            /\ j # i => wire'[k].part = wire[j].part
            /\ j = i => AnswerMore(i) /\ wire'[k].part = wire[j].part + 1
  BY SwitchRequests DEF AnswersInv
<1>7. UNCHANGED <<pc, msg, calls, settled>>
  BY DEF Answer, AnswerMore, clientVars
<1>8. \A j \in 1..Len(Queued) : Queued[j].for = m.for => Queued[j].type = "more" /\ Queued[j].part < m.part
  BY <1>1, <1>3 DEF AnswersInv, Ahead
<1>9. InOrder'
  <2>1. SUFFICES ASSUME NEW a \in 1..Len(Queued'), NEW b \in 1..Len(Queued'), a < b,
                        Queued'[a].for = Queued'[b].for, Queued'[a].for # <<0, 0>>
                 PROVE  Queued'[a].type = "more" /\ Queued'[a].part < Queued'[b].part
    BY DEF InOrder
  <2>2. a \in 1..Len(Queued)
    BY <1>2, <1>3, <2>1 DEF n
  <2>3. CASE b = n
    BY <1>2, <1>8, <2>1, <2>2, <2>3
  <2>4. CASE b # n
    BY <1>2, <1>4, <2>1, <2>2, <2>4 DEF AnswersInv, InOrder
  <2>5. QED
    BY <2>3, <2>4
<1>10. Ahead'
  <2>1. SUFFICES ASSUME NEW k \in 1..Len(wire'), NEW b \in 1..Len(Queued'), Queued'[b].for = wire'[k].id
                 PROVE  Queued'[b].type = "more" /\ Queued'[b].part < wire'[k].part
    BY DEF Ahead
  <2>2. PICK j \in 1..Len(wire) :
           /\ wire'[k].id = wire[j].id
           /\ j # i => wire'[k].part = wire[j].part
           /\ j = i => AnswerMore(i) /\ wire'[k].part = wire[j].part + 1
    BY <1>6
  <2>3. wire[j].part \in Nat
    BY WireTyped
  <2>4. CASE b = n
    <3>1. j = i
      BY <1>1, <1>2, <1>3, <2>1, <2>2, <2>4 DEF AnswersInv, Requests
    <3>2. QED
      BY <1>1, <1>2, <2>2, <2>3, <2>4, <3>1
  <2>5. CASE b # n
    <3>1. b \in 1..Len(Queued) /\ Queued'[b] = Queued[b]
      BY <1>2, <1>4, <2>5
    <3>2. Queued[b].type = "more" /\ Queued[b].part < wire[j].part /\ Queued[b].part \in Nat
      BY <2>1, <2>2, <3>1, QueuedTyped DEF AnswersInv, Ahead, Message
    <3>3. wire'[k].part = wire[j].part \/ wire'[k].part = wire[j].part + 1
      BY <2>2
    <3>4. QED
      BY <2>3, <3>1, <3>2, <3>3
  <2>6. QED
    BY <2>4, <2>5
<1>11. ASSUME NEW c \in Clients
       PROVE  Fresh(c)' /\ Asked(c)' /\ Fitting(c)'
  <2>1. Fresh(c) /\ Asked(c) /\ Fitting(c)
    BY DEF AnswersInv
  <2>2. Asked(c)'
    BY <1>6, <1>7, <2>1 DEF Asked
  <2>3. Fresh(c)'
    BY <1>1, <1>2, <1>3, <1>4, <1>6, <1>7, <2>1 DEF Fresh, Asking, Answering
  <2>4. Fitting(c)'
    BY <1>1, <1>2, <1>3, <1>4, <1>7, <2>1 DEF Fitting, Asked
  <2>5. QED
    BY <2>2, <2>3, <2>4
<1>12. ASSUME NEW id \in settled'
       PROVE  Closed(id)'
  <2>1. Closed(id)
    BY <1>7, <1>12 DEF AnswersInv
  <2>2. ~Answering(id)'
    BY <1>1, <1>2, <1>3, <1>4, <2>1 DEF Closed, Answering
  <2>3. QED
    BY <1>6, <1>7, <2>1, <2>2 DEF Closed
<1>13. QED
  BY <1>6, <1>9, <1>10, <1>11, <1>12 DEF AnswersInv

\* The switch sends a message of its own.
LEMMA UnaskedAnswers ==
    ASSUME TypeOK, TypeOK', XidsInv, AnswersInv, NEW type \in {"hello", "async"}, Unasked(type)
    PROVE  AnswersInv'
<1>1. PICK m \in Message : /\ Queued' = Append(Queued, m)
                           /\ m.for = <<0, 0>> /\ m.type \in {"hello", "async"}
  BY UnaskedQueued
<1> DEFINE n == Len(Queued) + 1
<1>2. /\ Len(Queued') = n /\ Queued'[n] = m
      /\ \A j \in 1..Len(Queued) : Queued'[j] = Queued[j]
  BY <1>1, QueueAfter
<1>3. \A k \in 1..Len(Queued') : k \in 1..Len(Queued) \/ k = n
  BY <1>2, QueuedTyped
<1> HIDE DEF n
<1>4. wire' = wire /\ UNCHANGED <<pc, msg, calls, settled>>
  BY DEF Unasked, clientVars
<1>5. Requests' /\ InOrder' /\ Ahead'
  BY <1>1, <1>2, <1>3, <1>4 DEF AnswersInv, Requests, InOrder, Ahead
<1>6. ASSUME NEW c \in Clients
      PROVE  Fresh(c)' /\ Asked(c)' /\ Fitting(c)'
  <2>1. Fresh(c) /\ Asked(c) /\ Fitting(c)
    BY DEF AnswersInv
  <2>2. Asked(c)'
    BY <1>4, <2>1 DEF Asked
  <2>3. Fresh(c)'
    <3>1. pc[c] \in Unsent \/ ~Sends(msg[c].op) => msg[c].id # <<0, 0>>
      BY MessageIds DEF XidsInv
    <3>2. QED
      BY <1>1, <1>2, <1>3, <1>4, <2>1, <3>1 DEF Fresh, Asking, Answering
  <2>4. Fitting(c)'
    <3>1. msg[c].id = <<0, 0>> => msg[c].op = "none"
      BY MessageIds DEF XidsInv
    <3>2. QED
      BY <1>1, <1>2, <1>3, <1>4, <2>1, <3>1 DEF Fitting
  <2>5. QED
    BY <2>2, <2>3, <2>4
<1>7. ASSUME NEW id \in settled'
      PROVE  Closed(id)'
  <2>1. Closed(id)
    BY <1>4, <1>7 DEF AnswersInv
  <2>2. id # <<0, 0>>
    BY <2>1, ConnectionAssumption DEF Closed
  <2>3. QED
    BY <1>1, <1>2, <1>3, <1>4, <2>1, <2>2 DEF Closed, Answering
<1>8. QED
  BY <1>5, <1>6, <1>7 DEF AnswersInv

\* The messages that are left when one is taken out, in their order.
LEMMA QueueShrinks ==
    ASSUME TypeOK, NEW i \in 1..Len(Queued), Queued' = RemoveAt(Queued, i)
    PROVE  /\ \A k \in 1..Len(Queued') :
                 \E j \in 1..Len(Queued) : j # i /\ Queued'[k] = Queued[j]
           /\ \A j \in 1..Len(Queued) : j # i =>
                 \E k \in 1..Len(Queued') : Queued'[k] = Queued[j]
           /\ \A k, l \in 1..Len(Queued') : k < l =>
                 \E a, b \in 1..Len(Queued) :
                     a < b /\ Queued'[k] = Queued[a] /\ Queued'[l] = Queued[b]
<1> DEFINE from(k) == IF k < i THEN k ELSE k + 1
           to(j) == IF j < i THEN j ELSE j - 1
<1>1. /\ Len(Queued') = Len(Queued) - 1 /\ Len(Queued) \in Nat
      /\ \A k \in 1..Len(Queued) - 1 : Queued'[k] = IF k < i THEN Queued[k] ELSE Queued[k + 1]
  BY QueueAfter, QueuedTyped
<1>2. \A k \in 1..Len(Queued') :
         from(k) \in 1..Len(Queued) /\ from(k) # i /\ Queued'[k] = Queued[from(k)]
  BY <1>1
<1>3. \A k, l \in 1..Len(Queued') : k < l => from(k) < from(l)
  BY <1>1
<1>4. \A j \in 1..Len(Queued) : j # i => to(j) \in 1..Len(Queued') /\ from(to(j)) = j
  BY <1>1
<1> HIDE DEF from, to
<1>5. QED
  BY <1>2, <1>3, <1>4

\* A transaction gets the first answer to its request; if it is done then, this
\* was the last.
LEMMA LastTaken ==
    ASSUME TypeOK, OneDrawer, XidsInv, AnswersInv, NEW c \in Clients, Take(c),
           msg[c].op \in Transactions
    PROVE  /\ Queued[First(c)].for = msg[c].id
           /\ \A j \in 1..Len(Queued) : Queued[j].for = msg[c].id => First(c) <= j
           /\ settled' # settled =>
                 /\ \A j \in 1..Len(Queued) : j # First(c) => Queued[j].for # msg[c].id
                 /\ ~Asking(msg[c].id)
<1> DEFINE f == First(c)
<1>1. /\ f \in 1..Len(rx) /\ f \in Matches(c) /\ f \in 1..Len(Queued) /\ Queued[f] = rx[f]
      /\ Len(rx) \in Nat /\ Len(Queued) \in Nat
      /\ \A j \in 1..Len(rx) : j \in 1..Len(Queued) /\ Queued[j] = rx[j]
  BY TakeQueued, QueuedTyped
<1>2. rx[f].for = msg[c].id /\ pc[c] = "scan"
  BY TakeCall DEF Take
<1>3. msg[c] # NoMsg /\ msg[c].id # <<0, 0>> /\ msg[c].id[1] = c
  BY <1>2, MessageIds DEF XidsInv
<1>4. \A j \in Matches(c) : f <= j
  BY FirstMatch DEF TypeOK, Take
<1> HIDE DEF f
<1>5. ASSUME NEW j \in 1..Len(Queued), Queued[j].for = msg[c].id
      PROVE  f <= j
  <2>1. Queued[j].xid = msg[c].xid
    BY <1>3, <1>5 DEF XidsInv, QueueKnown, Known
  <2>2. SUFFICES ASSUME j < f
                 PROVE  FALSE
    BY <1>1
  <2>3. j \in 1..Len(rx)
    BY <1>1, <2>2
  <2>4. j \in Matches(c)
    BY <1>1, <2>1, <2>3 DEF Matches, Wanted, Transactions
  <2>5. QED
    BY <1>1, <1>4, <2>2, <2>4
<1>6. ASSUME settled' # settled
      PROVE  rx[f].type # "more"
  <2>1. Accept(c, rx[f])
    BY DEF Take, f
  <2>2. CASE msg[c].op = "transact"
    BY <1>1, <1>2, <2>2 DEF AnswersInv, Fitting, Multi
  <2>3. CASE msg[c].op \in Multi
    BY <1>6, <2>1, <2>3 DEF Accept, Multi
  <2>4. QED
    BY <2>2, <2>3 DEF Transactions, Multi
<1>7. ASSUME settled' # settled, NEW j \in 1..Len(Queued), j # f
      PROVE  Queued[j].for # msg[c].id
  <2>1. SUFFICES ASSUME Queued[j].for = msg[c].id
                 PROVE  FALSE
    OBVIOUS
  <2>2. f < j
    BY <1>1, <1>5, <1>7, <2>1
  <2>3. Queued[f].type = "more"
    BY <1>1, <1>2, <1>3, <2>1, <2>2 DEF AnswersInv, InOrder
  <2>4. QED
    BY <1>1, <1>6, <1>7, <2>3
<1>8. ASSUME settled' # settled
      PROVE  ~Asking(msg[c].id)
  BY <1>1, <1>2, <1>6, <1>8 DEF AnswersInv, Ahead, Asking
<1>9. QED
  BY <1>1, <1>2, <1>5, <1>7, <1>8 DEF f

\* A client that takes a message.
LEMMA TakeAnswers ==
    ASSUME TypeOK, OneDrawer, XidsInv, AnswersInv, NEW c \in Clients, Take(c)
    PROVE  AnswersInv'
<1>1. First(c) \in 1..Len(Queued) /\ Queued' = RemoveAt(Queued, First(c))
  BY TakeQueued
<1>2. /\ \A k \in 1..Len(Queued') :
            \E j \in 1..Len(Queued) : j # First(c) /\ Queued'[k] = Queued[j]
      /\ \A k, l \in 1..Len(Queued') : k < l =>
            \E a, b \in 1..Len(Queued) :
                a < b /\ Queued'[k] = Queued[a] /\ Queued'[l] = Queued[b]
  BY <1>1, QueueShrinks
<1>3. /\ wire' = wire /\ UNCHANGED <<msg, calls>>
      /\ pc[c] = "scan" /\ pc'[c] \in {"recv", "done"}
      /\ \A e \in Clients : e # c => pc'[e] = pc[e]
      /\ settled' = settled \/ (settled' = settled \cup {msg[c].id} /\ pc'[c] = "done")
  <2> DEFINE m == rx[First(c)]
  <2>1. wire' = wire /\ UNCHANGED <<msg, calls>> /\ pc[c] = "scan" /\ Accept(c, m)
    BY DEF Take, switchVars
  <2> HIDE DEF m
  <2>2. \/ pc' = [pc EXCEPT ![c] = "recv"] /\ settled' = settled
        \/ pc' = [pc EXCEPT ![c] = "done"] /\ settled' = settled
        \/ pc' = [pc EXCEPT ![c] = "done"] /\ settled' = settled \cup {msg[c].id}
    BY <2>1 DEF Accept, Goto, End
  <2>3. QED
    BY <2>1, <2>2 DEF TypeOK, ClientsTyped
<1>4. Requests' /\ Ahead'
  <2>1. Requests /\ Ahead
    BY DEF AnswersInv
  <2>2. Requests'
    BY <1>3, <2>1 DEF Requests
  <2>3. ASSUME NEW i \in 1..Len(wire'), NEW k \in 1..Len(Queued'), Queued'[k].for = wire'[i].id
        PROVE  Queued'[k].type = "more" /\ Queued'[k].part < wire'[i].part
    <3>1. PICK j \in 1..Len(Queued) : Queued'[k] = Queued[j]
      BY <1>2
    <3>2. QED
      BY <1>3, <2>1, <2>3, <3>1 DEF Ahead
  <2>4. QED
    BY <2>2, <2>3 DEF Ahead
<1>5. InOrder'
  <2>1. SUFFICES ASSUME NEW k \in 1..Len(Queued'), NEW l \in 1..Len(Queued'), k < l,
                        Queued'[k].for = Queued'[l].for, Queued'[k].for # <<0, 0>>
                 PROVE  Queued'[k].type = "more" /\ Queued'[k].part < Queued'[l].part
    BY DEF InOrder
  <2>2. PICK a \in 1..Len(Queued), b \in 1..Len(Queued) :
           a < b /\ Queued'[k] = Queued[a] /\ Queued'[l] = Queued[b]
    BY <1>2, <2>1
  <2>3. QED
    BY <2>1, <2>2 DEF AnswersInv, InOrder
<1>6. ASSUME NEW e \in Clients
      PROVE  Fresh(e)' /\ Asked(e)' /\ Fitting(e)'
  <2>1. Fresh(e) /\ Asked(e) /\ Fitting(e) /\ (pc'[e] \in Unsent => pc[e] \in Unsent)
    BY <1>3 DEF AnswersInv, Unsent, Drawing
  <2>2. QED
    BY <1>2, <1>3, <2>1 DEF Fresh, Asked, Fitting, Asking, Answering
<1>7. ASSUME NEW id \in settled
      PROVE  Closed(id)'
  <2>1. Closed(id)
    BY <1>7 DEF AnswersInv
  <2>2. id = msg[id[1]].id => pc'[id[1]] \in {"done", "idle"}
    BY <1>3, <2>1 DEF Closed
  <2>3. QED
    BY <1>2, <1>3, <2>1, <2>2 DEF Closed, Answering
<1>8. ASSUME settled' # settled
      PROVE  Closed(msg[c].id)'
  <2>1. msg[c] # NoMsg /\ msg[c].id[1] = c /\ msg[c].id[2] \in 1..calls[c]
    BY <1>3, MessageIds DEF XidsInv
  <2>2. /\ \A j \in 1..Len(Queued) : j # First(c) => Queued[j].for # msg[c].id
        /\ \A i \in 1..Len(wire) : wire[i].id = msg[c].id => wire[i].op = "connect"
    <3>1. Fresh(c) /\ Asked(c) /\ Fitting(c)
      BY DEF AnswersInv
    <3>2. CASE msg[c].op \in Transactions
      BY <1>8, <3>2, LastTaken DEF Asking
    <3>3. CASE msg[c].op = "connect"
      BY <3>1, <3>3 DEF Asked, Fitting
    <3>4. CASE ~Sends(msg[c].op)
      BY <3>1, <3>4 DEF Fresh, Asking, Answering
    <3>5. msg[c].op \in Operations \ {"send"}
      BY <1>3 DEF XidsInv, CallsInv, CallInv, Labelled
    <3>6. QED
      BY <3>2, <3>3, <3>4, <3>5 DEF Operations, Transactions, Sends
  <2>3. QED
    BY <1>2, <1>3, <1>8, <2>1, <2>2 DEF Closed, Answering
<1>9. \A id \in settled' : Closed(id)'
  BY <1>3, <1>7, <1>8
<1>10. QED
  BY <1>4, <1>5, <1>6, <1>9 DEF AnswersInv

\* The invariant holds initially and is kept by every step.
LEMMA AnswersKept ==
    ASSUME NoRepeats
    PROVE  /\ Init => AnswersInv
           /\ TypeOK /\ TypeOK' /\ XidsInv /\ AnswersInv /\ [Next]_vars => AnswersInv'
<1>1. ASSUME Init
      PROVE  AnswersInv
  <2>1. /\ wire = <<>> /\ Len(wire) = 0 /\ Queued = <<>> /\ Len(Queued) = 0 /\ settled = {}
        /\ \A c \in Clients : pc[c] = "idle" /\ msg[c] = NoMsg
    BY <1>1, EmptySeq, ConcatProperties, ConcatEmptySeq DEF Init, Queued
  <2>2. Requests /\ InOrder /\ Ahead
    BY <2>1 DEF Requests, InOrder, Ahead
  <2>3. QED
    BY <2>1, <2>2 DEF AnswersInv, Fresh, Asked, Fitting, Asking, Answering
<1>2. ASSUME TypeOK, TypeOK', XidsInv, AnswersInv, [Next]_vars
      PROVE  AnswersInv'
  <2>1. OneDrawer /\ \A c \in Clients : ~Retry(c)
    BY DEF NoRepeats, Retry
  <2>2. ASSUME NEW c \in Clients, ClientOnly(c)
        PROVE  AnswersInv'
    BY <1>2, <2>1, <2>2, MoveAnswers, BeginAnswers
  <2>3. ASSUME NEW c \in Clients, SendAll(c) \/ Take(c)
        PROVE  AnswersInv'
    BY <1>2, <2>1, <2>3, SendAnswers, TakeAnswers
  <2>4. ASSUME NEW i \in DOMAIN wire, Answer(i) \/ AnswerMore(i) \/ Ignore(i)
        PROVE  AnswersInv'
    BY <1>2, <2>4, ReplyAnswers, IgnoreAnswers
  <2>5. ASSUME NEW type \in {"hello", "async"}, Unasked(type)
        PROVE  AnswersInv'
    BY <1>2, <2>5, UnaskedAnswers
  <2>6. CASE Deliver
    <3>1. /\ Queued' = Queued /\ wire' = wire /\ UNCHANGED <<calls, settled, msg>>
          /\ \A e \in Clients : pc'[e] = IF pc[e] = "wait" THEN "scan" ELSE pc[e]
      BY <1>2, <2>6, DeliverQueued DEF Deliver
    <3>2. QED
      BY <1>2, <3>1, Undisturbed DEF Unsent, Drawing
  <2>7. CASE ReaderEnds \/ CloseSocket \/ UNCHANGED vars
    <3>1. Queued' = Queued /\ wire' = wire /\ UNCHANGED <<calls, settled, msg, pc>>
      BY <2>7 DEF ReaderEnds, CloseSocket, vars, clientVars, switchVars, Queued
    <3>2. QED
      BY <1>2, <3>1, Undisturbed
  <2>8. QED
    BY <1>2, <2>2, <2>3, <2>4, <2>5, <2>6, <2>7, Steps
<1>3. QED
  BY <1>1, <1>2

\* The parts of the two proofs fit together.
LEMMA BothKept ==
    ASSUME NoRepeats
    PROVE  Spec => [](TypeOK /\ XidsInv /\ AnswersInv)
<1>1. /\ Init => XidsInv
      /\ TypeOK /\ TypeOK' /\ XidsInv /\ [Next]_vars => XidsInv'
  BY XidsKept DEF NoRepeats
<1>2. /\ Init => AnswersInv
      /\ TypeOK /\ TypeOK' /\ XidsInv /\ AnswersInv /\ [Next]_vars => AnswersInv'
  BY AnswersKept
<1>3. QED
  BY <1>1, <1>2, Typing, PTL DEF Spec

\* A transaction that returned normally has taken the last answer to its
\* request: the switch answers it no more, and nothing is left in the queue or
\* in the socket for a later recv_any() to trip over.
THEOREM NothingLeft ==
    ASSUME NoRepeats
    PROVE  Spec => []NothingLeftBehind
<1>1. TypeOK /\ AnswersInv => NothingLeftBehind
  <2>1. SUFFICES ASSUME TypeOK, AnswersInv, NEW j \in DOMAIN Queued
                 PROVE  Queued[j].for \notin settled
    BY DEF NothingLeftBehind, Queued
  <2>2. j \in 1..Len(Queued)
    BY <2>1, QueuedTyped
  <2>3. QED
    BY <2>1, <2>2 DEF AnswersInv, Closed, Answering
<1>2. QED
  BY <1>1, BothKept, PTL
-----------------------------------------------------------------------------
(* The parts of a multipart answer.  No client takes just any message.      *)

NoRecvAny == \A c \in Clients : "recv_any" \notin Ops[c]

Active == Unsent \cup {"recv", "scan", "wait"}

\* The part that is due next when n have come, or a later one whose
\* predecessor is on its way.
Due(id, part, n) ==
    /\ part > n
    /\ part > n + 1 => \E i \in 1..Len(Queued) : Queued[i].for = id /\ Queued[i].part + 1 = part

Coming(id, n) ==
    /\ \A j \in 1..Len(Queued) : Queued[j].for = id => Due(id, Queued[j].part, n)
    /\ \A i \in 1..Len(wire) : wire[i].id = id => Due(id, wire[i].part, n)

Whole(q) == \A i \in DOMAIN q : q[i].part = i /\ q[i].type = (IF i = Len(q) THEN "last" ELSE "more")

\* A multipart transaction has received the first parts, in order, and the
\* next ones are on their way in order.
Parts(c) ==
    msg[c].op \in Multi =>
        /\ pc[c] \in Unsent => got[c] = <<>>
        /\ pc[c] \in Active => /\ \A i \in DOMAIN got[c] : got[c][i].part = i /\ got[c][i].type = "more"
                               /\ Coming(msg[c].id, Len(got[c]))
        /\ pc[c] = "done" /\ result[c] = "reply" => Whole(got[c])

PartsInv ==
    /\ \A c \in Clients : Parts(c) /\ msg[c].op \in Ops[c] \cup {"connect", "none"}
    /\ \A j \in 1..Len(Queued) : Queued[j].type \in {"hello", "async"} => Queued[j].for = <<0, 0>>

\* Steps that leave a call and the order of its parts alone.
LEMMA PartsFollow ==
    ASSUME NEW c \in Clients, Parts(c),
           msg'[c].id = msg[c].id, msg'[c].op = msg[c].op,
           pc'[c] \in Unsent => pc[c] \in Unsent,
           pc'[c] \in Active => pc[c] \in Active /\ got'[c] = got[c],
           pc'[c] = "done" /\ result'[c] = "reply" =>
               pc[c] = "done" /\ result[c] = "reply" /\ got'[c] = got[c],
           \A k \in 1..Len(Queued') : Queued'[k].for = msg[c].id =>
               \/ \E j \in 1..Len(Queued) : Queued'[k] = Queued[j]
               \/ \E i \in 1..Len(wire) : wire[i].id = msg[c].id /\ wire[i].part = Queued'[k].part,
           \A j \in 1..Len(Queued) : Queued[j].for = msg[c].id =>
               \E k \in 1..Len(Queued') : Queued'[k] = Queued[j],
           \A k \in 1..Len(wire') : wire'[k].id = msg[c].id =>
               \E i \in 1..Len(wire) :
                   /\ wire[i].id = msg[c].id /\ wire[i].part \in Nat
                   /\ \/ wire'[k].part = wire[i].part
                      \/ /\ wire'[k].part = wire[i].part + 1
                         /\ \E l \in 1..Len(Queued') :
                               Queued'[l].for = msg[c].id /\ Queued'[l].part = wire[i].part,
           Len(got[c]) \in Nat
    PROVE  Parts(c)'
<1> DEFINE id == msg[c].id
           n == Len(got[c])
<1>1. SUFFICES ASSUME msg[c].op \in Multi
               PROVE  /\ pc'[c] \in Unsent => got'[c] = <<>>
                      /\ pc'[c] \in Active =>
                            /\ \A i \in DOMAIN got'[c] : got'[c][i].part = i /\ got'[c][i].type = "more"
                            /\ Coming(msg[c].id, Len(got[c]))'
                      /\ pc'[c] = "done" /\ result'[c] = "reply" => Whole(got'[c])
  BY DEF Parts, Multi, Whole
<1>2. pc'[c] \in Unsent => got'[c] = <<>>
  BY <1>1 DEF Parts, Active
<1>3. pc'[c] = "done" /\ result'[c] = "reply" => Whole(got'[c])
  BY <1>1 DEF Parts
<1>4. pc'[c] \in Active => \A i \in DOMAIN got'[c] : got'[c][i].part = i /\ got'[c][i].type = "more"
  BY <1>1 DEF Parts
<1>5. ASSUME pc'[c] \in Active
      PROVE  Coming(msg[c].id, Len(got[c]))'
  <2>1. Coming(id, n) /\ got'[c] = got[c]
    BY <1>1, <1>5 DEF Parts
  <2> HIDE DEF n, id
  <2>2. \A part : Due(id, part, n) =>
           part > n /\ (part > n + 1 =>
              \E k \in 1..Len(Queued') : Queued'[k].for = id /\ Queued'[k].part + 1 = part)
    BY DEF Due, id
  <2>3. ASSUME NEW k \in 1..Len(Queued'), Queued'[k].for = id
        PROVE  Due(id, Queued'[k].part, n)
    <3>1. \/ \E j \in 1..Len(Queued) : Queued'[k] = Queued[j]
          \/ \E i \in 1..Len(wire) : wire[i].id = id /\ wire[i].part = Queued'[k].part
      BY <2>3 DEF id
    <3>2. QED
      BY <2>1, <2>3, <3>1 DEF Coming
  <2>4. ASSUME NEW k \in 1..Len(wire'), wire'[k].id = id
        PROVE  /\ wire'[k].part > n
               /\ wire'[k].part > n + 1 =>
                    \E l \in 1..Len(Queued') : Queued'[l].for = id /\ Queued'[l].part + 1 = wire'[k].part
    <3>1. PICK i \in 1..Len(wire) :
             /\ wire[i].id = id /\ wire[i].part \in Nat
             /\ \/ wire'[k].part = wire[i].part
                \/ /\ wire'[k].part = wire[i].part + 1
                   /\ \E l \in 1..Len(Queued') :
                         Queued'[l].for = id /\ Queued'[l].part = wire[i].part
      BY <2>4 DEF id
    <3>2. Due(id, wire[i].part, n)
      BY <2>1, <3>1 DEF Coming
    <3>3. CASE wire'[k].part = wire[i].part
      BY <2>2, <3>2, <3>3
    <3>4. CASE wire'[k].part # wire[i].part
      <4>1. wire[i].part > n /\ wire'[k].part = wire[i].part + 1
        BY <2>2, <3>1, <3>2, <3>4
      <4>2. n \in Nat
        BY DEF n
      <4>3. wire'[k].part > n
        BY <3>1, <4>1, <4>2
      <4>4. QED
        BY <3>1, <3>4, <4>1, <4>3
    <3>5. QED
      BY <3>3, <3>4
  <2>5. QED
    BY <2>1, <2>2, <2>3, <2>4 DEF Coming, Due, id, n
<1>6. QED
  BY <1>2, <1>3, <1>4, <1>5

\* Steps that change neither the requests nor the messages on their way.
LEMMA StillParts ==
    ASSUME TypeOK, NEW c \in Clients, Parts(c), wire' = wire, Queued' = Queued,
           msg'[c].id = msg[c].id, msg'[c].op = msg[c].op,
           pc'[c] \in Unsent => pc[c] \in Unsent,
           pc'[c] \in Active => pc[c] \in Active /\ got'[c] = got[c],
           pc'[c] = "done" /\ result'[c] = "reply" =>
               pc[c] = "done" /\ result[c] = "reply" /\ got'[c] = got[c]
    PROVE  Parts(c)'
<1>1. /\ Len(got[c]) \in Nat
      /\ \A i \in 1..Len(wire) : wire[i].part \in Nat
  BY CallTyped, LenProperties, WireTyped
<1>2. /\ \A k \in 1..Len(Queued') : \E j \in 1..Len(Queued) : Queued'[k] = Queued[j]
      /\ \A j \in 1..Len(Queued) : \E k \in 1..Len(Queued') : Queued'[k] = Queued[j]
  OBVIOUS
<1>3. \A k \in 1..Len(wire') : wire'[k].id = msg[c].id =>
         \E i \in 1..Len(wire) :
             wire[i].id = msg[c].id /\ wire[i].part \in Nat /\ wire'[k].part = wire[i].part
  BY <1>1
<1>4. QED
  BY <1>1, <1>2, <1>3, PartsFollow

\* A client that goes on with its call.
LEMMA MoveParts ==
    ASSUME TypeOK, NEW c \in Clients, ClientOnly(c), ~Retry(c),
           ~\E op \in Operations : Begin(c, op), NEW e \in Clients, Parts(e)
    PROVE  Parts(e)'
<1>1. wire' = wire /\ Queued' = Queued
  BY ClientOnlyQueued
<1>2. CASE e # c
  <2>1. SameCall(e)
    BY <1>2, ClientOnlyOthers
  <2>2. QED
    BY <1>1, <2>1, StillParts DEF SameCall
<1>3. CASE e = c
  <2>1. msg'[c].id = msg[c].id /\ msg'[c].op = msg[c].op
    <3>1. CASE ReadXid(c)
      <4>1. msg' = [msg EXCEPT ![c].xid = next_xid] /\ msg[c] \in Call
        BY <3>1, CallTyped DEF ReadXid
      <4>2. QED
        BY <4>1 DEF TypeOK, ClientsTyped, Call
    <3>2. CASE ~ReadXid(c)
      BY <3>2 DEF ClientOnly, SendRaises, Expire, LoadXid, StoreXid, LockTx, EnterRecv, Abandon,
                  GiveUp, Wait, Leave
    <3>3. QED
      BY <3>1, <3>2
  <2>2. /\ pc'[c] \in Unsent => pc[c] \in Unsent
        /\ pc'[c] \in Active => pc[c] \in Active /\ got'[c] = got[c]
    BY DEF ClientOnly, SendRaises, Expire, LoadXid, StoreXid, LockTx, EnterRecv, Abandon, GiveUp,
           Wait, ReadXid, Leave, Goto, End, Active, Unsent, Drawing, TypeOK, ClientsTyped
  <2>3. pc'[c] = "done" => result'[c] # "reply"
    BY DEF ClientOnly, SendRaises, Expire, LoadXid, StoreXid, LockTx, EnterRecv, Abandon, GiveUp,
           Wait, ReadXid, Leave, Goto, End, TypeOK, ClientsTyped
  <2>4. QED
    BY <1>1, <1>3, <2>1, <2>2, <2>3, StillParts
<1>4. QED
  BY <1>2, <1>3

\* A client that begins a call.
LEMMA BeginParts ==
    ASSUME TypeOK, XidsInv, NEW c \in Clients, NEW op \in Operations, Begin(c, op),
           NEW e \in Clients, Parts(e)
    PROVE  Parts(e)'
<1>1. wire' = wire /\ Queued' = Queued /\ ClientOnly(c)
  BY ClientOnlyQueued DEF ClientOnly
<1>2. CASE e # c
  <2>1. SameCall(e)
    BY <1>1, <1>2, ClientOnlyOthers
  <2>2. QED
    BY <1>1, <2>1, StillParts DEF SameCall
<1>3. CASE e = c
  <2> DEFINE new == <<c, calls[c] + 1>>
             m == [op |-> op, id |-> new,
                   xid |-> IF c \in OwnXids /\ Sends(op) THEN 100 * c + calls[c] + 1 ELSE 0]
  <2>1. /\ msg'[c] = m /\ got'[c] = <<>>
        /\ pc'[c] = "done" => result'[c] = "assertion"
    BY DEF Begin, Goto, End, TypeOK, ClientsTyped
  <2>2. m.id = new
    OBVIOUS
  <2> HIDE DEF m, new
  <2>3. ~Asking(new) /\ ~Answering(new)
    BY NewIds DEF XidsInv, new
  <2>4. DOMAIN got'[c] = {}
    BY <2>1
  <2>5. Coming(msg[c].id, Len(got[c]))'
    BY <1>1, <2>1, <2>2, <2>3 DEF Coming, Asking, Answering
  <2>6. QED
    BY <1>3, <2>1, <2>4, <2>5 DEF Parts, Whole
<1>4. QED
  BY <1>2, <1>3

\* A client that sends its message.
LEMMA SendParts ==
    ASSUME TypeOK, TypeOK', XidsInv, AnswersInv, NEW c \in Clients, SendAll(c),
           NEW e \in Clients, Parts(e)
    PROVE  Parts(e)'
<1> DEFINE q == [op |-> msg[c].op, xid |-> msg[c].xid, id |-> msg[c].id, part |-> 1]
           n == Len(wire) + 1
<1>1. /\ Len(wire') = n /\ wire'[n] = q
      /\ \A i \in 1..Len(wire) : wire'[i] = wire[i]
      /\ Queued' = Queued /\ msg' = msg
  BY SendWire
<1>2. q.part = 1 /\ q.id = msg[c].id
  OBVIOUS
<1> HIDE DEF q
<1>3. \A k \in 1..Len(wire') : k \in 1..Len(wire) \/ k = n
  BY <1>1, WireTyped
<1>4. /\ Len(got[e]) \in Nat
      /\ \A i \in 1..Len(wire) : wire[i].part \in Nat
  BY CallTyped, LenProperties, WireTyped
<1>5. pc[c] = "sendall" /\ pc[c] \in Unsent /\ msg[c] # NoMsg
  BY MessageIds DEF SendAll, Unsent, XidsInv
<1> HIDE DEF n
<1>6. CASE e # c
  <2>1. SameCall(e) /\ msg[e].id # msg[c].id
    BY <1>5, <1>6, ClientOnlyOthers, MessageIds DEF XidsInv
  <2>2. /\ \A k \in 1..Len(Queued') : \E j \in 1..Len(Queued) : Queued'[k] = Queued[j]
        /\ \A j \in 1..Len(Queued) : \E k \in 1..Len(Queued') : Queued'[k] = Queued[j]
    BY <1>1
  <2>3. \A k \in 1..Len(wire') : wire'[k].id = msg[e].id =>
           \E i \in 1..Len(wire) :
               wire[i].id = msg[e].id /\ wire[i].part \in Nat /\ wire'[k].part = wire[i].part
    BY <1>1, <1>2, <1>3, <1>4, <2>1
  <2>4. QED
    BY <1>4, <2>1, <2>2, <2>3, PartsFollow DEF SameCall
<1>7. CASE e = c
  <2>1. ~Asking(msg[c].id) /\ ~Answering(msg[c].id)
    BY <1>5 DEF AnswersInv, Fresh
  <2>2. pc'[c] \in {"recv", "done"} /\ got'[c] = got[c]
    BY DEF SendAll, Goto, End, TypeOK, ClientsTyped
  <2>3. SUFFICES ASSUME msg[c].op \in Multi
                 PROVE  Parts(c)'
    BY <1>1, <1>7 DEF Parts, Multi
  <2>4. pc'[c] = "recv"
    BY <2>3 DEF SendAll, Goto, TypeOK, ClientsTyped, Multi
  <2>5. got[c] = <<>> /\ Len(got[c]) = 0 /\ DOMAIN got[c] = {}
    BY <1>5, <1>7, <2>3 DEF Parts
  <2>6. Coming(msg[c].id, Len(got[c]))'
    BY <1>1, <1>2, <1>3, <2>1, <2>2, <2>5 DEF Coming, Due, Asking, Answering
  <2>7. QED
    BY <2>2, <2>4, <2>5, <2>6 DEF Parts, Unsent, Drawing
<1>8. QED
  BY <1>6, <1>7

\* The switch drops a request or sends an answer.
LEMMA ReplyParts ==
    ASSUME TypeOK, TypeOK', AnswersInv, NEW i \in DOMAIN wire,
           Answer(i) \/ AnswerMore(i) \/ Ignore(i), NEW e \in Clients, Parts(e)
    PROVE  Parts(e)'
<1>1. \A k \in 1..Len(wire') : \E j \in 1..Len(wire) :
         /\ wire'[k].id = wire[j].id
         /\ j # i => wire'[k].part = wire[j].part
         /\ j = i => AnswerMore(i) /\ wire'[k].part = wire[j].part + 1
  BY SwitchRequests DEF AnswersInv
<1>2. /\ Len(got[e]) \in Nat /\ i \in 1..Len(wire)
      /\ \A j \in 1..Len(wire) : wire[j].part \in Nat
  BY CallTyped, LenProperties, WireTyped
<1>3. UNCHANGED <<pc, msg, got, result>>
  BY DEF Answer, AnswerMore, Ignore, clientVars
<1>4. /\ \A k \in 1..Len(Queued') :
            \/ \E j \in 1..Len(Queued) : Queued'[k] = Queued[j]
            \/ Queued'[k].for = wire[i].id /\ wire[i].part = Queued'[k].part
      /\ \A j \in 1..Len(Queued) : \E k \in 1..Len(Queued') : Queued'[k] = Queued[j]
      /\ AnswerMore(i) => \E l \in 1..Len(Queued') :
            Queued'[l].for = wire[i].id /\ Queued'[l].part = wire[i].part
  <2>1. CASE Ignore(i)
    <3>1. Queued' = Queued
      BY <2>1 DEF Ignore, Queued
    <3>2. Len(wire') = Len(wire) - 1 /\ (AnswerMore(i) => Len(wire') = Len(wire)) /\ Len(wire) \in Nat
      BY <2>1, SwitchWire, WireTyped
    <3>3. QED
      BY <3>1, <3>2
  <2>2. CASE Answer(i) \/ AnswerMore(i)
    <3>1. PICK m \in Message :
             Queued' = Append(Queued, m) /\ m.for = wire[i].id /\ m.part = wire[i].part
      BY <2>2, AnswerQueued
    <3> DEFINE n == Len(Queued) + 1
    <3>2. /\ Len(Queued') = n /\ Queued'[n] = m
          /\ \A j \in 1..Len(Queued) : Queued'[j] = Queued[j]
      BY <3>1, QueueAfter
    <3>3. /\ \A k \in 1..Len(Queued') : k \in 1..Len(Queued) \/ k = n
          /\ \A k \in 1..Len(Queued) : k \in 1..Len(Queued')
          /\ n \in 1..Len(Queued')
      BY <3>2, QueuedTyped
    <3> HIDE DEF n
    <3>4. QED
      BY <3>1, <3>2, <3>3
  <2>3. QED
    BY <2>1, <2>2
<1>5. \A k \in 1..Len(Queued') : Queued'[k].for = msg[e].id =>
         \/ \E j \in 1..Len(Queued) : Queued'[k] = Queued[j]
         \/ \E j \in 1..Len(wire) : wire[j].id = msg[e].id /\ wire[j].part = Queued'[k].part
  BY <1>2, <1>4
<1>6. \A k \in 1..Len(wire') : wire'[k].id = msg[e].id =>
         \E j \in 1..Len(wire) :
             /\ wire[j].id = msg[e].id /\ wire[j].part \in Nat
             /\ \/ wire'[k].part = wire[j].part
                \/ /\ wire'[k].part = wire[j].part + 1
                   /\ \E l \in 1..Len(Queued') :
                         Queued'[l].for = msg[e].id /\ Queued'[l].part = wire[j].part
  <2> TAKE k \in 1..Len(wire')
  <2> HAVE wire'[k].id = msg[e].id
  <2>1. PICK j \in 1..Len(wire) :
           /\ wire'[k].id = wire[j].id
           /\ j # i => wire'[k].part = wire[j].part
           /\ j = i => AnswerMore(i) /\ wire'[k].part = wire[j].part + 1
    BY <1>1
  <2>2. CASE j # i
    BY <1>2, <2>1, <2>2
  <2>3. CASE j = i
    BY <1>2, <1>4, <2>1, <2>3
  <2>4. QED
    BY <2>2, <2>3
<1>7. QED
  BY <1>2, <1>3, <1>4, <1>5, <1>6, PartsFollow

\* The switch sends a message of its own.
LEMMA UnaskedParts ==
    ASSUME TypeOK, TypeOK', XidsInv, NEW type \in {"hello", "async"}, Unasked(type),
           NEW e \in Clients, Parts(e)
    PROVE  Parts(e)'
<1>1. PICK m \in Message : Queued' = Append(Queued, m) /\ m.for = <<0, 0>>
  BY UnaskedQueued
<1> DEFINE n == Len(Queued) + 1
<1>2. /\ Len(Queued') = n /\ Queued'[n] = m
      /\ \A j \in 1..Len(Queued) : Queued'[j] = Queued[j]
  BY <1>1, QueueAfter
<1>3. /\ \A k \in 1..Len(Queued') : k \in 1..Len(Queued) \/ k = n
      /\ \A k \in 1..Len(Queued) : k \in 1..Len(Queued')
  BY <1>2, QueuedTyped
<1> HIDE DEF n
<1>4. wire' = wire /\ UNCHANGED <<pc, msg, got, result>>
  BY DEF Unasked, clientVars
<1>5. CASE msg[e] = NoMsg
  BY <1>4, <1>5, MessageIds DEF Parts, Multi, XidsInv
<1>6. CASE msg[e] # NoMsg
  <2>1. msg[e].id # <<0, 0>>
    BY <1>6, MessageIds DEF XidsInv
  <2>2. /\ \A k \in 1..Len(Queued') : Queued'[k].for = msg[e].id =>
              \E j \in 1..Len(Queued) : Queued'[k] = Queued[j]
        /\ \A j \in 1..Len(Queued) : \E k \in 1..Len(Queued') : Queued'[k] = Queued[j]
    BY <1>1, <1>2, <1>3, <2>1
  <2>3. Len(got[e]) \in Nat /\ \A i \in 1..Len(wire) : wire[i].part \in Nat
    BY CallTyped, LenProperties, WireTyped
  <2>4. \A k \in 1..Len(wire') : wire'[k].id = msg[e].id =>
           \E i \in 1..Len(wire) :
               wire[i].id = msg[e].id /\ wire[i].part \in Nat /\ wire'[k].part = wire[i].part
    BY <1>4, <2>3
  <2>5. QED
    BY <1>4, <2>2, <2>3, <2>4, PartsFollow
<1>7. QED
  BY <1>5, <1>6

\* A client takes no part of an answer to another's request.
LEMMA TakeElsewhere ==
    ASSUME TypeOK, OneDrawer, NoRecvAny, XidsInv, PartsInv, NEW c \in Clients, Take(c),
           NEW e \in Clients, e # c, msg[e].op \in Multi
    PROVE  Queued[First(c)].for # msg[e].id
<1>1. /\ First(c) \in Matches(c) /\ First(c) \in 1..Len(Queued) /\ Queued[First(c)] = rx[First(c)]
      /\ pc[c] = "scan"
  BY TakeQueued DEF Take
<1>2. msg[e] # NoMsg /\ msg[e].id # <<0, 0>>
  BY MessageIds DEF XidsInv, Multi
<1>3. msg[c].id # msg[e].id
  BY <1>2, MessageIds DEF XidsInv
<1>4. msg[c].op \in Operations \ {"send", "recv_any"}
  <2>1. msg[c].op \in Operations \ {"send"} /\ msg[c].op \in Ops[c] \cup {"connect", "none"}
    BY <1>1 DEF XidsInv, CallsInv, CallInv, Labelled, PartsInv
  <2>2. QED
    BY <2>1 DEF NoRecvAny
<1>5. CASE msg[c].op \in Transactions
  BY <1>1, <1>3, <1>5, TakeCall
<1>6. CASE msg[c].op \in {"connect", "recv_class"}
  <2>1. Queued[First(c)].type \in {"hello", "async"}
    BY <1>1, <1>6 DEF Matches, Wanted
  <2>2. QED
    BY <1>1, <1>2, <2>1 DEF PartsInv
<1>7. QED
  BY <1>4, <1>5, <1>6 DEF Operations, Transactions

\* What a multipart transaction takes is the part that is due.
LEMMA TakeDue ==
    ASSUME TypeOK, OneDrawer, XidsInv, AnswersInv, NEW c \in Clients, Parts(c), Take(c),
           msg[c].op \in Multi
    PROVE  /\ Queued[First(c)].part = Len(got[c]) + 1
           /\ \A j \in 1..Len(Queued) : Queued[j].for = msg[c].id /\ j # First(c) =>
                 Queued[j].part > Len(got[c]) + 1
           /\ \A i \in 1..Len(wire) : wire[i].id = msg[c].id => wire[i].part > Len(got[c]) + 1
<1> DEFINE f == First(c)
           n == Len(got[c])
           id == msg[c].id
<1>1. /\ f \in 1..Len(Queued) /\ Queued[f].for = id
      /\ \A j \in 1..Len(Queued) : Queued[j].for = id => f <= j
  BY TakeQueued, LastTaken DEF Transactions, Multi
<1>2. n \in Nat /\ Len(Queued) \in Nat /\ (\A j \in 1..Len(Queued) : Queued[j].part \in Nat)
      /\ \A i \in 1..Len(wire) : wire[i].part \in Nat
  BY CallTyped, LenProperties, QueuedTyped, WireTyped DEF Message
<1>3. pc[c] \in Active /\ id # <<0, 0>>
  BY MessageIds DEF Take, Active, XidsInv, Multi
<1>4. Coming(id, n)
  BY <1>3 DEF Parts
<1> HIDE DEF f, n, id
<1>5. ASSUME NEW j \in 1..Len(Queued), Queued[j].for = id, j # f
      PROVE  Queued[j].part > Queued[f].part
  <2>1. f < j
    BY <1>1, <1>2, <1>5
  <2>2. Queued[f].part < Queued[j].part
    BY <1>1, <1>3, <1>5, <2>1 DEF AnswersInv, InOrder
  <2>3. QED
    BY <1>1, <1>2, <2>2
<1>6. Queued[f].part = n + 1
  <2>1. Due(id, Queued[f].part, n)
    BY <1>1, <1>4 DEF Coming
  <2>2. Queued[f].part > n /\ Queued[f].part \in Nat
    BY <1>1, <1>2, <2>1 DEF Due
  <2>3. CASE Queued[f].part > n + 1
    <3>1. PICK j \in 1..Len(Queued) : Queued[j].for = id /\ Queued[j].part + 1 = Queued[f].part
      BY <2>1, <2>3 DEF Due
    <3>2. Queued[j].part \in Nat /\ Queued[j].part < Queued[f].part
      BY <1>2, <2>2, <3>1
    <3>3. j # f
      BY <3>2
    <3>4. Queued[j].part > Queued[f].part
      BY <1>5, <3>1, <3>3
    <3>5. QED
      BY <2>2, <3>2, <3>4
  <2>4. QED
    BY <1>2, <2>2, <2>3
<1>7. ASSUME NEW i \in 1..Len(wire), wire[i].id = id
      PROVE  wire[i].part > n + 1
  <2>1. Queued[f].part < wire[i].part
    BY <1>1, <1>7 DEF AnswersInv, Ahead
  <2>2. QED
    BY <1>2, <1>6, <2>1
<1>8. QED
  BY <1>5, <1>6, <1>7 DEF f, n, id

\* A client that takes a message.
LEMMA TakeParts ==
    ASSUME TypeOK, OneDrawer, NoRecvAny, XidsInv, AnswersInv, PartsInv, NEW c \in Clients, Take(c),
           NEW e \in Clients
    PROVE  Parts(e)'
<1> DEFINE f == First(c)
           id == msg[c].id
           n == Len(got[c])
<1>1. /\ f \in 1..Len(Queued) /\ Queued' = RemoveAt(Queued, f) /\ Queued[f] = rx[f]
      /\ wire' = wire /\ msg' = msg /\ Queued[f] \in Message
  BY TakeQueued, QueuedTyped DEF Take, switchVars
<1>2. /\ \A k \in 1..Len(Queued') :
            \E j \in 1..Len(Queued) : j # f /\ Queued'[k] = Queued[j]
      /\ \A j \in 1..Len(Queued) : j # f =>
            \E k \in 1..Len(Queued') : Queued'[k] = Queued[j]
  BY <1>1, QueueShrinks
<1>3. Parts(e) /\ Parts(c)
  BY DEF PartsInv
<1>4. n \in Nat /\ got[c] \in Seq(Message) /\ (\A i \in 1..Len(wire) : wire[i].part \in Nat)
      /\ DOMAIN got[c] = 1..n
  BY CallTyped, LenProperties, WireTyped
<1>5. CASE msg[e].op \notin Multi
  BY <1>1, <1>5 DEF Parts, Multi
<1>6. CASE msg[e].op \in Multi /\ e # c
  <2>1. Queued[f].for # msg[e].id
    BY <1>6, TakeElsewhere
  <2>2. SameCall(e)
    BY <1>6, ClientOnlyOthers
  <2>3. \A j \in 1..Len(Queued) : Queued[j].for = msg[e].id =>
           \E k \in 1..Len(Queued') : Queued'[k] = Queued[j]
    BY <1>2, <2>1
  <2>4. \A k \in 1..Len(wire') : wire'[k].id = msg[e].id =>
           \E i \in 1..Len(wire) :
               wire[i].id = msg[e].id /\ wire[i].part \in Nat /\ wire'[k].part = wire[i].part
    BY <1>1, <1>4
  <2>5. Len(got[e]) \in Nat /\ \A k \in 1..Len(Queued') : \E j \in 1..Len(Queued) : Queued'[k] = Queued[j]
    BY <1>2, CallTyped, LenProperties
  <2> HIDE DEF f
  <2>6. QED
    BY <1>3, <2>2, <2>3, <2>4, <2>5, PartsFollow DEF SameCall
<1>7. CASE msg[c].op \in Multi /\ e = c
  <2>1. /\ Queued[f].part = n + 1
        /\ \A j \in 1..Len(Queued) : Queued[j].for = id /\ j # f => Queued[j].part > n + 1
        /\ \A i \in 1..Len(wire) : wire[i].id = id => wire[i].part > n + 1
    BY <1>3, <1>7, TakeDue
  <2>2. /\ \A i \in 1..n : got[c][i].part = i /\ got[c][i].type = "more"
        /\ Coming(id, n)
    BY <1>3, <1>4, <1>7 DEF Parts, Active, Take
  <2> DEFINE m == rx[f]
  <2>3. \/ pc'[c] = "done" /\ result'[c] = "error"
        \/ pc'[c] = "recv" /\ got'[c] = Append(got[c], m) /\ m.type = "more"
        \/ pc'[c] = "done" /\ got'[c] = Append(got[c], m) /\ m.type = "last"
    <3>1. Accept(c, m)
      BY DEF Take
    <3> HIDE DEF m
    <3>2. QED
      BY <1>7, <3>1 DEF Accept, Goto, End, Multi, TypeOK, ClientsTyped
  <2>4. m \in Message /\ m.part = n + 1
    BY <1>1, <2>1
  <2> HIDE DEF m, f, id, n
  <2>5. ASSUME got'[c] = Append(got[c], m)
        PROVE  /\ Len(got'[c]) = n + 1 /\ DOMAIN got'[c] = 1..n + 1 /\ got'[c][n + 1] = m
               /\ \A i \in 1..n : got'[c][i] = got[c][i]
    BY <1>4, <2>4, <2>5, AppendProperties, LenProperties DEF n
  <2>6. ASSUME NEW part \in Nat, Due(id, part, n), part > n + 1
        PROVE  /\ part > n + 1
               /\ part > (n + 1) + 1 =>
                    \E k \in 1..Len(Queued') : Queued'[k].for = id /\ Queued'[k].part + 1 = part
    <3>1. SUFFICES ASSUME part > (n + 1) + 1
                   PROVE  \E k \in 1..Len(Queued') : Queued'[k].for = id /\ Queued'[k].part + 1 = part
      BY <2>6
    <3>2. PICK j \in 1..Len(Queued) : Queued[j].for = id /\ Queued[j].part + 1 = part
      BY <2>6 DEF Due
    <3>3. j # f
      BY <1>4, <2>1, <3>1, <3>2
    <3>4. QED
      BY <1>2, <3>2, <3>3
  <2>7. ASSUME Len(got'[c]) = n + 1
        PROVE  Coming(msg[c].id, Len(got[c]))'
    <3>1. ASSUME NEW k \in 1..Len(Queued'), Queued'[k].for = id
          PROVE  /\ Queued'[k].part > n + 1
                 /\ Queued'[k].part > (n + 1) + 1 =>
                      \E l \in 1..Len(Queued') : Queued'[l].for = id /\ Queued'[l].part + 1 = Queued'[k].part
      <4>1. PICK j \in 1..Len(Queued) : j # f /\ Queued'[k] = Queued[j]
        BY <1>2
      <4>2. Queued[j].part \in Nat /\ Queued[j].part > n + 1 /\ Due(id, Queued[j].part, n)
        BY <2>1, <2>2, <3>1, <4>1, QueuedTyped DEF Coming, Message
      <4>3. QED
        BY <2>6, <4>1, <4>2
    <3>2. ASSUME NEW i \in 1..Len(wire'), wire'[i].id = id
          PROVE  /\ wire'[i].part > n + 1
                 /\ wire'[i].part > (n + 1) + 1 =>
                      \E l \in 1..Len(Queued') : Queued'[l].for = id /\ Queued'[l].part + 1 = wire'[i].part
      <4>1. wire[i].part \in Nat /\ wire[i].part > n + 1 /\ Due(id, wire[i].part, n) /\ wire' = wire
        BY <1>1, <1>4, <2>1, <2>2, <3>2 DEF Coming
      <4>2. QED
        BY <2>6, <4>1
    <3>3. msg'[c].id = id
      BY <1>1 DEF id
    <3>4. QED
      BY <2>7, <3>1, <3>2, <3>3 DEF Coming, Due
  <2>8. CASE pc'[c] = "done" /\ result'[c] = "error"
    BY <1>7, <2>8 DEF Parts, Active, Unsent, Drawing
  <2>9. CASE pc'[c] = "recv" /\ got'[c] = Append(got[c], m) /\ m.type = "more"
    <3>1. \A i \in DOMAIN got'[c] : got'[c][i].part = i /\ got'[c][i].type = "more"
      BY <1>4, <2>2, <2>4, <2>5, <2>9
    <3>2. QED
      BY <1>7, <2>5, <2>7, <2>9, <3>1 DEF Parts, Unsent, Drawing
  <2>10. CASE pc'[c] = "done" /\ got'[c] = Append(got[c], m) /\ m.type = "last"
    <3>1. Whole(got'[c])
      BY <1>4, <2>2, <2>4, <2>5, <2>10 DEF Whole
    <3>2. QED
      BY <1>7, <2>10, <3>1 DEF Parts, Active, Unsent, Drawing, Whole
  <2>11. QED
    BY <2>3, <2>8, <2>9, <2>10
<1>8. QED
  BY <1>5, <1>6, <1>7

\* A client calls what it uses, and connect().
LEMMA KindsKept ==
    ASSUME TypeOK, [Next]_vars, NEW e \in Clients, msg[e].op \in Ops[e] \cup {"connect", "none"}
    PROVE  msg'[e].op \in Ops[e] \cup {"connect", "none"}
<1>1. ASSUME NEW op \in Operations, Begin(e, op)
      PROVE  msg'[e].op \in Ops[e] \cup {"connect", "none"}
  <2>1. msg'[e].op = op
    BY <1>1 DEF Begin, TypeOK, ClientsTyped
  <2>2. op = "connect" \/ op \in Ops[e]
    BY <1>1 DEF Begin
  <2>3. QED
    BY <2>1, <2>2
<1>2. CASE ReadXid(e)
  <2>1. msg' = [msg EXCEPT ![e].xid = next_xid] /\ msg[e] \in Call
    BY <1>2, CallTyped DEF ReadXid
  <2>2. QED
    BY <2>1 DEF TypeOK, ClientsTyped, Call
<1>3. CASE \/ SendRaises(e) \/ Expire(e) \/ LoadXid(e) \/ StoreXid(e) \/ LockTx(e) \/ EnterRecv(e)
           \/ Abandon(e) \/ GiveUp(e) \/ Wait(e) \/ Retry(e) \/ Leave(e) \/ SendAll(e) \/ Take(e)
  BY <1>3 DEF SendRaises, Expire, LoadXid, StoreXid, LockTx, EnterRecv, Abandon, GiveUp, Wait,
              Retry, Leave, SendAll, Take
<1>4. ASSUME NEW c \in Clients, c # e, ClientOnly(c) \/ SendAll(c) \/ Take(c)
      PROVE  msg'[e].op \in Ops[e] \cup {"connect", "none"}
  BY <1>4, ClientOnlyOthers DEF SameCall
<1>5. CASE Deliver \/ UNCHANGED clientVars
  BY <1>5 DEF Deliver, clientVars
<1>6. QED
  BY <1>1, <1>2, <1>3, <1>4, <1>5, Steps, SwitchOnly DEF ClientOnly

\* The messages that are no answers carry no request's id.
LEMMA UnaskedKept ==
    ASSUME TypeOK, TypeOK', [Next]_vars,
           \A j \in 1..Len(Queued) : Queued[j].type \in {"hello", "async"} => Queued[j].for = <<0, 0>>
    PROVE  \A j \in 1..Len(Queued') : Queued'[j].type \in {"hello", "async"} => Queued'[j].for = <<0, 0>>
<1>1. ASSUME NEW m \in Message, Queued' = Append(Queued, m),
             m.type \in {"hello", "async"} => m.for = <<0, 0>>
      PROVE  \A j \in 1..Len(Queued') : Queued'[j].type \in {"hello", "async"} => Queued'[j].for = <<0, 0>>
  <2>1. /\ Len(Queued') = Len(Queued) + 1 /\ Queued'[Len(Queued) + 1] = m
        /\ \A k \in 1..Len(Queued) : Queued'[k] = Queued[k]
    BY <1>1, QueueAfter
  <2>2. \A j \in 1..Len(Queued') : j \in 1..Len(Queued) \/ j = Len(Queued) + 1
    BY <2>1, QueuedTyped
  <2>3. QED
    BY <1>1, <2>1, <2>2
<1>2. ASSUME NEW c \in Clients, Take(c)
      PROVE  \A j \in 1..Len(Queued') : Queued'[j].type \in {"hello", "async"} => Queued'[j].for = <<0, 0>>
  <2>1. \A k \in 1..Len(Queued') : \E j \in 1..Len(Queued) : Queued'[k] = Queued[j]
    BY <1>2, TakeQueued, QueueShrinks
  <2>2. QED
    BY <2>1
<1>3. ASSUME NEW i \in DOMAIN wire, Answer(i) \/ AnswerMore(i)
      PROVE  \A j \in 1..Len(Queued') : Queued'[j].type \in {"hello", "async"} => Queued'[j].for = <<0, 0>>
  <2>1. PICK m \in Message : Queued' = Append(Queued, m) /\ m.type \in {"more", "last", "reply", "error"}
    BY <1>3, AnswerQueued
  <2>2. QED
    BY <1>1, <2>1
<1>4. ASSUME NEW type \in {"hello", "async"}, Unasked(type)
      PROVE  \A j \in 1..Len(Queued') : Queued'[j].type \in {"hello", "async"} => Queued'[j].for = <<0, 0>>
  BY <1>1, <1>4, UnaskedQueued
<1>5. QED
  BY <1>2, <1>3, <1>4, QueueSteps

\* The invariant holds initially and is kept by every step.
LEMMA PartsKept ==
    ASSUME NoRepeats, NoRecvAny
    PROVE  /\ Init => PartsInv
           /\ TypeOK /\ TypeOK' /\ XidsInv /\ AnswersInv /\ PartsInv /\ [Next]_vars => PartsInv'
<1>1. ASSUME Init
      PROVE  PartsInv
  <2>1. /\ Queued = <<>> /\ Len(Queued) = 0
        /\ \A c \in Clients : msg[c].op = "none"
    BY <1>1, EmptySeq, ConcatProperties, ConcatEmptySeq DEF Init, Queued, NoMsg
  <2>2. QED
    BY <2>1 DEF PartsInv, Parts, Multi
<1>2. ASSUME TypeOK, TypeOK', XidsInv, AnswersInv, PartsInv, [Next]_vars
      PROVE  PartsInv'
  <2>1. OneDrawer /\ \A c \in Clients : ~Retry(c)
    BY DEF NoRepeats, Retry
  <2>2. ASSUME NEW e \in Clients
        PROVE  Parts(e)'
    <3>1. Parts(e)
      BY <1>2 DEF PartsInv
    <3>2. ASSUME NEW c \in Clients, ClientOnly(c)
          PROVE  Parts(e)'
      BY <1>2, <2>1, <3>1, <3>2, MoveParts, BeginParts
    <3>3. ASSUME NEW c \in Clients, SendAll(c) \/ Take(c)
          PROVE  Parts(e)'
      BY <1>2, <2>1, <3>1, <3>3, SendParts, TakeParts
    <3>4. ASSUME NEW i \in DOMAIN wire, Answer(i) \/ AnswerMore(i) \/ Ignore(i)
          PROVE  Parts(e)'
      BY <1>2, <3>1, <3>4, ReplyParts
    <3>5. ASSUME NEW type \in {"hello", "async"}, Unasked(type)
          PROVE  Parts(e)'
      BY <1>2, <3>1, <3>5, UnaskedParts
    <3>6. CASE Deliver
      <4>1. /\ Queued' = Queued /\ wire' = wire /\ UNCHANGED <<msg, got, result>>
            /\ pc'[e] = IF pc[e] = "wait" THEN "scan" ELSE pc[e]
        BY <1>2, <3>6, DeliverQueued DEF Deliver
      <4>2. QED
        BY <1>2, <3>1, <4>1, StillParts DEF Active, Unsent, Drawing
    <3>7. CASE ReaderEnds \/ CloseSocket \/ UNCHANGED vars
      <4>1. Queued' = Queued /\ wire' = wire /\ UNCHANGED <<msg, got, result, pc>>
        BY <3>7 DEF ReaderEnds, CloseSocket, vars, clientVars, switchVars, Queued
      <4>2. QED
        BY <1>2, <3>1, <4>1, StillParts
    <3>8. QED
      BY <1>2, <3>2, <3>3, <3>4, <3>5, <3>6, <3>7, Steps
  <2>3. QED
    BY <1>2, <2>2, KindsKept, UnaskedKept DEF PartsInv
<1>3. QED
  BY <1>1, <1>2

\* A multipart transaction that returns normally has every part of the answer,
\* each once and in the order in which the switch sent them, whatever the other
\* threads take out of the queue meanwhile, as long as none of them takes
\* messages without looking at them.
THEOREM PartsWhole ==
    ASSUME NoRepeats, NoRecvAny
    PROVE  Spec => []MultipartWhole
<1>1. PartsInv => MultipartWhole
  BY DEF PartsInv, Parts, Multi, Whole, MultipartWhole, Returned
<1>2. /\ Init => PartsInv
      /\ TypeOK /\ TypeOK' /\ XidsInv /\ AnswersInv /\ PartsInv /\ [Next]_vars => PartsInv'
  BY PartsKept
<1>3. QED
  BY <1>1, <1>2, BothKept, PTL DEF Spec
=============================================================================

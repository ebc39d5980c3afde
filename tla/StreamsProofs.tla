---------------------------- MODULE StreamsProofs ----------------------------
(***************************************************************************)
(* The reader thread and the dissector take the stream apart as it was put *)
(* together, for every header length, every set of message sizes, every    *)
(* bound on what one recv() returns and every way to cut the stream into   *)
(* segments.                                                               *)
(***************************************************************************)
EXTENDS Streams, SequenceLemmas

Octet == [id : Nat \ {0}, at : Nat \ {0}]

\* The octets of every message of s after the first n, message by message.
Parts(s, n) == [i \in 1..(Len(s) - n) |-> Bytes(s[n + i], n + i)]

\* A message has as many octets as its length says, in order.
LEMMA BytesTyped ==
    ASSUME NEW m \in Message, NEW id \in Nat \ {0}
    PROVE  /\ m.size \in Nat \ {0}
           /\ Bytes(m, id) \in Seq(Octet) /\ Len(Bytes(m, id)) = m.size
           /\ \A k \in 1..m.size : Bytes(m, id)[k] = [id |-> id, at |-> k]
<1>1. m.size \in Nat \ {0}
  <2>1. m.size \in Sizes
    BY DEF Message
  <2>2. m.size \in Nat /\ m.size >= HeaderLen /\ HeaderLen \in Nat /\ HeaderLen # 0
    BY <2>1, ReaderAssumption
  <2>3. QED
    BY <2>2
<1>2. \A k \in 1..m.size : [id |-> id, at |-> k] \in Octet
  BY <1>1 DEF Octet
<1>3. Bytes(m, id) \in [1..m.size -> Octet]
  BY <1>2 DEF Bytes
<1>4. Bytes(m, id) \in Seq(Octet)
  BY <1>1, <1>3, SeqDef
<1>5. DOMAIN Bytes(m, id) = 1..m.size
  BY <1>3
<1>6. DOMAIN Bytes(m, id) = 1..Len(Bytes(m, id)) /\ Len(Bytes(m, id)) \in Nat
  BY <1>4, LenProperties
<1>7. Len(Bytes(m, id)) = m.size
  BY <1>1, <1>5, <1>6
<1>8. QED
  BY <1>1, <1>4, <1>7 DEF Bytes

\* The parts are sequences of octets.
LEMMA PartsTyped ==
    ASSUME NEW s \in Seq(Message), NEW n \in 0..Len(s)
    PROVE  /\ Len(s) \in Nat
           /\ Parts(s, n) \in Seq(Seq(Octet)) /\ Len(Parts(s, n)) = Len(s) - n
           /\ \A i \in 1..Len(s) - n : Parts(s, n)[i] = Bytes(s[n + i], n + i)
<1> DEFINE w == Parts(s, n)
<1>1. Len(s) \in Nat /\ Len(s) - n \in Nat
  BY LenProperties
<1>2. ASSUME NEW i \in 1..Len(s) - n
      PROVE  Bytes(s[n + i], n + i) \in Seq(Octet)
  <2>1. n + i \in 1..Len(s) /\ n + i \in Nat \ {0}
    BY <1>1
  <2>2. s[n + i] \in Message
    BY <2>1, ElementOfSeq
  <2>3. QED
    BY <2>1, <2>2, BytesTyped
<1>3. w \in [1..(Len(s) - n) -> Seq(Octet)]
  BY <1>2 DEF Parts
<1> HIDE DEF w
<1>4. w \in Seq(Seq(Octet))
  BY <1>1, <1>3, SeqDef
<1>5. DOMAIN w = 1..Len(w) /\ Len(w) \in Nat
  BY <1>4, LenProperties
<1>6. Len(w) = Len(s) - n
  <2>1. DOMAIN w = 1..(Len(s) - n)
    BY <1>3
  <2>2. QED
    BY <1>1, <1>5, <2>1
<1>7. QED
  BY <1>1, <1>4, <1>6 DEF Parts, w

\* What is pending is a sequence of octets.
LEMMA PendingTyped ==
    ASSUME sent \in Seq(Message), NEW n \in 0..Len(sent)
    PROVE  Pending(n) = FlattenSeq(Parts(sent, n)) /\ Pending(n) \in Seq(Octet)
<1>1. Parts(sent, n) \in Seq(Seq(Octet))
  BY PartsTyped
<1>2. Pending(n) = FlattenSeq(Parts(sent, n))
  BY DEF Pending, Parts
<1>3. QED
  BY <1>1, <1>2, FlattenTyped

\* What is pending begins with the next message.
LEMMA PendingFirst ==
    ASSUME sent \in Seq(Message), NEW n \in 0..Len(sent), n # Len(sent)
    PROVE  /\ n + 1 \in 1..Len(sent) /\ sent[n + 1] \in Message
           /\ Bytes(sent[n + 1], n + 1) \in Seq(Octet)
           /\ Pending(n) = Bytes(sent[n + 1], n + 1) \o Pending(n + 1)
<1> DEFINE p == Parts(sent, n)
           q == Parts(sent, n + 1)
<1>1. Len(sent) \in Nat /\ n + 1 \in 0..Len(sent) /\ n + 1 \in 1..Len(sent)
  BY LenProperties
<1>2. /\ p \in Seq(Seq(Octet)) /\ Len(p) = Len(sent) - n
      /\ \A i \in 1..Len(sent) - n : p[i] = Bytes(sent[n + i], n + i)
      /\ Pending(n) = FlattenSeq(p)
  BY PartsTyped, PendingTyped
<1>3. /\ q \in Seq(Seq(Octet)) /\ Len(q) = Len(sent) - (n + 1)
      /\ \A i \in 1..Len(sent) - (n + 1) : q[i] = Bytes(sent[(n + 1) + i], (n + 1) + i)
      /\ Pending(n + 1) = FlattenSeq(q)
  BY <1>1, PartsTyped, PendingTyped
<1> HIDE DEF p, q
<1>4. p # <<>>
  <2>1. Len(p) # 0
    BY <1>1, <1>2
  <2>2. QED
    BY <2>1
<1>5. Tail(p) \in Seq(Seq(Octet)) /\ Len(Tail(p)) = Len(p) - 1
      /\ \A i \in 1..Len(Tail(p)) : Tail(p)[i] = p[i + 1]
  <2>1. p \in Seq(Seq(Octet)) /\ p # <<>>
    BY <1>2, <1>4
  <2>2. QED
    BY <2>1, HeadTailProperties
<1>6. ASSUME NEW i \in 1..Len(q)
      PROVE  Tail(p)[i] = q[i]
  <2>1. i \in 1..Len(Tail(p)) /\ i + 1 \in 1..Len(sent) - n /\ n + (i + 1) = (n + 1) + i
    BY <1>1, <1>2, <1>3, <1>5
  <2>2. Tail(p)[i] = Bytes(sent[n + (i + 1)], n + (i + 1))
    BY <1>2, <1>5, <2>1
  <2>3. QED
    BY <1>3, <2>1, <2>2
<1>7. Tail(p) = q
  <2>1. Len(Tail(p)) = Len(q)
    BY <1>1, <1>2, <1>3, <1>5
  <2>2. \A i \in 1..Len(Tail(p)) : Tail(p)[i] = q[i]
    BY <1>6, <2>1
  <2>3. Tail(p) \in Seq(Seq(Octet)) /\ q \in Seq(Seq(Octet))
    BY <1>3, <1>5
  <2>4. QED
    BY <2>1, <2>2, <2>3, SeqEqual
<1>8. FlattenSeq(p) = p[1] \o FlattenSeq(Tail(p))
  <2>1. p \in Seq(Seq(Octet)) /\ p # <<>>
    BY <1>2, <1>4
  <2>2. QED
    BY <2>1, FlattenFirst
<1>9. p[1] = Bytes(sent[n + 1], n + 1)
  BY <1>1, <1>2
<1>10. sent[n + 1] \in Message
  BY <1>1, ElementOfSeq
<1>11. Bytes(sent[n + 1], n + 1) \in Seq(Octet)
  BY <1>1, <1>10, BytesTyped
<1>12. QED
  BY <1>1, <1>2, <1>3, <1>7, <1>8, <1>9, <1>10, <1>11

\* When all messages have come out, nothing is pending.
LEMMA PendingNothing ==
    ASSUME sent \in Seq(Message)
    PROVE  Len(sent) \in Nat /\ Pending(Len(sent)) = <<>>
<1>1. Len(sent) \in Nat /\ Len(sent) \in 0..Len(sent)
  BY LenProperties
<1>2. /\ Parts(sent, Len(sent)) \in Seq(Seq(Octet)) /\ Len(Parts(sent, Len(sent))) = Len(sent) - Len(sent)
      /\ Pending(Len(sent)) = FlattenSeq(Parts(sent, Len(sent)))
  BY <1>1, PartsTyped, PendingTyped
<1>3. Parts(sent, Len(sent)) = <<>>
  BY <1>1, <1>2, EmptySeq
<1>4. QED
  BY <1>1, <1>2, <1>3, FlattenTyped

\* A message that is sent comes behind what is pending.
LEMMA PendingSent ==
    ASSUME sent \in Seq(Message), NEW m \in Message, sent' = Append(sent, m),
           NEW n \in 0..Len(sent)
    PROVE  /\ sent' \in Seq(Message) /\ Len(sent') = Len(sent) + 1 /\ Len(sent) \in Nat
           /\ Bytes(m, Len(sent) + 1) \in Seq(Octet)
           /\ Pending(n)' = Pending(n) \o Bytes(m, Len(sent) + 1)
<1> DEFINE b == Bytes(m, Len(sent) + 1)
           p == Parts(sent, n)
           q == Parts(sent', n)
<1>1. Len(sent) \in Nat /\ Len(sent) + 1 \in Nat \ {0}
  BY LenProperties
<1>2. /\ sent' \in Seq(Message) /\ Len(sent') = Len(sent) + 1
      /\ \A i \in 1..Len(sent) : sent'[i] = sent[i]
      /\ sent'[Len(sent) + 1] = m
  BY AppendProperties
<1>3. b \in Seq(Octet)
  BY <1>1, BytesTyped
<1>4. /\ p \in Seq(Seq(Octet)) /\ Len(p) = Len(sent) - n
      /\ \A i \in 1..Len(sent) - n : p[i] = Bytes(sent[n + i], n + i)
      /\ Pending(n) = FlattenSeq(p)
  BY PartsTyped, PendingTyped
<1>6. /\ q \in Seq(Seq(Octet)) /\ Len(q) = Len(sent') - n
      /\ \A i \in 1..Len(sent') - n : q[i] = Bytes(sent'[n + i], n + i)
      /\ Pending(n)' = FlattenSeq(q)
  <2>1. n \in 0..Len(sent')
    BY <1>1, <1>2
  <2>2. /\ q \in Seq(Seq(Octet)) /\ Len(q) = Len(sent') - n
        /\ \A i \in 1..Len(sent') - n : q[i] = Bytes(sent'[n + i], n + i)
    BY <1>2, <2>1, PartsTyped
  <2>3. QED
    BY <2>2 DEF Parts, Pending
<1> HIDE DEF p, q, b
<1>7. /\ Append(p, b) \in Seq(Seq(Octet)) /\ Len(Append(p, b)) = Len(p) + 1
      /\ \A i \in 1..Len(p) : Append(p, b)[i] = p[i]
      /\ Append(p, b)[Len(p) + 1] = b
  <2>1. p \in Seq(Seq(Octet)) /\ b \in Seq(Octet)
    BY <1>3, <1>4
  <2>2. QED
    BY <2>1, AppendProperties
<1>8. ASSUME NEW i \in 1..Len(q)
      PROVE  q[i] = Append(p, b)[i]
  <2>1. CASE i <= Len(p)
    <3>1. n + i \in 1..Len(sent) /\ i \in 1..Len(sent) - n /\ i \in 1..Len(p) /\ i \in 1..Len(sent') - n
      BY <1>1, <1>2, <1>4, <1>6, <2>1
    <3>2. q[i] = Bytes(sent[n + i], n + i)
      BY <1>2, <1>6, <3>1
    <3>3. QED
      BY <1>4, <1>7, <3>1, <3>2
  <2>2. CASE ~(i <= Len(p))
    <3>1. i = Len(p) + 1 /\ n + i = Len(sent) + 1 /\ i \in 1..Len(sent') - n
      BY <1>1, <1>2, <1>4, <1>6, <2>2
    <3>2. q[i] = Bytes(m, Len(sent) + 1)
      BY <1>2, <1>6, <3>1
    <3>3. QED
      BY <1>7, <3>1, <3>2 DEF b
  <2>3. QED
    BY <2>1, <2>2
<1>9. q = Append(p, b)
  <2>1. Len(q) = Len(Append(p, b))
    BY <1>1, <1>2, <1>4, <1>6, <1>7
  <2>2. q \in Seq(Seq(Octet)) /\ Append(p, b) \in Seq(Seq(Octet))
    BY <1>6, <1>7
  <2>3. QED
    BY <1>8, <2>1, <2>2, SeqEqual
<1>10. FlattenSeq(Append(p, b)) = FlattenSeq(p) \o b
  <2>1. p \in Seq(Seq(Octet)) /\ b \in Seq(Octet)
    BY <1>3, <1>4
  <2>2. QED
    BY <2>1, FlattenAppend
<1>11. QED
  BY <1>1, <1>2, <1>3, <1>4, <1>6, <1>9, <1>10 DEF b
-----------------------------------------------------------------------------
(* One message comes out.                                                   *)

\* What is held begins with the first message that has not come out; once it
\* is whole, taking it off leaves what is pending after it.
LEMMA Take ==
    ASSUME sent \in Seq(Message), NEW n \in 0..Len(sent),
           NEW h \in Seq(Octet), NEW s \in Seq(Octet), NEW rest \in Seq(Octet)
    PROVE  (h \o s) \o rest = Pending(n) /\ 1 <= Len(h) =>
             /\ n < Len(sent) /\ sent[n + 1] \in Message /\ sent[n + 1].size \in Nat \ {0}
             /\ h[1].id = n + 1
             /\ sent[n + 1].size <= Len(h) =>
                  (SubSeq(h, sent[n + 1].size + 1, Len(h)) \o s) \o rest = Pending(n + 1)
<1>0. \A x, y, z, v, w \in Seq(Octet) : Cuts(x, y, z, v, w)
  BY CancelHeld
<1>9. /\ h \o s \in Seq(Octet) /\ Len(h \o s) = Len(h) + Len(s)
      /\ Len((h \o s) \o rest) = Len(h \o s) + Len(rest)
      /\ Len(h) \in Nat /\ Len(s) \in Nat /\ Len(rest) \in Nat
  <2>1. h \o s \in Seq(Octet) /\ Len(h \o s) = Len(h) + Len(s)
    BY ConcatProperties
  <2>2. Len((h \o s) \o rest) = Len(h \o s) + Len(rest)
    BY <2>1, ConcatProperties
  <2>3. QED
    BY <2>1, <2>2, LenProperties
<1>a. SUFFICES ASSUME (h \o s) \o rest = Pending(n), 1 <= Len(h)
             PROVE  /\ n < Len(sent) /\ sent[n + 1] \in Message /\ sent[n + 1].size \in Nat \ {0}
                    /\ h[1].id = n + 1
                    /\ sent[n + 1].size <= Len(h) =>
                         (SubSeq(h, sent[n + 1].size + 1, Len(h)) \o s) \o rest = Pending(n + 1)
  BY Zenon
<1>1. n # Len(sent)
  <2>1. Len(sent) \in Nat /\ Pending(Len(sent)) = <<>>
    BY PendingNothing
  <2>2. Len((h \o s) \o rest) # 0
    BY <1>9, <1>a
  <2>3. QED
    BY <1>a, <2>1, <2>2
<1> DEFINE b == Bytes(sent[n + 1], n + 1)
           u == Pending(n + 1)
<1>2. /\ n + 1 \in 1..Len(sent) /\ sent[n + 1] \in Message /\ b \in Seq(Octet)
      /\ Pending(n) = b \o u
  BY <1>1, PendingFirst
<1>3. Len(sent) \in Nat /\ n + 1 \in Nat \ {0} /\ n < Len(sent) /\ n + 1 \in 0..Len(sent)
  BY <1>2, LenProperties
<1>4. /\ sent[n + 1].size \in Nat \ {0} /\ Len(b) = sent[n + 1].size
      /\ \A k \in 1..sent[n + 1].size : b[k] = [id |-> n + 1, at |-> k]
  BY <1>2, <1>3, BytesTyped
<1>5. u \in Seq(Octet)
  BY <1>3, PendingTyped
<1> HIDE DEF b, u
<1>6. /\ h[1] = b[1]
      /\ Len(b) <= Len(h) => (SubSeq(h, Len(b) + 1, Len(h)) \o s) \o rest = u
  <2>1. b \in Seq(Octet) /\ u \in Seq(Octet) /\ 1 <= Len(b) /\ (h \o s) \o rest = b \o u
    BY <1>2, <1>4, <1>5, <1>a
  <2>2. Cuts(h, s, rest, b, u)
    BY <1>0, <2>1
  <2>3. QED
    BY <1>a, <2>1, <2>2 DEF Cuts
<1>7. h[1].id = n + 1
  <2>1. b[1] = [id |-> n + 1, at |-> 1]
    BY <1>4
  <2>2. QED
    BY <1>6, <2>1
<1>8. QED
  BY <1>2, <1>3, <1>4, <1>6, <1>7 DEF u
-----------------------------------------------------------------------------
(* The inductive invariant.                                                 *)

TypeStreams ==
    /\ observer \in {"thread", "capture"}
    /\ sent \in Seq(Message) /\ rx \in Seq(Message) /\ shown \in Seq(Message)
    /\ sock \in Seq(Octet)
    /\ read_buffer \in Seq(Octet) /\ buf \in Seq(Octet) /\ offset \in 0..Len(buf)
    /\ kept \in Seq(Octet) /\ tvb \in Seq(Octet) /\ at \in 0..Len(tvb)
    /\ d = "idle" => at = 0
    /\ d = "loop" => kept = <<>>

\* What is held, what is still to come and, after a reset, what was lost make
\* up the messages that have not come out.
Assembled ==
    \E rest \in Seq(Octet) :
        /\ (HeldBack \o sock) \o rest = Pending(Len(Out))
        /\ link # "reset" => rest = <<>>

StreamsInv ==
    /\ TypeStreams
    /\ Len(Out) <= Len(sent)
    /\ ~Over => Assembled
    /\ Over /\ link # "reset" => Len(Out) < Len(sent) /\ sent[Len(Out) + 1].fault # "none"

\* The types of what the invariant is about.
LEMMA StreamsTyped ==
    ASSUME TypeStreams, Len(Out) <= Len(sent)
    PROVE  /\ Len(sent) \in Nat /\ Len(Out) \in Nat /\ Len(Out) \in 0..Len(sent)
           /\ Out \in Seq(Message) /\ HeldBack \in Seq(Octet)
           /\ offset \in Nat /\ Len(buf) \in Nat /\ at \in Nat /\ Len(tvb) \in Nat
<1>1. Len(sent) \in Nat /\ Len(buf) \in Nat /\ Len(tvb) \in Nat
  BY LenProperties DEF TypeStreams
<1>2. Out \in Seq(Message)
  BY DEF TypeStreams, Out
<1>3. Len(Out) \in Nat
  BY <1>2, LenProperties
<1>4. SubSeq(buf, offset + 1, Len(buf)) \in Seq(Octet)
  BY Dropped DEF TypeStreams
<1>5. SubSeq(tvb, at + 1, Len(tvb)) \in Seq(Octet)
  BY Dropped DEF TypeStreams
<1>6. HeldBack \in Seq(Octet)
  BY <1>4, <1>5 DEF HeldBack, Held, Capture!Rest, TypeStreams
<1>7. QED
  BY <1>1, <1>2, <1>3, <1>6 DEF TypeStreams

\* What is held and what is to come stay together what they were.
LEMMA AssembledSame ==
    ASSUME Assembled, HeldBack' \o sock' = HeldBack \o sock,
           sent' = sent, Out' = Out, link' # "reset" => link # "reset"
    PROVE  Assembled'
<1>1. PICK rest \in Seq(Octet) : /\ (HeldBack \o sock) \o rest = Pending(Len(Out))
                                 /\ link # "reset" => rest = <<>>
  BY DEF Assembled
<1>2. Pending(Len(Out))' = Pending(Len(Out))
  BY DEF Pending
<1> DEFINE a == HeldBack \o sock
           b == Pending(Len(Out))
           c == (HeldBack \o sock)'
           e == Pending(Len(Out))'
<1>3. c = a /\ b = e /\ a \o rest = b
  BY <1>1, <1>2
<1>4. Assembled' <=> \E x \in Seq(Octet) : c \o x = e /\ (link' # "reset" => x = <<>>)
  BY DEF Assembled
<1> HIDE DEF a, b, c, e
<1>5. c \o rest = e
  BY <1>3
<1>6. QED
  BY <1>1, <1>4, <1>5

First == sent[Len(Out) + 1]

\* Octets that are held are those of the first message that has not come out.
LEMMA FirstHeld ==
    ASSUME StreamsInv, ~Over, 1 <= Len(HeldBack)
    PROVE  /\ Len(Out) < Len(sent) /\ First \in Message /\ First.size \in Nat \ {0}
           /\ HeldBack[1].id = Len(Out) + 1
<1>1. /\ sent \in Seq(Message) /\ Len(Out) \in 0..Len(sent)
      /\ HeldBack \in Seq(Octet) /\ sock \in Seq(Octet)
  BY StreamsTyped DEF StreamsInv, TypeStreams
<1>2. PICK rest \in Seq(Octet) : (HeldBack \o sock) \o rest = Pending(Len(Out))
  BY DEF StreamsInv, Assembled
<1> DEFINE h == HeldBack
           n == Len(Out)
           s == sock
<1> HIDE DEF h, n, s
<1>3. (h \o s) \o rest = Pending(n) /\ 1 <= Len(h) =>
             /\ n < Len(sent) /\ sent[n + 1] \in Message /\ sent[n + 1].size \in Nat \ {0}
             /\ h[1].id = n + 1
             /\ sent[n + 1].size <= Len(h) =>
                  (SubSeq(h, sent[n + 1].size + 1, Len(h)) \o s) \o rest = Pending(n + 1)
  <2>1. /\ sent \in Seq(Message) /\ n \in 0..Len(sent)
        /\ h \in Seq(Octet) /\ s \in Seq(Octet) /\ rest \in Seq(Octet)
    BY <1>1 DEF h, n, s
  <2>2. QED
    BY <2>1, Take
<1>4. QED
  BY <1>2, <1>3 DEF h, n, s, First

\* When it comes out and its octets are taken off, the rest is still whole.
LEMMA FirstOut ==
    ASSUME StreamsInv, ~Over, 1 <= Len(HeldBack), First.size <= Len(HeldBack),
           Out' = Append(Out, First),
           HeldBack' = SubSeq(HeldBack, First.size + 1, Len(HeldBack)),
           sent' = sent, sock' = sock, link' = link
    PROVE  Assembled' /\ Out' \in Seq(Message) /\ Len(Out)' = Len(Out) + 1 /\ Len(Out)' <= Len(sent)'
<1>1. /\ sent \in Seq(Message) /\ Len(Out) \in 0..Len(sent) /\ Out \in Seq(Message)
      /\ HeldBack \in Seq(Octet) /\ sock \in Seq(Octet)
      /\ Len(Out) \in Nat /\ Len(sent) \in Nat
  BY StreamsTyped DEF StreamsInv, TypeStreams
<1>2. PICK rest \in Seq(Octet) : /\ (HeldBack \o sock) \o rest = Pending(Len(Out))
                                 /\ link # "reset" => rest = <<>>
  BY DEF StreamsInv, Assembled
<1>3. Len(Out) < Len(sent) /\ First \in Message
  BY FirstHeld
<1>4. Out' \in Seq(Message) /\ Len(Out)' = Len(Out) + 1
  BY <1>1, <1>3, AppendProperties
<1>5. Len(Out)' <= Len(sent)'
  BY <1>1, <1>3, <1>4
<1> DEFINE h == HeldBack
           n == Len(Out)
           s == sock
<1>6. Assembled' <=> \E x \in Seq(Octet) :
                        /\ (SubSeq(h, First.size + 1, Len(h)) \o s) \o x = Pending(n + 1)
                        /\ link # "reset" => x = <<>>
  BY <1>4 DEF Assembled, Pending
<1> HIDE DEF h, n, s
<1>7. (h \o s) \o rest = Pending(n) /\ 1 <= Len(h) =>
             /\ n < Len(sent) /\ sent[n + 1] \in Message /\ sent[n + 1].size \in Nat \ {0}
             /\ h[1].id = n + 1
             /\ sent[n + 1].size <= Len(h) =>
                  (SubSeq(h, sent[n + 1].size + 1, Len(h)) \o s) \o rest = Pending(n + 1)
  <2>1. /\ sent \in Seq(Message) /\ n \in 0..Len(sent)
        /\ h \in Seq(Octet) /\ s \in Seq(Octet) /\ rest \in Seq(Octet)
    BY <1>1 DEF h, n, s
  <2>2. QED
    BY <2>1, Take
<1>8. (h \o s) \o rest = Pending(n) /\ 1 <= Len(h) /\ sent[n + 1].size <= Len(h)
      /\ First = sent[n + 1]
  BY <1>2 DEF h, n, s, First
<1>9. (SubSeq(h, First.size + 1, Len(h)) \o s) \o rest = Pending(n + 1)
  <2>1. (SubSeq(h, sent[n + 1].size + 1, Len(h)) \o s) \o rest = Pending(n + 1)
    BY <1>7, <1>8
  <2>2. QED
    BY <1>8, <2>1
<1>10. QED
  BY <1>2, <1>4, <1>5, <1>6, <1>9, Zenon
-----------------------------------------------------------------------------
(* The steps.                                                               *)

\* Another step of the thread, of stop() or of the peer that moves no octet.
LEMMA QuietStep ==
    ASSUME StreamsInv, UNCHANGED <<observer, sent, sock, parseVars, captureVars>>,
           link' # "reset" => link # "reset",
           r' = "parse" <=> r = "parse", r' = "dead" <=> r = "dead"
    PROVE  StreamsInv'
<1>1. Out' = Out /\ (Over' <=> Over) /\ HeldBack' = HeldBack
  BY DEF Out, Over, HeldBack, Held, Capture!Rest, parseVars, captureVars
<1>2. TypeStreams'
  BY DEF StreamsInv, TypeStreams, parseVars, captureVars
<1>3. ~Over' => Assembled'
  <2>1. ASSUME ~Over
        PROVE  Assembled'
    <3>1. Assembled /\ HeldBack' \o sock' = HeldBack \o sock
      BY <1>1, <2>1 DEF StreamsInv
    <3>2. QED
      BY <1>1, <3>1, AssembledSame
  <2>2. QED
    BY <1>1, <2>1
<1>4. QED
  BY <1>1, <1>2, <1>3 DEF StreamsInv

\* The switch sends a message.
LEMMA SendStep ==
    ASSUME StreamsInv, NEW m \in Message, SwitchSends(m), UNCHANGED <<observer, captureVars>>
    PROVE  StreamsInv'
<1> DEFINE b == Bytes(m, Len(sent) + 1)
           n == Len(Out)
<1>1. /\ sent \in Seq(Message) /\ Len(Out) \in 0..Len(sent) /\ Len(Out) \in Nat /\ Len(sent) \in Nat
      /\ HeldBack \in Seq(Octet) /\ sock \in Seq(Octet)
  BY StreamsTyped DEF StreamsInv, TypeStreams
<1>2. /\ sent' \in Seq(Message) /\ Len(sent') = Len(sent) + 1 /\ b \in Seq(Octet)
      /\ Pending(n)' = Pending(n) \o b
  <2>1. sent \in Seq(Message) /\ sent' = Append(sent, m) /\ n \in 0..Len(sent)
    BY <1>1 DEF SwitchSends
  <2>2. Out' = Out
    BY DEF SwitchSends, Out, parseVars, captureVars
  <2>3. /\ sent' \in Seq(Message) /\ Len(sent') = Len(sent) + 1 /\ b \in Seq(Octet)
        /\ \A k \in 0..Len(sent) : Pending(k)' = Pending(k) \o b
    BY <2>1, PendingSent
  <2>4. Pending(n)' = FlattenSeq([i \in 1..(Len(sent') - n) |-> Bytes(sent'[n + i], n + i)])
    BY <2>2 DEF Pending
  <2>5. QED
    BY <1>1, <2>2, <2>3
<1>3. /\ Out' = Out /\ (Over' <=> Over) /\ HeldBack' = HeldBack /\ link = "up" /\ link' = link
      /\ sock' = sock \o b
  BY DEF SwitchSends, Out, Over, HeldBack, Held, Capture!Rest, parseVars, captureVars
<1>4. sock' \in Seq(Octet)
  BY <1>1, <1>2, <1>3, ConcatProperties
<1>5. TypeStreams'
  BY <1>2, <1>4 DEF StreamsInv, TypeStreams, SwitchSends, parseVars, captureVars
<1>6. ASSUME ~Over
      PROVE  Assembled'
  <2>1. (HeldBack \o sock) \o <<>> = Pending(n)
    BY <1>3, <1>6 DEF StreamsInv, Assembled
  <2>2. HeldBack \o sock \in Seq(Octet)
    BY <1>1, ConcatProperties
  <2> DEFINE h == HeldBack
             s == sock
             p == Pending(n)
  <2> HIDE DEF h, s, p, b
  <2>3. h \in Seq(Octet) /\ s \in Seq(Octet) /\ b \in Seq(Octet) /\ h \o s \in Seq(Octet)
    BY <1>1, <1>2, <2>2 DEF h, s, p
  <2>4. h \o s = p
    <3>1. (h \o s) \o <<>> = p
      BY <2>1 DEF h, s, p
    <3>2. (h \o s) \o <<>> = h \o s
      BY <2>3, Nothing
    <3>3. QED
      BY <3>1, <3>2
  <2>5. (h \o (s \o b)) \o <<>> = p \o b
    <3>1. (h \o s) \o b = h \o (s \o b)
      <4>1. \A x, y, z \in Seq(Octet) : (x \o y) \o z = x \o (y \o z)
        BY Associative
      <4>2. QED
        BY <2>3, <4>1, Zenon
    <3>2. (h \o s) \o b \in Seq(Octet)
      BY <2>3, ConcatProperties
    <3>3. (h \o (s \o b)) \o <<>> = h \o (s \o b)
      BY <3>1, <3>2, Nothing
    <3>4. QED
      BY <2>4, <3>1, <3>3
  <2>6. (HeldBack' \o sock') \o <<>> = Pending(Len(Out))'
    BY <1>2, <1>3, <2>5 DEF h, s, p
  <2>7. <<>> \in Seq(Octet)
    BY EmptySeq
  <2>8. QED
    BY <2>6, <2>7 DEF Assembled
<1>7. ASSUME Over
      PROVE  Len(Out)' < Len(sent)' /\ sent'[Len(Out)' + 1].fault # "none"
  <2>1. Len(Out) < Len(sent) /\ sent[Len(Out) + 1].fault # "none"
    BY <1>3, <1>7 DEF StreamsInv
  <2>2. Len(Out) + 1 \in 1..Len(sent)
    BY <1>1, <2>1
  <2>3. sent'[Len(Out) + 1] = sent[Len(Out) + 1]
    <3>1. sent' = Append(sent, m)
      BY DEF SwitchSends
    <3>2. QED
      BY <1>1, <2>2, <3>1, AppendProperties
  <2>4. QED
    BY <1>1, <1>2, <1>3, <2>1, <2>3
<1>8. QED
  BY <1>1, <1>2, <1>3, <1>5, <1>6, <1>7 DEF StreamsInv

\* A reset takes away what has not been read.
LEMMA ResetStep ==
    ASSUME StreamsInv, SwitchResets, UNCHANGED <<observer, captureVars>>
    PROVE  StreamsInv'
<1>1. /\ Out' = Out /\ (Over' <=> Over) /\ HeldBack' = HeldBack /\ sent' = sent
      /\ sock' = <<>> /\ link' = "reset" /\ link # "reset"
  BY DEF SwitchResets, Out, Over, HeldBack, Held, Capture!Rest, parseVars, captureVars
<1>2. HeldBack \in Seq(Octet) /\ sock \in Seq(Octet) /\ <<>> \in Seq(Octet)
  BY StreamsTyped, EmptySeq DEF StreamsInv, TypeStreams
<1>3. TypeStreams'
  BY <1>1, <1>2 DEF StreamsInv, TypeStreams, SwitchResets, parseVars, captureVars
<1>4. ASSUME ~Over
      PROVE  Assembled'
  <2> DEFINE h == HeldBack
             p == Pending(Len(Out))
  <2>1. (h \o sock) \o <<>> = p
    BY <1>1, <1>4 DEF StreamsInv, Assembled
  <2>2. Pending(Len(Out))' = p
    BY <1>1 DEF Pending
  <2> HIDE DEF h, p
  <2>3. h \in Seq(Octet) /\ h \o sock \in Seq(Octet)
    BY <1>2, ConcatProperties DEF h
  <2>4. (h \o sock) \o <<>> = h \o sock /\ h \o <<>> = h
    BY <2>3, Nothing
  <2>5. (h \o <<>>) \o sock = p
    BY <2>1, <2>4
  <2>6. (HeldBack' \o sock') \o sock = Pending(Len(Out))'
    BY <1>1, <2>2, <2>5 DEF h
  <2>7. QED
    BY <1>1, <1>2, <2>6 DEF Assembled
<1>5. QED
  BY <1>1, <1>3, <1>4 DEF StreamsInv

\* recv() moves octets from the socket to what is held.
LEMMA RecvStep ==
    ASSUME StreamsInv, observer = "thread", Recv, UNCHANGED <<observer, captureVars>>
    PROVE  StreamsInv'
<1>1. /\ read_buffer \in Seq(Octet) /\ sock \in Seq(Octet) /\ Len(sock) \in Nat
      /\ HeldBack = read_buffer /\ ~Over
  BY LenProperties DEF StreamsInv, TypeStreams, HeldBack, Held, Over, Recv
<1>2. PICK n \in 0..Len(sock) : /\ buf' = read_buffer \o SubSeq(sock, 1, n)
                                /\ sock' = SubSeq(sock, n + 1, Len(sock))
  <2>1. PICK n \in (IF sock = <<>> THEN {0} ELSE 1..Len(sock)) :
            /\ buf' = read_buffer \o SubSeq(sock, 1, n)
            /\ sock' = SubSeq(sock, n + 1, Len(sock))
    BY DEF Recv
  <2>2. n \in 0..Len(sock)
    BY <1>1, <2>1
  <2>3. QED
    BY <2>1, <2>2
<1>3. /\ buf' \in Seq(Octet) /\ sock' \in Seq(Octet) /\ buf' \o sock' = read_buffer \o sock
  BY <1>1, <1>2, MoveAcross
<1>4. offset' = 0 /\ Len(buf') \in Nat /\ offset' \in 0..Len(buf')
  BY <1>3, LenProperties DEF Recv
<1>5. TypeStreams'
  BY <1>3, <1>4 DEF StreamsInv, TypeStreams, Recv, stopVars, captureVars
<1>6. HeldBack' = buf' /\ Out' = Out /\ ~Over' /\ sent' = sent /\ link' = link
  <2>1. SubSeq(buf', 0 + 1, Len(buf')) = buf'
    BY <1>3, Nothing
  <2>2. HeldBack' = SubSeq(buf', offset' + 1, Len(buf'))
    BY DEF HeldBack, Held, Recv
  <2>3. QED
    BY <1>4, <2>1, <2>2 DEF Out, Over, Recv, captureVars
<1>7. Assembled'
  <2>1. Assembled /\ HeldBack' \o sock' = HeldBack \o sock
    BY <1>1, <1>3, <1>6 DEF StreamsInv
  <2>2. QED
    BY <1>6, <2>1, AssembledSame
<1>8. QED
  BY <1>5, <1>6, <1>7 DEF StreamsInv

\* recv() raises only after a reset.
LEMMA RecvRaisesStep ==
    ASSUME StreamsInv, observer = "thread", RecvRaises, UNCHANGED <<observer, captureVars>>
    PROVE  StreamsInv'
<1>1. Out' = Out /\ Over' /\ link' = "reset" /\ sent' = sent
  BY DEF Out, Over, RecvRaises, peerVars, parseVars, captureVars
<1>2. TypeStreams'
  BY DEF StreamsInv, TypeStreams, RecvRaises, peerVars, parseVars, captureVars
<1>3. QED
  BY <1>1, <1>2 DEF StreamsInv

\* Where the thread has a header, the octets it holds begin with the first
\* message that has not come out.
LEMMA AtHeader ==
    ASSUME StreamsInv, observer = "thread", r = "parse", HasHeader
    PROVE  /\ ~Over /\ 1 <= Len(HeldBack) /\ Len(HeldBack) = Len(buf) - offset
           /\ HeldBack = SubSeq(buf, offset + 1, Len(buf))
           /\ Current = First /\ Len(Out) < Len(sent) /\ First \in Message /\ First.size \in Nat \ {0}
<1>1. /\ buf \in Seq(Octet) /\ offset \in 0..Len(buf) /\ Len(buf) \in Nat /\ offset \in Nat
  BY LenProperties DEF StreamsInv, TypeStreams
<1>2. ~Over /\ HeldBack = SubSeq(buf, offset + 1, Len(buf))
  BY DEF Over, HeldBack, Held
<1>3. /\ Len(HeldBack) = Len(buf) - offset
      /\ \A i \in 1..Len(buf) - offset : HeldBack[i] = buf[i + offset]
  BY <1>1, <1>2, Dropped
<1>4. 1 \in 1..Len(buf) - offset /\ 1 + offset = offset + 1
  BY <1>1, ReaderAssumption DEF HasHeader
<1>5. 1 <= Len(HeldBack) /\ HeldBack[1] = buf[offset + 1]
  BY <1>1, <1>3, <1>4
<1>6. /\ Len(Out) < Len(sent) /\ First \in Message /\ First.size \in Nat \ {0}
      /\ HeldBack[1].id = Len(Out) + 1
  BY <1>2, <1>5, FirstHeld
<1>7. QED
  BY <1>2, <1>3, <1>5, <1>6 DEF Current, First

\* A whole message goes to the RX queue.
LEMMA ParseStep ==
    ASSUME StreamsInv, observer = "thread", Parse, UNCHANGED <<observer, captureVars>>
    PROVE  /\ StreamsInv'
           /\ Len(Out) < Len(sent) /\ Out' = Append(Out, First) /\ sent' = sent
<1>1. /\ buf \in Seq(Octet) /\ offset \in 0..Len(buf) /\ Len(buf) \in Nat /\ offset \in Nat
  BY LenProperties DEF StreamsInv, TypeStreams
<1>2. r = "parse" /\ HasHeader /\ offset + Current.size <= Len(buf)
  BY DEF Parse, HasBody
<1>3. /\ ~Over /\ 1 <= Len(HeldBack) /\ Len(HeldBack) = Len(buf) - offset
      /\ HeldBack = SubSeq(buf, offset + 1, Len(buf))
      /\ Current = First /\ Len(Out) < Len(sent) /\ First \in Message /\ First.size \in Nat \ {0}
  BY <1>2, AtHeader
<1>4. offset + First.size \in 0..Len(buf) /\ First.size <= Len(HeldBack)
      /\ First.size \in 0..Len(buf) - offset
  BY <1>1, <1>2, <1>3
<1>5. /\ sent' = sent /\ sock' = sock /\ link' = link /\ ~Over'
      /\ Out' = Append(Out, First) /\ offset' = offset + First.size /\ buf' = buf
  BY <1>2, <1>3 DEF Parse, Out, Over, peerVars, captureVars
<1>6. HeldBack' = SubSeq(HeldBack, First.size + 1, Len(HeldBack))
  <2>1. HeldBack' = SubSeq(buf, (offset + First.size) + 1, Len(buf))
    BY <1>5 DEF HeldBack, Held, Parse
  <2>2. \A k \in 0..Len(buf) - offset :
          SubSeq(SubSeq(buf, offset + 1, Len(buf)), k + 1, Len(SubSeq(buf, offset + 1, Len(buf))))
            = SubSeq(buf, (offset + k) + 1, Len(buf))
    BY <1>1, DropTwice
  <2>3. QED
    BY <1>3, <1>4, <2>1, <2>2
<1>7. Assembled' /\ Out' \in Seq(Message) /\ Len(Out)' <= Len(sent)'
  BY <1>3, <1>4, <1>5, <1>6, FirstOut
<1>8. TypeStreams'
  <2>1. rx' \in Seq(Message)
    BY <1>7 DEF Out
  <2>2. QED
    BY <1>4, <1>5, <2>1 DEF StreamsInv, TypeStreams, Parse, peerVars, captureVars
<1>9. QED
  BY <1>3, <1>5, <1>7, <1>8 DEF StreamsInv

\* The parser raises only on a message that it rejects.
LEMMA ParseRaisesStep ==
    ASSUME StreamsInv, observer = "thread", ParseRaises, UNCHANGED <<observer, captureVars>>
    PROVE  StreamsInv'
<1>1. r = "parse" /\ HasHeader /\ Current.fault # "none"
  BY DEF ParseRaises
<1>2. Current = First /\ Len(Out) < Len(sent)
  BY <1>1, AtHeader
<1>3. Out' = Out /\ Over' /\ sent' = sent
  BY DEF Out, Over, ParseRaises, peerVars, parseVars, captureVars
<1>4. TypeStreams'
  BY DEF StreamsInv, TypeStreams, ParseRaises, peerVars, parseVars, captureVars
<1>5. QED
  BY <1>1, <1>2, <1>3, <1>4 DEF StreamsInv, First

\* The rest of the buffer is kept for the next read.
LEMMA KeepRestStep ==
    ASSUME StreamsInv, observer = "thread", KeepRest, UNCHANGED <<observer, captureVars>>
    PROVE  StreamsInv'
<1>1. ~Over /\ HeldBack = SubSeq(buf, offset + 1, Len(buf))
  BY DEF Over, HeldBack, Held, KeepRest
<1>2. HeldBack \in Seq(Octet) /\ <<>> \in Seq(Octet)
  BY StreamsTyped, EmptySeq DEF StreamsInv
<1>3. Out' = Out /\ ~Over' /\ HeldBack' = HeldBack /\ sent' = sent /\ link' = link /\ sock' = sock
  BY <1>1 DEF Out, Over, HeldBack, Held, KeepRest, peerVars, captureVars
<1>4. TypeStreams'
  <2>1. read_buffer' \in Seq(Octet) /\ buf' = <<>> /\ offset' \in 0..Len(buf')
    BY <1>1, <1>2 DEF KeepRest
  <2>2. QED
    BY <1>2, <2>1 DEF StreamsInv, TypeStreams, KeepRest, peerVars, captureVars
<1>5. Assembled'
  <2>1. Assembled /\ HeldBack' \o sock' = HeldBack \o sock
    BY <1>1, <1>3 DEF StreamsInv
  <2>2. QED
    BY <1>3, <2>1, AssembledSame
<1>6. QED
  BY <1>3, <1>4, <1>5 DEF StreamsInv

\* Wireshark joins a segment to what it keeps.
LEMMA SegmentStep ==
    ASSUME StreamsInv, observer = "capture", Capture!Segment, UNCHANGED <<observer, readerVars>>
    PROVE  StreamsInv'
<1>1. /\ kept \in Seq(Octet) /\ sock \in Seq(Octet) /\ Len(sock) \in Nat /\ at = 0 /\ <<>> \in Seq(Octet)
      /\ HeldBack = kept /\ ~Over
  BY LenProperties, EmptySeq DEF StreamsInv, TypeStreams, HeldBack, Over, Capture!Segment
<1>2. PICK n \in 1..Len(sock) :
        /\ sock' = SubSeq(sock, n + 1, Len(sock))
        /\ \/ kept' = kept \o SubSeq(sock, 1, n) /\ UNCHANGED <<d, goal, tvb>>
           \/ d' = "loop" /\ kept' = <<>> /\ tvb' = kept \o SubSeq(sock, 1, n)
  BY DEF Capture!Segment
<1> DEFINE j == kept \o SubSeq(sock, 1, n)
<1>3. j \in Seq(Octet) /\ sock' \in Seq(Octet) /\ j \o sock' = kept \o sock /\ Len(j) \in Nat
  <2>1. n \in 0..Len(sock) /\ kept \in Seq(Octet) /\ sock \in Seq(Octet)
    BY <1>1
  <2>2. /\ j \in Seq(Octet) /\ SubSeq(sock, n + 1, Len(sock)) \in Seq(Octet)
        /\ j \o SubSeq(sock, n + 1, Len(sock)) = kept \o sock
    <3>1. \A m \in 0..Len(sock) :
            /\ kept \o SubSeq(sock, 1, m) \in Seq(Octet) /\ SubSeq(sock, m + 1, Len(sock)) \in Seq(Octet)
            /\ (kept \o SubSeq(sock, 1, m)) \o SubSeq(sock, m + 1, Len(sock)) = kept \o sock
      BY <2>1, MoveAcross
    <3>2. QED
      BY <2>1, <3>1
  <2>3. Len(j) \in Nat
    BY <2>2, LenProperties
  <2>4. QED
    BY <1>2, <2>2, <2>3
<1>4. Out' = Out /\ ~Over' /\ sent' = sent /\ link' = link /\ at' = 0 /\ d = "idle"
  BY <1>1, <1>2 DEF Out, Over, Capture!Segment, readerVars, parseVars
<1>5. HeldBack' = j
  <2>1. CASE kept' = j /\ UNCHANGED <<d, goal, tvb>>
    BY <1>4, <2>1 DEF HeldBack
  <2>2. CASE d' = "loop" /\ tvb' = j
    <3>1. HeldBack' = SubSeq(j, 0 + 1, Len(j))
      BY <1>4, <2>2 DEF HeldBack, Capture!Rest
    <3>2. QED
      BY <1>3, <3>1, Nothing
  <2>3. QED
    BY <1>2, <2>1, <2>2
<1>6. TypeStreams'
  <2>1. kept' \in Seq(Octet) /\ tvb' \in Seq(Octet) /\ (d' = "loop" => kept' = <<>>)
    BY <1>1, <1>2, <1>3, <1>4 DEF StreamsInv, TypeStreams
  <2>2. at' \in 0..Len(tvb')
    BY <1>4, <2>1, LenProperties
  <2>3. QED
    BY <1>3, <1>4, <2>1, <2>2
       DEF StreamsInv, TypeStreams, Capture!Segment, readerVars, parseVars
<1>7. Assembled'
  <2>1. Assembled /\ HeldBack' \o sock' = HeldBack \o sock
    BY <1>1, <1>3, <1>5 DEF StreamsInv
  <2>2. QED
    BY <1>4, <2>1, AssembledSame
<1>8. QED
  BY <1>4, <1>6, <1>7 DEF StreamsInv

\* Where the dissector has looked at a header, the octets before it begin
\* with the first message that has not been shown.
LEMMA AtPeek ==
    ASSUME StreamsInv, observer = "capture", d = "loop", Capture!Peeked
    PROVE  /\ ~Over /\ 1 <= Len(HeldBack) /\ Len(HeldBack) = Len(tvb) - at
           /\ HeldBack = SubSeq(tvb, at + 1, Len(tvb))
           /\ Capture!Now = First /\ Len(Out) < Len(sent) /\ First \in Message /\ First.size \in Nat \ {0}
<1>1. /\ tvb \in Seq(Octet) /\ at \in 0..Len(tvb) /\ Len(tvb) \in Nat /\ at \in Nat
  BY LenProperties DEF StreamsInv, TypeStreams
<1>2. ~Over /\ HeldBack = SubSeq(tvb, at + 1, Len(tvb))
  BY DEF Over, HeldBack, Capture!Rest
<1>3. /\ Len(HeldBack) = Len(tvb) - at
      /\ \A i \in 1..Len(tvb) - at : HeldBack[i] = tvb[i + at]
  BY <1>1, <1>2, Dropped
<1>4. 1 \in 1..Len(tvb) - at /\ 1 + at = at + 1
  BY <1>1, PeekAssumption, ReaderAssumption DEF Capture!Peeked
<1>5. 1 <= Len(HeldBack) /\ HeldBack[1] = tvb[at + 1]
  BY <1>1, <1>3, <1>4
<1>6. /\ Len(Out) < Len(sent) /\ First \in Message /\ First.size \in Nat \ {0}
      /\ HeldBack[1].id = Len(Out) + 1
  BY <1>2, <1>5, FirstHeld
<1>7. QED
  BY <1>2, <1>3, <1>5, <1>6 DEF Capture!Now, First

\* A whole message is shown.
LEMMA ShowStep ==
    ASSUME StreamsInv, observer = "capture", Capture!Show, UNCHANGED <<observer, readerVars>>
    PROVE  /\ StreamsInv'
           /\ Len(Out) < Len(sent) /\ Out' = Append(Out, First) /\ sent' = sent
<1>1. /\ tvb \in Seq(Octet) /\ at \in 0..Len(tvb) /\ Len(tvb) \in Nat /\ at \in Nat
      /\ kept = <<>> /\ <<>> \in Seq(Octet)
  BY LenProperties, EmptySeq DEF StreamsInv, TypeStreams, Capture!Show
<1>2. d = "loop" /\ Capture!Peeked /\ at + Capture!Now.size <= Len(tvb)
  BY DEF Capture!Show, Capture!Complete
<1>3. /\ ~Over /\ 1 <= Len(HeldBack) /\ Len(HeldBack) = Len(tvb) - at
      /\ HeldBack = SubSeq(tvb, at + 1, Len(tvb))
      /\ Capture!Now = First /\ Len(Out) < Len(sent) /\ First \in Message /\ First.size \in Nat \ {0}
  BY <1>2, AtPeek
<1>4. at + First.size \in 0..Len(tvb) /\ First.size <= Len(HeldBack)
      /\ First.size \in 0..Len(tvb) - at
  BY <1>1, <1>2, <1>3
<1>5. /\ sent' = sent /\ sock' = sock /\ link' = link /\ ~Over' /\ kept' = <<>>
      /\ Out' = Append(Out, First)
      /\ \/ /\ at + First.size >= Len(tvb)
            /\ d' = "idle" /\ tvb' = <<>> /\ at' = 0
         \/ d' = "loop" /\ tvb' = tvb /\ at' = at + First.size
  BY <1>1, <1>2, <1>3 DEF Capture!Show, Out, Over, readerVars
<1>6. HeldBack' = SubSeq(HeldBack, First.size + 1, Len(HeldBack))
  <2>1. SubSeq(HeldBack, First.size + 1, Len(HeldBack)) = SubSeq(tvb, (at + First.size) + 1, Len(tvb))
    <3>1. \A k \in 0..Len(tvb) - at :
            SubSeq(SubSeq(tvb, at + 1, Len(tvb)), k + 1, Len(SubSeq(tvb, at + 1, Len(tvb))))
              = SubSeq(tvb, (at + k) + 1, Len(tvb))
      BY <1>1, DropTwice
    <3>2. QED
      BY <1>3, <1>4, <3>1
  <2>2. CASE at + First.size >= Len(tvb) /\ d' = "idle"
    <3>1. at + First.size = Len(tvb)
      BY <1>1, <1>4, <2>2
    <3>2. SubSeq(tvb, (at + First.size) + 1, Len(tvb)) = <<>>
      BY <1>1, <3>1, Nothing
    <3>3. HeldBack' = <<>>
      BY <1>5, <2>2 DEF HeldBack
    <3>4. QED
      BY <2>1, <3>2, <3>3
  <2>3. CASE d' = "loop" /\ tvb' = tvb /\ at' = at + First.size
    <3>1. HeldBack' = SubSeq(tvb, (at + First.size) + 1, Len(tvb))
      BY <2>3 DEF HeldBack, Capture!Rest
    <3>2. QED
      BY <2>1, <3>1
  <2>4. QED
    BY <1>5, <2>2, <2>3
<1>7. Assembled' /\ Out' \in Seq(Message) /\ Len(Out)' <= Len(sent)'
  BY <1>3, <1>4, <1>5, <1>6, FirstOut
<1>8. TypeStreams'
  <2>1. shown' \in Seq(Message)
    BY <1>7 DEF Out
  <2>2. tvb' \in Seq(Octet) /\ at' \in 0..Len(tvb') /\ (d' = "idle" => at' = 0)
    <3>1. CASE tvb' = <<>> /\ at' = 0
      BY <1>1, <3>1
    <3>2. CASE d' = "loop" /\ tvb' = tvb /\ at' = at + First.size
      BY <1>1, <1>4, <3>2
    <3>3. QED
      BY <1>5, <3>1, <3>2
  <2>3. QED
    BY <1>1, <1>5, <2>1, <2>2 DEF StreamsInv, TypeStreams, readerVars, parseVars
<1>9. QED
  BY <1>3, <1>5, <1>7, <1>8 DEF StreamsInv

\* The dissector asks for more, and Wireshark keeps what it has not shown.
LEMMA AskStep ==
    ASSUME StreamsInv, observer = "capture", Capture!AskForMessage \/ Capture!AskForSegment,
           UNCHANGED <<observer, readerVars>>
    PROVE  StreamsInv'
<1>1. /\ d = "loop" /\ d' = "idle" /\ tvb' = <<>> /\ at' = 0 /\ kept' = Capture!Rest
      /\ UNCHANGED <<sent, sock, shown>>
  BY DEF Capture!AskForMessage, Capture!AskForSegment, Capture!Returns
<1>2. ~Over /\ HeldBack = Capture!Rest
  BY <1>1 DEF Over, HeldBack
<1>3. HeldBack \in Seq(Octet) /\ <<>> \in Seq(Octet) /\ Len(<<>>) = 0
  BY StreamsTyped, EmptySeq DEF StreamsInv
<1>4. Out' = Out /\ ~Over' /\ HeldBack' = HeldBack /\ sent' = sent /\ link' = link /\ sock' = sock
  BY <1>1, <1>2 DEF Out, Over, HeldBack, readerVars
<1>5. TypeStreams'
  <2>1. kept' \in Seq(Octet) /\ tvb' \in Seq(Octet) /\ at' \in 0..Len(tvb')
    BY <1>1, <1>2, <1>3
  <2>2. QED
    BY <1>1, <2>1 DEF StreamsInv, TypeStreams, readerVars, parseVars
<1>6. Assembled'
  <2>1. Assembled /\ HeldBack' \o sock' = HeldBack \o sock
    BY <1>2, <1>4 DEF StreamsInv
  <2>2. QED
    BY <1>4, <2>1, AssembledSame
<1>7. QED
  BY <1>4, <1>5, <1>6 DEF StreamsInv

\* The dissector breaks off only at a message that it rejects.
LEMMA LoseStep ==
    ASSUME StreamsInv, observer = "capture", Capture!Lose, UNCHANGED <<observer, readerVars>>
    PROVE  StreamsInv'
<1>1. d = "loop" /\ Capture!Peeked /\ Capture!Now.fault # "none"
  BY DEF Capture!Lose, Capture!Broken
<1>2. Capture!Now = First /\ Len(Out) < Len(sent)
  BY <1>1, AtPeek
<1>3. Out' = Out /\ Over' /\ sent' = sent
  BY DEF Out, Over, Capture!Lose, readerVars
<1>4. TypeStreams'
  BY <1>1 DEF StreamsInv, TypeStreams, Capture!Lose, readerVars, parseVars
<1>5. QED
  BY <1>1, <1>2, <1>3, <1>4 DEF StreamsInv, First
-----------------------------------------------------------------------------
(* The theorems.                                                            *)

\* Initially nothing has been sent.
LEMMA StreamsInitially == InitStreams => StreamsInv /\ Stream!StreamInit
<1> SUFFICES ASSUME InitStreams
             PROVE  StreamsInv /\ Stream!StreamInit
  OBVIOUS
<1>1. /\ sent = <<>> /\ sock = <<>> /\ rx = <<>> /\ read_buffer = <<>> /\ buf = <<>> /\ offset = 0
      /\ kept = <<>> /\ tvb = <<>> /\ at = 0 /\ shown = <<>> /\ d = "idle" /\ r = "while"
      /\ observer \in {"thread", "capture"}
  BY DEF InitStreams, Init, Capture!DissectorInit
<1>2. <<>> \in Seq(Octet) /\ <<>> \in Seq(Message) /\ Len(<<>>) = 0
  BY EmptySeq
<1>3. TypeStreams
  BY <1>1, <1>2 DEF TypeStreams
<1>4. Out = <<>> /\ HeldBack = <<>> /\ ~Over
  BY <1>1 DEF Out, HeldBack, Held, Over
<1>5. Assembled
  <2>1. Pending(0) = <<>>
    BY <1>1, <1>2, PendingNothing
  <2>2. (<<>> \o <<>>) \o <<>> = <<>>
    BY <1>2, Nothing
  <2>3. (HeldBack \o sock) \o <<>> = Pending(Len(Out))
    BY <1>1, <1>2, <1>4, <2>1, <2>2
  <2>4. QED
    BY <1>2, <2>3 DEF Assembled
<1>6. QED
  BY <1>1, <1>2, <1>3, <1>4, <1>5 DEF StreamsInv, Stream!StreamInit

\* Every step keeps the invariant, and is a step of the abstract stream.
LEMMA StreamsStep ==
    StreamsInv /\ [NextStreams]_allVars => StreamsInv' /\ [Stream!StreamNext]_<<sent, Out>>
<1> SUFFICES ASSUME StreamsInv, [NextStreams]_allVars
             PROVE  StreamsInv' /\ [Stream!StreamNext]_<<sent, Out>>
  BY Zenon
<1>1. ASSUME NEW m \in Message, SwitchSends(m), UNCHANGED <<observer, captureVars>>
      PROVE  StreamsInv' /\ [Stream!StreamNext]_<<sent, Out>>
  <2>1. sent' = Append(sent, m) /\ Out' = Out
    BY <1>1 DEF SwitchSends, Out, parseVars, captureVars
  <2>2. Stream!StreamNext
    BY <2>1 DEF Stream!StreamNext, Stream!Emit
  <2>3. QED
    BY <1>1, <2>2, SendStep
<1>2. ASSUME Len(Out) < Len(sent), Out' = Append(Out, First), sent' = sent
      PROVE  [Stream!StreamNext]_<<sent, Out>>
  BY <1>2 DEF Stream!StreamNext, Stream!Deliver, First
<1>3. CASE observer = "thread" /\ Next /\ UNCHANGED <<observer, captureVars>>
  <2>1. CASE \E m \in Message : SwitchSends(m)
    BY <1>1, <1>3, <2>1
  <2>2. CASE SwitchCloses
    <3>1. StreamsInv'
      BY <1>3, <2>2, QuietStep DEF SwitchCloses
    <3>2. QED
      BY <1>3, <2>2, <3>1 DEF SwitchCloses, Out, parseVars, captureVars
  <2>3. CASE SwitchResets
    BY <1>3, <2>3, ResetStep DEF SwitchResets, Out, parseVars, captureVars
  <2>4. CASE TestFinished
    <3>1. StreamsInv'
      BY <1>3, <2>4, QuietStep DEF TestFinished, peerVars
    <3>2. QED
      BY <1>3, <2>4, <3>1 DEF TestFinished, peerVars, Out, parseVars, captureVars
  <2>5. CASE Select
    <3>1. StreamsInv'
      BY <1>3, <2>5, QuietStep DEF Select, peerVars
    <3>2. QED
      BY <1>3, <2>5, <3>1 DEF Select, peerVars, Out, parseVars, captureVars
  <2>6. CASE Recv
    BY <1>3, <2>6, RecvStep DEF Recv, Out, captureVars
  <2>7. CASE RecvRaises
    BY <1>3, <2>7, RecvRaisesStep DEF RecvRaises, peerVars, Out, parseVars, captureVars
  <2>8. CASE Parse
    BY <1>2, <1>3, <2>8, ParseStep
  <2>9. CASE ParseRaises
    BY <1>3, <2>9, ParseRaisesStep DEF ParseRaises, peerVars, Out, parseVars, captureVars
  <2>10. CASE KeepRest
    BY <1>3, <2>10, KeepRestStep DEF KeepRest, peerVars, Out, captureVars
  <2>11. CASE DrainWakeup
    <3>1. StreamsInv'
      BY <1>3, <2>11, QuietStep DEF DrainWakeup, peerVars
    <3>2. QED
      BY <1>3, <2>11, <3>1 DEF DrainWakeup, peerVars, Out, parseVars, captureVars
  <2>12. CASE Stop
    <3>1. UNCHANGED <<peerVars, r, rd, parseVars>>
      BY <2>12 DEF Stop, SetFinished, WriteWakeup, JoinAndClose
    <3>2. StreamsInv'
      BY <1>3, <3>1, QuietStep DEF peerVars
    <3>3. QED
      BY <1>3, <3>1, <3>2 DEF peerVars, Out, parseVars, captureVars
  <2>13. QED
    BY <1>3, <2>1, <2>2, <2>3, <2>4, <2>5, <2>6, <2>7, <2>8, <2>9, <2>10, <2>11, <2>12
       DEF Next, Thread
<1>4. CASE observer = "capture" /\ Capture!Dissect /\ UNCHANGED <<observer, readerVars>>
  <2>1. CASE Capture!Segment
    BY <1>4, <2>1, SegmentStep DEF Capture!Segment, Out, readerVars, parseVars
  <2>2. CASE Capture!Show
    BY <1>2, <1>4, <2>2, ShowStep
  <2>3. CASE Capture!AskForMessage \/ Capture!AskForSegment
    BY <1>4, <2>3, AskStep
       DEF Capture!AskForMessage, Capture!AskForSegment, Capture!Returns, Out, readerVars, parseVars
  <2>4. CASE Capture!Lose
    BY <1>4, <2>4, LoseStep DEF Capture!Lose, Out, readerVars, parseVars
  <2>5. QED
    BY <1>4, <2>1, <2>2, <2>3, <2>4 DEF Capture!Dissect
<1>5. CASE UNCHANGED allVars
  <2>1. StreamsInv'
    BY <1>5, QuietStep DEF allVars, vars, peerVars
  <2>2. QED
    BY <1>5, <2>1 DEF allVars, vars, peerVars, Out, parseVars, captureVars
<1>6. QED
  BY <1>1, <1>3, <1>4, <1>5 DEF NextStreams

\* Reassembly neither loses, repeats nor reorders an octet: process_read() of
\* the thread, and the dissector with what it tells Wireshark to keep.
THEOREM ReassemblyWhole == SpecStreams => []NoByteLost
<1>1. InitStreams => StreamsInv
  BY StreamsInitially
<1>2. StreamsInv /\ [NextStreams]_allVars => StreamsInv'
  BY StreamsStep
<1>3. StreamsInv => NoByteLost
  <2> SUFFICES ASSUME StreamsInv, link # "reset"
               PROVE  IF Over THEN Len(Out) < Len(sent) /\ sent[Len(Out) + 1].fault # "none"
                      ELSE HeldBack \o sock = Pending(Len(Out))
    BY DEF NoByteLost
  <2>1. CASE Over
    BY <2>1 DEF StreamsInv
  <2>2. CASE ~Over
    <3>1. (HeldBack \o sock) \o <<>> = Pending(Len(Out))
      BY <2>2 DEF StreamsInv, Assembled
    <3>2. HeldBack \in Seq(Octet) /\ sock \in Seq(Octet)
      BY StreamsTyped DEF StreamsInv, TypeStreams
    <3> DEFINE h == HeldBack
    <3> HIDE DEF h
    <3>3. h \in Seq(Octet) /\ sock \in Seq(Octet)
      BY <3>2 DEF h
    <3>4. h \o sock \in Seq(Octet)
      BY <3>3, ConcatProperties
    <3>5. (h \o sock) \o <<>> = h \o sock
      BY <3>4, Nothing
    <3>6. QED
      BY <2>2, <3>1, <3>5 DEF h
  <2>3. QED
    BY <2>1, <2>2
<1>4. QED
  BY <1>1, <1>2, <1>3, PTL DEF SpecStreams

\* The messages come out whole, in the order sent and once each, wherever the
\* thread or the dissector is in its loop.
THEOREM ReassemblyRefines == SpecStreams => ImplementsStream
<1>1. InitStreams => StreamsInv /\ Stream!StreamInit
  BY StreamsInitially
<1>2. StreamsInv /\ [NextStreams]_allVars => StreamsInv' /\ [Stream!StreamNext]_<<sent, Out>>
  BY StreamsStep
<1>3. QED
  BY <1>1, <1>2, PTL DEF SpecStreams, ImplementsStream, Stream!StreamSpec, Stream!streamVars
=============================================================================

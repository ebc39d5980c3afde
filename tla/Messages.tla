------------------------------ MODULE Messages ------------------------------
(***************************************************************************)
(* What the three generated libraries promise each other about a message:  *)
(* the C objects of LociMembers, read and written by the Python and the    *)
(* Java classes as well.                                                   *)
(***************************************************************************)
EXTENDS LociMembers

Py == INSTANCE PythonCodec
Java == INSTANCE JavaCodec

\* A message, or bytes that hold one, whose content the program knows.
Message(o) == Usable(o) /\ ob[o].is = "message"

\* A message whose match, if it has one, has been set: of_<class>_new() leaves
\* a match of type 0, which the C accessors take for an empty one and the
\* Python and Java readers for none.
Complete(o) == Message(o) /\ Content(o).first # Unset

\* The start of the next message in the buffer of a Java connection.
NextMessage == <<OxmHeader, Blank>>

\* Bytes of a peer that nothing has read yet.
Unread(r) == heap[r].st = "taken" /\ ~Exists("copy") /\ r \in spoiled

-----------------------------------------------------------------------------
\* The members of a message or of a list hold what the program has put in
\* them, whatever was set, bound, appended, duplicated, sent or parsed in
\* between: moving the data behind a member that changes its length, and the
\* length fields, agree with where the accessors look.
ReadsBack ==
    /\ \A o \in {"msg", "copy"} :
          Message(o) =>
             Accessors(kind, Cells(o), ob[o].len)
                = Ok(IF Complete(o) THEN Content(o) ELSE [Content(o) EXCEPT !.first = <<>>])
    /\ \A o \in {"list", "copy"} :
          Usable(o) /\ ob[o].is = "list"
             => Walk(Cells(o), 0, ob[o].len) = Ok(Content(o).first)

\* An assertion of the library fails only when the program appends through a
\* window that does not end where the buffer does, sets data of another length
\* over data that is there, or sets more data than there is room for behind the
\* actions; and no append writes past the allocated buffer.
FaultsAreMisuse ==
    \/ fault \in {"none", "double free"}
    \/ /\ fault = "msg" /\ kind = "packet_out"
       /\ \/ want["msg"].second # <<>>
          \/ \E data \in Packets : FixedLen(kind) + Len(FlattenSeq(
                [i \in DOMAIN want["msg"].first |-> ElementCells(want["msg"].first[i])]) \o data)
                    > heap["msg"].alloc
    \/ fault \in Windows /\ ob[fault].off + ob[fault].len # Len(Cells(fault))

\* No buffer is freed twice, and each one that is in use belongs to exactly
\* one object, which nobody has forgotten; the bytes taken to be sent or
\* received belong to none but are lent to an object in storage at most.
OneOwner ==
    /\ fault # "double free"
    /\ \A r \in Roots :
          LET owners == {o \in Objects : ob[o].up = "none" /\ ob[o].home = r}
          IN  CASE heap[r].st = "live" -> Cardinality(owners) = 1
                [] OTHER -> owners = {}

\* The bytes of a complete message are those the Python and the Java classes
\* write for the same content; the message passes the validator, and the
\* Python and the Java readers find in it what the program has put there,
\* also when the next message follows in the buffer.
Understood ==
    \A o \in {"msg", "copy"} : Complete(o) =>
        LET content == Content(o)
        IN  /\ Cells(o) = Py!PyPack(kind, content.first, content.second)
            /\ Cells(o) = Java!JWrite(kind, content.first, content.second)
            /\ Validated(kind, Cells(o))
            /\ Py!PyRead(kind, Cells(o)) = Ok(content)
            /\ Java!JRead(kind, Cells(o) \o NextMessage) = Ok(content)

\* The last entry for a match field is the one that counts.
LastField(kd, value) ==
    IF kd = "flow_mod" /\ value.first # <<>> THEN [value EXCEPT !.first = <<Last(@)>>] ELSE value

\* What the Java reader accepts of a peer's bytes, the Python reader accepts
\* and the C validator does, with the same content: no message is read
\* across its end or one way by one library and another way by the next.
JavaIsStrictest ==
    \A r \in Roots :
        Unread(r) =>
            LET b == heap[r].cells
                java == Java!JRead(kind, b \o NextMessage)
                python == Py!PyRead(kind, b)
            IN  java.st = "ok" =>
                   /\ python.st = "ok" /\ LastField(kind, python.value) = java.value
                   /\ Validated(kind, b)
                   /\ Accessors(kind, b, Len(b)) = java

\* Of a message its validator has passed, the C accessors read the first list
\* without a failed assertion, and the same elements as the Python classes
\* do where these accept it.
ValidatedReads ==
    \A r \in Roots :
        Unread(r) /\ kind # "flow_mod" /\ Validated(kind, heap[r].cells) =>
            LET b == heap[r].cells
                python == Py!PyRead(kind, b)
            IN  /\ FirstGet(kind, b).st = "ok"
                /\ python.st = "ok" => python.value.first = FirstGet(kind, b).value
=============================================================================

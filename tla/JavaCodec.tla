------------------------------ MODULE JavaCodec ------------------------------
(***************************************************************************)
(* The generated Java readers and writers.  A reader works on the ByteBuf  *)
(* of the connection, which may hold the following messages as well: an    *)
(* element is bounded by what can be read, and that a list ended where it  *)
(* should is checked afterwards.                                           *)
(***************************************************************************)
EXTENDS WireFormat

\* A null element, an OFParseError and an index out of bounds all end the
\* reading of the message.
JThrows == Failed("throws")

\* A faulty variant: the list may end beyond its length.
JListLoose(s, from, len) ==
    LET to == from + len
        read[at \in from..Len(s)] ==
            IF at >= to THEN Ok(<<>>)
            ELSE IF at >= Len(s) THEN JThrows
            ELSE IF s[at + 1].t = FixedType /\ s[at + 1].n = 2 /\ at + 2 <= Len(s)
            THEN Then(Element(FixedType, <<s[at + 2]>>), read[at + 2])
            ELSE IF s[at + 1].t = VarType /\ s[at + 1].n >= 1 /\ at + s[at + 1].n <= Len(s)
            THEN Then(Element(VarType, Slice(s, at + 1, at + s[at + 1].n)), read[at + s[at + 1].n])
            ELSE JThrows
    IN  IF from > Len(s) THEN JThrows ELSE read[from]

\* readList() with the reader of the element class: an unknown type, a class
\* of fixed length with another one, or data beyond the buffer throw; so
\* does a list that has been read past its end.
JList(s, from, len) ==
    LET to == from + len
        read[at \in from..Len(s)] ==
            IF at = to THEN Ok(<<>>)
            ELSE IF at > to \/ at >= Len(s) THEN JThrows
            ELSE IF s[at + 1].t = FixedType /\ s[at + 1].n = 2 /\ at + 2 <= Len(s)
            THEN Then(Element(FixedType, <<s[at + 2]>>), read[at + 2])
            ELSE IF s[at + 1].t = VarType /\ s[at + 1].n >= 1 /\ at + s[at + 1].n <= Len(s)
            THEN Then(Element(VarType, Slice(s, at + 1, at + s[at + 1].n)), read[at + s[at + 1].n])
            ELSE JThrows
    IN  IF from > Len(s) THEN JThrows ELSE read[from]

\* OFOxmList.readFrom(): a map, so the last entry for the field counts.
JOxms(s, from, len) ==
    LET to == from + len
        read[at \in from..Len(s) + 1] ==
            IF at = to THEN Ok(<<>>)
            ELSE IF at > to \/ at + 2 > Len(s) THEN JThrows
            ELSE IF s[at + 1] # OxmHeader THEN JThrows
            ELSE LET rest == read[at + 2]
                 IN  IF rest.st # "ok" \/ rest.value # <<>> THEN rest
                     ELSE Ok(<<Element(OxmType, <<s[at + 2]>>)>>)
    IN  read[from]

\* The reader of the match skips the padding after it.
JMatch(s) ==
    LET cell == s[FirstAt + 1]
    IN  IF /\ cell.t = MatchType
           /\ cell.n >= 1
           /\ FirstAt + Aligned(cell.n) <= Len(s)
        THEN JOxms(s, FirstAt + 1, cell.n - 1)
        ELSE JThrows

\* readFrom() of the message at the start of the buffer s.  The last member
\* has what is left of the message's length, which may be negative by then.
JRead(kind, s) ==
    LET len == s[1].n
        n == s[LengthCell(kind)].n
        end == FirstAt + (IF kind = "flow_mod" THEN Aligned(n) ELSE n)
    IN  IF len < FixedLen(kind) \/ Len(s) < len THEN JThrows
        ELSE LET first == IF kind = "flow_mod" THEN JMatch(s) ELSE JList(s, FirstAt, n)
             IN  IF first.st = "ok" /\ end > len THEN JThrows
                 ELSE IF first.st # "ok" THEN JThrows
                 ELSE Both(first, IF kind = "packet_out" THEN Ok(Slice(s, end, len))
                                  ELSE JList(s, end, len - end))
-----------------------------------------------------------------------------
\* The writers: lengths are set once what they count has been written.
SetShort(s, index, n) == [s EXCEPT ![index].n = n]

JElement(e) ==
    IF e.t = OxmType THEN <<OxmHeader>> \o e.body
    ELSE LET written == <<Cell(e.t, 0)>> \o e.body
         IN  SetShort(written, 1, Len(written))

JElements(es) == FlattenSeq([i \in DOMAIN es |-> JElement(es[i])])

JMatchWrite(first) ==
    LET written == <<Cell(MatchType, 0)>> \o JElements(first)
    IN  SetShort(written, 1, Len(written))
            \o Blanks(Aligned(Len(written)) - Len(written))

JWrite(kind, first, second) ==
    LET fields == JElements(first)
        member == IF kind = "flow_mod" THEN <<Blank>> \o JMatchWrite(first)
                  ELSE SetShort(<<Blank>> \o fields, 1, Len(fields))
        written == <<Blank>> \o member
                       \o (IF kind = "packet_out" THEN second ELSE JElements(second))
    IN  SetShort(written, 1, Len(written))
=============================================================================

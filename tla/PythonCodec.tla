----------------------------- MODULE PythonCodec -----------------------------
(***************************************************************************)
(* The generated Python classes: unpack() on an OFReader and pack().  A    *)
(* reader is a range [at, to) of the buffer; reading past its end raises,  *)
(* whatever the buffer holds there.                                        *)
(***************************************************************************)
EXTENDS WireFormat

\* OFReader.slice() of length len, rewound over the header cell before at, of
\* a reader that ends at to: it raises when the slice is too long or empty.
Sliceable(at, len, to) == len >= 1 /\ at + len <= to

\* unpack_list() with the unpack() of the element class, from at to the end
\* of the reader.  An unknown type is unpacked as the superclass, which has a
\* length of its own; what the members do not need is skipped.
PyList(b, from, to) ==
    LET read[at \in from..to] ==
            IF at = to THEN Ok(<<>>)
            ELSE LET cell == b[at + 1]
                     body == CASE cell.t = FixedType -> <<b[at + 2]>>
                               [] cell.t = VarType -> Slice(b, at + 1, at + cell.n)
                               [] OTHER -> <<>>
                 IN  IF ~Sliceable(at, cell.n, to) \/ (cell.t = FixedType /\ cell.n < 2)
                     THEN Failed("raises")
                     ELSE Then(Element(cell.t, body), read[at + cell.n])
    IN  read[from]

\* The list of match fields: an unknown one is its header only.
PyOxms(b, from, to) ==
    LET read[at \in from..to] ==
            IF at = to THEN Ok(<<>>)
            ELSE IF b[at + 1] # OxmHeader THEN Then(Element(b[at + 1].t, <<>>), read[at + 1])
            ELSE IF at + 2 > to THEN Failed("raises")
            ELSE Then(Element(OxmType, <<b[at + 2]>>), read[at + 2])
    IN  read[from]

\* match.unpack(): the slice of the match, then the alignment of the reader
\* it was cut from.
PyMatch(b, to) ==
    LET cell == b[FirstAt + 1]
    IN  IF /\ cell.t = MatchType
           /\ Sliceable(FirstAt, cell.n, to)
           /\ Aligned(FirstAt + cell.n) <= to
        THEN PyOxms(b, FirstAt + 1, FirstAt + cell.n)
        ELSE Failed("raises")

\* A faulty variant: the padding of the match is not skipped.
EndUnpadded(kind, b) == FirstAt + b[LengthCell(kind)].n

\* Where the reader is after the first member.
End(kind, b) ==
    LET n == b[LengthCell(kind)].n
    IN  IF kind = "flow_mod" THEN Aligned(FirstAt + n) ELSE FirstAt + n

\* unpack() of the whole message, whose own length is a slice too.
PyRead(kind, b) ==
    LET to == b[1].n
        end == End(kind, b)
    IN  IF to > Len(b) \/ to < FixedLen(kind) \/ end > to THEN Failed("raises")
        ELSE Both(IF kind = "flow_mod" THEN PyMatch(b, to) ELSE PyList(b, FirstAt, end),
                  IF kind = "packet_out" THEN Ok(Slice(b, end, to)) ELSE PyList(b, end, to))
-----------------------------------------------------------------------------
\* pack() of an element: the length placeholder is filled with the sum.
PyElement(e) ==
    IF e.t = OxmType THEN <<OxmHeader>> \o e.body ELSE <<Cell(e.t, 1 + Len(e.body))>> \o e.body

PyElements(es) == FlattenSeq([i \in DOMAIN es |-> PyElement(es[i])])

\* pad_to(8, length)
PadTo(length) == Blanks(Aligned(length) - length)

\* pack() of the message.
PyPack(kind, first, second) ==
    LET fields == PyElements(first)
        rest == IF kind = "packet_out" THEN second ELSE PyElements(second)
        member == IF kind = "flow_mod"
                  THEN <<Blank, Cell(MatchType, 1 + Len(fields))>> \o fields \o PadTo(1 + Len(fields))
                  ELSE <<Cell(0, Len(fields))>> \o fields
    IN  <<Cell(0, 1 + Len(member) + Len(rest))>> \o member \o rest
=============================================================================

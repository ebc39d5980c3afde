----------------------------- MODULE LociReader -----------------------------
(***************************************************************************)
(* What the C library makes of a buffer: the generated validator, the      *)
(* macros that compute where a member begins and how long it is, the walk  *)
(* over a list and the get accessors.  An accessor that reads past the     *)
(* used part of the buffer fails an assertion.                             *)
(***************************************************************************)
EXTENDS WireFormat

\* OF_WIRE_BUFFER_ACCESS_CHECK in every scalar get: cell at (from 0) is used.
Readable(b, at) == at < Len(b)

\* wire_match_len() and _WIRE_MATCH_PADDED_LEN: 0 stands for the length of
\* an empty match.
MatchLen(n) == Aligned(IF n = 0 THEN 1 ELSE n)

FirstLen(kind, b) ==
    LET n == b[LengthCell(kind)].n
    IN  IF kind = "flow_mod" THEN MatchLen(n) ELSE n

\* _FLOW_MOD_INSTRUCTIONS_OFFSET, _PACKET_OUT_DATA_OFFSET, and so on.
SecondAt(kind, b) ==
    LET n == b[LengthCell(kind)].n
    IN  IF kind = "flow_mod" THEN FixedLen(kind) + Aligned(n) - 2 ELSE FixedLen(kind) + n

\* _END_LEN, for an object of length len.
SecondLen(kind, b, len) == len - SecondAt(kind, b)

\* The octets get accessor.
Octets(b, from, len) ==
    IF len >= 0 /\ from + len <= Len(b) THEN Ok(Slice(b, from, from + len)) ELSE Failed("abort")

\* The members of an element of length len at at, through its accessors.
Accessed(b, at, len) ==
    LET type == b[at + 1].t
        body == CASE type = FixedType -> IF Readable(b, at + 1) THEN Ok(<<b[at + 2]>>) ELSE Failed("abort")
                  [] type = VarType -> Octets(b, at + 1, len - 1)
                  [] OTHER -> Ok(<<>>)
    IN  IF body.st = "ok" THEN Ok(Element(type, body.value)) ELSE body

\* <list>_first() and <list>_next() until OF_ERROR_RANGE.  The lengths come
\* from the wire; an element that claims more than the list ends it.
Walk(b, from, len) ==
    LET to == from + len
        walk[at \in from..(IF len > 0 THEN to ELSE from)] ==
            IF at >= to THEN Ok(<<>>)
            ELSE IF ~Readable(b, at) \/ b[at + 1].n = 0 THEN Failed("abort")
            ELSE LET element == Accessed(b, at, b[at + 1].n)
                     next == at + b[at + 1].n
                 IN  IF element.st # "ok" THEN element
                     ELSE Then(element.value, IF next >= to THEN Ok(<<>>) ELSE walk[next])
    IN  IF len < 0 THEN Failed("abort") ELSE walk[from]

\* of_match_v3_to_match() on the match at from: one field, so the last
\* entry of the list is what counts.
MatchGet(b, from, len) ==
    LET to == from + (IF b[from + 1].n = 0 THEN 1 ELSE b[from + 1].n)
        walk[at \in from + 1..(IF to > from + 1 THEN to + 1 ELSE from + 1)] ==
            IF at >= to THEN Ok(<<>>)
            ELSE IF b[at + 1] # OxmHeader THEN Failed("parse")
            ELSE IF ~Readable(b, at + 1) THEN Failed("abort")
            ELSE LET rest == walk[at + 2]
                 IN  IF rest.st # "ok" \/ rest.value # <<>> THEN rest
                     ELSE Ok(<<Element(OxmType, <<b[at + 2]>>)>>)
    IN  IF from + len > Len(b) THEN Failed("abort") ELSE walk[from + 1]

FirstGet(kind, b) ==
    IF kind = "flow_mod" THEN MatchGet(b, FirstAt, FirstLen(kind, b))
    ELSE Walk(b, FirstAt, FirstLen(kind, b))

SecondGet(kind, b, len) ==
    IF kind = "packet_out" THEN Octets(b, SecondAt(kind, b), SecondLen(kind, b, len))
    ELSE Walk(b, SecondAt(kind, b), SecondLen(kind, b, len))

\* Everything a program reads from the message with its accessors.
Accessors(kind, b, len) == Both(FirstGet(kind, b), SecondGet(kind, b, len))
-----------------------------------------------------------------------------
(* The validator.                                                           *)

\* A faulty variant: the length on the wire need not fit in the list.
ElementLenUnchecked(b, at, len) ==
    LET cell == b[at + 1]
    IN  IF len < 1 \/ cell.n < 1 \/ (cell.t = FixedType /\ cell.n # 2)
        THEN 0 ELSE cell.n

\* loci_validate_<element>() on len cells: the length it reports, 0 if it
\* refuses.  A class of fixed length has exactly that; an unknown type is
\* checked as its superclass.
ElementLen(b, at, len) ==
    LET cell == b[at + 1]
    IN  IF len < 1 \/ cell.n < 1 \/ cell.n > len \/ (cell.t = FixedType /\ cell.n # 2)
        THEN 0 ELSE cell.n

\* The list validators.
ListValid(b, from, len) ==
    LET valid[at \in from..from + len] ==
            at = from + len
            \/ LET n == ElementLen(b, at, from + len - at)
               IN  n > 0 /\ (at + n >= from + len \/ valid[at + n])
    IN  valid[from]

\* of_validate_message(): a list behind another member is not looked at, and
\* neither is a match.
Validated(kind, b) ==
    /\ Len(b) >= FixedLen(kind)
    /\ b[1].n = Len(b)
    /\ kind # "flow_mod" =>
          LET n == b[LengthCell(kind)].n
          IN  FixedLen(kind) + n <= Len(b) /\ ListValid(b, FirstAt, n)
=============================================================================

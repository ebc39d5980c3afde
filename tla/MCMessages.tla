----------------------------- MODULE MCMessages -----------------------------
(***************************************************************************)
(* Model values for Messages.                                              *)
(***************************************************************************)
EXTENDS Messages

p == Cell(0, 1)
q == Cell(0, 2)

MCAlloc == [k \in Kinds |-> CASE k = "packet_out" -> 7 [] k = "gentable" -> 6 [] k = "flow_mod" -> 8]
MCElements == {Element(FixedType, <<p>>), Element(VarType, <<>>)}
MCMatches == {<<>>, <<Element(OxmType, <<p>>)>>}
\* The longest does not fit behind a list of two cells.
MCPackets == {<<>>, <<q>>, <<q, p>>, <<q, p, p, q>>}

\* What a peer may put in a cell.
ForeignCells == {Blank, Cell(FixedType, 2), Cell(VarType, 1), Cell(VarType, 2), Cell(VarType, 3), OxmHeader}

\* Buffers of up to MaxForeign cells, whose header has their length.
MaxForeign == 6
Body(n) == [1..n -> ForeignCells]
Header(n) == {<<Cell(0, n)>>}
Join(as, bs) == {a \o b : a \in as, b \in bs}

Lists == UNION {Join(Join(Header(n), {<<Cell(0, k)>> : k \in 0..n}), Body(n - 2)) : n \in 2..MaxForeign - 1}
FlowMods == UNION {Join(Join(Header(n), {<<Blank, Cell(t, k)>> : t \in {0, MatchType}, k \in 0..n - 1}), Body(n - 3)) : n \in 3..MaxForeign}

MCForeign == [k \in Kinds |-> IF k = "flow_mod" THEN FlowMods ELSE Lists]
=============================================================================

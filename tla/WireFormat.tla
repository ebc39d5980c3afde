----------------------------- MODULE WireFormat -----------------------------
(***************************************************************************)
(* The layout of the messages that have a member of variable length before *)
(* the last one, as the four-octet cells of their encoding.                *)
(*                                                                         *)
(* A packet_out holds its actions, whose length is in actions_len, and     *)
(* then the packet to the end; a gentable entry its key, whose length is   *)
(* in key_length, and then the value list; a flow_mod of version 1.2 on    *)
(* its match, which has its own type and length and is padded, and then    *)
(* the instructions.  Every cell can be read as a type and a length, a     *)
(* payload cell like any other.                                            *)
(***************************************************************************)
EXTENDS Integers, Sequences, SequencesExt

Kinds == {"packet_out", "gentable", "flow_mod"}

\* Types of elements: 0 is one that no class of the protocol has.
FixedType == 1   \* a class of two cells
VarType == 2     \* a class that ends in data
OxmType == 3     \* a match field; the type gives its length
MatchType == 1   \* OFPMT_OXM

Cell(type, length) == [t |-> type, n |-> length]
Blank == Cell(0, 0)
OxmHeader == Cell(OxmType, 1)

\* n cells of padding, or none.
Blanks(n) == [i \in 1..(IF n > 0 THEN n ELSE 0) |-> Blank]

FixedLen(kind) == IF kind = "flow_mod" THEN 4 ELSE 2

\* Both members of variable length come after two cells.
FirstAt == 2

\* The cell (from 1) that holds the length of the first of them.
LengthCell(kind) == IF kind = "flow_mod" THEN 3 ELSE 2

\* OF_MATCH_BYTES()
Aligned(n) == 2 * ((n + 1) \div 2)

\* What a member holds: a list of elements, the fields of a match, or data.
Element(type, body) == [t |-> type, body |-> body]

\* The outcome of decoding: a status and what the members hold.
Ok(value) == [st |-> "ok", value |-> value]
Failed(status) == [st |-> status, value |-> <<>>]

\* One more element in front of what follows, unless that failed.
Then(element, rest) == IF rest.st = "ok" THEN Ok(<<element>> \o rest.value) ELSE rest

\* The two members together.
Both(first, second) ==
    IF first.st # "ok" THEN first
    ELSE IF second.st # "ok" THEN second
    ELSE Ok([first |-> first.value, second |-> second.value])

\* Cells [from, to) of b.
Slice(b, from, to) == SubSeq(b, from + 1, to)
=============================================================================

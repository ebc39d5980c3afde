----------------------------- MODULE LociObject -----------------------------
(***************************************************************************)
(* LOCI objects: C structs that are windows (offset, length) on a shared   *)
(* wire buffer and know the object they were bound from.  A message holds  *)
(* a list of elements as its last member, an element a list of actions as  *)
(* its last member (a message with buckets or flow entries, say).  Every   *)
(* operation of the generated accessors and of of_object.c on the windows  *)
(* and the buffer is modelled; the unit of length is a cell, and the       *)
(* type and length fields of an object make up its first cell.             *)
(*                                                                         *)
(* The program may keep several windows on the same list or element and    *)
(* use them in any order, except for those that hang below a window it has *)
(* bound elsewhere or below a list whose content has moved: the model      *)
(* drops their bindings.  LOCI_ASSERT is enabled: a failed assertion ends  *)
(* the program.                                                            *)
(***************************************************************************)
EXTENDS Integers, Sequences, FiniteSets, FiniteSetsExt

CONSTANTS Msg,              \* the message object
          Lists, Elements,  \* windows the program uses for the list, its elements,
          ALists, Actions,  \* the action lists and the actions
          NoObject,         \* a NULL parent
          MsgLen, EltLen,   \* fixed lengths of a message and of an element
          ActLen,           \* length of an action, whose second cell is its value
          Alloc,            \* alloc_bytes of the wire buffer
          Values, NoValue   \* scalar values, and that of a member not yet set

\* The windows of each kind are structs of their own.
ASSUME LociAssumption ==
    /\ MsgLen \in Nat \ {0} /\ EltLen \in Nat \ {0} /\ ActLen \in Nat \ {0, 1}
    /\ Alloc \in Nat /\ Alloc >= MsgLen
    /\ NoValue \notin Values
    /\ NoObject \notin {Msg} \cup Lists \cup Elements \cup ALists \cup Actions
    /\ Msg \notin Lists \cup Elements \cup ALists \cup Actions
    /\ Lists \cap (Elements \cup ALists \cup Actions) = {}
    /\ Elements \cap (ALists \cup Actions) = {} /\ ALists \cap Actions = {}

Objects == {Msg} \cup Lists \cup Elements \cup ALists \cup Actions

VARIABLES buf,      \* the wire buffer up to current_bytes
          ob,       \* ob[o]: parent, obj_offset and length of window o, if bound
          iter,     \* element windows with nothing written since _first/_next
          aborted   \* the window whose use failed an assertion, or NoObject

vars == <<buf, ob, iter, aborted>>

Kind(o) == CASE o = Msg -> "msg" [] o \in Elements -> "elt"
             [] o \in Actions -> "act" [] OTHER -> "list"

Zero == [f |-> "zero", v |-> 0, x |-> NoValue]
Header(kind, len) == [f |-> kind, v |-> len, x |-> NoValue]
Val(x) == [f |-> "val", v |-> 0, x |-> x]

Unbound == [parent |-> NoObject, off |-> 0, len |-> 0]

\* What of_<class>_new() makes: a zeroed object with its type and length set.
Fixed(kind, len) == [i \in 1..len |-> IF i = 1 THEN Header(kind, len) ELSE Zero]

Init ==
    /\ buf = Fixed("msg", MsgLen)
    /\ ob = [o \in Objects |-> IF o = Msg THEN [Unbound EXCEPT !.len = MsgLen] ELSE Unbound]
    /\ iter = {}
    /\ aborted = NoObject
-----------------------------------------------------------------------------
(* The wire buffer.                                                         *)

\* A faulty variant: the buffer is made one cell too short.
GrowShort(b, n) == b \o [i \in 1..(n - Len(b) - 1) |-> Zero]

\* of_wire_buffer_grow(): zeroes up to n cells; never shrinks.
Grow(b, n) == b \o [i \in 1..(n - Len(b)) |-> Zero]

Copy(b, at, cells) ==
    [i \in DOMAIN b |-> IF i \in at + 1..at + Len(cells) THEN cells[i - at] ELSE b[i]]

\* of_object_can_grow()
CanGrow(o, n) == ob[o].off + n <= Alloc

\* of_wire_buffer_replace_data(): the tail of the buffer moves.
ReplaceData(b, at, old, cells) ==
    SubSeq(b, 1, at) \o cells \o SubSeq(b, at + old + 1, Len(b))
-----------------------------------------------------------------------------
(* Lengths.                                                                 *)

\* A faulty variant: the update stops at the object itself.
LineageOwn(objs, o) == {o}

\* o and the windows it was bound from: an action has the most, four.
Lineage(objs, o) ==
    LET parents(S) == {objs[p].parent : p \in S} \ {NoObject}
        one == parents({o})
        two == parents(one)
        three == parents(two)
    IN  {o} \cup one \cup two \cup three \cup parents(three)

HasWireLength(o) == Kind(o) # "list"

\* of_object_wire_length_set() for the windows os.
WriteLengths(objs, b, os) ==
    LET at == {<<objs[o].off + 1, objs[o].len>> : o \in {p \in os : HasWireLength(p)}}
    IN  [i \in DOMAIN b |->
            IF \E n \in 0..Alloc : <<i, n>> \in at
            THEN [b[i] EXCEPT !.v = CHOOSE n \in 0..Alloc : <<i, n>> \in at]
            ELSE b[i]]

Lengthened(objs, o, delta) ==
    LET longer == Lineage(objs, o)
    IN  [p \in Objects |-> IF p \in longer THEN [objs[p] EXCEPT !.len = @ + delta]
                           ELSE objs[p]]

\* The assertions of of_object_parent_length_update(), and those of the
\* accessors that write the lengths.
LengthsAgree(objs, b, o) ==
    \A p \in Lineage(objs, o) :
        /\ objs[p].off + 1 <= Len(b) \/ ~HasWireLength(p)
        /\ objs[p].off + objs[p].len <= Len(b)
        /\ p = Msg => objs[p].len = Len(b)

\* of_object_parent_length_update(o, delta) on windows objs and buffer b, and
\* the end of the operation it belongs to.  Assertions fail before the
\* program sees anything of what was written.
UpdateLengths(objs, b, o, delta) ==
    LET new == Lengthened(objs, o, delta)
    IN  IF LengthsAgree(new, b, o)
        THEN /\ ob' = new
             /\ buf' = WriteLengths(new, b, Lineage(new, o))
             /\ iter' = {}
             /\ UNCHANGED aborted
        ELSE aborted' = o /\ UNCHANGED <<ob, buf, iter>>
-----------------------------------------------------------------------------
(* Binding windows.                                                         *)

Bound == {o \in Objects : o = Msg \/ ob[o].parent # NoObject}

\* The windows bound, directly or not, from o.
Below(o) == {p \in Objects \ {o} : o \in Lineage(ob, p)}

\* of_object_attach(): the windows bound from c before are of no more use.
Attached(parent, c, off, len) ==
    LET dropped == Below(c)
    IN  [o \in Objects |->
            IF o = c THEN [parent |-> parent, off |-> ob[parent].off + off, len |-> len]
            ELSE IF o \in dropped THEN Unbound ELSE ob[o]]

\* The message alone keeps its binding.
OnlyMsg(len) == [o \in Objects |-> IF o = Msg THEN [Unbound EXCEPT !.len = len] ELSE Unbound]

Usable(o) == o \in Bound /\ aborted = NoObject

\* of_<msg>_<list>_bind() and of_<elt>_<list>_bind(): the list takes the rest
\* of the object.
BindList(o, l) ==
    /\ Usable(o)
    /\ <<o, l>> \in ({Msg} \X Lists) \cup (Elements \X ALists)
    /\ LET off == IF o = Msg THEN MsgLen ELSE EltLen
       IN  ob' = Attached(o, l, off, ob[o].len - off)
    /\ UNCHANGED <<buf, iter, aborted>>

\* of_<list>_first(): the element's length is read from the wire.
ListFirst(l, e) ==
    /\ Usable(l) /\ l \in Lists
    /\ ob[l].len > 0
    /\ ob' = Attached(l, e, 0, buf[ob[l].off + 1].v)
    /\ iter' = iter \cup {e}
    /\ UNCHANGED <<buf, aborted>>

\* of_<list>_next(): only with the buffer unchanged since _first or _next.
ListNext(l, e) ==
    /\ Usable(l) /\ Usable(e) /\ e \in iter /\ ob[e].parent = l
    /\ ob[e].off + ob[e].len < ob[l].off + ob[l].len
    /\ LET at == ob[e].off - ob[l].off + ob[e].len
       IN  ob' = Attached(l, e, at, buf[ob[l].off + at + 1].v)
    /\ UNCHANGED <<buf, iter, aborted>>
-----------------------------------------------------------------------------
(* Writing.                                                                 *)

\* of_list_append(): a copy of a separate object goes behind the last cell
\* the window knows of.
AppendCopy(l, cells) ==
    LET end == ob[l].len + Len(cells)
    IN  /\ Usable(l)
        /\ CanGrow(l, end)
        /\ UpdateLengths(ob, Copy(Grow(buf, ob[l].off + end), ob[l].off + ob[l].len, cells),
                         l, Len(cells))

\* of_list_append_bind(): the new object c is a window on the end of the list.
AppendBind(l, c, len) ==
    LET end == ob[l].len + len
    IN  /\ Usable(l)
        /\ CanGrow(l, end)
        /\ UpdateLengths(Attached(l, c, ob[l].len, len),
               Copy(Grow(buf, ob[l].off + end), ob[l].off + ob[l].len,
                    <<[f |-> Kind(c), v |-> len, x |-> NoValue]>>),
               l, len)

\* A scalar set accessor.
SetValue(a, x) ==
    /\ Usable(a) /\ a \in Actions
    /\ buf' = [buf EXCEPT ![ob[a].off + 2] = Val(x)]
    /\ UNCHANGED <<ob, iter, aborted>>

\* of_<msg>_<list>_set() with a list of another buffer.  Every window below
\* the message is now on moved or overwritten cells.
SetList(cells) ==
    /\ Usable(Msg)
    /\ MsgLen + Len(cells) <= Alloc
    /\ UpdateLengths(OnlyMsg(ob[Msg].len),
                     ReplaceData(buf, MsgLen, ob[Msg].len - MsgLen, cells),
                     Msg, Len(cells) - (ob[Msg].len - MsgLen))

\* A faulty variant: the length on the wire is left as it was.
TruncateHost ==
    /\ Usable(Msg)
    /\ ob' = OnlyMsg(MsgLen)
    /\ buf' = SubSeq(buf, 1, MsgLen)
    /\ iter' = {}
    /\ UNCHANGED aborted

\* of_object_truncate()
Truncate ==
    /\ Usable(Msg)
    /\ ob' = OnlyMsg(MsgLen)
    /\ buf' = [SubSeq(buf, 1, MsgLen) EXCEPT ![1].v = MsgLen]
    /\ iter' = {}
    /\ UNCHANGED aborted
-----------------------------------------------------------------------------
ActCells(x) == <<Header("act", ActLen), Val(x)>> \o [i \in 1..(ActLen - 2) |-> Zero]

\* A separate element with no action or one.
EltCells(acts) ==
    IF acts = <<>> THEN Fixed("elt", EltLen)
    ELSE [Fixed("elt", EltLen) EXCEPT ![1].v = EltLen + ActLen] \o ActCells(acts[1])

SmallActs == {<<>>} \cup {<<x>> : x \in Values}

Next ==
    \/ \E l \in Lists :
          \/ BindList(Msg, l)
          \/ \E e \in Elements : ListFirst(l, e) \/ ListNext(l, e) \/ AppendBind(l, e, EltLen)
          \/ \E acts \in SmallActs : AppendCopy(l, EltCells(acts))
    \/ \E l \in ALists :
          \/ \E e \in Elements : BindList(e, l)
          \/ \E a \in Actions : AppendBind(l, a, ActLen)
          \/ \E x \in Values : AppendCopy(l, ActCells(x))
    \/ \E a \in Actions, x \in Values : SetValue(a, x)
    \/ \E cells \in {<<>>} \cup {EltCells(acts) : acts \in SmallActs} : SetList(cells)
    \/ Truncate

Spec == Init /\ [][Next]_vars
-----------------------------------------------------------------------------
\* The length of the message, the length on the wire and the used part of the
\* buffer are the same number after every operation.  A window the program
\* may use sits on the start of an object of its kind, however many objects
\* were appended through other windows since; it may lag behind an object
\* that grew through another window, and never claims more than there is.
WindowsSound ==
    /\ ob[Msg].len = Len(buf) /\ buf[1].v = Len(buf)
    /\ \A o \in Bound :
          /\ ob[o].off + ob[o].len <= Len(buf)
          /\ HasWireLength(o) => /\ ob[o].off < Len(buf)
                                /\ buf[ob[o].off + 1].f = Kind(o)
                                /\ ob[o].len <= buf[ob[o].off + 1].v

\* An assertion fails only when the program appends through a window that
\* is, or was bound from one that is, no longer at the end of the buffer.
AbortsAreMisuse ==
    aborted # NoObject =>
        \E p \in Lineage(ob, aborted) : ob[p].off + ob[p].len # Len(buf)

\* The actions from cell i on to the end of their element, the elements from
\* cell i on to the end of the message, as another program parses them.
ParseActs(from, to) ==
    LET parse[i \in from..to + 1] ==
            IF i = to + 1 THEN [ok |-> TRUE, acts |-> <<>>]
            ELSE IF buf[i].f # "act" \/ buf[i].v # ActLen \/ i + ActLen - 1 > to
            THEN [ok |-> FALSE, acts |-> <<>>]
            ELSE LET rest == parse[i + ActLen]
                 IN  [rest EXCEPT !.acts = <<buf[i + 1].x>> \o @]
    IN  parse[from]

ParsedElements ==
    LET n == Len(buf)
        parse[i \in 1..n + 1] ==
            IF i = n + 1 THEN [ok |-> TRUE, elts |-> <<>>]
            ELSE LET end == i + buf[i].v - 1
                     acts == ParseActs(i + EltLen, end)
                     rest == parse[end + 1]
                 IN  IF buf[i].f # "elt" \/ buf[i].v < EltLen \/ end > n \/ ~acts.ok
                     THEN [ok |-> FALSE, elts |-> <<>>]
                     ELSE [rest EXCEPT !.elts = <<acts.acts>> \o @]
    IN  parse[MsgLen + 1]

\* Whatever windows it uses, a program that no assertion stops has built the
\* message it meant: the buffer parses to the tree of its operations.
Tree == INSTANCE MessageTree WITH
    tree <- IF ParsedElements.ok THEN ParsedElements.elts ELSE << <<"malformed">> >>

ImplementsTree == Tree!TreeSpec
=============================================================================

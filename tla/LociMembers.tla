---------------------------- MODULE LociMembers ----------------------------
(***************************************************************************)
(* LOCI messages with a member of variable length before the last one, and *)
(* who owns their buffers.  A program makes a message and a separate list, *)
(* sets and binds members, appends through windows, duplicates and deletes *)
(* objects, takes the buffer away to send it, and makes an object of bytes *)
(* received.  Bytes may also come from a peer that does not keep to the    *)
(* protocol.                                                               *)
(*                                                                         *)
(* Roots are the objects with a buffer: a message, a standalone list, and  *)
(* a copy, the result of of_object_dup() or of parsing.  "first" and       *)
(* "second" are windows on the members of a message.  LOCI_ASSERT is       *)
(* enabled: a failed assertion ends the program.                           *)
(***************************************************************************)
EXTENDS LociReader, FiniteSets

CONSTANTS MessageKinds,  \* the kinds of messages the program uses
          Alloc,         \* Alloc[k]: OF_WIRE_BUFFER_MAX_LENGTH, in cells, for messages of kind k
          Elements,      \* elements the program puts in lists
          Matches,       \* matches it sets, as sequences of at most one field
          Packets,       \* data it sets
          Foreign        \* Foreign[k]: buffers a peer may send for a message of kind k

ASSUME MembersAssumption ==
    /\ MessageKinds \subseteq Kinds
    /\ \A k \in MessageKinds : Alloc[k] \in Nat /\ Alloc[k] >= FixedLen(k)

Roots == {"msg", "copy", "list"}
Windows == {"first", "second"}
Objects == Roots \cup Windows

VARIABLES kind,     \* the class of the messages
          ob,       \* ob[o]: class, buffer, parent, obj_offset and length
          heap,     \* heap[r]: the buffer allocated for r, its state and content
          want,     \* history: what the program has put in the object of each buffer
          spoiled,  \* history: the buffers nobody knows the content of
          fault     \* a failed assertion or a second free, or "none"

vars == <<kind, ob, heap, want, spoiled, fault>>

Gone == [is |-> "gone", home |-> "none", up |-> "none", off |-> 0, len |-> 0]
Root(is, home, len) == [Gone EXCEPT !.is = is, !.home = home, !.len = len]

\* of_wire_buffer_new() and _new_bind(): alloc_bytes, and what is used of them.
Buffer(cells, alloc) == [st |-> "live", cells |-> cells, alloc |-> alloc]
NoBuffer == [st |-> "none", cells |-> <<>>, alloc |-> 0]
Empty == [first |-> <<>>, second |-> <<>>]

\* What the match holds that nobody has set.
Unset == <<Element(0, <<>>)>>

Init ==
    /\ kind \in MessageKinds
    /\ ob = [o \in Objects |-> Gone]
    /\ heap = [r \in Roots |-> NoBuffer]
    /\ want = [r \in Roots |-> Empty]
    /\ spoiled = {}
    /\ fault = "none"

Exists(o) == ob[o].is # "gone"
Cells(o) == heap[ob[o].home].cells
Content(o) == want[ob[o].home]

\* While the content of a buffer is not known, the program parses it and
\* gets rid of it before it does anything else.
Going == fault = "none" /\ spoiled = {}

\* An object the program may use: its buffer is still that of its message.
Usable(o) ==
    /\ Going
    /\ Exists(o) /\ ob[o].home \in Roots
    /\ heap[ob[o].home].st \in {"live", "taken"}
    /\ o \in Windows => ob[ob[o].up].is = "message" /\ ob[ob[o].up].home = ob[o].home

\* The windows on o are on moved cells, or on none: the program drops them.
WithoutWindows(objs, o) ==
    [p \in Objects |-> IF p \in Windows /\ objs[p].up = o THEN Gone ELSE objs[p]]
-----------------------------------------------------------------------------
(* Making messages and lists.                                               *)

\* What of_<class>_new() leaves in the buffer: the length of a match, not
\* its type.
Fresh ==
    [i \in 1..FixedLen(kind) |->
        IF i = 1 THEN Cell(0, FixedLen(kind))
        ELSE IF kind = "flow_mod" /\ i = LengthCell(kind) THEN Cell(0, 1)
        ELSE Blank]

New ==
    /\ ~Exists("msg") /\ heap["msg"] = NoBuffer /\ Going
    /\ ob' = [WithoutWindows(ob, "msg") EXCEPT !["msg"] = Root("message", "msg", FixedLen(kind))]
    /\ heap' = [heap EXCEPT !["msg"] = Buffer(Fresh, Alloc[kind])]
    /\ want' = [want EXCEPT !["msg"].first = IF kind = "flow_mod" THEN Unset ELSE <<>>]
    /\ UNCHANGED <<kind, spoiled, fault>>

ElementCells(e) == <<Cell(e.t, 1 + Len(e.body))>> \o e.body

\* A list made and filled by the program with one element or none.
NewList(es) ==
    /\ ~Exists("list") /\ heap["list"] = NoBuffer /\ Going
    /\ LET cells == FlattenSeq([i \in DOMAIN es |-> ElementCells(es[i])])
       IN  /\ ob' = [ob EXCEPT !["list"] = Root("list", "list", Len(cells))]
           /\ heap' = [heap EXCEPT !["list"] = Buffer(cells, Alloc[kind])]
    /\ want' = [want EXCEPT !["list"] = [Empty EXCEPT !.first = es]]
    /\ UNCHANGED <<kind, spoiled, fault>>
-----------------------------------------------------------------------------
(* Setting members.                                                         *)

\* A faulty variant: what follows the replaced cells stays where it is.
ReplaceInPlace(b, at, old, cells) ==
    [i \in 1..(Len(b) + Len(cells) - old) |->
        IF i \in at + 1..at + Len(cells) THEN cells[i - at]
        ELSE IF i <= Len(b) THEN b[i] ELSE Blank]

\* of_wire_buffer_replace_data()
Replace(b, at, old, cells) == Slice(b, 0, at) \o cells \o Slice(b, at + old, Len(b))

\* The length of the message is written to its header.
Lengthened(b, len) == [b EXCEPT ![1].n = len]

\* The end of a set accessor on message o, whose new buffer is b; delta goes
\* to the length of the object, which has no parent.  of_wire_buffer_replace_data()
\* does not look at what is allocated: that a match or a list fits is left to
\* the program.
Finish(o, b, delta, value) ==
    LET len == ob[o].len + delta
    IN  /\ Len(b) <= heap[ob[o].home].alloc
        /\ IF len = Len(b)
           THEN /\ heap' = [heap EXCEPT ![ob[o].home].cells = Lengthened(b, len)]
                /\ ob' = [WithoutWindows(ob, o) EXCEPT ![o].len = len]
                /\ want' = [want EXCEPT ![ob[o].home] = value]
                /\ UNCHANGED <<kind, spoiled, fault>>
           ELSE fault' = o /\ UNCHANGED <<kind, ob, heap, want, spoiled>>

\* The match set accessor: of_match_serialize() pads the result.
SetMatch(fields) ==
    LET cells == FlattenSeq([i \in DOMAIN fields |-> <<OxmHeader>> \o fields[i].body])
        match == <<Cell(MatchType, 1 + Len(cells))>> \o cells
        padded == match \o Blanks(Aligned(Len(match)) - Len(match))
        old == FirstLen(kind, Cells("msg"))
    IN  /\ Usable("msg") /\ kind = "flow_mod"
        /\ Finish("msg", Replace(Cells("msg"), FirstAt, old, padded), Len(padded) - old,
                  [Content("msg") EXCEPT !.first = fields])

\* The set accessor of the actions or the key, from a list of another buffer.
SetFirstList(l) ==
    LET old == FirstLen(kind, Cells("msg"))
        new == Cells(l)
        moved == Replace(Cells("msg"), FirstAt, old, new)
    IN  /\ Usable("msg") /\ Usable(l) /\ ob[l].is = "list" /\ kind # "flow_mod"
        /\ Finish("msg", [moved EXCEPT ![LengthCell(kind)].n = Len(new)], Len(new) - old,
                  [Content("msg") EXCEPT !.first = Content(l).first])

\* The set accessor of the last member, where that is a list.
SetSecondList(l) ==
    LET at == SecondAt(kind, Cells("msg"))
        old == SecondLen(kind, Cells("msg"), ob["msg"].len)
    IN  /\ Usable("msg") /\ Usable(l) /\ ob[l].is = "list" /\ kind # "packet_out"
        /\ Finish("msg", Replace(Cells("msg"), at, old, Cells(l)), Len(Cells(l)) - old,
                  [Content("msg") EXCEPT !.second = Content(l).first])

\* The set accessor of the packet: the new data must be as long as the old,
\* or the old empty, and of_wire_buffer_grow() asserts that it fits.
SetData(data) ==
    LET b == Cells("msg")
        at == SecondAt(kind, b)
        old == SecondLen(kind, b, ob["msg"].len)
        grown == b \o Blanks(at + Len(data) - old - Len(b))
    IN  /\ Usable("msg") /\ kind = "packet_out"
        /\ IF (old # 0 /\ old # Len(data)) \/ at + Len(data) - old > heap[ob["msg"].home].alloc
           THEN fault' = "msg" /\ UNCHANGED <<kind, ob, heap, want, spoiled>>
           ELSE Finish("msg", Replace(grown, at, Len(data), data), Len(data) - old,
                       [Content("msg") EXCEPT !.second = data])
-----------------------------------------------------------------------------
(* Windows.                                                                 *)

\* The bind accessors, where the member is a list.
Bind(o, w) ==
    /\ Usable(o) /\ ob[o].is = "message"
    /\ <<kind, w>> \notin {<<"flow_mod", "first">>, <<"packet_out", "second">>}
    /\ LET b == Cells(o)
           off == IF w = "first" THEN FirstAt ELSE SecondAt(kind, b)
           len == IF w = "first" THEN FirstLen(kind, b) ELSE SecondLen(kind, b, ob[o].len)
       IN  /\ len >= 0
           /\ ob' = [ob EXCEPT ![w] = [is |-> "list", home |-> ob[o].home, up |-> o,
                                       off |-> off, len |-> len]]
    /\ UNCHANGED <<kind, heap, want, spoiled, fault>>

\* A faulty variant: the room is that of the largest message.
CanGrowAnyway(w, len) == ob[w].off + len <= Alloc[kind]

\* of_object_can_grow()
CanGrow(w, len) == ob[w].off + len <= heap[ob[w].home].alloc

\* of_list_append() through a window.  Behind the first member the length
\* fields are not those of the window's parent, so they stay as they are.
AppendTo(w, e) ==
    LET o == ob[w].up
        b == Cells(w)
        cells == ElementCells(e)
        end == ob[w].off + ob[w].len
        grown == b \o Blanks(end + Len(cells) - Len(b))
        new == [i \in DOMAIN grown |-> IF i \in end + 1..end + Len(cells) THEN cells[i - end] ELSE grown[i]]
        len == ob[o].len + Len(cells)
    IN  /\ Usable(w)
        /\ CanGrow(w, ob[w].len + Len(cells))
        /\ IF Len(new) > heap[ob[w].home].alloc
           THEN fault' = "overrun" /\ UNCHANGED <<kind, ob, heap, want, spoiled>>
           ELSE IF len # Len(new)
           THEN fault' = w /\ UNCHANGED <<kind, ob, heap, want, spoiled>>
           ELSE /\ heap' = [heap EXCEPT ![ob[w].home].cells = Lengthened(new, len)]
                /\ ob' = [ob EXCEPT ![w].len = @ + Len(cells), ![o].len = len]
                /\ want' = [want EXCEPT ![ob[w].home].second = Append(@, e)]
                /\ spoiled' = IF w = "first" THEN spoiled \cup {ob[w].home} ELSE spoiled
                /\ UNCHANGED <<kind, fault>>
-----------------------------------------------------------------------------
(* Ownership.                                                               *)

\* of_object_dup(), of a message or of a list: the get accessor of a list
\* binds it and duplicates the window.  The buffer has no room to grow.
Dup(o) ==
    /\ Usable(o) /\ o # "copy"
    /\ ~Exists("copy") /\ heap["copy"] = NoBuffer
    /\ LET cells == Slice(Cells(o), ob[o].off, ob[o].off + ob[o].len)
       IN  /\ heap' = [heap EXCEPT !["copy"] = Buffer(cells, Len(cells))]
           /\ ob' = [WithoutWindows(ob, "copy") EXCEPT !["copy"] = Root(ob[o].is, "copy", Len(cells))]
    /\ want' = [want EXCEPT !["copy"] =
          IF o = "second" THEN [Empty EXCEPT !.first = Content(o).second]
          ELSE IF o = "first" THEN [Empty EXCEPT !.first = Content(o).first]
          ELSE Content(o)]
    /\ UNCHANGED <<kind, spoiled, fault>>

\* of_wire_buffer_free(), or the program is done with the bytes.
Release(r) ==
    /\ heap' = [heap EXCEPT ![r] = NoBuffer]
    /\ want' = [want EXCEPT ![r] = Empty]
    /\ spoiled' = spoiled \ {r}

\* The buffer of o is freed, if it has one.
FreeBufferOf(o) ==
    IF ob[o].home = "none" THEN UNCHANGED <<heap, want, spoiled, fault>>
    ELSE IF heap[ob[o].home].st = "live" THEN Release(ob[o].home) /\ UNCHANGED fault
    ELSE fault' = "double free" /\ UNCHANGED <<heap, want, spoiled>>

\* A faulty variant: the buffer is freed whatever the object's parent.
DeleteAll(o) ==
    /\ Exists(o) /\ fault = "none" /\ ob[o].up # "storage"
    /\ FreeBufferOf(o)
    /\ ob' = [WithoutWindows(ob, o) EXCEPT ![o] = Gone]
    /\ UNCHANGED kind

\* of_object_delete(): only an object without a parent frees its buffer.
Delete(o) ==
    /\ Exists(o) /\ fault = "none" /\ ob[o].up # "storage"
    /\ IF ob[o].up = "none" THEN FreeBufferOf(o) ELSE UNCHANGED <<heap, want, spoiled, fault>>
    /\ ob' = [WithoutWindows(ob, o) EXCEPT ![o] = Gone]
    /\ UNCHANGED kind

\* of_object_wire_buffer_steal(): the bytes are the program's.
Steal(o) ==
    /\ Usable(o) /\ o \in Roots /\ ob[o].is = "message" /\ ob[o].up = "none"
    /\ heap' = [heap EXCEPT ![ob[o].home].st = "taken"]
    /\ ob' = [WithoutWindows(ob, o) EXCEPT ![o].home = "none"]
    /\ UNCHANGED <<kind, want, spoiled, fault>>

\* The peer's bytes, which nothing has checked yet.
Receive ==
    /\ \A o \in Objects : ~Exists(o)
    /\ heap["msg"] = NoBuffer /\ Going
    /\ \E bytes \in Foreign[kind] :
          heap' = [heap EXCEPT !["msg"] = [Buffer(bytes, Len(bytes)) EXCEPT !.st = "taken"]]
    /\ spoiled' = {"msg"}
    /\ UNCHANGED <<kind, ob, want, fault>>

\* of_object_new_from_message(): a buffer that is not valid stays the
\* program's; the object owns one that is.
NewFromMessage(r) ==
    /\ heap[r].st = "taken" /\ fault = "none" /\ ~Exists("copy")
    /\ Validated(kind, heap[r].cells)
    /\ heap' = [heap EXCEPT ![r] = Buffer(heap[r].cells, Len(heap[r].cells))]
    /\ ob' = [WithoutWindows(ob, "copy") EXCEPT !["copy"] = Root("message", r, Len(heap[r].cells))]
    /\ UNCHANGED <<kind, want, spoiled, fault>>

\* of_object_new_from_message_preallocated(): object and wire buffer are in
\* storage of the program, and the bytes stay its own.
NewPreallocated(r) ==
    /\ heap[r].st = "taken" /\ fault = "none" /\ ~Exists("copy")
    /\ Validated(kind, heap[r].cells)
    /\ heap' = [heap EXCEPT ![r].alloc = Len(heap[r].cells)]
    /\ ob' = [WithoutWindows(ob, "copy") EXCEPT
                 !["copy"] = [Root("message", r, Len(heap[r].cells)) EXCEPT !.up = "storage"]]
    /\ UNCHANGED <<kind, want, spoiled, fault>>

\* The program is done with the storage, or with the bytes.
DropStorage ==
    /\ Exists("copy") /\ ob["copy"].up = "storage" /\ fault = "none"
    /\ ob' = [WithoutWindows(ob, "copy") EXCEPT !["copy"] = Gone]
    /\ UNCHANGED <<kind, heap, want, spoiled, fault>>

FreeBytes(r) ==
    /\ heap[r].st = "taken" /\ fault = "none"
    /\ ob["copy"].up # "storage"
    /\ Release(r)
    /\ UNCHANGED <<kind, ob, fault>>
-----------------------------------------------------------------------------
Next ==
    \/ New
    \/ \E es \in {<<>>} \cup {<<e>> : e \in Elements} : NewList(es)
    \/ \E fields \in Matches : SetMatch(fields)
    \/ \E l \in {"list", "copy"} : SetFirstList(l) \/ SetSecondList(l)
    \/ \E data \in Packets : SetData(data)
    \/ \E o \in {"msg", "copy"}, w \in Windows : Bind(o, w)
    \/ \E w \in Windows, e \in Elements : AppendTo(w, e)
    \/ \E o \in Objects : Dup(o) \/ Delete(o) \/ Steal(o)
    \/ Receive
    \/ \E r \in {"msg", "copy"} : NewFromMessage(r) \/ NewPreallocated(r) \/ FreeBytes(r)
    \/ DropStorage

Spec == Init /\ [][Next]_vars
=============================================================================

------------------------------ MODULE Dispatch ------------------------------
(***************************************************************************)
(* Which class the Python and the Java library take a message for.  The    *)
(* classes of a version are a sequence in which a class comes after its    *)
(* superclass, and what a message says of its class is a function from     *)
(* <<offset, length>> to the value of the type member there.  The readers  *)
(* give, for every class, what a message is taken for that they start to   *)
(* read as that class.                                                     *)
(***************************************************************************)
EXTENDS Integers, Sequences, SequencesExt

Refused == "refused"
NoValue == -1

TypeMembers(c) == {m \in ToSet(c.members) : m.kind = "type"}
Discriminators(c) == {m \in ToSet(c.members) : m.kind = "disc"}
Discriminator(c) == CHOOSE m \in Discriminators(c) : TRUE

Place(m) == <<m.offset, m.length>>

\* What the type members of a class say.
TypeCells(c) ==
    [p \in {Place(m) : m \in TypeMembers(c)} |-> (CHOOSE m \in TypeMembers(c) : Place(m) = p).value]

CellAt(cells, p) == IF p \in DOMAIN cells THEN cells[p] ELSE NoValue

\* The subclasses of a virtual class whose type member of the
\* discriminator's name has the value that the message has.
SubclassesFor(cs, c, cells) ==
    LET disc == Discriminator(c)
    IN  {i \in DOMAIN cs :
            /\ cs[i].super = c.name
            /\ \E m \in TypeMembers(cs[i]) :
                  m.name = disc.name /\ m.value = CellAt(cells, Place(disc))}

\* A subclass registers with its superclass when it is defined: the last
\* one has the value.  A value nobody registered leaves an object of the
\* virtual class.
PythonClass(cs, cells) ==
    LET f[i \in DOMAIN cs] ==
            LET subs == IF cs[i].virtual THEN SubclassesFor(cs, cs[i], cells) ELSE {}
            IN  IF subs = {} THEN cs[i].name ELSE f[CHOOSE j \in subs : \A k \in subs : k <= j]
    IN  f

\* A reader checks the fixed values; that of a virtual class returns at the
\* discriminator, and what follows is checked by the reader of the subclass.
JavaChecks(c, cells) ==
    \A m \in TypeMembers(c) :
        \/ CellAt(cells, Place(m)) = m.value
        \/ c.virtual /\ m.offset > Discriminator(c).offset

\* A value that no subclass has is refused.
JavaClass(cs, cells) ==
    LET f[i \in DOMAIN cs] ==
            LET subs == IF cs[i].virtual THEN SubclassesFor(cs, cs[i], cells) ELSE {}
            IN  IF ~JavaChecks(cs[i], cells) THEN Refused
                ELSE IF ~cs[i].virtual THEN cs[i].name
                ELSE IF subs = {} THEN Refused ELSE f[CHOOSE j \in subs : TRUE]
    IN  f

\* A class is entered in the table of its superclass when the script is
\* loaded: the last one has the value.  A value that is not in the
\* table is an error.
WiresharkClass(cs, cells) ==
    LET f[i \in DOMAIN cs] ==
            LET subs == IF cs[i].virtual THEN SubclassesFor(cs, cs[i], cells) ELSE {}
            IN  IF ~cs[i].virtual THEN cs[i].name
                ELSE IF subs = {} THEN Refused ELSE f[CHOOSE j \in subs : \A k \in subs : k <= j]
    IN  f
=============================================================================

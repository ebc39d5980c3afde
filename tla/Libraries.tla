------------------------------ MODULE Libraries -----------------------------
(***************************************************************************)
(* The libraries generated from one set of input files exchange messages:  *)
(* the versions are unified, the tables of the C library are made, and an  *)
(* object that one library has written is then read, and written again, by *)
(* any of them.  A message is what it says of its class, and the octets of *)
(* its data members by <<offset, length>>.  Its members are of fixed       *)
(* length: plain types or structs, whose octets are not looked into.       *)
(***************************************************************************)
EXTENDS JavaModel, EnumTables, FiniteSetsExt

CONSTANTS LaidOut,       \* the protocols whose offsets build_protocol() has calculated
          Exchanged,     \* those of them whose messages are exchanged
          Samples(_, _)  \* octets of some values of a type in a version

VARIABLES wire,   \* the message on the wire: [version, cells, data]
          sent,   \* what was written first: [version, root, class, data]
          taken   \* the class a library has taken it for

exchangeVars == <<wire, sent, taken>>
vars == <<unifyVars, tableVars, exchangeVars>>

Libs == {"C", "Python", "Java"}
NoMessage == [version |-> 0]
Nobody == [lib \in Libs |-> "nobody"]

Init == InitUnify /\ InitTables /\ wire = NoMessage /\ sent = NoMessage /\ taken = Nobody

DataMembers(c) == {m \in ToSet(c.members) : m.kind = "data"}
IsStruct(v, t) == InVersion(t, v)
JavaOf(c, m) == JavaTypeOf(c.name, m.name, m.type)

\* Whether a library has nothing to read and write a member with.
Lacks(lib, v, c, m) ==
    /\ ~IsStruct(v, m.type)
    /\ \/ lib = "Python" /\ m.type \in PythonLacks
       \/ lib = "Java" /\ JavaLacks(JavaOf(c, m))

\* Where a library finds a member, and how many octets it reads there.
PlaceIn(lib, v, c, m) ==
    LET accessor == AccessorOf(c.name, m.name, v)
        width(plain) == IF IsStruct(v, m.type) THEN ClassAt(m.type, v).base ELSE plain
    IN  CASE lib = "C" -> <<accessor.offset,
                            IF IsStruct(v, m.type) THEN accessor.length ELSE LociWidth(m.type, v)>>
          [] lib = "Python" -> <<m.offset, width(PythonWidth(m.type, v))>>
          [] lib = "Java" -> <<m.offset, width(JavaWidth(JavaOf(c, m), v))>>

\* The members that the dissector has no function for: a struct has one
\* only if it is written by hand.
Undissected(v, c) == {m \in ToSet(c.members) : IsStruct(v, m.type) \/ m.type \in WiresharkLacks}

\* Where the dissector shows a member: it reads one after the other, and
\* skips the octets between them.
ShownAt(v, c, m) ==
    LET width(n) == WiresharkWidth(n.type, v)
        before == {n \in ToSet(c.members) : n.offset < m.offset}
    IN  <<m.offset + MapThenSumSet(LAMBDA n : width(n) - n.length, before), width(m)>>

\* The value that a library has for octets, written again.
Rewritten(lib, v, c, m, s) ==
    IF IsStruct(v, m.type) THEN s
    ELSE CASE lib = "C" -> LociSet(m.type, v, LociGet(m.type, v, s))
           [] lib = "Python" -> PythonSet(m.type, v, PythonGet(m.type, v, s))
           [] lib = "Java" -> JavaSet(JavaOf(c, m), v, JavaGet(JavaOf(c, m), v, s))

\* Whether a library has a value for octets.
Handles(lib, v, c, m, s) ==
    /\ ~Lacks(lib, v, c, m)
    /\ lib = "Java" => ~JavaRefuses(JavaOf(c, m), v, s)

\* The classes one starts to read: those without a superclass.
RootOf(cs, name) ==
    LET f[i \in DOMAIN cs] == IF cs[i].super = NoClass THEN cs[i].name ELSE f[IndexOf(cs, cs[i].super)]
    IN  f[IndexOf(cs, name)]

ClassTaken(lib, v, root, cells) ==
    LET cs == protocols[v].classes
        i == IndexOf(cs, root)
    IN  CASE lib = "C" -> WireObjectId(v, cells)[i]
          [] lib = "Python" -> PythonClass(cs, cells)[i]
          [] lib = "Java" -> JavaClass(cs, cells)[i]

CellsOf(lib, v, c) == IF lib = "C" THEN PushWireTypes(c.name, v) ELSE TypeCells(c)

Ready == tables = "made" /\ protocols \in Exchanged /\ ~NoDiscriminator

\* The octets of a value for every data member, which take the samples of
\* their types in turn.
Contents(v, c) ==
    LET octets(m) == IF IsStruct(v, m.type) THEN <<[i \in 1..ClassAt(m.type, v).base |-> i % 256]>>
                     ELSE Samples(m.type, v)
        turn(m, k) == (k + IndexOf(c.members, m.name)) % Len(octets(m))
        member(name) == Named(c.members, name)
    IN  {[name \in {m.name : m \in DataMembers(c)} |-> octets(member(name))[1 + turn(member(name), k)]] :
            k \in 1..Max({1} \cup {Len(octets(m)) : m \in DataMembers(c)})}

\* A library makes an object of a class and writes it.
Write(lib) ==
    /\ wire = NoMessage /\ Ready
    /\ \E v \in DOMAIN protocols : \E c \in ToSet(protocols[v].classes) : \E data \in Contents(v, c) :
        /\ ~c.virtual /\ ~UnifiedVirtual(c.name)
        /\ \A m \in DataMembers(c) : Handles(lib, v, c, m, data[m.name])
        /\ wire' = [version |-> v, cells |-> CellsOf(lib, v, c),
                    data |-> {<<PlaceIn(lib, v, c, m), Rewritten(lib, v, c, m, data[m.name])>> :
                                 m \in DataMembers(c)}]
        /\ sent' = [version |-> v, root |-> RootOf(protocols[v].classes, c.name), class |-> c.name,
                    data |-> {<<Place(m), data[m.name]>> : m \in DataMembers(c)}]
    /\ UNCHANGED <<unifyVars, tableVars, taken>>

Foreign == "foreign"

\* Another implementation sends an object of a class of a later version, or
\* of one that is not in the input: the places are those of some class, and
\* one value is another one.
WriteForeign ==
    /\ wire = NoMessage /\ Ready
    /\ \E v \in DOMAIN protocols : \E c \in ToSet(protocols[v].classes) :
        /\ DataMembers(c) = {}
        /\ \E p \in DOMAIN TypeCells(c), value \in {m.value : m \in UNION {TypeMembers(d) : d \in AllClasses}} :
            /\ wire' = [version |-> v, cells |-> [TypeCells(c) EXCEPT ![p] = value], data |-> {}]
            /\ sent' = [version |-> v, root |-> RootOf(protocols[v].classes, c.name),
                        class |-> Foreign, data |-> {}]
    /\ UNCHANGED <<unifyVars, tableVars, taken>>

\* A library reads the message and writes the object that it got.  What it
\* does not read as a class of its own it leaves alone.
Echo(lib) ==
    /\ wire # NoMessage
    /\ LET v == wire.version
           name == ClassTaken(lib, v, sent.root, wire.cells)
           c == ClassAt(name, v)
           octets(m) == {d[2] : d \in {e \in wire.data : e[1] = PlaceIn(lib, v, c, m)}}
           handled == \A m \in DataMembers(c) :
               ~Lacks(lib, v, c, m) /\ \A s \in octets(m) : Handles(lib, v, c, m, s)
       IN  /\ taken' = [taken EXCEPT ![lib] = IF name = Refused \/ handled THEN name ELSE Refused]
           /\ IF name = Refused \/ ~handled \/ c.virtual THEN UNCHANGED wire
              ELSE wire' = [version |-> v, cells |-> CellsOf(lib, v, c),
                            data |-> UNION {{<<PlaceIn(lib, v, c, m), Rewritten(lib, v, c, m, s)>> :
                                                s \in octets(m)} : m \in DataMembers(c)}]
    /\ UNCHANGED <<unifyVars, tableVars, sent>>

Next ==
    \/ Unify /\ UNCHANGED <<tableVars, exchangeVars>>
    \/ MakeTables /\ UNCHANGED exchangeVars
    \/ \E lib \in Libs : Write(lib) \/ Echo(lib)
    \/ WriteForeign

Spec == Init /\ [][Next]_vars
-----------------------------------------------------------------------------
(* Properties.                                                              *)

\* An entry of an enum has the value of the input in every version, in the C
\* library by version and, if that has it, without a version in the Java
\* library, which takes only an enum that is as stable in all versions.
EnumsAgree ==
    outcome = "done" /\ wire = NoMessage => \A enum \in NamesOf(enumSpecs) : \A name \in EntryNames(protocols, enum) :
        LET values == ValuesByVersion(protocols, enum, name)
        IN  /\ name \in NamesOf(Named(enumSpecs, enum).entries)
            /\ \A v \in DOMAIN protocols :
                  Supported(protocols, enum, name, v) <=> Defines(protocols, enum, name, v)
            /\ \A v \in DOMAIN values :
                  /\ ByVersion(protocols, enum, name, v) = values[v]
                  /\ ~JavaRejects(protocols) /\ JavaStable(protocols, enum) =>
                         StableValue(protocols, enum, name) = values[v]

\* The tables of the C library have one type for a member of all versions and
\* find every member where the input has it, and the length of every object
\* where its class keeps it: the last octet of the header of an OXM, or the
\* class's own length if it has no length member.
TablesTrue ==
    tables = "made" /\ wire = NoMessage /\ protocols \in LaidOut =>
        \A v \in DOMAIN protocols : \A c \in ToSet(protocols[v].classes) :
            LET place == WireLengthPlace(c.name, v)
                lengths == {Place(m) : m \in {n \in ToSet(c.members) : n.kind = "length"}}
            IN  /\ \A m \in DataMembers(c) : union[<<c.name, m.name>>] = LegacyType(v, m.type)
                /\ \A m \in DataMembers(c) : LET a == AccessorOf(c.name, m.name, v)
                                             IN  <<a.offset, a.length>> = Place(m)
                /\ OxmRoot \notin Lineage(c.name) => lengths = IF place = <<>> THEN {} ELSE {place}
                /\ place = <<>> /\ ~c.virtual => c.fixed
                /\ OxmRoot \in Lineage(c.name) /\ ~c.virtual => \E m \in TypeMembers(c) :
                       Place(m) = <<0, 4>> /\ m.value % 256 = c.base - 4

\* What a Java interface declares without an exception, its class of every
\* version has.  A member of a version can be got from its class and set in
\* its builder, but for the version and what the generator is told to leave
\* out, and what can be set in the builder of a superclass can be set in that
\* of a class that has it.  The factory methods that are declared without an
\* exception make an object in every version.
InterfacesKept ==
    outcome = "done" /\ tables = "none" => \A i \in NamesOf(unified) : ~TypesClash(i) =>
        /\ \A p \in InterfaceProperties(i) : \A v \in VersionsWith(i) :
              /\ Universal(i, p) => Gets(v, i, p)
              /\ p.kind = "data" /\ p.cname \in NamesOf(ClassAt(i, v).members) =>
                     /\ Gets(v, i, p)
                     /\ Sets(v, i, p) \/ p.name = "version" \/ <<i, p.name>> \in WriteBlacklist
              /\ \A j \in Lineage(i) : \A q \in InterfaceProperties(j) :
                     q.name = p.name /\ Writeable(j, q) => NeedsSetter(i, p)
        /\ \A v \in DOMAIN protocols : ~FactoryDeclares(i) => Makes(v, i)

\* The class that the dissector shows the message as.
ShownClass ==
    LET cs == protocols[sent.version].classes
        name == WiresharkClass(cs, wire.cells)[IndexOf(cs, sent.root)]
    IN  IF name # Refused /\ Undissected(sent.version, ClassAt(name, sent.version)) # {} THEN Refused ELSE name

\* An object is read as one of the class it was written as, by every library
\* that has its values; what another implementation has sent the C and the
\* Python library take for the same class, and the Java library too, unless
\* it refuses it.  It takes nothing for a virtual class.  The dissector shows
\* what is on the wire as of that class, if it has functions for its members
\* and for the class.
SameClass ==
    LET v == sent.version
        reads == {lib \in Libs : taken[lib] # "nobody"}
        lacks(lib, c) == \E m \in DataMembers(c) : \E d \in sent.data :
                             d[1] = Place(m) /\ ~Handles(lib, v, c, m, d[2])
    IN  sent # NoMessage =>
            IF sent.class # Foreign
            THEN /\ \A lib \in reads :
                        taken[lib] = IF lacks(lib, ClassAt(sent.class, v)) THEN Refused ELSE sent.class
                 /\ Undissected(v, ClassAt(sent.class, v)) = {} => ShownClass = sent.class
            ELSE /\ \A lib \in reads, other \in reads \ {"Java"} :
                       \/ taken[lib] = taken[other]
                       \/ lib = "Java" /\ taken[lib] = Refused
                 /\ taken["Java"] \notin {"nobody", Refused} => ~ClassAt(taken["Java"], v).virtual
                 /\ taken["C"] # "nobody" => ShownClass \in {taken["C"], Refused}

\* Whoever has written an object and whoever has read it and written it
\* again, the octets of all its members are those it was made of, or mean the
\* same; and those are what the dissector shows.
SameValues ==
    LET v == sent.version
        c == ClassAt(sent.class, v)
        said(data, m) == {Meaning(JavaOf(c, m), v, d[2]) : d \in {e \in data : e[1] = Place(m)}}
    IN  /\ sent # NoMessage /\ sent.class # Foreign =>
               /\ {d[1] : d \in wire.data} = {d[1] : d \in sent.data}
               /\ \A m \in DataMembers(c) : said(wire.data, m) = said(sent.data, m)
        /\ sent # NoMessage /\ ShownClass # Refused =>
               \A m \in DataMembers(ClassAt(ShownClass, v)) :
                   ShownAt(v, ClassAt(ShownClass, v), m) = Place(m)
=============================================================================

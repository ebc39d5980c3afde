---------------------------- MODULE BuildProtocol ----------------------------
(***************************************************************************)
(* build_protocol(): from the classes of the input files of one version to *)
(* the intermediate representation of that version.                        *)
(*                                                                         *)
(* build_class() is a recursive function that builds the superclass and    *)
(* the classes of the members first; its calls are the frames of a stack,  *)
(* whose bottom is the loop over all class names in sorted order.  A frame *)
(* lists what it still has to do before its own class is built.            *)
(*                                                                         *)
(* A member is [kind, name, type, count]: count is that of an array, or    *)
(* the length of a pad.  A type is the name of a class, a plain type, or a *)
(* mixed type, which stands for another type in every version.  Enums, the *)
(* scalars, lists, octets and pads are plain types.                        *)
(***************************************************************************)
EXTENDS Integers, Sequences, SequencesExt, FiniteSets

CONSTANTS Sorted,     \* the class names in sorted order
          Roots,      \* classes whose subclasses get an ID class
          IdName,     \* IdName[n]: the name of the ID class of class n
          Versions,   \* wire versions
          Inputs,     \* sequences of class declarations, as read from the files
          NoClass,       \* no superclass
          BasicLength,   \* BasicLength[t]: bytes and fixed of a plain type t
          Mixed          \* Mixed[t][v]: the type that t is in version v

Names == {Sorted[i] : i \in DOMAIN Sorted}

\* The bottom frame of the stack, which builds no class.
Main == "main"

IdNames == {IdName[n] : n \in Names}

\* The type that a mixed type stands for in a version.
Base(t, v) == IF t \in DOMAIN Mixed THEN Mixed[t][v] ELSE t

-----------------------------------------------------------------------------
(* Lengths and offsets of the members of a class (ir_offset.py).            *)

NoOffset == -1

RoundUp(n) == ((n + 7) \div 8) * 8

\* A faulty variant: the padding behind an aligned class is left out.
MemberLengthUnaligned(v, m, existing) ==
    LET base == Base(m.type, v)
    IN  IF base \in DOMAIN existing
        THEN [known |-> TRUE, bytes |-> m.count * existing[base].base,
              fixed |-> existing[base].fixed]
        ELSE IF base \in DOMAIN BasicLength
        THEN [known |-> TRUE, bytes |-> m.count * BasicLength[base].bytes,
              fixed |-> BasicLength[base].fixed]
        ELSE [known |-> FALSE, bytes |-> 0, fixed |-> TRUE]

\* member_length(): a class built already goes before a plain type of the
\* same name; a type that is neither is unknown.
MemberLength(v, m, existing) ==
    LET base == Base(m.type, v)
        length(bytes, fixed) == [known |-> TRUE, bytes |-> m.count * bytes, fixed |-> fixed]
    IN  IF base \in DOMAIN existing
        THEN LET c == existing[base]
             IN  length(IF c.aligned THEN RoundUp(c.base) ELSE c.base, c.fixed)
        ELSE IF base \in DOMAIN BasicLength
        THEN length(BasicLength[base].bytes, BasicLength[base].fixed)
        ELSE [known |-> FALSE, bytes |-> 0, fixed |-> TRUE]

\* The offsets of n members, and their end.
Offsets(n, lengths) ==
    LET offset[i \in 1..n + 1] == IF i = 1 THEN 0 ELSE offset[i - 1] + lengths[i - 1].bytes
    IN  offset

\* calc_lengths(), given the lengths of the members: a member has an offset if
\* all before it have a fixed length.  The dictionary of the members' offsets
\* is keyed by the members' values, so that of two equal members the last
\* one's offset is kept.
LayOut(members, virtual, lengths) ==
    LET offset == Offsets(Len(members), lengths)
        fixed(i) == \A j \in 1..i - 1 : lengths[j].fixed
        last(m) == CHOOSE j \in DOMAIN members :
                       members[j] = m /\ \A k \in j + 1..Len(members) : members[k] # m
    IN  [known |-> \A i \in DOMAIN members : lengths[i].known,
         base |-> offset[Len(members) + 1],
         fixed |-> fixed(Len(members) + 1) /\ ~virtual,
         offsets |-> [i \in DOMAIN members |->
                         LET at == last(members[i]) IN IF fixed(at) THEN offset[at] ELSE NoOffset]]

CalcLengths(v, members, virtual, existing) ==
    LayOut(members, virtual, [i \in DOMAIN members |-> MemberLength(v, members[i], existing)])
-----------------------------------------------------------------------------
(* What the files hold.                                                     *)

\* The types of what tells classes and versions apart, and of lengths: plain
\* types of fixed length.
Scalars ==
    {t \in DOMAIN Mixed \cup DOMAIN BasicLength : \A v \in Versions :
        Base(t, v) \in DOMAIN BasicLength \ (Names \cup IdNames) /\ BasicLength[Base(t, v)].fixed}

\* A member as the parser tags it.  No file has an array of a class that is in
\* the table of plain types.
Tagged(m) ==
    /\ DOMAIN m = {"kind", "name", "type", "count"}
    /\ m.count # 1 => m.type \notin Names \cap DOMAIN BasicLength
    /\ m.kind \notin {"data", "pad"} \/ m.name \in {"length", "len", "version"} => m.type \in Scalars

\* A class that depends on no other.
StandsAlone(d) == d.super = NoClass /\ \A m \in ToSet(d.members) : m.type \notin Names

\* A class that is in the table of plain types, since a mixed type stands for
\* it, has plain members, and the length that the table gives it.
Measured(d) ==
    \A v \in Versions :
        d.name \in DOMAIN BasicLength /\ (\E t \in DOMAIN Mixed : Mixed[t][v] = d.name) =>
            LET lengths == CalcLengths(v, d.members, d.virtual, <<>>)
            IN  /\ ~d.virtual
                /\ \A m \in ToSet(d.members) :
                      /\ m.kind # "discriminator"
                      /\ Base(m.type, v) \in DOMAIN BasicLength \ (Names \cup IdNames)
                /\ BasicLength[d.name] =
                      [bytes |-> IF d.aligned THEN RoundUp(lengths.base) ELSE lengths.base,
                       fixed |-> lengths.fixed]

\* What the files hold: no class depends on an ID class, and a struct with the
\* name of one (of_action_id, of_instruction_id) on nothing; a superclass of
\* a root would have an ID class with a garbled name.
Declared(d) ==
    /\ d.name \in Names /\ d.super \notin IdNames
    /\ d.name \in Roots => d.super = NoClass
    /\ d.name \in IdNames => StandsAlone(d)
    /\ d.members \in Seq(ToSet(d.members))
    /\ \A m \in ToSet(d.members) : Tagged(m) /\ m.type \notin IdNames
    /\ Measured(d)

Declares(ds) == ds \in Seq(ToSet(ds)) /\ \A i \in DOMAIN ds : Declared(ds[i])

\* No two ID classes have the same name, and a class only has that of the ID
\* class of a root, which is longer than the root's and sorted behind it.
ASSUME BuildAssumption ==
    /\ Sorted \in Seq(Names)
    /\ Roots \subseteq Names /\ DOMAIN IdName = Names /\ {Main, NoClass} \cap Names = {}
    /\ \A m, n \in Names : IdName[m] = IdName[n] => m = n
    /\ \A i, j \in DOMAIN Sorted : Sorted[j] = IdName[Sorted[i]] => i < j /\ Sorted[i] \in Roots
    /\ \A t \in DOMAIN Mixed, v \in Versions : Mixed[t][v] \notin IdNames
    /\ \A ds \in Inputs : Declares(ds)

VARIABLES version, decls,   \* the input
          frontend,         \* name_frontend_classes: class name -> declaration
          stack,            \* calls of build_class, the main loop first
          classes,          \* name_classes, in the order of insertion
          outcome           \* "running", "done" or the error

vars == <<version, decls, frontend, stack, classes, outcome>>

-----------------------------------------------------------------------------
(* Building the classes.                                                    *)

Build(n) == [op |-> "class", name |-> n]
BuildId(n) == [op |-> "id", name |-> n]

ClassNames(cs) == {cs[i].name : i \in DOMAIN cs}
ClassMap(cs) == [n \in ClassNames(cs) |-> cs[CHOOSE i \in DOMAIN cs : cs[i].name = n]]

\* build_touch_classes
Touched(s) == {s[i].name : i \in 2..Len(s)}

Init ==
    /\ version \in Versions
    /\ decls \in Inputs
    /\ frontend = <<>>
    /\ stack = <<>>
    /\ classes = <<>>
    /\ outcome = "running"

Running == outcome = "running"

Fail(error) == outcome' = error /\ UNCHANGED <<version, decls, frontend, stack, classes>>
-----------------------------------------------------------------------------
(* Collecting the declarations of all files.                                *)

Collected == Cardinality(DOMAIN frontend)

Collect ==
    /\ Running /\ stack = <<>> /\ Collected < Len(decls)
    /\ LET d == decls[Collected + 1]
       IN  IF d.name \in DOMAIN frontend
           THEN Fail("redefined")
           ELSE /\ frontend' = [n \in DOMAIN frontend \cup {d.name} |->
                                   IF n = d.name THEN d ELSE frontend[n]]
                /\ UNCHANGED <<version, decls, stack, classes, outcome>>

\* The main loop: every class and then its ID class, in sorted order.
Start ==
    /\ Running /\ stack = <<>> /\ Collected = Len(decls)
    /\ LET calls(n) == IF n \in DOMAIN frontend THEN <<Build(n), BuildId(n)>> ELSE <<>>
       IN  stack' = <<[name |-> Main, todo |-> FlattenSeq([i \in DOMAIN Sorted |-> calls(Sorted[i])])]>>
    /\ UNCHANGED <<version, decls, frontend, classes, outcome>>
-----------------------------------------------------------------------------
(* Calls of build_class.                                                    *)

\* The next call of the innermost frame, and the stack without it.
Calls(op) == Running /\ stack # <<>> /\ Last(stack).todo # <<>> /\ Head(Last(stack).todo).op = op
Called == Head(Last(stack).todo).name
Popped == [stack EXCEPT ![Len(stack)].todo = Tail(@)]

\* A faulty variant: the classes of the members are not built first.
NeedsSuper(d) == IF d.super = NoClass THEN <<>> ELSE <<Build(d.super)>>

\* The superclass, and every member whose type is the name of a class: that
\* of an array or a mixed type is not.
Needs(d) ==
    LET super == IF d.super = NoClass THEN <<>> ELSE <<Build(d.super)>>
        calls(m) == IF m.count = 1 /\ m.type \in DOMAIN frontend THEN <<Build(m.type)>> ELSE <<>>
    IN  super \o FlattenSeq([i \in DOMAIN d.members |-> calls(d.members[i])])

\* A faulty variant: the caller makes the same call again.
ReuseAgain ==
    /\ Calls("class") /\ Called \in ClassNames(classes)
    /\ UNCHANGED <<version, decls, frontend, stack, classes, outcome>>

Reuse ==
    /\ Calls("class") /\ Called \in ClassNames(classes)
    /\ stack' = Popped
    /\ UNCHANGED <<version, decls, frontend, classes, outcome>>

Cycle ==
    /\ Calls("class") /\ Called \notin ClassNames(classes) /\ Called \in Touched(stack)
    /\ Fail("cycle")

NotFound ==
    /\ Calls("class") /\ Called \notin ClassNames(classes) \cup Touched(stack)
    /\ Called \notin DOMAIN frontend
    /\ Fail("notfound")

Enter ==
    /\ Calls("class") /\ Called \notin ClassNames(classes) \cup Touched(stack)
    /\ Called \in DOMAIN frontend
    /\ stack' = Append(Popped, [name |-> Called, todo |-> Needs(frontend[Called])])
    /\ UNCHANGED <<version, decls, frontend, classes, outcome>>

NewClass(name, super, virtual, aligned, members, cs) ==
    LET lengths == CalcLengths(version, members, virtual, ClassMap(cs))
    IN  [name |-> name, super |-> super, virtual |-> virtual, aligned |-> aligned,
         members |-> members, base |-> lengths.base, fixed |-> lengths.fixed, offsets |-> lengths.offsets]

Known(d) == CalcLengths(version, d.members, d.virtual, ClassMap(classes)).known

\* The end of a call of build_class: all it depends on is built.
Finish ==
    /\ Running /\ Len(stack) > 1 /\ Last(stack).todo = <<>>
    /\ LET d == frontend[Last(stack).name]
       IN  IF Known(d)
           THEN /\ classes' = Append(classes,
                       NewClass(d.name, d.super, d.virtual, d.aligned, d.members, classes))
                /\ stack' = Front(stack)
                /\ UNCHANGED <<version, decls, frontend, outcome>>
           ELSE Fail("unknowntype")
-----------------------------------------------------------------------------
(* ID classes.                                                              *)

\* n and its superclasses: what every set of classes has that has n and
\* their superclasses.
Lineage(n) ==
    LET upward(ns) == \A k \in ns : frontend[k].super \in ns \cup {NoClass}
    IN  {k \in DOMAIN frontend :
            \A ns \in SUBSET DOMAIN frontend : n \in ns /\ upward(ns) => k \in ns}

\* A faulty variant: only the direct subclasses of a root count.
IsRootedDirect(n) == n \in Roots \/ frontend[n].super \in Roots

\* is_instanceof() for one of the roots.
IsRooted(n) == Lineage(n) \cap Roots # {}

\* An ID class keeps what tells the classes apart, never data.
IdMembers(d) ==
    LET kept(m) == IF m.kind \in {"data", "pad"} THEN <<>> ELSE <<m>>
    IN  FlattenSeq([i \in DOMAIN d.members |-> kept(d.members[i])])

IdClass(n, cs) ==
    LET d == frontend[n]
        super == IF d.super = NoClass THEN NoClass ELSE IdName[d.super]
    IN  NewClass(IdName[n], super, d.virtual, FALSE, IdMembers(d), cs)

\* build_id_class() recurs to the superclass, unless its ID class exists.
MissingId(n) ==
    LET has(k) == IdName[k] \in ClassNames(classes)
    IN  CHOOSE k \in Lineage(n) :
            ~has(k) /\ (frontend[k].super = NoClass \/ has(frontend[k].super))

NeedsId(n) == version >= 4 /\ IsRooted(n) /\ IdName[n] \notin ClassNames(classes)

BuildIdClass ==
    /\ Calls("id") /\ NeedsId(Called)
    /\ \E n \in {MissingId(Called)} : classes' = Append(classes, IdClass(n, classes))
    /\ UNCHANGED <<version, decls, frontend, stack, outcome>>

NextName ==
    /\ Calls("id") /\ ~NeedsId(Called)
    /\ stack' = Popped
    /\ UNCHANGED <<version, decls, frontend, classes, outcome>>

Done ==
    /\ Running /\ Len(stack) = 1 /\ stack[1].todo = <<>>
    /\ outcome' = "done"
    /\ UNCHANGED <<version, decls, frontend, stack, classes>>

Next ==
    \/ Collect \/ Start
    \/ Reuse \/ Cycle \/ NotFound \/ Enter \/ Finish
    \/ BuildIdClass \/ NextName
    \/ Done

Spec == Init /\ [][Next]_vars /\ WF_vars(Next)
-----------------------------------------------------------------------------
DependsOn(d) ==
    {n \in DOMAIN frontend : n = d.super \/ \E i \in DOMAIN d.members :
                                d.members[i].type = n /\ d.members[i].count = 1}

\* At any time, a class comes after its superclass and after the classes it
\* embeds, which the generators rely on when they go through the protocol.
DependenciesFirst ==
    \A i \in DOMAIN classes :
        LET before == ClassNames(SubSeq(classes, 1, i - 1))
            c == classes[i]
        IN  /\ c.name \notin before
            /\ c.super # NoClass => c.super \in before
            /\ c.name \in DOMAIN frontend => DependsOn(frontend[c.name]) \subseteq before

\* From version 1.3 on, actions and instructions have ID classes.
HasId == {n \in DOMAIN frontend : version >= 4 /\ Lineage(n) \cap Roots # {}}

\* Every class of the files has its class, and every action has an ID class,
\* which is below that of the action's superclass, has what tells the action
\* apart even if the files declare a struct of its name, and is of fixed
\* length, as build_id_class() asserts.
IdClassesMirror ==
    /\ \A c \in ToSet(classes) : c.name \in {IdName[n] : n \in HasId} => c.virtual \/ c.fixed
    /\ outcome = "done" =>
        /\ ClassNames(classes) = DOMAIN frontend \cup {IdName[n] : n \in HasId}
        /\ \A n \in HasId :
              LET c == ClassMap(classes)[IdName[n]]
                  d == frontend[n]
              IN  /\ c.super = IF d.super = NoClass THEN NoClass ELSE IdName[d.super]
                  /\ ToSet(c.members) = {m \in ToSet(d.members) : m.kind \notin {"data", "pad"}}

\* A class embeds no abstract class and nothing of variable length, however
\* deep: it is in a set of classes that embed nothing but fixed types and one
\* another.
IsOfFixedLength(n) ==
    \E ns \in SUBSET (DOMAIN frontend) :
        /\ n \in ns
        /\ \A k \in ns :
              LET c == ClassMap(classes)[k]
              IN  ~c.virtual /\ \A m \in ToSet(c.members) :
                      LET type == Base(m.type, version)
                      IN  IF type \in DOMAIN frontend THEN type \in ns ELSE BasicLength[type].fixed

\* The lengths and offsets of a class are those that the finished protocol
\* gives, although they were computed when other classes, on which it
\* depends through a mixed type only, may not have been built.  They are
\* fixed exactly if nothing inside the class varies.
LengthsFinal ==
    outcome = "done" =>
        \A n \in DOMAIN frontend :
            LET c == ClassMap(classes)[n]
                now == CalcLengths(version, c.members, c.virtual, ClassMap(classes))
            IN  /\ c.base = now.base /\ c.offsets = now.offsets
                /\ c.fixed = now.fixed /\ (c.fixed <=> IsOfFixedLength(n))

\* The members of a class are in the same order as on the wire: the offsets
\* of those that have one increase.
OffsetsFollowWire ==
    \A c \in DOMAIN classes : \A i, j \in DOMAIN classes[c].offsets :
        i < j /\ classes[c].offsets[j] # NoOffset => classes[c].offsets[i] < classes[c].offsets[j]
                                                   /\ classes[c].offsets[i] # NoOffset
=============================================================================

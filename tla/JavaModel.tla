------------------------------ MODULE JavaModel -----------------------------
(***************************************************************************)
(* What the Java generator makes of the classes of all versions            *)
(* (java_model.py): one interface per unified class and one class per      *)
(* version that implements it.  A property is [name, cname, kind], and one *)
(* that the generator adds has no name in C.                               *)
(***************************************************************************)
EXTENDS LociTypes, JavaTypes

CONSTANTS ReadBlacklist,    \* <<class, property>> without a getter
          WriteBlacklist    \* <<class, property>> without a setter

NoName == "none"

\* The public type does not tell widths apart where it stands for a value.
JavaType(class, member, type) == PublicType(JavaTypeOf(class, member, type))

\* for_of_member(): the Java name of a member.
JavaName(name) ==
    CASE name = "len" -> "length" [] name = "value_mask" -> "mask" [] name = "group_id" -> "group"
      [] OTHER -> name

VersionsWith(i) == {v \in DOMAIN protocols : InVersion(i, v)}
-----------------------------------------------------------------------------
(* Interfaces.                                                              *)

Exposed(c) == {m \in ToSet(c.members) : m.kind \notin {"length", "field_length", "pad"}}

\* The members of the versions are compared by name, and must have one type.
TypesClash(i) ==
    \E v, w \in VersionsWith(i) : \E m \in Exposed(ClassAt(i, v)), n \in Exposed(ClassAt(i, w)) :
        m.name = n.name /\ JavaType(i, m.name, m.type) # JavaType(i, n.name, n.type)

Property(m) == [name |-> JavaName(m.name), cname |-> m.name, kind |-> m.kind]
VersionProperty == [name |-> "version", cname |-> NoName, kind |-> "virtual"]

\* The properties of a set of members, and the version unless one of them is
\* the version.
WithVersion(ps) == IF \E p \in ps : p.name = "version" THEN ps ELSE ps \cup {VersionProperty}

\* A member is what it is in the first version that has it.
InterfaceProperties(i) ==
    LET first(m, v) == \A w \in VersionsWith(i) : w < v => \A n \in Exposed(ClassAt(i, w)) : n.name # m.name
        members == UNION {{m \in Exposed(ClassAt(i, v)) : first(m, v)} : v \in VersionsWith(i)}
    IN  WithVersion({p \in {Property(m) : m \in members} : <<i, p.name>> \notin ReadBlacklist})

\* A faulty variant: a member of any version counts.
UniversalSomewhere(i, p) ==
    p.kind = "virtual" \/ \E v \in VersionsWith(i) : p.cname \in NamesOf(ClassAt(i, v).members)

\* is_universal: what the interface declares without an exception.
Universal(i, p) ==
    p.kind = "virtual" \/ \A v \in VersionsWith(i) : p.cname \in NamesOf(ClassAt(i, v).members)

Writeable(i, p) == p.kind = "data" /\ p.name # "version" /\ <<i, p.name>> \notin WriteBlacklist

\* needs_setter: what has a setter in a superclass has one, as long as the
\* superclasses have it.
NeedsSetter(i, p) ==
    LET f[k \in DOMAIN unified] ==
            LET u == unified[k]
            IN  \E q \in InterfaceProperties(u.name) :
                   /\ q.name = p.name
                   /\ Writeable(u.name, q) \/ (u.super # NoClass /\ f[IndexOf(unified, u.super)])
    IN  f[IndexOf(unified, i)]

\* The interface declares that its factory method may fail.
FactoryDeclares(i) == VersionsWith(i) # DOMAIN protocols
-----------------------------------------------------------------------------
(* The classes of the versions.                                             *)

ClassProperties(v, i) ==
    WithVersion({Property(m) : m \in {n \in ToSet(ClassAt(i, v).members) : n.kind # "pad"}})

\* `prop in msg.members': by the Java name, and by whether it was added.
Implements(v, i, p) ==
    \E q \in ClassProperties(v, i) : q.name = p.name /\ (q.kind = "virtual" <=> p.kind = "virtual")

Gets(v, i, p) == Implements(v, i, p)
Sets(v, i, p) == NeedsSetter(i, p) /\ Writeable(i, p) /\ Implements(v, i, p)

\* A factory's method makes an object, or throws.
Makes(v, i) == v \in VersionsWith(i)
=============================================================================

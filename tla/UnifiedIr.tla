------------------------------ MODULE UnifiedIr ------------------------------
(***************************************************************************)
(* build_unified_ir(): the classes and the enums of all versions of the    *)
(* protocol become one set of classes and one of enums.  The versions'     *)
(* definitions are added to a specification per name one after the other,  *)
(* and the unified classes are then made from the specifications in the    *)
(* order in which the names were first met.                                *)
(*                                                                         *)
(* A version is [classes, enums].  A class is [name, super, members,       *)
(* param, virtual, fixed, base], with a sequence of [name, kind, type,     *)
(* offset, length, value] as members and at most one parameter; a pad is   *)
(* a member without a name.  An enum is [name, stable, wire, entries],     *)
(* with its two parameters and a sequence of [name, value, param].         *)
(***************************************************************************)
EXTENDS Integers, Sequences, SequencesExt

CONSTANTS Protocols,  \* the inputs: one version of the protocol after the other
          NoClass,    \* no superclass
          NoParam     \* no parameter

\* What build_protocol() returns: names are unique, and a class comes after
\* its superclass.
ASSUME ProtocolAssumption ==
    \A ps \in Protocols : ps \in Seq(ToSet(ps)) /\ \A v \in DOMAIN ps :
        LET classes == ps[v].classes
        IN  /\ classes \in Seq(ToSet(classes))
            /\ \A i \in DOMAIN classes :
                /\ \A j \in 1..i - 1 : classes[j].name # classes[i].name
                /\ classes[i].super # NoClass =>
                       \E j \in 1..i - 1 : classes[j].name = classes[i].super
                /\ classes[i].members \in Seq(ToSet(classes[i].members))
                /\ classes[i].fixed \in BOOLEAN /\ classes[i].base \in Nat

VARIABLES protocols,  \* the input
          at,         \* the version, its class and its enum that are added next
          specs,      \* u_name_classes: the specifications, in order of insertion
          enumSpecs,  \* u_name_enums, in order of insertion
          unified,    \* unified_classes, in order of insertion
          outcome     \* "adding", "making", "done" or the error

unifyVars == <<protocols, at, specs, enumSpecs, unified, outcome>>

IndexOf(s, name) == CHOOSE i \in DOMAIN s : s[i].name = name
NamesOf(s) == {s[i].name : i \in DOMAIN s}
Named(s, name) == s[IndexOf(s, name)]

InitUnify ==
    /\ protocols \in Protocols
    /\ at = [version |-> 1, class |-> 1, enum |-> 1]
    /\ specs = <<>>
    /\ enumSpecs = <<>>
    /\ unified = <<>>
    /\ outcome = "adding"

Fail(error) == outcome' = error /\ UNCHANGED <<protocols, at, specs, enumSpecs, unified>>

NoLength == -1

\* A new UnifiedClassSpec.
Fresh(name) ==
    [name |-> name, super |-> NoClass, members |-> <<>>, param |-> NoParam,
     virtual |-> FALSE, fixed |-> TRUE, base |-> NoLength]
-----------------------------------------------------------------------------
(* UnifiedClassSpec.add_class().                                            *)

NamedMembers(c) == {m \in ToSet(c.members) : m.kind # "pad"}

\* A member of another kind than one of its name that is known already, or
\* that comes before it in the class itself.
MembersClash(spec, c) ==
    \E m \in ToSet(spec.members) \cup NamedMembers(c), n \in NamedMembers(c) :
        m.name = n.name /\ m.kind # n.kind

ParamsClash(spec, c) == c.param # NoParam /\ spec.param \notin {NoParam, c.param}

\* A faulty variant: the versions added before are forgotten.
StillFixedNow(spec, c) == c.fixed /\ spec.base \in {NoLength, c.base}

StillFixed(spec, c) == spec.fixed /\ c.fixed /\ spec.base \in {NoLength, c.base}

\* The first member of a name that is not known yet.
Unknown(spec, c, j) ==
    /\ c.members[j].kind # "pad"
    /\ c.members[j].name \notin NamesOf(spec.members)
    /\ \A i \in 1..j - 1 : c.members[i].kind # "pad" => c.members[i].name # c.members[j].name

\* The members not known yet go to the end.
AllMembers(spec, c) ==
    spec.members \o
    FlattenSeq([j \in DOMAIN c.members |-> IF Unknown(spec, c, j) THEN <<c.members[j]>> ELSE <<>>])

\* The superclass is that of the version added last.
Added(spec, c) ==
    [name |-> spec.name, super |-> c.super,
     members |-> AllMembers(spec, c),
     param |-> IF c.param = NoParam THEN spec.param ELSE c.param,
     virtual |-> spec.virtual \/ c.virtual,
     fixed |-> StillFixed(spec, c),
     base |-> IF spec.base = NoLength \/ spec.base > c.base THEN c.base ELSE spec.base]

\* The specification at its place, or a new one at the end.
Stored(ss, spec) ==
    IF spec.name \in NamesOf(ss) THEN [ss EXCEPT ![IndexOf(ss, spec.name)] = spec]
    ELSE Append(ss, spec)

AddClass ==
    /\ outcome = "adding"
    /\ at.version <= Len(protocols) /\ at.class <= Len(protocols[at.version].classes)
    /\ LET c == protocols[at.version].classes[at.class]
           spec == IF c.name \in NamesOf(specs) THEN Named(specs, c.name) ELSE Fresh(c.name)
       IN  IF MembersClash(spec, c) THEN Fail("member clash")
           ELSE IF ParamsClash(spec, c) THEN Fail("param clash")
           ELSE /\ specs' = Stored(specs, Added(spec, c))
                /\ at' = [at EXCEPT !.class = @ + 1]
                /\ UNCHANGED <<protocols, enumSpecs, unified, outcome>>
-----------------------------------------------------------------------------
(* UnifiedEnumSpec.add_enum().                                              *)

FreshEnum(name) == [name |-> name, stable |-> NoParam, wire |-> NoParam, entries |-> <<>>]

\* A faulty variant: a stable enum may give an entry another value.
StableClashNever(spec, e) == FALSE

\* Whether the enum is stable is asked of the version that is added.
StableClash(spec, e) ==
    /\ e.stable = "True"
    /\ \E i \in DOMAIN spec.entries, j \in DOMAIN e.entries :
          /\ spec.entries[i].name = e.entries[j].name
          /\ spec.entries[i].value # e.entries[j].value

EnumParamsClash(spec, e) ==
    \/ \E i \in DOMAIN spec.entries, j \in DOMAIN e.entries :
          /\ spec.entries[i].name = e.entries[j].name
          /\ NoParam \notin {spec.entries[i].param, e.entries[j].param}
          /\ spec.entries[i].param # e.entries[j].param
    \/ NoParam \notin {spec.stable, e.stable} /\ spec.stable # e.stable

\* An entry keeps its first value and gets the parameter it lacked.  A wire
\* type that differs is dropped, for good: None is a value of the parameter.
AddedEnum(spec, e) ==
    [name |-> spec.name,
     stable |-> IF spec.stable = NoParam THEN e.stable ELSE spec.stable,
     wire |-> IF spec.wire = NoParam THEN e.wire
              ELSE IF e.wire \in {NoParam, spec.wire} THEN spec.wire ELSE "None",
     entries |->
        [i \in DOMAIN spec.entries |->
            IF spec.entries[i].param # NoParam \/ spec.entries[i].name \notin NamesOf(e.entries)
            THEN spec.entries[i]
            ELSE [spec.entries[i] EXCEPT !.param = Named(e.entries, spec.entries[i].name).param]]
        \o SelectSeq(e.entries, LAMBDA n : n.name \notin NamesOf(spec.entries))]

\* The enums of a version are added after its classes.
AddEnum ==
    /\ outcome = "adding"
    /\ at.version <= Len(protocols) /\ at.class > Len(protocols[at.version].classes)
    /\ at.enum <= Len(protocols[at.version].enums)
    /\ LET e == protocols[at.version].enums[at.enum]
           spec == IF e.name \in NamesOf(enumSpecs) THEN Named(enumSpecs, e.name)
                   ELSE FreshEnum(e.name)
       IN  IF StableClash(spec, e) \/ EnumParamsClash(spec, e) THEN Fail("enum clash")
           ELSE /\ enumSpecs' = Stored(enumSpecs, AddedEnum(spec, e))
                /\ at' = [at EXCEPT !.enum = @ + 1]
                /\ UNCHANGED <<protocols, specs, unified, outcome>>

NextVersion ==
    /\ outcome = "adding"
    /\ at.version <= Len(protocols) /\ at.class > Len(protocols[at.version].classes)
    /\ at.enum > Len(protocols[at.version].enums)
    /\ at' = [version |-> at.version + 1, class |-> 1, enum |-> 1]
    /\ UNCHANGED <<protocols, specs, enumSpecs, unified, outcome>>

AllAdded ==
    /\ outcome = "adding" /\ at.version > Len(protocols)
    /\ outcome' = "making"
    /\ UNCHANGED <<protocols, at, specs, enumSpecs, unified>>
-----------------------------------------------------------------------------
(* Making the unified classes.                                              *)

\* A faulty variant: a superclass that is not there yet is left out.
MakeClassAnyway ==
    /\ outcome = "making" /\ Len(unified) < Len(specs)
    /\ unified' = Append(unified, specs[Len(unified) + 1])
    /\ UNCHANGED <<protocols, at, specs, enumSpecs, outcome>>

\* The superclass is looked up among the unified classes made so far.
MakeClass ==
    /\ outcome = "making" /\ Len(unified) < Len(specs)
    /\ LET spec == specs[Len(unified) + 1]
       IN  IF spec.super \in NamesOf(unified) \cup {NoClass}
           THEN /\ unified' = Append(unified, spec)
                /\ UNCHANGED <<protocols, at, specs, enumSpecs, outcome>>
           ELSE Fail("key error")

Done ==
    /\ outcome = "making" /\ Len(unified) = Len(specs)
    /\ outcome' = "done"
    /\ UNCHANGED <<protocols, at, specs, enumSpecs, unified>>

Unify == AddClass \/ AddEnum \/ NextVersion \/ AllAdded \/ MakeClass \/ Done

UnifySpec == InitUnify /\ [][Unify]_unifyVars
-----------------------------------------------------------------------------
AllClasses == UNION {ToSet(protocols[v].classes) : v \in DOMAIN protocols}

VersionsOf(name) == {c \in AllClasses : c.name = name}

\* A unified class has every member of every version once, each of the kind
\* it has in every version that has it.  It has a fixed length exactly if it
\* has the same fixed length in all versions, and its length is otherwise
\* the least of them: in whatever order the versions are added.
UnionOfVersions ==
    outcome = "done" => \A i \in DOMAIN unified :
        LET u == unified[i]
            versions == VersionsOf(u.name)
        IN  /\ NamesOf(u.members) = {m.name : m \in UNION {NamedMembers(c) : c \in versions}}
            /\ \A c \in versions : \A m \in NamedMembers(c) : Named(u.members, m.name).kind = m.kind
            /\ \A j, k \in DOMAIN u.members : u.members[j].name = u.members[k].name => j = k
            /\ u.fixed <=> \A c, d \in versions : c.fixed /\ c.base = d.base
            /\ \A c \in versions : u.base <= c.base
            /\ \E c \in versions : u.base = c.base

\* Contradicting members and parameters are reported in whatever order the
\* versions are added, and nothing else is.
ClashesReported ==
    LET members(c, d) == \E m \in NamedMembers(c), n \in NamedMembers(d) :
            m.name = n.name /\ m.kind # n.kind
        params(c, d) == c.param # d.param /\ NoParam \notin {c.param, d.param}
        clash == \E c, d \in AllClasses : c.name = d.name /\ (members(c, d) \/ params(c, d))
    IN  /\ outcome \in {"making", "done"} => ~clash
        /\ outcome \in {"member clash", "param clash"} => clash

\* The versions of a class become one, or an error says why they cannot.
UnifiedOrReported == UnionOfVersions /\ ClashesReported

\* Every unified class comes after its superclass, and where that is not
\* possible a class was given another superclass between two versions.
SupersFirst ==
    /\ \A i \in DOMAIN unified :
          unified[i].super # NoClass => unified[i].super \in NamesOf(SubSeq(unified, 1, i - 1))
    /\ outcome = "key error" =>
          \E c, d \in AllClasses : c.name = d.name /\ c.super # d.super

\* A class whose versions have different superclasses cannot be unified:
\* that is an error.
SuperAgrees ==
    outcome = "done" => \A c, d \in AllClasses : c.name = d.name => c.super = d.super
=============================================================================

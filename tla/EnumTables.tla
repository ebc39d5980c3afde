----------------------------- MODULE EnumTables -----------------------------
(***************************************************************************)
(* What the generators make of the enums of a protocol, which is a         *)
(* sequence of versions.  The C identifiers go by the name of the entry    *)
(* alone, which is assumed to name entries of one enum only.               *)
(***************************************************************************)
EXTENDS Integers, Sequences, SequencesExt

LOCAL NamesIn(s) == {s[i].name : i \in DOMAIN s}
LOCAL Entry(e, name) == e.entries[CHOOSE i \in DOMAIN e.entries : e.entries[i].name = name]

\* The versions with the enum, and the enum in a version.
EnumVersions(ps, enum) == {v \in DOMAIN ps : enum \in NamesIn(ps[v].enums)}
EnumOf(ps, enum, v) ==
    ps[v].enums[CHOOSE i \in DOMAIN ps[v].enums : ps[v].enums[i].name = enum]

EntryNames(ps, enum) ==
    UNION {NamesIn(EnumOf(ps, enum, v).entries) : v \in EnumVersions(ps, enum)}

Defines(ps, enum, name, v) ==
    v \in EnumVersions(ps, enum) /\ name \in NamesIn(EnumOf(ps, enum, v).entries)

\* values_by_version: the value of an entry in the versions that define it.
ValuesByVersion(ps, enum, name) ==
    [v \in {w \in DOMAIN ps : Defines(ps, enum, name, w)} |->
        Entry(EnumOf(ps, enum, v), name).value]

FirstOf(values) ==
    values[CHOOSE v \in DOMAIN values : \A w \in DOMAIN values : v <= w]
-----------------------------------------------------------------------------
(* The identifiers of the C library.                                        *)

DefinedVersionsAgree(values) == \A v \in DOMAIN values : values[v] = FirstOf(values)

UndefinedIdentValue == 0

\* The parameters of the value-by-version macro, one per version.
ValList(ps, values) ==
    [v \in DOMAIN ps |-> IF v \in DOMAIN values THEN values[v] ELSE UndefinedIdentValue]

\* <ident>_SUPPORTED(version)
Supported(ps, enum, name, v) ==
    LET values == ValuesByVersion(ps, enum, name)
    IN  Cardinality(DOMAIN values) = Len(ps) \/ v \in DOMAIN values

\* <ident>_BY_VERSION(version): a version that is not a target has the value
\* of the last one.
ByVersion(ps, enum, name, v) ==
    LET values == ValuesByVersion(ps, enum, name)
        list == ValList(ps, values)
    IN  IF DefinedVersionsAgree(values) THEN FirstOf(values)
        ELSE IF v \in DOMAIN list THEN list[v] ELSE list[Len(list)]
-----------------------------------------------------------------------------
(* The enums of the Java library.                                           *)

StableIn(ps, enum, v) == EnumOf(ps, enum, v).stable = "True"

\* JavaModel.enums raises: an enum is stable in some versions only.
JavaRejects(ps) ==
    \E v, w \in DOMAIN ps : \E enum \in NamesIn(ps[v].enums) \cap NamesIn(ps[w].enums) :
        StableIn(ps, enum, v) # StableIn(ps, enum, w)

JavaStable(ps, enum) ==
    StableIn(ps, enum, CHOOSE v \in EnumVersions(ps, enum) :
                           \A w \in EnumVersions(ps, enum) : v <= w)

JavaValue(ps, enum, name, v) == ValuesByVersion(ps, enum, name)[v]

\* Only a stable enum has a value that goes without a version.
StableValue(ps, enum, name) == FirstOf(ValuesByVersion(ps, enum, name))
=============================================================================

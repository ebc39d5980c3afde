----------------------------- MODULE LociTables -----------------------------
(***************************************************************************)
(* The tables of the C generator (build_of_g.py): the classes of all       *)
(* versions are put into one table per class, in which versions with the   *)
(* same members share one entry, and the accessors are generated from it.  *)
(***************************************************************************)
EXTENDS UnifiedIr, FiniteSetsExt

CONSTANTS MixedTypes,    \* of_mixed_types: MixedTypes[t][v] is the type in version v
          BaseTypes,     \* of_base_types: the bytes of a type
          ScalarTypes,   \* of_scalar_types
          SkipMembers,   \* skip_members: the names that get no accessors
          KnownMacros    \* <<class, member>> whose offset is computed by a macro

VARIABLES work,     \* unify_input(): the <<version, class>> left to add
          table,    \* of_g.unified: [use, members] by class and version
          union,    \* the type of a member in all versions, by class and member
          tables    \* "none", "adding", "made" or the error

tableVars == <<work, table, union, tables>>

Variable == -1

InitTables == work = <<>> /\ table = <<>> /\ union = <<>> /\ tables = "none"

ClassAt(name, v) == Named(protocols[v].classes, name)
InVersion(name, v) == v \in DOMAIN protocols /\ name \in NamesOf(protocols[v].classes)

\* An enum with a wire type is replaced by it.
LegacyType(v, t) ==
    LET enums == protocols[v].enums
    IN  IF t \in NamesOf(enums) /\ Named(enums, t).wire # NoParam THEN Named(enums, t).wire ELSE t

\* build_ordered_classes(): the members of a class without the pads.
LegacyMembers(v, c) ==
    LET named == SelectSeq(c.members, LAMBDA m : m.kind # "pad")
    IN  [i \in DOMAIN named |-> [name |-> named[i].name, type |-> LegacyType(v, named[i].type),
                                 offset |-> named[i].offset]]

\* analyze_input(): in two versions a member without a fixed offset comes
\* after different members.
SpecialOffsetChanged ==
    LET before(c) == LET named == SelectSeq(c.members, LAMBDA m : m.kind # "pad")
                     IN  {<<c.name, named[i].name, named[i - 1].name>> :
                             i \in {j \in 2..Len(named) : named[j].offset = Variable}}
        all == UNION {before(c) : c \in AllClasses}
    IN  \E p, q \in all : p[1] = q[1] /\ p[2] = q[2] /\ p[3] # q[3]

\* The classes in the order in which unify_input() adds them.
AddingOrder ==
    FlattenSeq(Reverse([v \in DOMAIN protocols |->
        [i \in DOMAIN protocols[v].classes |-> <<v, protocols[v].classes[i].name>>]]))

Analyze ==
    /\ outcome = "done" /\ tables = "none"
    /\ IF SpecialOffsetChanged THEN tables' = "offset changed" /\ work' = work
       ELSE tables' = "adding" /\ work' = AddingOrder
    /\ UNCHANGED <<unifyVars, table, union>>
-----------------------------------------------------------------------------
(* add_class().                                                             *)

ClassSignature(members) ==
    [i \in DOMAIN members |-> <<members[i].type, members[i].name, members[i].offset>>]

\* The versions of the class with an entry of its own and the same members.
Matching(name, members) ==
    {w \in DOMAIN protocols :
        /\ <<name, w>> \in DOMAIN table /\ table[<<name, w>>].use = w
        /\ ClassSignature(table[<<name, w>>].members) = ClassSignature(members)}

TypeConflict(name, members) ==
    \E i \in DOMAIN members :
        /\ <<name, members[i].name>> \in DOMAIN union
        /\ union[<<name, members[i].name>>] # members[i].type

\* A class that shares the entry of another version adds nothing else.
AddToTable ==
    /\ tables = "adding" /\ work # <<>>
    /\ LET v == Head(work)[1]
           name == Head(work)[2]
           members == LegacyMembers(v, ClassAt(name, v))
           same == Matching(name, members)
           own == {<<name, members[i].name>> : i \in DOMAIN members} \ DOMAIN union
       IN  IF same # {}
           THEN /\ table' = (<<name, v>> :> [use |-> Max(same), members |-> <<>>]) @@ table
                /\ UNCHANGED <<union, tables>>
           ELSE IF TypeConflict(name, members)
           THEN tables' = "type conflict" /\ UNCHANGED <<table, union>>
           ELSE /\ table' = (<<name, v>> :> [use |-> v, members |-> members]) @@ table
                /\ union' = [m \in own |-> Named(members, m[2]).type] @@ union
                /\ UNCHANGED tables
    /\ work' = Tail(work)
    /\ UNCHANGED unifyVars
-----------------------------------------------------------------------------
(* The accessors of a member.                                               *)

\* field_ver_get(): type and offset of a member in the versions that have
\* it, with a mixed type replaced by that of the version.
FieldVerGet(name, member) ==
    LET members(v) == table[<<name, table[<<name, v>>].use>>].members
        has == {v \in DOMAIN protocols : <<name, v>> \in DOMAIN table /\ member \in NamesOf(members(v))}
    IN  [v \in has |->
            LET m == Named(members(v), member)
            IN  [offset |-> m.offset,
                 type |-> IF m.type \in DOMAIN MixedTypes THEN MixedTypes[m.type][v] ELSE m.type]]

\* length_of(), which exits for a type that has none.
HasLength(t, v) == t \in DOMAIN BaseTypes \/ InVersion(t, v)
LengthOf(t, v) == IF t \in DOMAIN BaseTypes THEN BaseTypes[t] ELSE ClassAt(t, v).base

\* A faulty variant: versions are put together whatever the length.
SameCaseOffset(fields, v, w) == fields[v].offset = fields[w].offset

SameCase(fields, v, w) ==
    /\ fields[v].offset = fields[w].offset
    /\ LengthOf(fields[v].type, v) = LengthOf(fields[w].type, w)

\* gen_unified_acc_body(): consecutive versions with the same offset and
\* length are cases of one branch.  The code of a branch is generated for
\* its first version, that of the last one for the last version.
BranchVersion(fields, v) ==
    LET first == Min({w \in DOMAIN fields :
                        w <= v /\ \A x \in DOMAIN fields \cap (w..v) : SameCase(fields, x, v)})
        last == Max(DOMAIN fields)
    IN  IF \A x \in DOMAIN fields \cap (v..last) : SameCase(fields, x, v) THEN last ELSE first

\* Of the matches that of 1.2 only, it says; the others are no classes.
ClassIsVarLen(t, v) ==
    IF t = "of_match_t" THEN v = 3 ELSE ~(InVersion(t, v) /\ ClassAt(t, v).fixed)

\* gen_accessor_offsets(): where the accessor finds the member in version v,
\* and the length of what is not a scalar.
AccessorOf(name, member, v) ==
    LET fields == FieldVerGet(name, member)
        type == union[<<name, member>>]
        branch == BranchVersion(fields, v)
    IN  [offset |-> fields[branch].offset,
         length |-> IF type \in ScalarTypes THEN LengthOf(fields[v].type, v)
                    ELSE IF ClassIsVarLen(type, branch) \/ type = "of_match_t" THEN Variable
                    ELSE LengthOf(type, branch)]

UnknownLengths ==
    {m \in DOMAIN union :
        LET fields == FieldVerGet(m[1], m[2])
        IN  m[2] \notin SkipMembers /\ \E v \in DOMAIN fields : ~HasLength(fields[v].type, v)}

UnknownOffsets ==
    {m \in DOMAIN union :
        /\ m[2] \notin SkipMembers /\ m \notin KnownMacros
        /\ \E v \in DOMAIN FieldVerGet(m[1], m[2]) : FieldVerGet(m[1], m[2])[v].offset = Variable}

TablesMade ==
    /\ tables = "adding" /\ work = <<>>
    /\ tables' = IF UnknownLengths # {} THEN "unknown length"
                 ELSE IF UnknownOffsets # {} THEN "unknown offset" ELSE "made"
    /\ UNCHANGED <<unifyVars, work, table, union>>

MakeTables == Analyze \/ AddToTable \/ TablesMade
=============================================================================

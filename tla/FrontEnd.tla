------------------------------- MODULE FrontEnd -------------------------------
(***************************************************************************)
(* Reading the input files (loxigen.py, frontend.py) and building the      *)
(* protocol of every target version from those that are for it.  The files *)
(* are read in the order of their names, and the versions are built in the *)
(* order in which they are first met.                                      *)
(*                                                                         *)
(* A parsed file is [versions, structs]: the arguments of its #version     *)
(* lines, AnyVersion for "any" or a number, and its structs, whose members *)
(* are as the parser tags them.                                            *)
(***************************************************************************)
EXTENDS BuildProtocol

CONSTANTS FileSets,     \* the inputs: parsed files in the order of their names
          Supported,    \* all_supported
          Targets,      \* target_versions
          AnyVersion    \* the argument "any" of a #version line

\* The structs of a file are as build_protocol() wants the declarations, and
\* versions are numbers.
ASSUME FilesAssumption ==
    /\ \A fs \in FileSets : fs \in Seq(ToSet(fs)) /\ \A i \in DOMAIN fs : Declares(fs[i].structs)
    /\ Targets \subseteq Versions /\ Targets \subseteq Nat /\ IsFiniteSet(Targets)

VARIABLES files,   \* the input
          read,    \* how many files have been read
          inputs,  \* ofinputs_by_version: [version, decls], in order of insertion
          ir       \* loxi_globals.ir: [version, classes], in order of insertion

frontVars == <<files, read, inputs, ir>>

FrontEndInit ==
    /\ files \in FileSets
    /\ read = 0
    /\ inputs = <<>>
    /\ ir = <<>>
    /\ version = 0 /\ decls = <<>> /\ frontend = <<>> /\ stack = <<>> /\ classes = <<>>
    /\ outcome = "reading"

\* create_member(): some members are known by their names.
CreateMember(m) ==
    CASE m.kind = "data" /\ m.name \in {"length", "len"} -> [m EXCEPT !.kind = "length"]
      [] m.kind = "data" /\ m.name = "version" -> [m EXCEPT !.kind = "version"]
      [] OTHER -> m

HasDiscriminator(s) == \E i \in DOMAIN s.members : s.members[i].kind = "discriminator"

\* create_ofinput(): a class with a discriminator is virtual.
CreateClass(s) ==
    [name |-> s.name, super |-> s.super, virtual |-> HasDiscriminator(s), aligned |-> s.aligned,
     members |-> [i \in DOMAIN s.members |-> CreateMember(s.members[i])]]

\* A faulty variant: the last line counts.
WireVersionsLast(f) ==
    IF f.versions = <<>> THEN {}
    ELSE IF Last(f.versions) = AnyVersion THEN Supported ELSE {Last(f.versions)}

\* Every #version line adds to the versions of the file.
WireVersions(f) ==
    UNION {IF w = AnyVersion THEN Supported ELSE {w} : w \in ToSet(f.versions)}

BadInput(f) ==
    \/ \E s \in ToSet(f.structs) :
          Cardinality({i \in DOMAIN s.members : s.members[i].kind = "discriminator"}) > 1
    \/ ~(ToSet(f.versions) \subseteq Supported \cup {AnyVersion})
    \/ f.versions = <<>>

\* The inputs of the versions met before, and those of new ones behind them, in
\* the order in which a set of small numbers is iterated.
Appended(f) ==
    LET new == [i \in DOMAIN f.structs |-> CreateClass(f.structs[i])]
        met == {inputs[i].version : i \in DOMAIN inputs}
        fresh == (WireVersions(f) \cap Targets) \ met
        rank(v) == Cardinality({w \in fresh : w <= v})
    IN  [i \in DOMAIN inputs |->
            IF inputs[i].version \in WireVersions(f) THEN [inputs[i] EXCEPT !.decls = @ \o new]
            ELSE inputs[i]]
        \o [i \in 1..Cardinality(fresh) |->
               [version |-> CHOOSE v \in fresh : rank(v) = i, decls |-> new]]

ReadFile ==
    /\ outcome = "reading" /\ read < Len(files)
    /\ LET f == files[read + 1]
       IN  IF BadInput(f) THEN outcome' = "bad input" /\ UNCHANGED <<read, inputs>>
           ELSE read' = read + 1 /\ inputs' = Appended(f) /\ UNCHANGED outcome
    /\ UNCHANGED <<files, ir, version, decls, frontend, stack, classes>>

\* build_ir(): build_protocol() is called for the next version.
CallBuild ==
    /\ outcome = "reading" /\ read = Len(files) /\ Len(ir) < Len(inputs)
    /\ version' = inputs[Len(ir) + 1].version
    /\ decls' = inputs[Len(ir) + 1].decls
    /\ frontend' = <<>> /\ stack' = <<>> /\ classes' = <<>>
    /\ outcome' = "running"
    /\ UNCHANGED frontVars

Return ==
    /\ outcome = "done"
    /\ ir' = Append(ir, [version |-> version, classes |-> classes])
    /\ outcome' = "reading"
    /\ UNCHANGED <<files, read, inputs, version, decls, frontend, stack, classes>>

AllBuilt ==
    /\ outcome = "reading" /\ read = Len(files) /\ Len(ir) = Len(inputs)
    /\ outcome' = "built"
    /\ UNCHANGED <<frontVars, version, decls, frontend, stack, classes>>

FrontEndNext ==
    \/ ReadFile \/ CallBuild \/ Return \/ AllBuilt
    \/ Next /\ UNCHANGED frontVars

FrontEndSpec ==
    FrontEndInit /\ [][FrontEndNext]_<<vars, frontVars>> /\ WF_<<vars, frontVars>>(FrontEndNext)
-----------------------------------------------------------------------------
(* Properties.                                                              *)

\* Whether a file says of itself that it is for a version, and the structs
\* that the files for a version have, by file and position.
IsFor(f, v) == \E i \in DOMAIN f.versions : f.versions[i] \in {v, AnyVersion} /\ v \in Supported
Structs(v) ==
    [p \in UNION {{<<f, i>> : i \in DOMAIN files[f].structs} :
                    f \in {k \in DOMAIN files : IsFor(files[k], v)}} |->
        files[p[1]].structs[p[2]]]

\* What is wrong with the files for a version.
Twice(v) == \E p, q \in DOMAIN Structs(v) : p # q /\ Structs(v)[p].name = Structs(v)[q].name
NamesFor(v) == {Structs(v)[p].name : p \in DOMAIN Structs(v)}
Uses(v, name) ==
    LET uses(s) == {s.super} \cup {m.type : m \in {n \in ToSet(s.members) : n.count = 1}}
    IN  UNION {uses(Structs(v)[p]) : p \in {q \in DOMAIN Structs(v) : Structs(v)[q].name = name}}
Circular(v) ==
    \E ns \in (SUBSET NamesFor(v)) \ {{}} : \A n \in ns : Uses(v, n) \cap ns # {}
Orphan(v) ==
    \E p \in DOMAIN Structs(v) : Structs(v)[p].super \notin NamesFor(v) \cup {NoClass}

\* A member of a type that is neither plain nor a class of the files.  An ID
\* class may take the place of a struct of its name, which is not looked at then.
Unknown(v) ==
    \E p \in DOMAIN Structs(v) : \E m \in ToSet(Structs(v)[p].members) :
        /\ Structs(v)[p].name \notin IdNames
        /\ Base(m.type, v) \notin DOMAIN BasicLength \cup NamesFor(v)

\* A member whose class build_class() may not have: it is nowhere, the member
\* is an array, or a mixed type stands for it.
Unawaited(v) ==
    \E p \in DOMAIN Structs(v) : \E m \in ToSet(Structs(v)[p].members) :
        LET type == Base(m.type, v)
        IN  type \notin DOMAIN BasicLength /\ ~(m.count = 1 /\ m.type = type /\ type \in NamesFor(v))

\* A file that cannot be used, a class that is declared twice, a cycle, a
\* superclass that does not exist and a type that nobody knows are reported,
\* of the files that are for one of the versions and whatever files the
\* declarations are in; nothing else is reported as one of them, but that a
\* class may be called unknown that a member does not wait for (Unawaited).
ErrorsReported ==
    /\ outcome = "built" =>
           \A v \in Targets : ~Twice(v) /\ ~Circular(v) /\ ~Orphan(v) /\ ~Unknown(v)
    /\ outcome = "redefined" => Twice(version)
    /\ outcome = "cycle" => Circular(version)
    /\ outcome = "notfound" => Orphan(version)
    /\ outcome = "unknowntype" => Unawaited(version)
    /\ outcome = "bad input" => \E i \in DOMAIN files : BadInput(files[i])

\* Every target version that a file is for has one protocol, which has all the
\* classes of the files for it, and what an ID class adds.
ProtocolsComplete ==
    outcome = "built" =>
        /\ \A i, j \in DOMAIN ir : ir[i].version = ir[j].version => i = j
        /\ {ir[i].version : i \in DOMAIN ir} = {v \in Targets : \E i \in DOMAIN files : IsFor(files[i], v)}
        /\ \A i \in DOMAIN ir :
              LET names == {c.name : c \in ToSet(ir[i].classes)}
              IN  NamesFor(ir[i].version) \subseteq names /\ names \ IdNames \subseteq NamesFor(ir[i].version)

\* What the files say of their versions and of their classes is what the
\* generator takes: as protocols, or as an error.
FilesHonoured == ErrorsReported /\ ProtocolsComplete

\* Whatever the files hold, the generator gets through them, or stops with an
\* error: neither the recursion nor the loop over the versions goes on forever.
Ends == <>(outcome \notin {"reading", "running", "done"})
=============================================================================

--------------------------- MODULE UnifiedIrProofs ---------------------------
(***************************************************************************)
(* The unified classes come after their superclasses and are what all      *)
(* versions have in common, for every number of versions and all the       *)
(* classes that build_protocol() may return.                               *)
(*                                                                         *)
(* build_unified_ir() looks a superclass up among the unified classes made *)
(* so far and makes them in the order in which the names were first met,   *)
(* in whatever version that was.  That this order will do is not the       *)
(* property of one version: a class may come before its superclass in a    *)
(* later version, if both were met before.  What is inductive is that the  *)
(* specifications keep the order of superclasses as long as no two         *)
(* versions of a class disagree on it.                                     *)
(*                                                                         *)
(* What is inductive about the members and lengths is that a specification *)
(* says at any time exactly what the classes added so far say together.    *)
(***************************************************************************)
EXTENDS UnifiedIr, SequenceLemmas

(* Storing a specification.                                                 *)

\* No two specifications have the same name.
OncePerName(ss) == \A i, j \in DOMAIN ss : ss[i].name = ss[j].name => i = j

\* The place of a name that is there.
LEMMA IndexFound ==
    ASSUME NEW ss, NEW name, name \in NamesOf(ss)
    PROVE  IndexOf(ss, name) \in DOMAIN ss /\ ss[IndexOf(ss, name)].name = name
BY DEF IndexOf, NamesOf

\* A specification goes where the one of its name was, or to the end, and
\* everything else stays where it is.
LEMMA StoredProperties ==
    ASSUME NEW ss, Listed(ss), OncePerName(ss), NEW spec
    PROVE  LET ts == Stored(ss, spec)
           IN  /\ Listed(ts) /\ OncePerName(ts) /\ DOMAIN ss \subseteq DOMAIN ts
               /\ \A i \in DOMAIN ss : ts[i].name = ss[i].name
               /\ \E k \in DOMAIN ts :
                     /\ ts[k] = spec
                     /\ \A i \in DOMAIN ts : i # k => i \in DOMAIN ss /\ ts[i] = ss[i]
                     /\ k \in DOMAIN ss => ss[k].name = spec.name
                     /\ k \notin DOMAIN ss => spec.name \notin NamesOf(ss)
                                             /\ k \in Nat /\ \A i \in DOMAIN ss : i \in Nat /\ i < k
<1> DEFINE ts == Stored(ss, spec)
<1>0. Len(ss) \in Nat /\ DOMAIN ss = 1..Len(ss)
  BY ListedLength
<1>1. CASE spec.name \in NamesOf(ss)
  <2> DEFINE k == IndexOf(ss, spec.name)
  <2>1. k \in DOMAIN ss /\ ss[k].name = spec.name
    BY <1>1, IndexFound
  <2>2. ts = [ss EXCEPT ![k] = spec]
    BY <1>1 DEF Stored
  <2> HIDE DEF k, ts
  <2>3. Listed(ts) /\ DOMAIN ts = DOMAIN ss
    BY <2>1, <2>2, ListedExcept
  <2>4. ts[k] = spec /\ \A i \in DOMAIN ss : i # k => ts[i] = ss[i]
    <3>1. ss = [i \in DOMAIN ss |-> ss[i]]
      BY <1>0, SeqDef, LenProperties DEF Listed
    <3>2. QED
      BY <2>1, <2>2, <3>1
  <2>5. \A i \in DOMAIN ss : ts[i].name = ss[i].name
    BY <2>1, <2>4
  <2>6. OncePerName(ts)
    BY <2>3, <2>5 DEF OncePerName
  <2>7. QED
    BY <2>1, <2>3, <2>4, <2>5, <2>6 DEF ts
<1>2. CASE spec.name \notin NamesOf(ss)
  <2>1. ts = Append(ss, spec)
    BY <1>2 DEF Stored
  <2> HIDE DEF ts
  <2>2. /\ Listed(ts) /\ DOMAIN ts = 1..Len(ss) + 1
        /\ ts[Len(ss) + 1] = spec
        /\ \A i \in 1..Len(ss) : ts[i] = ss[i]
    BY <2>1, ListedAppend
  <2>3. DOMAIN ss \subseteq DOMAIN ts /\ Len(ss) + 1 \notin DOMAIN ss /\ Len(ss) + 1 \in DOMAIN ts
    BY <1>0, <2>2
  <2>4. \A i \in DOMAIN ts : i = Len(ss) + 1 \/ i \in DOMAIN ss
    BY <1>0, <2>2
  <2>5. \A i \in DOMAIN ss : ts[i] = ss[i] /\ ss[i].name # spec.name
    BY <1>0, <1>2, <2>2 DEF NamesOf
  <2>6. OncePerName(ts)
    BY <2>2, <2>4, <2>5 DEF OncePerName
  <2>7. \A i \in DOMAIN ss : i \in Nat /\ i < Len(ss) + 1
    BY <1>0
  <2>8. QED
    BY <1>0, <1>2, <2>2, <2>3, <2>4, <2>5, <2>6, <2>7 DEF ts
<1>3. QED
  BY <1>1, <1>2
-----------------------------------------------------------------------------
(* The inductive invariant.                                                 *)

Agreement == \A c, d \in AllClasses : c.name = d.name => c.super = d.super

\* How far the versions have been added.
Progress ==
    /\ protocols \in Protocols
    /\ at \in [version : Nat \ {0}, class : Nat \ {0}, enum : Nat \ {0}]

\* The classes of the version that is being added have been met up to where
\* the loop is.
Met ==
    at.version \in DOMAIN protocols =>
        \A i \in 1..at.class - 1 :
            i \in DOMAIN protocols[at.version].classes =>
                protocols[at.version].classes[i].name \in NamesOf(specs)

\* A specification has the superclass that some version of the class has.
Taken ==
    \A i \in DOMAIN specs : \E c \in AllClasses :
        c.name = specs[i].name /\ c.super = specs[i].super

\* Unless versions disagree, a superclass was met before its subclasses.
Ordered(s) ==
    \A i \in DOMAIN s : s[i].super # NoClass => \E j \in 1..i - 1 : s[j].name = s[i].super

\* The unified classes are made of the specifications, in their order.
Made ==
    /\ outcome = "adding" => unified = <<>>
    /\ DOMAIN unified \subseteq DOMAIN specs
    /\ \A i \in DOMAIN unified : unified[i] = specs[i]
    /\ Ordered(unified)

UnifyInv ==
    /\ Progress
    /\ Listed(specs) /\ OncePerName(specs) /\ Listed(unified)
    /\ Met /\ Taken
    /\ Agreement => Ordered(specs)
    /\ Made
    /\ outcome = "key error" => ~Agreement
-----------------------------------------------------------------------------
(* The steps.                                                               *)

\* The input of a version is a list of classes, each after its superclass.
LEMMA InputListed ==
    ASSUME NEW ps \in Protocols, NEW v \in DOMAIN ps, NEW i \in DOMAIN ps[v].classes
    PROVE  /\ DOMAIN ps = 1..Len(ps) /\ Len(ps) \in Nat
           /\ DOMAIN ps[v].classes = 1..Len(ps[v].classes) /\ Len(ps[v].classes) \in Nat
           /\ ps[v].classes[i].super # NoClass =>
                  \E j \in 1..i - 1 : ps[v].classes[j].name = ps[v].classes[i].super
<1>1. ps \in Seq(ToSet(ps)) /\ ps[v].classes \in Seq(ToSet(ps[v].classes))
  BY ProtocolAssumption
<1>2. ps[v].classes[i].super # NoClass =>
          \E j \in 1..i - 1 : ps[v].classes[j].name = ps[v].classes[i].super
  BY ProtocolAssumption
<1>3. QED
  BY <1>1, <1>2, ListedLength DEF Listed

\* Adding a class keeps the invariant.
LEMMA AddClassStep == UnifyInv /\ AddClass => UnifyInv'
<1> SUFFICES ASSUME UnifyInv, AddClass
             PROVE  UnifyInv'
  OBVIOUS
<1> DEFINE c == protocols[at.version].classes[at.class]
           spec == IF c.name \in NamesOf(specs) THEN Named(specs, c.name) ELSE Fresh(c.name)
<1>1. /\ at.version \in Nat \ {0} /\ at.class \in Nat \ {0} /\ at.enum \in Nat \ {0}
      /\ at.version <= Len(protocols) /\ at.class <= Len(protocols[at.version].classes)
      /\ protocols \in Protocols
      /\ at \in [version : Nat \ {0}, class : Nat \ {0}, enum : Nat \ {0}]
      /\ outcome = "adding" /\ unified = <<>>
  BY DEF UnifyInv, Progress, Made, AddClass
<1>2. CASE MembersClash(spec, c) \/ ParamsClash(spec, c)
  <2>1. /\ outcome' \in {"member clash", "param clash"}
        /\ UNCHANGED <<protocols, at, specs, enumSpecs, unified>>
    BY <1>2 DEF AddClass, Fail
  <2>2. AllClasses' = AllClasses
    BY <2>1 DEF AllClasses
  <2>3. Agreement' = Agreement
    BY <2>2 DEF Agreement
  <2>4. Taken' = Taken /\ Met' = Met
    BY <2>1, <2>2 DEF Taken, Met
  <2>5. Made'
    BY <2>1 DEF Made, UnifyInv
  <2>6. QED
    BY <2>1, <2>2, <2>3, <2>4, <2>5 DEF UnifyInv, Progress
<1>3. CASE ~(MembersClash(spec, c) \/ ParamsClash(spec, c))
  <2> DEFINE new == Added(spec, c)
             ts == Stored(specs, new)
  <2>1. /\ specs' = ts
        /\ at' = [at EXCEPT !.class = @ + 1]
        /\ UNCHANGED <<protocols, enumSpecs, unified, outcome>>
    BY <1>3 DEF AddClass
  <2>2. spec.name = c.name
    BY IndexFound DEF Named, Fresh
  <2>3. new.name = c.name /\ new.super = c.super
    BY <2>2 DEF Added
  <2>4. at.version \in DOMAIN protocols /\ at.class \in DOMAIN protocols[at.version].classes
    <3>1. protocols \in Seq(ToSet(protocols))
      BY <1>1, ProtocolAssumption
    <3>2. at.version \in DOMAIN protocols
      BY <1>1, <3>1, ListedLength DEF Listed
    <3>3. protocols[at.version].classes \in Seq(ToSet(protocols[at.version].classes))
      BY <1>1, <3>2, ProtocolAssumption
    <3>4. QED
      BY <1>1, <3>2, <3>3, ListedLength DEF Listed
  <2>5. c \in AllClasses
    BY <2>4 DEF AllClasses, ToSet
  <2>6. c.super # NoClass =>
          \E j \in 1..at.class - 1 :
             j \in DOMAIN protocols[at.version].classes /\ protocols[at.version].classes[j].name = c.super
    <3>1. /\ DOMAIN protocols[at.version].classes = 1..Len(protocols[at.version].classes)
          /\ Len(protocols[at.version].classes) \in Nat
          /\ c.super # NoClass =>
                \E j \in 1..at.class - 1 : protocols[at.version].classes[j].name = c.super
      BY <1>1, <2>4, InputListed
    <3>2. \A j \in 1..at.class - 1 : j \in DOMAIN protocols[at.version].classes
      BY <1>1, <3>1
    <3>3. QED
      BY <3>1, <3>2
  <2>7. c.super # NoClass => c.super \in NamesOf(specs)
    BY <2>4, <2>6 DEF UnifyInv, Met
  <2> HIDE DEF c, spec, new, ts
  <2>8. /\ Listed(ts) /\ OncePerName(ts) /\ DOMAIN specs \subseteq DOMAIN ts
        /\ \A i \in DOMAIN specs : ts[i].name = specs[i].name
    <3>1. Listed(specs) /\ OncePerName(specs)
      BY DEF UnifyInv
    <3>2. Listed(ts)
      BY <3>1, StoredProperties DEF ts
    <3>3. OncePerName(ts)
      BY <3>1, StoredProperties DEF ts
    <3>4. DOMAIN specs \subseteq DOMAIN ts
      BY <3>1, StoredProperties DEF ts
    <3>5. \A i \in DOMAIN specs : ts[i].name = specs[i].name
      BY <3>1, StoredProperties DEF ts
    <3>6. QED
      BY <3>2, <3>3, <3>4, <3>5
  <2>9. PICK k \in DOMAIN ts :
           /\ ts[k] = new
           /\ \A i \in DOMAIN ts : i # k => i \in DOMAIN specs /\ ts[i] = specs[i]
           /\ k \in DOMAIN specs => specs[k].name = new.name
           /\ k \notin DOMAIN specs => new.name \notin NamesOf(specs)
                                      /\ k \in Nat /\ \A i \in DOMAIN specs : i \in Nat /\ i < k
    BY StoredProperties DEF UnifyInv, ts
  <2>10. AllClasses' = AllClasses /\ Agreement' = Agreement
    BY <2>1 DEF AllClasses, Agreement
  <2>11. NamesOf(specs) \cup {c.name} \subseteq NamesOf(ts)
    BY <2>3, <2>8, <2>9 DEF NamesOf
  <2>12. Met'
    <3> DEFINE cs == protocols[at.version].classes
    <3>0. c = cs[at.class]
      BY DEF c
    <3> HIDE DEF cs
    <3>1. at'.version = at.version /\ at'.class = at.class + 1
      BY <1>1, <2>1
    <3>2. \A i \in 1..at.class - 1 : i \in DOMAIN cs => cs[i].name \in NamesOf(specs)
      BY <2>4 DEF UnifyInv, Met, cs
    <3>3. \A i \in 1..(at.class + 1) - 1 : i \in 1..at.class - 1 \/ i = at.class
      BY <1>1
    <3>4. \A i \in 1..(at.class + 1) - 1 : i \in DOMAIN cs => cs[i].name \in NamesOf(ts)
      BY <2>11, <3>0, <3>2, <3>3
    <3>5. QED
      BY <2>1, <3>1, <3>4 DEF Met, cs
  <2>13. Taken'
    <3> SUFFICES ASSUME NEW i \in DOMAIN ts
                 PROVE  \E d \in AllClasses : d.name = ts[i].name /\ d.super = ts[i].super
      BY <2>1, <2>10 DEF Taken
    <3>1. CASE i = k
      BY <2>3, <2>5, <2>9, <3>1
    <3>2. CASE i # k
      BY <2>9, <3>2 DEF UnifyInv, Taken
    <3>3. QED
      BY <3>1, <3>2
  <2>14. Agreement => Ordered(ts)
    <3> SUFFICES ASSUME Agreement, NEW i \in DOMAIN ts, ts[i].super # NoClass
                 PROVE  \E j \in 1..i - 1 : ts[j].name = ts[i].super
      BY DEF Ordered
    <3>1. \A m \in DOMAIN specs : specs[m].super # NoClass =>
            \E j \in 1..m - 1 : specs[j].name = specs[m].super
      BY DEF UnifyInv, Ordered
    <3>2. DOMAIN specs = 1..Len(specs) /\ Len(specs) \in Nat
      BY ListedLength DEF UnifyInv
    <3>3. ASSUME NEW m \in DOMAIN specs, specs[m].super # NoClass
          PROVE  \E j \in 1..m - 1 : ts[j].name = specs[m].super
      <4>1. PICK j \in 1..m - 1 : specs[j].name = specs[m].super
        BY <3>1, <3>3
      <4>2. j \in DOMAIN specs
        BY <3>2, <4>1
      <4>3. QED
        BY <2>8, <4>1, <4>2
    <3>4. CASE i # k
      BY <2>9, <3>3, <3>4
    <3>5. CASE i = k /\ k \in DOMAIN specs
      <4>1. PICK d \in AllClasses : d.name = specs[k].name /\ d.super = specs[k].super
        BY <3>5 DEF UnifyInv, Taken
      <4>2. specs[k].super = c.super
        BY <2>3, <2>5, <2>9, <3>5, <4>1 DEF Agreement
      <4>3. QED
        BY <2>3, <2>9, <3>3, <3>5, <4>2
    <3>6. CASE i = k /\ k \notin DOMAIN specs
      <4>1. c.super \in NamesOf(specs)
        BY <2>3, <2>7, <2>9, <3>6
      <4>2. PICK j \in DOMAIN specs : specs[j].name = c.super
        BY <4>1 DEF NamesOf
      <4>3. j \in 1..k - 1
        BY <2>9, <3>2, <3>6, <4>2
      <4>4. QED
        BY <2>3, <2>8, <2>9, <3>6, <4>2, <4>3
    <3>7. QED
      BY <3>4, <3>5, <3>6
  <2>15. Progress'
    BY <1>1, <2>1 DEF Progress
  <2>16. Made'
    <3>1. DOMAIN unified = {}
      BY <1>1, ListedEmpty
    <3>2. QED
      BY <1>1, <2>1, <3>1 DEF Made, Ordered
  <2>17. QED
    BY <1>1, <2>1, <2>8, <2>10, <2>12, <2>13, <2>14, <2>15, <2>16 DEF UnifyInv
<1>4. QED
  BY <1>2, <1>3

\* Making a class keeps the invariant: if its superclass is not there, the
\* versions disagree.
LEMMA MakeClassStep == UnifyInv /\ MakeClass => UnifyInv'
<1> SUFFICES ASSUME UnifyInv, MakeClass
             PROVE  UnifyInv'
  OBVIOUS
<1> DEFINE n == Len(unified) + 1
           spec == specs[n]
<1>0. UNCHANGED <<protocols, at, specs>> /\ outcome = "making"
  BY DEF MakeClass, Fail
<1>1. AllClasses' = AllClasses /\ Agreement' = Agreement /\ Met' = Met /\ Taken' = Taken
  BY <1>0 DEF AllClasses, Agreement, Met, Taken
<1>2. /\ DOMAIN unified = 1..Len(unified) /\ Len(unified) \in Nat
      /\ DOMAIN specs = 1..Len(specs) /\ Len(specs) \in Nat
  BY ListedLength DEF UnifyInv
<1>3. n \in DOMAIN specs
  <2>1. Len(unified) < Len(specs)
    BY DEF MakeClass
  <2>2. QED
    BY <1>2, <2>1
<1>4. \A i \in DOMAIN unified : unified[i] = specs[i]
  BY DEF UnifyInv, Made
<1>5. CASE spec.super \in NamesOf(unified) \cup {NoClass}
  <2>1. unified' = Append(unified, spec) /\ UNCHANGED outcome
    BY <1>5 DEF MakeClass
  <2>2. /\ Listed(unified') /\ DOMAIN unified' = 1..n
        /\ unified'[n] = spec
        /\ \A i \in 1..Len(unified) : unified'[i] = unified[i]
    <3>1. Listed(unified)
      BY DEF UnifyInv
    <3> HIDE DEF spec
    <3>2. QED
      BY <2>1, <3>1, ListedAppend
  <2>3. \A i \in DOMAIN unified' : i \in DOMAIN unified \/ i = n
    BY <1>2, <2>2
  <2>4. DOMAIN unified' \subseteq DOMAIN specs /\ \A i \in DOMAIN unified' : unified'[i] = specs[i]
    BY <1>2, <1>3, <1>4, <2>2, <2>3 DEF UnifyInv, Made
  <2>5. Ordered(unified')
    <3> SUFFICES ASSUME NEW i \in DOMAIN unified', unified'[i].super # NoClass
                 PROVE  \E j \in 1..i - 1 : unified'[j].name = unified'[i].super
      BY DEF Ordered
    <3>1. CASE i \in DOMAIN unified
      <4>1. PICK j \in 1..i - 1 : unified[j].name = unified[i].super
        BY <1>2, <2>2, <3>1 DEF UnifyInv, Made, Ordered
      <4>2. j \in 1..Len(unified)
        BY <1>2, <3>1, <4>1
      <4>3. QED
        BY <1>2, <2>2, <3>1, <4>1, <4>2
    <3>2. CASE i = n
      <4>1. PICK j \in DOMAIN unified : unified[j].name = spec.super
        BY <1>5, <2>2, <3>2 DEF NamesOf
      <4>2. j \in 1..n - 1
        BY <1>2, <4>1
      <4>3. QED
        BY <1>2, <2>2, <3>2, <4>1, <4>2
    <3>3. QED
      BY <2>3, <3>1, <3>2
  <2>6. Made'
    BY <1>0, <2>1, <2>4, <2>5 DEF Made
  <2>7. QED
    BY <1>0, <1>1, <2>1, <2>2, <2>6 DEF UnifyInv, Progress
<1>6. CASE spec.super \notin NamesOf(unified) \cup {NoClass}
  <2>1. outcome' = "key error" /\ UNCHANGED unified
    BY <1>6 DEF MakeClass, Fail
  <2>2. ~Agreement
    <3> SUFFICES ASSUME Agreement
                 PROVE  FALSE
      OBVIOUS
    <3>1. PICK j \in 1..n - 1 : specs[j].name = spec.super
      BY <1>3, <1>6 DEF UnifyInv, Ordered
    <3>2. j \in DOMAIN unified
      BY <1>2, <3>1
    <3>3. spec.super \in NamesOf(unified)
      BY <1>4, <3>1, <3>2 DEF NamesOf
    <3>4. QED
      BY <1>6, <3>3
  <2>3. Made'
    BY <1>0, <2>1 DEF UnifyInv, Made
  <2>4. QED
    BY <1>0, <1>1, <2>1, <2>2, <2>3 DEF UnifyInv, Progress
<1>7. QED
  BY <1>5, <1>6

\* Whatever step is taken, the invariant is kept.
LEMMA UnifyStep == UnifyInv /\ [Unify]_unifyVars => UnifyInv'
<1> SUFFICES ASSUME UnifyInv, [Unify]_unifyVars
             PROVE  UnifyInv'
  OBVIOUS
<1>1. ASSUME UNCHANGED <<protocols, at, specs, unified>>,
             outcome' # "key error" \/ outcome' = outcome,
             outcome' = "adding" => outcome = "adding"
      PROVE  UnifyInv'
  <2>0. protocols' = protocols /\ at' = at /\ specs' = specs /\ unified' = unified
    BY <1>1
  <2>1. AllClasses' = AllClasses /\ Agreement' = Agreement /\ Met' = Met /\ Taken' = Taken
    <3>1. AllClasses' = AllClasses
      BY <2>0 DEF AllClasses
    <3>2. QED
      BY <2>0, <3>1 DEF Agreement, Met, Taken
  <2>2. Made'
    BY <1>1 DEF UnifyInv, Made
  <2>3. QED
    BY <1>1, <2>1, <2>2 DEF UnifyInv, Progress
<1>2. CASE AddClass
  BY <1>2, AddClassStep
<1>3. CASE AddEnum
  <2>1. CASE UNCHANGED at
    BY <1>1, <1>3, <2>1 DEF AddEnum, Fail
  <2>2. CASE at' = [at EXCEPT !.enum = @ + 1] /\ UNCHANGED <<protocols, specs, unified, outcome>>
    <3>1. AllClasses' = AllClasses /\ Agreement' = Agreement /\ Taken' = Taken
      BY <2>2 DEF AllClasses, Agreement, Taken
    <3>2. Progress' /\ at'.version = at.version /\ at'.class = at.class
      <4>1. at \in [version : Nat \ {0}, class : Nat \ {0}, enum : Nat \ {0}] /\ protocols \in Protocols
        BY DEF UnifyInv, Progress
      <4>2. at' = [at EXCEPT !.enum = @ + 1] /\ protocols' = protocols
        BY <2>2
      <4>3. at.enum + 1 \in Nat \ {0}
        BY <4>1
      <4>4. QED
        BY <4>1, <4>2, <4>3 DEF Progress
    <3>3. Met'
      BY <2>2, <3>2 DEF UnifyInv, Met
    <3>4. Made'
      BY <2>2 DEF UnifyInv, Made
    <3>5. QED
      BY <2>2, <3>1, <3>2, <3>3, <3>4 DEF UnifyInv
  <2>3. QED
    BY <1>3, <2>1, <2>2 DEF AddEnum, Fail
<1>4. CASE NextVersion
  <2>1. AllClasses' = AllClasses /\ Agreement' = Agreement /\ Taken' = Taken
    BY <1>4 DEF NextVersion, AllClasses, Agreement, Taken
  <2>2. Progress' /\ at'.class = 1
    BY <1>4 DEF UnifyInv, Progress, NextVersion
  <2>3. Met'
    BY <2>2 DEF Met
  <2>4. Made'
    BY <1>4 DEF NextVersion, UnifyInv, Made
  <2>5. QED
    BY <1>4, <2>1, <2>2, <2>3, <2>4 DEF NextVersion, UnifyInv
<1>5. CASE AllAdded
  BY <1>1, <1>5 DEF AllAdded
<1>6. CASE MakeClass
  BY <1>6, MakeClassStep
<1>7. CASE Done
  BY <1>1, <1>7 DEF Done
<1>8. CASE UNCHANGED unifyVars
  BY <1>1, <1>8 DEF unifyVars
<1>9. QED
  BY <1>2, <1>3, <1>4, <1>5, <1>6, <1>7, <1>8 DEF Unify

\* The invariant holds before anything is added.
LEMMA UnifyInitially == InitUnify => UnifyInv
<1> SUFFICES ASSUME InitUnify
             PROVE  UnifyInv
  OBVIOUS
<1>1. /\ specs = <<>> /\ unified = <<>> /\ outcome = "adding" /\ protocols \in Protocols
      /\ at = [version |-> 1, class |-> 1, enum |-> 1]
  BY DEF InitUnify
<1>2. Progress /\ Met
  BY <1>1 DEF Progress, Met
<1>3. Listed(specs) /\ Listed(unified) /\ DOMAIN specs = {} /\ DOMAIN unified = {}
  BY <1>1, ListedEmpty
<1>4. QED
  BY <1>1, <1>2, <1>3 DEF UnifyInv, OncePerName, Taken, Ordered, Made
-----------------------------------------------------------------------------
\* For every number of versions and whatever their classes, build_unified_ir()
\* makes a class after its superclass, and fails to only where two versions of
\* a class have different superclasses.
THEOREM SupersMadeFirst == UnifySpec => []SupersFirst
<1>1. InitUnify => UnifyInv
  BY UnifyInitially
<1>2. UnifyInv /\ [Unify]_unifyVars => UnifyInv'
  BY UnifyStep
<1>3. UnifyInv => SupersFirst
  <2> SUFFICES ASSUME UnifyInv
               PROVE  SupersFirst
    OBVIOUS
  <2>1. ASSUME NEW i \in DOMAIN unified, unified[i].super # NoClass
        PROVE  unified[i].super \in NamesOf(SubSeq(unified, 1, i - 1))
    <3>1. DOMAIN unified = 1..Len(unified) /\ Len(unified) \in Nat
      BY ListedLength DEF UnifyInv
    <3>2. PICK j \in 1..i - 1 : unified[j].name = unified[i].super
      BY <2>1 DEF UnifyInv, Made, Ordered
    <3> DEFINE s == SubSeq(unified, 1, i - 1)
    <3>3. i - 1 \in 0..Len(unified)
      BY <3>1
    <3>4. Listed(s) /\ Len(s) = i - 1 /\ \A m \in 1..i - 1 : s[m] = unified[m]
      <4>1. unified \in Seq(ToSet(unified))
        BY DEF UnifyInv, Listed
      <4>2. s \in Seq(ToSet(unified)) /\ Len(s) = i - 1 /\ \A m \in 1..i - 1 : s[m] = unified[m]
        BY <3>3, <4>1, Kept
      <4> HIDE DEF s
      <4>3. DOMAIN s = 1..Len(s) /\ Len(s) \in Nat
        BY <4>2, LenProperties
      <4>4. s \in [1..Len(s) -> ToSet(s)]
        BY <4>2, <4>3, LenProperties DEF ToSet
      <4>5. QED
        BY <4>2, <4>3, <4>4, SeqDef DEF Listed
    <3> HIDE DEF s
    <3>5. j \in DOMAIN s /\ s[j].name = unified[i].super
      BY <3>2, <3>4, ListedLength
    <3>6. QED
      BY <3>5 DEF NamesOf, s
  <2>2. outcome = "key error" => \E c, d \in AllClasses : c.name = d.name /\ c.super # d.super
    BY DEF UnifyInv, Agreement
  <2>3. QED
    BY <2>1, <2>2 DEF SupersFirst
<1>4. QED
  BY <1>1, <1>2, <1>3, PTL DEF UnifySpec
-----------------------------------------------------------------------------
(* What a specification says of the classes added to it.                    *)

MemberNames(A) == {m.name : m \in UNION {NamedMembers(c) : c \in A}}

\* The members of a specification are those of the classes in A.
MembersOf(ms, A) ==
    /\ Listed(ms) /\ OncePerName(ms)
    /\ MemberNames(A) \subseteq NamesOf(ms)
    /\ \A i \in DOMAIN ms : \E c \in A : ms[i] \in NamedMembers(c)
    /\ \A c \in A : \A m \in NamedMembers(c) : \A i \in DOMAIN ms :
          ms[i].name = m.name => ms[i].kind = m.kind

\* Its length is the least, and fixed if they all have one and the same.
LengthOf(fixed, base, A) ==
    /\ fixed \in BOOLEAN /\ base \in Nat \cup {NoLength}
    /\ fixed <=> \A c, d \in A : c.fixed /\ c.base = d.base
    /\ \A c \in A : base <= c.base
    /\ base = NoLength <=> A = {}
    /\ A # {} => \E c \in A : base = c.base

\* Its parameter is that of those that have one.
ParamOf(param, A) ==
    /\ \A c \in A : c.param \in {NoParam, param}
    /\ param # NoParam => \E c \in A : c.param = param

Sums(spec, A) ==
    MembersOf(spec.members, A) /\ LengthOf(spec.fixed, spec.base, A) /\ ParamOf(spec.param, A)

\* What is known of a class of the input.
IsClass(c) == Listed(c.members) /\ c.fixed \in BOOLEAN /\ c.base \in Nat

\* A new specification says nothing.
LEMMA FreshSums == ASSUME NEW name PROVE Sums(Fresh(name), {})
<1>1. /\ Fresh(name).members = <<>> /\ Fresh(name).fixed = TRUE
      /\ Fresh(name).base = NoLength /\ Fresh(name).param = NoParam
  BY DEF Fresh
<1>2. MembersOf(<<>>, {})
  BY ListedEmpty DEF MembersOf, MemberNames, OncePerName
<1>3. LengthOf(TRUE, NoLength, {})
  BY DEF LengthOf
<1>4. ParamOf(NoParam, {})
  BY DEF ParamOf
<1>5. QED
  BY <1>1, <1>2, <1>3, <1>4 DEF Sums

\* A further length.
LEMMA LengthAdded ==
    ASSUME NEW spec, NEW A, NEW c, IsClass(c), \A d \in A : IsClass(d),
           LengthOf(spec.fixed, spec.base, A)
    PROVE  LengthOf(StillFixed(spec, c),
                    IF spec.base = NoLength \/ spec.base > c.base THEN c.base ELSE spec.base, A \cup {c})
<1> DEFINE B == A \cup {c}
           base == IF spec.base = NoLength \/ spec.base > c.base THEN c.base ELSE spec.base
<1>1. /\ spec.fixed \in BOOLEAN /\ spec.base \in Nat \cup {NoLength}
      /\ spec.fixed <=> \A d, e \in A : d.fixed /\ d.base = e.base
      /\ \A d \in A : spec.base <= d.base
      /\ spec.base = NoLength <=> A = {}
      /\ A # {} => \E d \in A : spec.base = d.base
  BY DEF LengthOf
<1>2. c.fixed \in BOOLEAN /\ c.base \in Nat /\ \A d \in A : d.base \in Nat /\ d.fixed \in BOOLEAN
  BY DEF IsClass
<1>3. base \in Nat /\ base # NoLength /\ \A d \in B : base <= d.base
  BY <1>1, <1>2 DEF NoLength
<1>4. \E d \in B : base = d.base
  BY <1>1, <1>2
<1>5. StillFixed(spec, c) \in BOOLEAN
  BY <1>1, <1>2 DEF StillFixed
<1>6. StillFixed(spec, c) => \A d, e \in B : d.fixed /\ d.base = e.base
  <2> SUFFICES ASSUME StillFixed(spec, c)
               PROVE  \A d, e \in B : d.fixed /\ d.base = e.base
    OBVIOUS
  <2>1. spec.fixed /\ c.fixed /\ spec.base \in {NoLength, c.base}
    BY DEF StillFixed
  <2>2. \A d \in A : d.fixed /\ d.base = c.base
    BY <1>1, <2>1
  <2>3. QED
    BY <2>1, <2>2
<1>7. (\A d, e \in B : d.fixed /\ d.base = e.base) => StillFixed(spec, c)
  <2> SUFFICES ASSUME \A d, e \in B : d.fixed /\ d.base = e.base
               PROVE  StillFixed(spec, c)
    OBVIOUS
  <2>1. spec.fixed /\ c.fixed
    BY <1>1
  <2>2. spec.base \in {NoLength, c.base}
    BY <1>1
  <2>3. QED
    BY <2>1, <2>2 DEF StillFixed
<1>8. QED
  BY <1>3, <1>4, <1>5, <1>6, <1>7 DEF LengthOf

\* A further parameter.
LEMMA ParamAdded ==
    ASSUME NEW spec, NEW A, NEW c, ParamOf(spec.param, A), ~ParamsClash(spec, c)
    PROVE  ParamOf(IF c.param = NoParam THEN spec.param ELSE c.param, A \cup {c})
BY DEF ParamOf, ParamsClash

\* What is added of the first n members: the unknown ones, each once.
Firsts(f, spec, c, n) ==
    /\ Listed(f) /\ OncePerName(f)
    /\ \A j \in 1..n : Unknown(spec, c, j) => \E p \in DOMAIN f : f[p] = c.members[j]
    /\ \A p \in DOMAIN f : \E j \in 1..n : Unknown(spec, c, j) /\ f[p] = c.members[j]

\* One more member.
LEMMA FirstsStep ==
    ASSUME NEW spec, NEW c, NEW n \in Nat, NEW f, Firsts(f, spec, c, n), NEW t,
           Unknown(spec, c, n + 1) => t = <<c.members[n + 1]>>,
           ~Unknown(spec, c, n + 1) => t = <<>>
    PROVE  Firsts(f \o t, spec, c, n + 1)
<1> DEFINE g == f \o t
           m == c.members[n + 1]
<1>1. Listed(f) /\ Len(f) \in Nat /\ DOMAIN f = 1..Len(f)
  BY ListedLength DEF Firsts
<1>2. OncePerName(f)
  BY DEF Firsts
<1>3. \A j \in 1..n : Unknown(spec, c, j) => \E p \in DOMAIN f : f[p] = c.members[j]
  BY DEF Firsts
<1>4. \A p \in DOMAIN f : \E j \in 1..n : Unknown(spec, c, j) /\ f[p] = c.members[j]
  BY DEF Firsts
<1>5. \A j \in 1..n + 1 : j \in 1..n \/ j = n + 1
  OBVIOUS
<1>6. CASE ~Unknown(spec, c, n + 1)
  <2>1. t = <<>> /\ Listed(t) /\ Len(t) = 0
    BY <1>6, ListedEmpty
  <2>2. Listed(g) /\ DOMAIN g = 1..Len(f) + 0 /\ \A i \in 1..Len(f) : g[i] = f[i]
    BY <1>1, <2>1, ListedJoined
  <2> HIDE DEF g, m
  <2>3. DOMAIN g = DOMAIN f /\ \A i \in DOMAIN f : g[i] = f[i]
    BY <1>1, <2>2
  <2>4. OncePerName(g)
    BY <1>2, <2>3 DEF OncePerName
  <2>5. \A j \in 1..n + 1 : Unknown(spec, c, j) => \E p \in DOMAIN g : g[p] = c.members[j]
    BY <1>3, <1>5, <1>6, <2>3
  <2>6. \A p \in DOMAIN g : \E j \in 1..n + 1 : Unknown(spec, c, j) /\ g[p] = c.members[j]
    BY <1>4, <2>3
  <2>7. QED
    BY <2>2, <2>4, <2>5, <2>6 DEF Firsts, g
<1>7. CASE Unknown(spec, c, n + 1)
  <2>1. t = <<m>> /\ Len(t) = 1 /\ t[1] = m
    BY <1>7
  <2>2. Listed(t)
    <3>1. t = [i \in 1..1 |-> t[i]]
      BY <2>1
    <3>2. QED
      BY <3>1, ListedFunction
  <2>3. /\ Listed(g) /\ DOMAIN g = 1..Len(f) + 1
        /\ \A i \in 1..Len(f) : g[i] = f[i]
        /\ \A i \in 1..1 : g[Len(f) + i] = t[i]
    <3>1. Len(t) = 1
      BY <2>1
    <3> HIDE DEF m
    <3>2. /\ Listed(g) /\ DOMAIN g = 1..Len(f) + Len(t)
          /\ \A i \in 1..Len(f) : g[i] = f[i]
          /\ \A i \in 1..Len(t) : g[Len(f) + i] = t[i]
      BY <1>1, <2>2, ListedJoined
    <3> HIDE DEF g
    <3>3. QED
      BY <3>1, <3>2
  <2>4. g[Len(f) + 1] = m
    BY <2>1, <2>3
  <2> DEFINE k == Len(f) + 1
  <2>5. k \in DOMAIN g /\ k \notin DOMAIN f
    BY <1>1, <2>3
  <2>6. \A p \in DOMAIN g : p \in DOMAIN f \/ p = k
    BY <1>1, <2>3
  <2>7. \A p \in DOMAIN f : p \in DOMAIN g /\ g[p] = f[p]
    BY <1>1, <2>3
  <2>8. g[k] = m
    BY <2>4
  <2>9. m = c.members[n + 1]
    OBVIOUS
  <2> HIDE DEF g, k, m
  <2>10. \A p \in DOMAIN f : f[p].name # m.name
    <3> SUFFICES ASSUME NEW p \in DOMAIN f
                 PROVE  f[p].name # m.name
      OBVIOUS
    <3>1. PICK j \in 1..n : Unknown(spec, c, j) /\ f[p] = c.members[j]
      BY <1>4
    <3>2. j \in 1..(n + 1) - 1
      BY <3>1
    <3>3. \A i \in 1..(n + 1) - 1 : c.members[i].kind # "pad" => c.members[i].name # c.members[n + 1].name
      BY <1>7 DEF Unknown
    <3>4. c.members[j].kind # "pad"
      BY <3>1 DEF Unknown
    <3>5. QED
      BY <2>9, <3>1, <3>2, <3>3, <3>4
  <2>11. OncePerName(g)
    BY <1>2, <2>6, <2>7, <2>8, <2>10 DEF OncePerName
  <2>12. \A j \in 1..n + 1 : Unknown(spec, c, j) => \E p \in DOMAIN g : g[p] = c.members[j]
    <3> SUFFICES ASSUME NEW j \in 1..n + 1, Unknown(spec, c, j)
                 PROVE  \E p \in DOMAIN g : g[p] = c.members[j]
      OBVIOUS
    <3>1. CASE j = n + 1
      BY <2>5, <2>8, <2>9, <3>1
    <3>2. CASE j \in 1..n
      BY <1>3, <2>7, <3>2
    <3>3. QED
      BY <1>5, <3>1, <3>2
  <2>13. \A p \in DOMAIN g : \E j \in 1..n + 1 : Unknown(spec, c, j) /\ g[p] = c.members[j]
    <3> SUFFICES ASSUME NEW p \in DOMAIN g
                 PROVE  \E j \in 1..n + 1 : Unknown(spec, c, j) /\ g[p] = c.members[j]
      OBVIOUS
    <3>1. CASE p = k
      BY <1>7, <2>8, <2>9, <3>1
    <3>2. CASE p \in DOMAIN f
      <4>1. PICK j \in 1..n : Unknown(spec, c, j) /\ f[p] = c.members[j]
        BY <1>4, <3>2
      <4>2. j \in 1..n + 1
        OBVIOUS
      <4>3. QED
        BY <2>7, <3>2, <4>1, <4>2
    <3>3. QED
      BY <2>6, <3>1, <3>2
  <2>14. QED
    BY <2>3, <2>11, <2>12, <2>13 DEF Firsts, g
<1>8. QED
  BY <1>6, <1>7

\* The members that are added are those whose name is unknown, each once.
LEMMA MembersFlat ==
    ASSUME NEW spec, NEW c, Listed(c.members)
    PROVE  \E f : /\ Firsts(f, spec, c, Len(c.members))
                  /\ AllMembers(spec, c) = spec.members \o f
<1> DEFINE S == ToSet(c.members)
           n == Len(c.members)
           ss == [j \in DOMAIN c.members |-> IF Unknown(spec, c, j) THEN <<c.members[j]>> ELSE <<>>]
           g == FlattenSeq(ss)
<1>1. n \in Nat /\ DOMAIN c.members = 1..n
  BY ListedLength
<1>2. \A j \in 1..n : c.members[j] \in S
  BY <1>1 DEF ToSet
<1>3. AllMembers(spec, c) = spec.members \o g
  BY DEF AllMembers
<1>4. \A j \in 1..n : /\ Unknown(spec, c, j) => ss[j] = <<c.members[j]>>
                      /\ ~Unknown(spec, c, j) => ss[j] = <<>>
  BY <1>1
<1>5. ss \in Seq(Seq(S)) /\ Len(ss) = n
  <2>1. ss = [j \in 1..n |-> ss[j]]
    BY <1>1
  <2> HIDE DEF ss, S, n
  <2>2. \A j \in 1..n : ss[j] \in Seq(S)
    <3> SUFFICES ASSUME NEW j \in 1..n
                 PROVE  ss[j] \in Seq(S)
      OBVIOUS
    <3>1. c.members[j] \in S
      BY <1>2
    <3>2. <<c.members[j]>> \in Seq(S) /\ <<>> \in Seq(S)
      BY <3>1
    <3>3. QED
      BY <1>4, <3>2
  <2>3. ss \in [1..n -> Seq(S)]
    BY <2>1, <2>2
  <2>4. QED
    BY <1>1, <2>3, SeqDef, LenProperties
<1> HIDE DEF g, S, n, ss
<1>6. Firsts(<<>>, spec, c, 0)
  BY ListedEmpty DEF Firsts, OncePerName
<1>7. CASE n = 0
  <2>1. g = <<>>
    BY <1>5, <1>7, FlattenTyped, EmptySeq DEF g
  <2>2. QED
    BY <1>3, <1>6, <1>7, <2>1 DEF n
<1>8. CASE n # 0
  <2>1. PICK f : Joins(f, ss, n) /\ g = f[n]
    <3>1. ss # <<>>
      BY <1>5, <1>8, EmptySeq
    <3>2. QED
      BY <1>5, <3>1, FlattenJoins DEF g
  <2>2. /\ \A i \in 1..n : i = 1 => f[i] = ss[i]
        /\ \A i \in 1..n : i + 1 <= n => f[i + 1] = f[i] \o ss[i + 1]
    <3>1. n \in Nat
      BY <1>1
    <3>2. QED
      BY <2>1, <3>1, JoinsStep
  <2> DEFINE P == {i \in Nat : i \in 1..n => Firsts(f[i], spec, c, i)}
  <2>3. 0 \in P
    OBVIOUS
  <2>4. ASSUME NEW i \in Nat, i \in P
        PROVE  i + 1 \in P
    <3> SUFFICES ASSUME i + 1 \in 1..n
                 PROVE  Firsts(f[i + 1], spec, c, i + 1)
      OBVIOUS
    <3>1. /\ Unknown(spec, c, i + 1) => ss[i + 1] = <<c.members[i + 1]>>
          /\ ~Unknown(spec, c, i + 1) => ss[i + 1] = <<>>
      BY <1>4
    <3>2. CASE i = 0
      <4>1. Firsts(<<>> \o ss[i + 1], spec, c, i + 1)
        <5>1. Firsts(<<>>, spec, c, i)
          BY <1>6, <3>2
        <5> HIDE DEF P
        <5>2. QED
          BY <3>1, <5>1, FirstsStep
      <4>2. ss[i + 1] \in Seq(S)
        BY <1>5, ElementOfSeq
      <4>3. <<>> \o ss[i + 1] = ss[i + 1]
        BY <4>2
      <4>4. f[i + 1] = ss[i + 1]
        BY <2>2, <3>2
      <4>5. QED
        BY <4>1, <4>3, <4>4
    <3>3. CASE i # 0
      <4>1. i \in 1..n /\ i + 1 <= n
        BY <1>1, <3>3
      <4>2. Firsts(f[i], spec, c, i)
        BY <2>4, <4>1
      <4>3. Firsts(f[i] \o ss[i + 1], spec, c, i + 1)
        <5> HIDE DEF P
        <5>1. QED
          BY <3>1, <4>2, FirstsStep
      <4>4. f[i + 1] = f[i] \o ss[i + 1]
        BY <2>2, <4>1
      <4>5. QED
        BY <4>3, <4>4
    <3>4. QED
      BY <3>2, <3>3
  <2>5. Firsts(f[n], spec, c, n)
    <3> HIDE DEF P
    <3>1. \A i \in Nat : i \in P
      BY <2>3, <2>4, SetInduction
    <3>2. n \in 1..n
      BY <1>1, <1>8
    <3>3. QED
      BY <1>1, <3>1, <3>2 DEF P
  <2>6. QED
    BY <1>3, <2>1, <2>5 DEF n
<1>9. QED
  BY <1>7, <1>8

\* g has the elements of s and those of f.
HasBoth(g, s, f) ==
    /\ \A i \in DOMAIN s : \E k \in DOMAIN g : g[k] = s[i]
    /\ \A i \in DOMAIN f : \E k \in DOMAIN g : g[k] = f[i]
    /\ \A k \in DOMAIN g : (\E i \in DOMAIN s : g[k] = s[i]) \/ (\E i \in DOMAIN f : g[k] = f[i])

\* Two sequences of members without a name in common.
LEMMA OnceJoined ==
    ASSUME NEW s, Listed(s), OncePerName(s), NEW f, Listed(f), OncePerName(f),
           NamesOf(s) \cap NamesOf(f) = {}
    PROVE  Listed(s \o f) /\ OncePerName(s \o f) /\ HasBoth(s \o f, s, f)
<1> DEFINE g == s \o f
<1>1. /\ Len(s) \in Nat /\ DOMAIN s = 1..Len(s)
      /\ Len(f) \in Nat /\ DOMAIN f = 1..Len(f)
  BY ListedLength
<1>2. /\ Listed(g) /\ DOMAIN g = 1..Len(s) + Len(f)
      /\ \A i \in 1..Len(s) : g[i] = s[i]
      /\ \A i \in 1..Len(f) : g[Len(s) + i] = f[i]
  BY ListedJoined
<1> HIDE DEF g
<1>0. \A i \in DOMAIN s, j \in DOMAIN f : s[i].name # f[j].name
  BY DEF NamesOf
<1>3. \A i \in DOMAIN s : i \in DOMAIN g /\ g[i] = s[i]
  BY <1>1, <1>2
<1>4. \A i \in DOMAIN f : Len(s) + i \in DOMAIN g /\ g[Len(s) + i] = f[i]
  BY <1>1, <1>2
<1>5. \A k \in DOMAIN g : k \in DOMAIN s \/ (k - Len(s) \in DOMAIN f /\ Len(s) + (k - Len(s)) = k)
  BY <1>1, <1>2
<1>6. \A k \in DOMAIN g : k \notin DOMAIN s => g[k] = f[k - Len(s)]
  BY <1>4, <1>5
<1>7. \A k \in DOMAIN g : \/ \E i \in DOMAIN s : g[k] = s[i]
                          \/ \E i \in DOMAIN f : g[k] = f[i]
  BY <1>3, <1>5, <1>6
<1>8. OncePerName(g)
  <2> SUFFICES ASSUME NEW i \in DOMAIN g, NEW j \in DOMAIN g, g[i].name = g[j].name
               PROVE  i = j
    BY DEF OncePerName
  <2>1. CASE i \in DOMAIN s /\ j \in DOMAIN s
    BY <1>3, <2>1 DEF OncePerName
  <2>2. CASE i \notin DOMAIN s /\ j \notin DOMAIN s
    <3>1. i - Len(s) = j - Len(s)
      BY <1>5, <1>6, <2>2 DEF OncePerName
    <3>2. i \in Nat /\ j \in Nat
      BY <1>1, <1>2
    <3>3. QED
      BY <1>1, <3>1, <3>2
  <2>3. CASE i \in DOMAIN s /\ j \notin DOMAIN s
    BY <1>0, <1>3, <1>5, <1>6, <2>3
  <2>4. CASE i \notin DOMAIN s /\ j \in DOMAIN s
    BY <1>0, <1>3, <1>5, <1>6, <2>4
  <2>5. QED
    BY <2>1, <2>2, <2>3, <2>4
<1>9. QED
  BY <1>2, <1>3, <1>4, <1>7, <1>8 DEF g, HasBoth

\* Every named member of a class is known afterwards, by its name.
LEMMA FirstOfName ==
    ASSUME NEW spec, NEW c, Listed(c.members), NEW m \in NamedMembers(c),
           m.name \notin NamesOf(spec.members)
    PROVE  \E j \in 1..Len(c.members) : Unknown(spec, c, j) /\ c.members[j].name = m.name
<1> DEFINE T == {j \in 1..Len(c.members) : c.members[j].kind # "pad" /\ c.members[j].name = m.name}
<1>1. Len(c.members) \in Nat /\ DOMAIN c.members = 1..Len(c.members)
  BY ListedLength
<1>2. T # {} /\ T \subseteq Nat
  BY <1>1 DEF NamedMembers, ToSet
<1>3. PICK j \in T : \A i \in T : j <= i
  BY <1>2, LeastNumber
<1>4. \A i \in 1..j - 1 : i \in 1..Len(c.members) /\ ~(j <= i)
  BY <1>1, <1>3
<1>5. \A i \in 1..j - 1 : c.members[i].kind # "pad" => c.members[i].name # c.members[j].name
  BY <1>3, <1>4
<1>6. QED
  BY <1>3, <1>5 DEF Unknown

\* The members of one more class.
LEMMA MembersAdded ==
    ASSUME NEW spec, NEW A, NEW c, Listed(c.members), MembersOf(spec.members, A),
           ~MembersClash(spec, c)
    PROVE  MembersOf(AllMembers(spec, c), A \cup {c})
<1> DEFINE s == spec.members
           n == Len(c.members)
<1>1. PICK f : Firsts(f, spec, c, n) /\ AllMembers(spec, c) = s \o f
  BY MembersFlat
<1>2. n \in Nat /\ DOMAIN c.members = 1..n
  BY ListedLength
<1>3. \A m \in NamedMembers(c) : m.name \notin NamesOf(s) =>
          \E j \in 1..n : Unknown(spec, c, j) /\ c.members[j].name = m.name
  BY FirstOfName
<1>4. \A j \in 1..n : Unknown(spec, c, j) =>
          c.members[j] \in NamedMembers(c) /\ c.members[j].name \notin NamesOf(s)
  BY <1>2 DEF Unknown, NamedMembers, ToSet
<1>5. \A m \in ToSet(s) \cup NamedMembers(c), k \in NamedMembers(c) : m.name = k.name => m.kind = k.kind
  BY DEF MembersClash
<1>6. \A i \in DOMAIN s : s[i] \in ToSet(s) /\ s[i].name \in NamesOf(s)
  BY DEF ToSet, NamesOf
<1>7. /\ Listed(s) /\ OncePerName(s)
      /\ MemberNames(A) \subseteq NamesOf(s)
      /\ \A i \in DOMAIN s : \E d \in A : s[i] \in NamedMembers(d)
      /\ \A d \in A : \A m \in NamedMembers(d) : \A i \in DOMAIN s :
            s[i].name = m.name => s[i].kind = m.kind
  BY DEF MembersOf
<1>8. \A d \in A : \A m \in NamedMembers(d) : m.name \in NamesOf(s)
  BY <1>7 DEF MemberNames
<1>9. /\ Listed(f) /\ OncePerName(f)
      /\ \A j \in 1..n : Unknown(spec, c, j) => \E p \in DOMAIN f : f[p] = c.members[j]
      /\ \A p \in DOMAIN f : \E j \in 1..n : Unknown(spec, c, j) /\ f[p] = c.members[j]
  BY <1>1 DEF Firsts
<1>10. \A p \in DOMAIN f : f[p] \in NamedMembers(c) /\ f[p].name \notin NamesOf(s)
  BY <1>4, <1>9
<1>11. \A m \in NamedMembers(c) : m.name \notin NamesOf(s) => \E p \in DOMAIN f : f[p].name = m.name
  BY <1>3, <1>9
<1> DEFINE g == s \o f
           B == A \cup {c}
<1> HIDE DEF s, n
<1>12. NamesOf(s) \cap NamesOf(f) = {}
  BY <1>10 DEF NamesOf
<1>13. Listed(g) /\ OncePerName(g) /\ HasBoth(g, s, f)
  BY <1>7, <1>9, <1>12, OnceJoined
<1> HIDE DEF g
<1>14. NamesOf(s) \subseteq NamesOf(g) /\ \A i \in DOMAIN f : f[i].name \in NamesOf(g)
  BY <1>13 DEF NamesOf, HasBoth
<1>15. \A d \in B : \A m \in NamedMembers(d) : m.name \in NamesOf(g)
  BY <1>8, <1>11, <1>14
<1>16. MemberNames(B) \subseteq NamesOf(g)
  BY <1>15 DEF MemberNames
<1>17. \A i \in DOMAIN g : \E d \in B : g[i] \in NamedMembers(d)
  <2> SUFFICES ASSUME NEW i \in DOMAIN g
               PROVE  \E d \in B : g[i] \in NamedMembers(d)
    OBVIOUS
  <2>1. CASE \E k \in DOMAIN s : g[i] = s[k]
    BY <1>7, <2>1
  <2>2. CASE \E k \in DOMAIN f : g[i] = f[k]
    BY <1>10, <2>2
  <2>3. QED
    BY <1>13, <2>1, <2>2 DEF HasBoth
<1>18. ASSUME NEW d \in B, NEW m \in NamedMembers(d), NEW i \in DOMAIN g, g[i].name = m.name
       PROVE  g[i].kind = m.kind
  <2>1. CASE \E k \in DOMAIN s : g[i] = s[k]
    <3>1. PICK k \in DOMAIN s : g[i] = s[k]
      BY <2>1
    <3>2. CASE d \in A
      BY <1>7, <1>18, <3>1, <3>2
    <3>3. CASE d = c
      BY <1>5, <1>6, <1>18, <3>1, <3>3
    <3>4. QED
      BY <3>2, <3>3
  <2>2. CASE \E k \in DOMAIN f : g[i] = f[k]
    <3>1. PICK k \in DOMAIN f : g[i] = f[k]
      BY <2>2
    <3>2. CASE d \in A
      BY <1>8, <1>10, <1>18, <3>1, <3>2
    <3>3. CASE d = c
      BY <1>5, <1>10, <1>18, <3>1, <3>3
    <3>4. QED
      BY <3>2, <3>3
  <2>3. QED
    BY <1>13, <2>1, <2>2 DEF HasBoth
<1>19. MembersOf(g, B)
  BY <1>13, <1>16, <1>17, <1>18 DEF MembersOf
<1>20. QED
  BY <1>1, <1>19 DEF g

\* One more class that does not contradict those before.
LEMMA SumsAdded ==
    ASSUME NEW spec, NEW A, NEW c, IsClass(c), \A d \in A : IsClass(d), Sums(spec, A),
           ~MembersClash(spec, c), ~ParamsClash(spec, c)
    PROVE  Sums(Added(spec, c), A \cup {c})
<1>1. Listed(c.members)
  BY DEF IsClass
<1>2. MembersOf(AllMembers(spec, c), A \cup {c})
  BY <1>1, MembersAdded DEF Sums
<1>3. LengthOf(StillFixed(spec, c),
               IF spec.base = NoLength \/ spec.base > c.base THEN c.base ELSE spec.base, A \cup {c})
  BY LengthAdded DEF Sums
<1>4. ParamOf(IF c.param = NoParam THEN spec.param ELSE c.param, A \cup {c})
  BY ParamAdded DEF Sums
<1>5. QED
  BY <1>2, <1>3, <1>4 DEF Sums, Added

\* Two classes contradict each other.
MembersDiffer(c, d) == \E m \in NamedMembers(c), n \in NamedMembers(d) : m.name = n.name /\ m.kind # n.kind
ParamsDiffer(c, d) == c.param # d.param /\ NoParam \notin {c.param, d.param}
Contradiction ==
    \E c, d \in AllClasses : c.name = d.name /\ (MembersDiffer(c, d) \/ ParamsDiffer(c, d))

\* A class that contradicts a specification contradicts a class it is made of.
LEMMA ClashMeans ==
    ASSUME NEW spec, NEW A, NEW c, Sums(spec, A), MembersClash(spec, c) \/ ParamsClash(spec, c)
    PROVE  \E d \in A \cup {c} : MembersDiffer(d, c) \/ ParamsDiffer(d, c)
<1>1. CASE MembersClash(spec, c)
  <2>1. PICK m \in ToSet(spec.members) \cup NamedMembers(c), n \in NamedMembers(c) :
           m.name = n.name /\ m.kind # n.kind
    BY <1>1 DEF MembersClash
  <2>2. \E d \in A \cup {c} : m \in NamedMembers(d)
    BY DEF Sums, MembersOf, ToSet
  <2>3. QED
    BY <2>1, <2>2 DEF MembersDiffer
<1>2. CASE ParamsClash(spec, c)
  BY <1>2 DEF Sums, ParamOf, ParamsClash, ParamsDiffer
<1>3. QED
  BY <1>1, <1>2

\* Classes whose specification there is do not contradict each other.
LEMMA SumsMean ==
    ASSUME NEW spec, NEW A, Sums(spec, A), NEW c \in A, NEW d \in A
    PROVE  ~MembersDiffer(c, d) /\ ~ParamsDiffer(c, d)
<1>1. ASSUME NEW m \in NamedMembers(c), NEW n \in NamedMembers(d), m.name = n.name
      PROVE  m.kind = n.kind
  <2>1. m.name \in NamesOf(spec.members)
    BY DEF Sums, MembersOf, MemberNames
  <2>2. PICK i \in DOMAIN spec.members : spec.members[i].name = m.name
    BY <2>1 DEF NamesOf
  <2>3. QED
    BY <1>1, <2>2 DEF Sums, MembersOf
<1>2. ~ParamsDiffer(c, d)
  BY DEF Sums, ParamOf, ParamsDiffer
<1>3. QED
  BY <1>1, <1>2 DEF MembersDiffer
-----------------------------------------------------------------------------
(* The specifications say what the classes added so far say.                *)

\* How far the loop is decides whether a class has been added.
IsAdded(a, v, i) == v < a.version \/ (v = a.version /\ i < a.class)

AddedClasses ==
    {c \in AllClasses :
        \E v \in DOMAIN protocols : \E i \in DOMAIN protocols[v].classes :
            IsAdded(at, v, i) /\ c = protocols[v].classes[i]}

OfName(A, name) == {c \in A : c.name = name}

SumInv ==
    /\ \A i \in DOMAIN specs : Sums(specs[i], OfName(AddedClasses, specs[i].name))
    /\ \A c \in AddedClasses : c.name \in NamesOf(specs)
    /\ outcome \in {"making", "done", "key error"} => AddedClasses = AllClasses
    /\ outcome \in {"member clash", "param clash"} => Contradiction

\* What is known of the classes of the input.
LEMMA InputClasses ==
    ASSUME NEW ps \in Protocols
    PROVE  /\ DOMAIN ps = 1..Len(ps) /\ Len(ps) \in Nat
           /\ \A v \in DOMAIN ps :
                 /\ DOMAIN ps[v].classes = 1..Len(ps[v].classes) /\ Len(ps[v].classes) \in Nat
                 /\ \A i \in DOMAIN ps[v].classes : IsClass(ps[v].classes[i])
<1>1. ps \in Seq(ToSet(ps))
  BY ProtocolAssumption
<1>2. ASSUME NEW v \in DOMAIN ps
      PROVE  /\ ps[v].classes \in Seq(ToSet(ps[v].classes))
             /\ \A i \in DOMAIN ps[v].classes : IsClass(ps[v].classes[i])
  BY ProtocolAssumption DEF IsClass, Listed
<1>3. \A v \in DOMAIN ps : DOMAIN ps[v].classes = 1..Len(ps[v].classes) /\ Len(ps[v].classes) \in Nat
  BY <1>2, ListedLength DEF Listed
<1>4. DOMAIN ps = 1..Len(ps) /\ Len(ps) \in Nat
  BY <1>1, ListedLength DEF Listed
<1>5. QED
  BY <1>2, <1>3, <1>4

\* A step that changes neither the specifications nor what is added.
LEMMA SumsStay ==
    ASSUME SumInv, UNCHANGED <<protocols, specs>>, AddedClasses' = AddedClasses,
           outcome' \in {"making", "done", "key error"} => AddedClasses = AllClasses,
           outcome' \in {"member clash", "param clash"} => Contradiction
    PROVE  SumInv'
<1>1. AllClasses' = AllClasses
  BY DEF AllClasses
<1>2. Contradiction' = Contradiction
  BY <1>1 DEF Contradiction, MembersDiffer, ParamsDiffer, NamedMembers
<1>4. \A i \in DOMAIN specs : Sums(specs[i], OfName(AddedClasses, specs[i].name))
  BY DEF SumInv
<1>5. \A i \in DOMAIN specs' : Sums(specs'[i], OfName(AddedClasses', specs'[i].name))
  BY <1>4
<1>6. \A c \in AddedClasses' : c.name \in NamesOf(specs')
  BY DEF SumInv
<1>7. QED
  BY <1>1, <1>2, <1>5, <1>6 DEF SumInv

\* Which classes are added does not depend on the enums.
LEMMA SameAdded ==
    ASSUME protocols' = protocols, at'.version = at.version, at'.class = at.class
    PROVE  AddedClasses' = AddedClasses
<1>1. AllClasses' = AllClasses
  BY DEF AllClasses
<1>2. \A v, i : IsAdded(at', v, i) = IsAdded(at, v, i)
  BY DEF IsAdded
<1>3. QED
  BY <1>1, <1>2 DEF AddedClasses

\* Adding a class.
LEMMA AddClassSums == UnifyInv /\ SumInv /\ AddClass => SumInv'
<1> SUFFICES ASSUME UnifyInv, SumInv, AddClass
             PROVE  SumInv'
  OBVIOUS
<1> DEFINE c == protocols[at.version].classes[at.class]
           spec == IF c.name \in NamesOf(specs) THEN Named(specs, c.name) ELSE Fresh(c.name)
           A == OfName(AddedClasses, c.name)
<1>1. /\ at.version \in Nat \ {0} /\ at.class \in Nat \ {0} /\ at.enum \in Nat \ {0}
      /\ at.version <= Len(protocols) /\ at.class <= Len(protocols[at.version].classes)
      /\ protocols \in Protocols
      /\ at \in [version : Nat \ {0}, class : Nat \ {0}, enum : Nat \ {0}]
      /\ outcome = "adding"
  BY DEF UnifyInv, Progress, AddClass
<1>2. /\ DOMAIN protocols = 1..Len(protocols) /\ Len(protocols) \in Nat
      /\ \A v \in DOMAIN protocols :
            /\ DOMAIN protocols[v].classes = 1..Len(protocols[v].classes) /\ Len(protocols[v].classes) \in Nat
            /\ \A i \in DOMAIN protocols[v].classes : IsClass(protocols[v].classes[i])
  BY <1>1, InputClasses
<1>3. at.version \in DOMAIN protocols
  BY <1>1, <1>2
<1>4. at.class \in DOMAIN protocols[at.version].classes
  BY <1>1, <1>2, <1>3
<1>5. c \in AllClasses
  BY <1>3, <1>4 DEF AllClasses, ToSet
<1>6. \A d \in AllClasses : IsClass(d)
  BY <1>2 DEF AllClasses, ToSet
<1>7. spec.name = c.name
  BY IndexFound DEF Named, Fresh
<1>8. A \subseteq AllClasses
  BY DEF OfName, AddedClasses
<1>9. Sums(spec, A)
  <2>1. CASE c.name \in NamesOf(specs)
    <3>1. spec = specs[IndexOf(specs, c.name)]
      BY <2>1 DEF Named
    <3>2. IndexOf(specs, c.name) \in DOMAIN specs /\ specs[IndexOf(specs, c.name)].name = c.name
      BY <2>1, IndexFound
    <3> HIDE DEF c, spec
    <3>3. QED
      BY <3>1, <3>2 DEF SumInv
  <2>2. CASE c.name \notin NamesOf(specs)
    <3>1. spec = Fresh(c.name)
      BY <2>2
    <3>2. A = {}
      BY <2>2 DEF SumInv, OfName
    <3> HIDE DEF c, spec, A
    <3>3. QED
      BY <3>1, <3>2, FreshSums
  <2>3. QED
    BY <2>1, <2>2
<1>10. \/ /\ at'.version = at.version /\ at'.class = at.class + 1
          /\ protocols' = protocols /\ specs' = Stored(specs, Added(spec, c)) /\ outcome' = outcome
          /\ ~MembersClash(spec, c) /\ ~ParamsClash(spec, c)
       \/ /\ MembersClash(spec, c) \/ ParamsClash(spec, c)
          /\ outcome' \in {"member clash", "param clash"}
          /\ UNCHANGED <<protocols, at, specs>>
  <2>1. CASE MembersClash(spec, c) \/ ParamsClash(spec, c)
    BY <2>1 DEF AddClass, Fail
  <2>2. CASE ~MembersClash(spec, c) /\ ~ParamsClash(spec, c)
    <3>1. /\ specs' = Stored(specs, Added(spec, c))
          /\ at' = [at EXCEPT !.class = @ + 1]
          /\ UNCHANGED <<protocols, enumSpecs, unified, outcome>>
      BY <2>2 DEF AddClass
    <3> HIDE DEF c, spec
    <3>2. at'.version = at.version /\ at'.class = at.class + 1
      BY <1>1, <3>1
    <3>3. QED
      BY <2>2, <3>1, <3>2
  <2>3. QED
    BY <2>1, <2>2
<1>11. c = protocols[at.version].classes[at.class]
  OBVIOUS
<1>12. A = OfName(AddedClasses, c.name)
  OBVIOUS
<1> HIDE DEF c, spec, A
<1>13. CASE MembersClash(spec, c) \/ ParamsClash(spec, c)
  <2>1. /\ outcome' \in {"member clash", "param clash"}
        /\ protocols' = protocols /\ at' = at /\ specs' = specs
    BY <1>10, <1>13
  <2>2. PICK d \in A \cup {c} : MembersDiffer(d, c) \/ ParamsDiffer(d, c)
    BY <1>9, <1>13, ClashMeans
  <2>3. d \in AllClasses /\ d.name = c.name
    BY <1>5, <1>8, <1>12 DEF OfName
  <2>4. Contradiction
    BY <1>5, <2>2, <2>3 DEF Contradiction
  <2>5. AddedClasses' = AddedClasses
    BY <2>1, SameAdded
  <2>6. QED
    BY <2>1, <2>4, <2>5, SumsStay
<1>14. CASE ~MembersClash(spec, c) /\ ~ParamsClash(spec, c)
  <2> DEFINE new == Added(spec, c)
             ts == Stored(specs, new)
  <2>1. /\ at'.version = at.version /\ at'.class = at.class + 1
        /\ protocols' = protocols /\ specs' = ts /\ outcome' = "adding"
    BY <1>1, <1>10, <1>14
  <2>2. new.name = c.name
    BY <1>7 DEF Added
  <2>3. Sums(new, A \cup {c})
    BY <1>5, <1>6, <1>8, <1>9, <1>14, SumsAdded
  <2> HIDE DEF new
  <2>4. PICK k \in DOMAIN ts :
           /\ ts[k] = new
           /\ \A i \in DOMAIN ts : i # k => i \in DOMAIN specs /\ ts[i] = specs[i]
           /\ k \in DOMAIN specs => specs[k].name = new.name
           /\ k \notin DOMAIN specs => new.name \notin NamesOf(specs)
    <3>1. Listed(specs) /\ OncePerName(specs)
      BY DEF UnifyInv
    <3>2. \E k \in DOMAIN ts :
             /\ ts[k] = new
             /\ \A i \in DOMAIN ts : i # k => i \in DOMAIN specs /\ ts[i] = specs[i]
             /\ k \in DOMAIN specs => specs[k].name = new.name
             /\ k \notin DOMAIN specs => new.name \notin NamesOf(specs)
                                        /\ k \in Nat /\ \A i \in DOMAIN specs : i \in Nat /\ i < k
      BY <3>1, StoredProperties
    <3> HIDE DEF ts
    <3>3. QED
      BY <3>2
  <2>5. OncePerName(ts) /\ DOMAIN specs \subseteq DOMAIN ts /\ \A i \in DOMAIN specs : ts[i].name = specs[i].name
    <3>1. Listed(specs) /\ OncePerName(specs)
      BY DEF UnifyInv
    <3>2. OncePerName(ts)
      BY <3>1, StoredProperties
    <3>3. DOMAIN specs \subseteq DOMAIN ts
      BY <3>1, StoredProperties
    <3>4. \A i \in DOMAIN specs : ts[i].name = specs[i].name
      BY <3>1, StoredProperties
    <3>5. QED
      BY <3>2, <3>3, <3>4
  <2> HIDE DEF ts
  <2>6. AllClasses' = AllClasses
    BY <2>1 DEF AllClasses
  <2>7. AddedClasses' = AddedClasses \cup {c}
    <3>1. \A v \in DOMAIN protocols : \A i \in DOMAIN protocols[v].classes :
             IsAdded(at', v, i) <=> (IsAdded(at, v, i) \/ (v = at.version /\ i = at.class))
      <4> SUFFICES ASSUME NEW v \in DOMAIN protocols, NEW i \in DOMAIN protocols[v].classes
                   PROVE  IsAdded(at', v, i) <=> (IsAdded(at, v, i) \/ (v = at.version /\ i = at.class))
        OBVIOUS
      <4>1. i \in Nat
        BY <1>2
      <4>2. i < at.class + 1 <=> i < at.class \/ i = at.class
        BY <1>1, <4>1
      <4>3. QED
        BY <2>1, <4>2 DEF IsAdded
    <3>2. \A d : d \in AddedClasses' <=>
             d \in AllClasses /\ \E v \in DOMAIN protocols : \E i \in DOMAIN protocols[v].classes :
                                     IsAdded(at', v, i) /\ d = protocols[v].classes[i]
      BY <2>1, <2>6 DEF AddedClasses
    <3>3. \A d : d \in AddedClasses <=>
             d \in AllClasses /\ \E v \in DOMAIN protocols : \E i \in DOMAIN protocols[v].classes :
                                     IsAdded(at, v, i) /\ d = protocols[v].classes[i]
      BY DEF AddedClasses
    <3>4. \A d : d \in AddedClasses' => d \in AddedClasses \/ d = c
      BY <1>11, <3>1, <3>2, <3>3
    <3>5. \A d : d \in AddedClasses => d \in AddedClasses'
      BY <3>1, <3>2, <3>3
    <3>6. c \in AddedClasses'
      BY <1>3, <1>4, <1>5, <1>11, <3>1, <3>2
    <3>7. QED
      BY <3>4, <3>5, <3>6
  <2>8. OfName(AddedClasses', c.name) = A \cup {c}
    BY <1>12, <2>7 DEF OfName
  <2>9. \A n : n # c.name => OfName(AddedClasses', n) = OfName(AddedClasses, n)
    BY <2>7 DEF OfName
  <2>10. \A i \in DOMAIN ts : Sums(ts[i], OfName(AddedClasses', ts[i].name))
    <3> SUFFICES ASSUME NEW i \in DOMAIN ts
                 PROVE  Sums(ts[i], OfName(AddedClasses', ts[i].name))
      OBVIOUS
    <3>1. CASE i = k
      BY <2>2, <2>3, <2>4, <2>8, <3>1
    <3>2. CASE i # k
      <4>1. i \in DOMAIN specs /\ ts[i] = specs[i]
        BY <2>4, <3>2
      <4>2. ts[i].name # c.name
        BY <2>2, <2>4, <2>5, <3>2 DEF OncePerName
      <4>3. OfName(AddedClasses', ts[i].name) = OfName(AddedClasses, ts[i].name)
        BY <2>9, <4>2
      <4>4. Sums(specs[i], OfName(AddedClasses, specs[i].name))
        BY <4>1 DEF SumInv
      <4>5. QED
        BY <4>1, <4>3, <4>4
    <3>3. QED
      BY <3>1, <3>2
  <2>11. \A d \in AddedClasses' : d.name \in NamesOf(ts)
    <3>1. c.name \in NamesOf(ts)
      BY <2>2, <2>4 DEF NamesOf
    <3>2. NamesOf(specs) \subseteq NamesOf(ts)
      BY <2>5 DEF NamesOf
    <3>3. QED
      BY <2>7, <3>1, <3>2 DEF SumInv
  <2>12. QED
    BY <2>1, <2>10, <2>11 DEF SumInv
<1>15. QED
  BY <1>13, <1>14

\* Whatever step is taken, the specifications keep saying that.
LEMMA SumsStep == UnifyInv /\ SumInv /\ [Unify]_unifyVars => SumInv'
<1> SUFFICES ASSUME UnifyInv, SumInv, [Unify]_unifyVars
             PROVE  SumInv'
  OBVIOUS
<1>1. /\ at.version \in Nat \ {0} /\ at.class \in Nat \ {0} /\ protocols \in Protocols
      /\ at \in [version : Nat \ {0}, class : Nat \ {0}, enum : Nat \ {0}]
  BY DEF UnifyInv, Progress
<1>2. /\ DOMAIN protocols = 1..Len(protocols) /\ Len(protocols) \in Nat
      /\ \A v \in DOMAIN protocols :
            DOMAIN protocols[v].classes = 1..Len(protocols[v].classes) /\ Len(protocols[v].classes) \in Nat
  BY <1>1, InputClasses
<1>3. /\ outcome \in {"making", "done", "key error"} => AddedClasses = AllClasses
      /\ outcome \in {"member clash", "param clash"} => Contradiction
  BY DEF SumInv
<1>4. ASSUME UNCHANGED <<protocols, specs>>, at'.version = at.version, at'.class = at.class,
             \/ outcome' = outcome
             \/ outcome \in {"making", "done", "key error"} /\ outcome' \in {"done", "key error"}
             \/ outcome' = "enum clash"
      PROVE  SumInv'
  <2>1. AddedClasses' = AddedClasses
    BY <1>4, SameAdded
  <2>2. /\ outcome' \in {"making", "done", "key error"} => AddedClasses = AllClasses
        /\ outcome' \in {"member clash", "param clash"} => Contradiction
    BY <1>3, <1>4
  <2>3. QED
    BY <1>4, <2>1, <2>2, SumsStay
<1>5. CASE AddClass
  BY <1>5, AddClassSums
<1>6. CASE AddEnum
  <2>1. /\ UNCHANGED <<protocols, specs>>
        /\ \/ at' = [at EXCEPT !.enum = @ + 1] /\ outcome' = outcome
           \/ at' = at /\ outcome' = "enum clash"
    BY <1>6 DEF AddEnum, Fail
  <2>2. at'.version = at.version /\ at'.class = at.class
    BY <1>1, <2>1
  <2>3. QED
    BY <1>4, <2>1, <2>2
<1>7. CASE NextVersion
  <2>1. /\ at.version <= Len(protocols) /\ at.class > Len(protocols[at.version].classes)
        /\ at' = [version |-> at.version + 1, class |-> 1, enum |-> 1]
        /\ UNCHANGED <<protocols, specs, outcome>>
    BY <1>7 DEF NextVersion
  <2>2. \A v \in DOMAIN protocols : \A i \in DOMAIN protocols[v].classes :
           IsAdded(at', v, i) <=> IsAdded(at, v, i)
    <3> SUFFICES ASSUME NEW v \in DOMAIN protocols, NEW i \in DOMAIN protocols[v].classes
                 PROVE  IsAdded(at', v, i) <=> IsAdded(at, v, i)
      OBVIOUS
    <3>1. v \in Nat /\ i \in 1..Len(protocols[v].classes) /\ Len(protocols[v].classes) \in Nat
      BY <1>2
    <3>2. v = at.version => i < at.class
      BY <1>1, <2>1, <3>1
    <3>3. ~(i < 1)
      BY <3>1
    <3>4. v < at.version + 1 <=> v < at.version \/ v = at.version
      BY <1>1, <3>1
    <3>5. at'.version = at.version + 1 /\ at'.class = 1
      BY <2>1
    <3>6. QED
      BY <3>2, <3>3, <3>4, <3>5 DEF IsAdded
  <2>3. AddedClasses' = AddedClasses
    <3>1. AllClasses' = AllClasses
      BY <2>1 DEF AllClasses
    <3>2. QED
      BY <2>1, <2>2, <3>1 DEF AddedClasses
  <2>4. QED
    BY <1>3, <2>1, <2>3, SumsStay
<1>8. CASE AllAdded
  <2>1. at.version > Len(protocols) /\ UNCHANGED <<protocols, specs, at>> /\ outcome' = "making"
    BY <1>8 DEF AllAdded
  <2>2. AddedClasses' = AddedClasses
    BY <2>1, SameAdded
  <2>3. \A v \in DOMAIN protocols : v < at.version
    BY <1>1, <1>2, <2>1
  <2>4. AddedClasses = AllClasses
    <3> SUFFICES ASSUME NEW c \in AllClasses
                 PROVE  c \in AddedClasses
      BY DEF AddedClasses
    <3>1. PICK v \in DOMAIN protocols : \E i \in DOMAIN protocols[v].classes : c = protocols[v].classes[i]
      BY DEF AllClasses, ToSet
    <3>2. QED
      BY <2>3, <3>1 DEF AddedClasses, IsAdded
  <2>5. QED
    BY <2>1, <2>2, <2>4, SumsStay
<1>9. CASE MakeClass
  <2>1. /\ UNCHANGED <<protocols, specs, at>> /\ outcome = "making"
        /\ outcome' \in {outcome, "key error"}
    BY <1>9 DEF MakeClass, Fail
  <2>2. QED
    BY <1>4, <2>1
<1>10. CASE Done
  BY <1>4, <1>10 DEF Done
<1>11. CASE UNCHANGED unifyVars
  BY <1>4, <1>11 DEF unifyVars
<1>12. QED
  BY <1>5, <1>6, <1>7, <1>8, <1>9, <1>10, <1>11 DEF Unify

\* Before anything is added, nothing is said.
LEMMA SumsInitially == InitUnify => SumInv
<1> SUFFICES ASSUME InitUnify
             PROVE  SumInv
  OBVIOUS
<1>1. /\ specs = <<>> /\ outcome = "adding" /\ protocols \in Protocols
      /\ at.version = 1 /\ at.class = 1
  BY DEF InitUnify
<1>2. /\ DOMAIN protocols = 1..Len(protocols) /\ Len(protocols) \in Nat
      /\ \A v \in DOMAIN protocols :
            DOMAIN protocols[v].classes = 1..Len(protocols[v].classes) /\ Len(protocols[v].classes) \in Nat
  BY <1>1, InputClasses
<1>3. \A v \in DOMAIN protocols : \A i \in DOMAIN protocols[v].classes : ~IsAdded(at, v, i)
  BY <1>1, <1>2 DEF IsAdded
<1>4. AddedClasses = {}
  BY <1>3 DEF AddedClasses
<1>5. QED
  BY <1>1, <1>4, ListedEmpty DEF SumInv

\* What the specifications say is what the unified classes are promised to be.
LEMMA SumsUnify == UnifyInv /\ SumInv => UnifiedOrReported
<1> SUFFICES ASSUME UnifyInv, SumInv
             PROVE  UnifiedOrReported
  OBVIOUS
<1>1. UnionOfVersions
  <2> SUFFICES ASSUME outcome = "done", NEW i \in DOMAIN unified
               PROVE  LET u == unified[i]
                          versions == VersionsOf(u.name)
                      IN  /\ NamesOf(u.members) = {m.name : m \in UNION {NamedMembers(c) : c \in versions}}
                          /\ \A c \in versions : \A m \in NamedMembers(c) : Named(u.members, m.name).kind = m.kind
                          /\ \A j, k \in DOMAIN u.members : u.members[j].name = u.members[k].name => j = k
                          /\ u.fixed <=> \A c, d \in versions : c.fixed /\ c.base = d.base
                          /\ \A c \in versions : u.base <= c.base
                          /\ \E c \in versions : u.base = c.base
    BY DEF UnionOfVersions
  <2> DEFINE u == unified[i]
             A == VersionsOf(u.name)
  <2>1. i \in DOMAIN specs /\ u = specs[i]
    BY DEF UnifyInv, Made
  <2>2. A = OfName(AddedClasses, u.name)
    BY DEF SumInv, VersionsOf, OfName
  <2>3. Sums(u, A)
    BY <2>1, <2>2 DEF SumInv
  <2>4. A # {}
    BY <2>1 DEF UnifyInv, Taken, VersionsOf
  <2> HIDE DEF u, A
  <2>5. /\ Listed(u.members) /\ OncePerName(u.members)
        /\ MemberNames(A) \subseteq NamesOf(u.members)
        /\ \A k \in DOMAIN u.members : \E c \in A : u.members[k] \in NamedMembers(c)
        /\ \A c \in A : \A m \in NamedMembers(c) : \A k \in DOMAIN u.members :
              u.members[k].name = m.name => u.members[k].kind = m.kind
    BY <2>3 DEF Sums, MembersOf
  <2>6. NamesOf(u.members) = {m.name : m \in UNION {NamedMembers(c) : c \in A}}
    <3>1. NamesOf(u.members) \subseteq MemberNames(A)
      BY <2>5 DEF NamesOf, MemberNames
    <3>2. NamesOf(u.members) = MemberNames(A)
      BY <2>5, <3>1
    <3>3. QED
      BY <3>2 DEF MemberNames
  <2>7. ASSUME NEW c \in A, NEW m \in NamedMembers(c)
        PROVE  Named(u.members, m.name).kind = m.kind
    <3>1. m.name \in NamesOf(u.members)
      BY <2>5 DEF MemberNames
    <3>2. IndexOf(u.members, m.name) \in DOMAIN u.members /\ u.members[IndexOf(u.members, m.name)].name = m.name
      BY <3>1, IndexFound
    <3>3. QED
      BY <2>5, <3>2 DEF Named
  <2>8. \A j, k \in DOMAIN u.members : u.members[j].name = u.members[k].name => j = k
    BY <2>5 DEF OncePerName
  <2>9. /\ u.fixed <=> \A c, d \in A : c.fixed /\ c.base = d.base
        /\ \A c \in A : u.base <= c.base
        /\ \E c \in A : u.base = c.base
    BY <2>3, <2>4 DEF Sums, LengthOf
  <2>10. QED
    BY <2>6, <2>7, <2>8, <2>9 DEF u, A
<1>2. outcome \in {"making", "done"} => ~Contradiction
  <2> SUFFICES ASSUME outcome \in {"making", "done"}, NEW c \in AllClasses, NEW d \in AllClasses,
                      c.name = d.name
               PROVE  ~MembersDiffer(c, d) /\ ~ParamsDiffer(c, d)
    BY DEF Contradiction
  <2>1. c \in AddedClasses /\ d \in AddedClasses
    BY DEF SumInv
  <2>2. PICK i \in DOMAIN specs : specs[i].name = c.name
    BY <2>1 DEF SumInv, NamesOf
  <2>3. Sums(specs[i], OfName(AddedClasses, c.name))
    BY <2>2 DEF SumInv
  <2>4. c \in OfName(AddedClasses, c.name) /\ d \in OfName(AddedClasses, c.name)
    BY <2>1 DEF OfName
  <2>5. QED
    BY <2>3, <2>4, SumsMean
<1>3. outcome \in {"member clash", "param clash"} => Contradiction
  BY DEF SumInv
<1>4. ClashesReported
  BY <1>2, <1>3 DEF ClashesReported, Contradiction, MembersDiffer, ParamsDiffer
<1>5. QED
  BY <1>1, <1>4 DEF UnifiedOrReported
-----------------------------------------------------------------------------
\* For every number of versions and whatever their classes: build_unified_ir()
\* gives a class every member of every version once and in its kind, and the
\* least length of all versions, which it calls fixed exactly if all have it;
\* and it reports versions that contradict each other, and only those.
THEOREM VersionsUnified == UnifySpec => []UnifiedOrReported
<1>1. InitUnify => UnifyInv /\ SumInv
  BY UnifyInitially, SumsInitially
<1>2. UnifyInv /\ SumInv /\ [Unify]_unifyVars => (UnifyInv /\ SumInv)'
  BY UnifyStep, SumsStep
<1>3. UnifyInv /\ SumInv => UnifiedOrReported
  BY SumsUnify
<1>4. QED
  BY <1>1, <1>2, <1>3, PTL DEF UnifySpec
=============================================================================

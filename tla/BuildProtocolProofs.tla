------------------------- MODULE BuildProtocolProofs -------------------------
(***************************************************************************)
(* build_protocol() puts every class behind those it depends on, for every *)
(* set of class names, every version, and all declarations that the input  *)
(* files may hold, those with cycles and classes that do not exist too.    *)
(*                                                                         *)
(* That a class is built after its superclass and after the classes of its *)
(* members is a property of the whole stack of calls: what a call waits    *)
(* for has been built, is still on its list, or is what the call above it  *)
(* is building.  An ID class is built only when the main loop has built    *)
(* the class itself, so that all of its superclasses are there and one of  *)
(* them is the topmost that has no ID class yet.                           *)
(*                                                                         *)
(* The errors are right because every call is there for a reason (Reasons) *)
(* and every class is built or will be (Coverage); the protocols are those *)
(* of the files because the inputs of a version are, place by place, the   *)
(* structs of the files that are for it (Made).  The types of the members  *)
(* are plain or of a class built before (TypesInv).  And there is an ID    *)
(* class of exactly the subclasses of roots, as the main loop asks for all *)
(* of them and the superclasses of a subclass of a root are such, up to    *)
(* that root (RootAbove).                                                  *)
(*                                                                         *)
(* The lengths of a class are those of the finished protocol because they  *)
(* are computed from the classes before it (Sized), and a class that comes *)
(* later changes the length of no member of it (MemberStays).              *)
(***************************************************************************)
EXTENDS FrontEnd, SequenceLemmas, FiniteSetTheorems

Built == ClassNames(classes)

\* What a class depends on: its superclass, and the classes it embeds.
Dependencies(d) == DependsOn(d) \cup ({d.super} \ {NoClass})

\* A call that is waiting, and what it still has to do.
Frame(f) == f = [name |-> f.name, todo |-> f.todo] /\ Listed(f.todo)

\* n will be built before the call at j goes on: that is what the call above
\* it does, or it is on the list of the call.
Above(s, j, n) == j + 1 \in DOMAIN s /\ s[j + 1].name = n
Listing(s, j, n) == \E p \in DOMAIN s[j].todo : s[j].todo[p] = Build(n)

\* The declarations collected so far, by their names.
Collection ==
    /\ Declares(decls)
    /\ IsFiniteSet(DOMAIN frontend) /\ DOMAIN frontend \subseteq Names
    /\ \A n \in DOMAIN frontend : frontend[n].name = n /\ frontend[n] \in ToSet(decls)

\* The calls above the main loop build different classes that are not built.
Callers(s, built) ==
    /\ Listed(s) /\ \A j \in DOMAIN s : Frame(s[j])
    /\ \A j \in DOMAIN s : j # 1 =>
          /\ s[j].name \in DOMAIN frontend /\ s[j].name \notin built
          /\ \A p \in DOMAIN s[j].todo : s[j].todo[p].op = "class"
          /\ \A k \in DOMAIN s : k # 1 /\ s[k].name = s[j].name => k = j

\* What a call needs is built, or will be before it goes on.
Waiting(s, built) ==
    \A j \in DOMAIN s : j # 1 =>
        \A n \in Dependencies(frontend[s[j].name]) :
            n \in built \/ Listing(s, j, n) \/ Above(s, j, n)

\* The main loop builds a class before its ID class.
IdsLater(s, built) ==
    \A p \in DOMAIN s[1].todo :
        LET call == s[1].todo[p]
        IN  call.op = "id" =>
                /\ call.name \in DOMAIN frontend
                /\ \/ call.name \in built
                   \/ p # 1 /\ s[1].todo[p - 1] = Build(call.name)
                   \/ p = 1 /\ Above(s, 1, call.name)

\* Every class comes after what it depends on.
InOrder(cs) ==
    \A i \in DOMAIN cs :
        LET before == {cs[j].name : j \in 1..i - 1}
        IN  /\ cs[i].name \notin before
            /\ cs[i].super # NoClass => cs[i].super \in before
            /\ cs[i].name \in DOMAIN frontend =>
                   /\ Dependencies(frontend[cs[i].name]) \subseteq before
                   /\ cs[i].super = frontend[cs[i].name].super
            /\ cs[i].name \in DOMAIN frontend \cup IdNames

BuildInv ==
    /\ Collection
    /\ Callers(stack, Built) /\ Waiting(stack, Built)
    /\ stack # <<>> => IdsLater(stack, Built)
    /\ stack = <<>> => classes = <<>>
    /\ Listed(classes) /\ InOrder(classes)
-----------------------------------------------------------------------------
(* The lists of calls.                                                      *)

\* A sequence of one element.
LEMMA One ==
    ASSUME NEW e, NEW T, e \in T
    PROVE  <<e>> \in Seq(T) /\ Len(<<e>>) = 1 /\ <<e>>[1] = e
OBVIOUS

\* A sequence of two elements.
LEMMA Two ==
    ASSUME NEW e, NEW f, NEW T, e \in T, f \in T
    PROVE  <<e, f>> \in Seq(T) /\ Len(<<e, f>>) = 2 /\ <<e, f>>[1] = e /\ <<e, f>>[2] = f
OBVIOUS

\* A declaration is as the files hold it, with a list of members.
LEMMA MembersListed ==
    ASSUME NEW ds, Declares(ds), NEW d \in ToSet(ds)
    PROVE  Declared(d) /\ Listed(d.members)
<1>1. PICK i \in DOMAIN ds : ds[i] = d
  BY DEF ToSet
<1>2. Declared(d)
  BY <1>1 DEF Declares
<1>3. QED
  BY <1>2 DEF Declared, Listed

\* build_class() calls itself for everything that the class depends on.
LEMMA NeedsAll ==
    ASSUME Collection, NEW d \in ToSet(decls)
    PROVE  /\ Listed(Needs(d))
           /\ \A p \in DOMAIN Needs(d) : Needs(d)[p].op = "class"
           /\ \A n \in Dependencies(d) : \E p \in DOMAIN Needs(d) : Needs(d)[p] = Build(n)
<1> DEFINE T == {Build(n) : n \in {d.super} \cup {m.type : m \in ToSet(d.members)}}
           super == IF d.super = NoClass THEN <<>> ELSE <<Build(d.super)>>
           calls(m) == IF m.count = 1 /\ m.type \in DOMAIN frontend THEN <<Build(m.type)>> ELSE <<>>
           ss == [i \in DOMAIN d.members |-> calls(d.members[i])]
           rest == FlattenSeq(ss)
<1>1. Listed(d.members)
  BY MembersListed DEF Collection
<1>2. DOMAIN d.members = 1..Len(d.members) /\ Len(d.members) \in Nat
  BY <1>1, ListedLength
<1>3. \A i \in DOMAIN d.members : d.members[i] \in ToSet(d.members)
  BY DEF ToSet
<1>4. \A m \in ToSet(d.members) : Build(m.type) \in T
  OBVIOUS
<1>5. Build(d.super) \in T
  OBVIOUS
<1>6. \A n : Build(n).op = "class"
  BY DEF Build
<1>7. \A t \in T : t.op = "class"
  BY <1>6
<1>8. Needs(d) = super \o rest
  BY DEF Needs
<1> HIDE DEF T
<1>9. super \in Seq(T) /\ (d.super # NoClass => Len(super) = 1 /\ super[1] = Build(d.super))
  <2>1. CASE d.super = NoClass
    BY <2>1, EmptySeq
  <2>2. CASE d.super # NoClass
    <3>1. super = <<Build(d.super)>>
      BY <2>2
    <3> HIDE DEF super
    <3>2. QED
      BY <1>5, <2>2, <3>1, One
  <2>3. QED
    BY <2>1, <2>2
<1>10. \A m \in ToSet(d.members) : calls(m) \in Seq(T)
  <2>1. ASSUME NEW m \in ToSet(d.members)
        PROVE  calls(m) \in Seq(T)
    <3>1. <<Build(m.type)>> \in Seq(T) /\ <<>> \in Seq(T)
      BY <1>4, One, EmptySeq
    <3>2. QED
      BY <3>1
  <2>2. QED
    BY <2>1
<1>11. ss \in [1..Len(d.members) -> Seq(T)] /\ \A i \in 1..Len(d.members) : ss[i] = calls(d.members[i])
  BY <1>2, <1>3, <1>10
<1>12. \A m \in ToSet(d.members) : m.count = 1 /\ m.type \in DOMAIN frontend =>
          Len(calls(m)) = 1 /\ calls(m)[1] = Build(m.type)
  <2>1. ASSUME NEW m \in ToSet(d.members), m.count = 1, m.type \in DOMAIN frontend
        PROVE  Len(calls(m)) = 1 /\ calls(m)[1] = Build(m.type)
    <3>1. calls(m) = <<Build(m.type)>>
      BY <2>1
    <3>2. QED
      BY <1>4, <3>1, One
  <2>2. QED
    BY <2>1
<1> HIDE DEF ss, super, calls
<1>13. ss \in Seq(Seq(T)) /\ Len(ss) = Len(d.members)
  <2>1. ss \in Seq(Seq(T))
    BY <1>2, <1>11, SeqDef
  <2>2. DOMAIN ss = 1..Len(ss) /\ Len(ss) \in Nat
    BY <2>1, LenProperties
  <2>3. DOMAIN ss = 1..Len(d.members)
    BY <1>11
  <2>4. QED
    BY <1>2, <2>1, <2>2, <2>3
<1>14. rest \in Seq(T) /\ Listed(rest) /\ Blocks(rest, ss, Len(ss))
  BY <1>13, FlattenBlocks
<1> HIDE DEF rest
<1>23. \A i \in 1..Len(ss) : \A k \in 1..Len(ss[i]) : \E p \in 1..Len(rest) : rest[p] = ss[i][k]
  BY <1>14, Zenon DEF Blocks
<1>15. Listed(super)
  <2>1. Len(super) \in Nat /\ super = [i \in 1..Len(super) |-> super[i]]
    BY <1>9, LenProperties
  <2>2. QED
    BY <2>1, ListedFunction
<1>16. /\ Listed(super \o rest) /\ DOMAIN (super \o rest) = 1..Len(super) + Len(rest)
       /\ \A i \in 1..Len(super) : (super \o rest)[i] = super[i]
       /\ \A i \in 1..Len(rest) : (super \o rest)[Len(super) + i] = rest[i]
  BY <1>14, <1>15, ListedJoined
<1>17. super \o rest \in Seq(T)
  BY <1>9, <1>14, ConcatProperties
<1> DEFINE w == super \o rest
<1>18. w \in Seq(T) /\ Listed(w) /\ DOMAIN w = 1..Len(super) + Len(rest)
       /\ (\A i \in 1..Len(super) : w[i] = super[i])
       /\ (\A i \in 1..Len(rest) : w[Len(super) + i] = rest[i])
       /\ Needs(d) = w
  BY <1>8, <1>16, <1>17
<1> HIDE DEF w
<1>19. \A p \in DOMAIN w : w[p] \in T
  BY <1>18, LenProperties, ElementOfSeq
<1>20. Len(super) \in Nat /\ Len(rest) \in Nat
  BY <1>9, <1>14, LenProperties
<1>21. ASSUME NEW n \in Dependencies(d)
       PROVE  \E p \in DOMAIN w : w[p] = Build(n)
  <2>1. CASE n = d.super /\ n # NoClass
    <3>1. 1 \in 1..Len(super) /\ super[1] = Build(n)
      BY <1>9, <2>1
    <3>2. 1 \in DOMAIN w
      BY <1>18, <1>20, <3>1
    <3>3. QED
      BY <1>18, <3>1, <3>2
  <2>2. CASE ~(n = d.super /\ n # NoClass)
    <3>1. n \in DOMAIN frontend /\
          (n = d.super \/ \E i \in DOMAIN d.members : d.members[i].type = n /\ d.members[i].count = 1)
      BY <2>2 DEF Dependencies, DependsOn
    <3>2. CASE n = d.super
      <4>1. n \in Names /\ n = NoClass
        BY <2>2, <3>1, <3>2 DEF Collection
      <4>2. QED
        BY <4>1, BuildAssumption
    <3>3. CASE \E i \in DOMAIN d.members : d.members[i].type = n /\ d.members[i].count = 1
      <4>1. PICK i \in DOMAIN d.members : d.members[i].type = n /\ d.members[i].count = 1
        BY <3>3
      <4>2. Len(calls(d.members[i])) = 1 /\ calls(d.members[i])[1] = Build(n)
        BY <1>3, <1>12, <3>1, <4>1
      <4>3. i \in 1..Len(ss) /\ ss[i] = calls(d.members[i])
        BY <1>2, <1>11, <1>13
      <4>4. 1 \in 1..Len(ss[i]) /\ ss[i][1] = Build(n)
        <5>1. Len(ss[i]) = 1
          BY <4>2, <4>3
        <5>2. QED
          BY <4>2, <4>3, <5>1
      <4>5. PICK p \in 1..Len(rest) : rest[p] = Build(n)
        <5>1. i \in 1..Len(ss)
          BY <4>3
        <5>2. \E p \in 1..Len(rest) : rest[p] = ss[i][1]
          BY <1>23, <4>4, <5>1
        <5>3. QED
          BY <4>4, <5>2
      <4>6. Len(super) + p \in DOMAIN w /\ w[Len(super) + p] = Build(n)
        BY <1>18, <1>20, <4>5
      <4>7. QED
        BY <4>6
    <3>4. QED
      BY <3>1, <3>2, <3>3
  <2>3. QED
    BY <2>1, <2>2
<1>22. QED
  BY <1>7, <1>18, <1>19, <1>21

\* A call for the struct that has the name of the ID class of n.
ForStruct(call, n) == call.op = "class" /\ call.name = IdName[n]

\* The calls of the main loop: a class, and then its ID class.
MainCalls(n) == IF n \in DOMAIN frontend THEN <<Build(n), BuildId(n)>> ELSE <<>>
MainTodo == FlattenSeq([i \in DOMAIN Sorted |-> MainCalls(Sorted[i])])

\* The main loop is a list of calls, where an ID class follows its class.
LEMMA MainLoop ==
    /\ Listed(MainTodo)
    /\ \A p \in DOMAIN MainTodo : MainTodo[p].op = "id" =>
          /\ MainTodo[p].name \in DOMAIN frontend
          /\ p # 1 /\ MainTodo[p - 1] = Build(MainTodo[p].name)
<1> DEFINE T == {Build(n) : n \in Names} \cup {BuildId(n) : n \in Names}
           ss == [i \in DOMAIN Sorted |-> MainCalls(Sorted[i])]
           w == MainTodo
<1>1. DOMAIN Sorted = 1..Len(Sorted) /\ Len(Sorted) \in Nat
  BY BuildAssumption, LenProperties
<1>2. \A n \in Names : Build(n) \in T /\ BuildId(n) \in T
  OBVIOUS
<1>3. \A n : Build(n).op = "class" /\ BuildId(n).op = "id" /\ BuildId(n).name = n
  BY DEF Build, BuildId
<1> HIDE DEF T
<1>4. \A n \in Names : MainCalls(n) \in Seq(T) /\
         (MainCalls(n) = <<>> \/
          (n \in DOMAIN frontend /\ Len(MainCalls(n)) = 2
             /\ MainCalls(n)[1] = Build(n) /\ MainCalls(n)[2] = BuildId(n)))
  <2>1. ASSUME NEW n \in Names
        PROVE  MainCalls(n) \in Seq(T) /\
               (MainCalls(n) = <<>> \/
                (n \in DOMAIN frontend /\ Len(MainCalls(n)) = 2
                   /\ MainCalls(n)[1] = Build(n) /\ MainCalls(n)[2] = BuildId(n)))
    <3>1. CASE n \in DOMAIN frontend
      <4>1. MainCalls(n) = <<Build(n), BuildId(n)>>
        BY <3>1 DEF MainCalls
      <4>2. QED
        BY <1>2, <3>1, <4>1, Two
    <3>2. CASE n \notin DOMAIN frontend
      BY <3>2, EmptySeq DEF MainCalls
    <3>3. QED
      BY <3>1, <3>2
  <2>2. QED
    BY <2>1
<1>5. \A i \in 1..Len(Sorted) : Sorted[i] \in Names
  BY <1>1, BuildAssumption, ElementOfSeq
<1>6. ss \in [1..Len(Sorted) -> Seq(T)] /\ \A i \in 1..Len(Sorted) : ss[i] = MainCalls(Sorted[i])
  BY <1>1, <1>4, <1>5
<1>7. w = FlattenSeq(ss)
  BY DEF MainTodo
<1> HIDE DEF ss, w
<1>8. ss \in Seq(Seq(T)) /\ DOMAIN ss = 1..Len(Sorted)
  BY <1>1, <1>6, SeqDef
<1>9. Len(ss) = Len(Sorted)
  <2>1. DOMAIN ss = 1..Len(ss) /\ Len(ss) \in Nat
    BY <1>8, LenProperties
  <2>2. QED
    BY <1>1, <1>8, <2>1
<1>10. w \in Seq(T) /\ Listed(w) /\ Blocks(w, ss, Len(ss))
  BY <1>7, <1>8, FlattenBlocks
<1>11. DOMAIN w = 1..Len(w) /\ Len(w) \in Nat
  BY <1>10, ListedLength
<1>12. \A p \in 1..Len(w) : \E i \in 1..Len(ss) : \E k \in 1..Len(ss[i]) :
          k <= p /\ \A m \in 1..k : w[(p - k) + m] = ss[i][m]
  BY <1>10, Zenon DEF Blocks
<1>13. ASSUME NEW p \in DOMAIN w, w[p].op = "id"
       PROVE  w[p].name \in DOMAIN frontend /\ p # 1 /\ w[p - 1] = Build(w[p].name)
  <2>1. PICK i \in 1..Len(ss) : \E k \in 1..Len(ss[i]) :
           k <= p /\ \A m \in 1..k : w[(p - k) + m] = ss[i][m]
    BY <1>11, <1>12
  <2>2. PICK k \in 1..Len(ss[i]) : k <= p /\ \A m \in 1..k : w[(p - k) + m] = ss[i][m]
    BY <2>1
  <2> DEFINE n == Sorted[i]
             b == ss[i]
  <2>3. n \in Names /\ b = MainCalls(n)
    BY <1>5, <1>6, <1>9
  <2>4. k \in 1..Len(b) /\ k <= p /\ p \in 1..Len(w) /\ \A m \in 1..k : w[(p - k) + m] = b[m]
    BY <1>11, <2>2
  <2> HIDE DEF n, b
  <2>5. b # <<>>
    <3>1. Len(<<>>) = 0
      BY EmptySeq
    <3>2. QED
      BY <2>4, <3>1
  <2>6. n \in DOMAIN frontend /\ Len(b) = 2 /\ b[1] = Build(n) /\ b[2] = BuildId(n)
    BY <1>4, <2>3, <2>5
  <2>7. k \in {1, 2} /\ p \in Nat
    BY <1>11, <2>4, <2>6
  <2>8. w[p] = b[k]
    <3>1. k \in 1..k /\ (p - k) + k = p
      BY <2>7
    <3>2. QED
      BY <2>4, <3>1
  <2>9. k = 2
    <3>1. b[1].op # "id"
      BY <1>3, <2>6
    <3>2. QED
      BY <1>13, <2>7, <2>8, <3>1
  <2>10. w[p - 1] = Build(n) /\ p # 1
    <3>1. 1 \in 1..k /\ (p - k) + 1 = p - 1 /\ p # 1
      BY <2>4, <2>7, <2>9
    <3>2. QED
      BY <2>4, <2>6, <3>1
  <2>11. w[p].name = n
    BY <1>3, <2>6, <2>8, <2>9
  <2>12. QED
    BY <2>6, <2>10, <2>11
<1>14. QED
  BY <1>10, <1>13 DEF w
-----------------------------------------------------------------------------
(* The classes built so far.                                                *)

\* The names of the first classes.
LEMMA NamesBefore ==
    ASSUME NEW cs, Listed(cs), NEW i \in DOMAIN cs
    PROVE  ClassNames(SubSeq(cs, 1, i - 1)) = {cs[j].name : j \in 1..i - 1}
<1>1. DOMAIN cs = 1..Len(cs) /\ Len(cs) \in Nat
  BY ListedLength
<1>2. i - 1 \in 0..Len(cs)
  BY <1>1
<1> DEFINE s == SubSeq(cs, 1, i - 1)
<1>3. DOMAIN s = 1..i - 1 /\ \A j \in 1..i - 1 : s[j] = cs[j]
  BY <1>2, ListedFirst
<1> HIDE DEF s
<1>4. ClassNames(s) = {cs[j].name : j \in 1..i - 1}
  BY <1>3 DEF ClassNames
<1>5. QED
  BY <1>4 DEF s

\* A class may go to the end if what it depends on is there.
LEMMA AppendInOrder ==
    ASSUME Listed(classes), InOrder(classes), NEW c,
           c.name \notin Built, c.super # NoClass => c.super \in Built,
           c.name \in DOMAIN frontend => /\ Dependencies(frontend[c.name]) \subseteq Built
                                         /\ c.super = frontend[c.name].super,
           c.name \in DOMAIN frontend \cup IdNames
    PROVE  /\ Listed(Append(classes, c)) /\ InOrder(Append(classes, c))
           /\ ClassNames(Append(classes, c)) = Built \cup {c.name}
<1> DEFINE cs == Append(classes, c)
           k == Len(classes) + 1
<1>1. DOMAIN classes = 1..Len(classes) /\ Len(classes) \in Nat
  BY ListedLength
<1>2. /\ Listed(cs) /\ DOMAIN cs = 1..k /\ cs[k] = c
      /\ \A i \in 1..Len(classes) : cs[i] = classes[i]
  BY ListedAppend
<1> HIDE DEF cs
<1>3. \A i \in DOMAIN cs : i \in DOMAIN classes \/ i = k
  BY <1>1, <1>2
<1>4. DOMAIN classes \subseteq DOMAIN cs /\ k \in DOMAIN cs /\ 1..k - 1 = DOMAIN classes
  BY <1>1, <1>2
<1>5. ClassNames(cs) = Built \cup {c.name}
  BY <1>1, <1>2, <1>3, <1>4 DEF ClassNames, Built
<1>6. ASSUME NEW i \in DOMAIN cs
      PROVE  LET before == {cs[j].name : j \in 1..i - 1}
             IN  /\ cs[i].name \notin before
                 /\ cs[i].super # NoClass => cs[i].super \in before
                 /\ cs[i].name \in DOMAIN frontend =>
                        /\ Dependencies(frontend[cs[i].name]) \subseteq before
                        /\ cs[i].super = frontend[cs[i].name].super
                 /\ cs[i].name \in DOMAIN frontend \cup IdNames
  <2>1. CASE i \in DOMAIN classes
    <3>1. \A j \in 1..i - 1 : j \in 1..Len(classes)
      BY <1>1, <2>1
    <3>2. {cs[j].name : j \in 1..i - 1} = {classes[j].name : j \in 1..i - 1}
      BY <1>2, <3>1
    <3>3. cs[i] = classes[i]
      BY <1>1, <1>2, <2>1
    <3>4. QED
      BY <2>1, <3>2, <3>3 DEF InOrder
  <2>2. CASE i = k
    <3>1. {cs[j].name : j \in 1..i - 1} = Built
      BY <1>1, <1>2, <1>4, <2>2 DEF Built, ClassNames
    <3>2. cs[i] = c
      BY <1>2, <2>2
    <3>3. QED
      BY <3>1, <3>2
  <2>3. QED
    BY <1>3, <2>1, <2>2
<1>7. InOrder(cs)
  BY <1>6 DEF InOrder
<1>8. QED
  BY <1>2, <1>5, <1>7 DEF cs

\* A set of classes with all of their superclasses.
Upward(ns) ==
    /\ ns \subseteq DOMAIN frontend
    /\ \A k \in ns : frontend[k].super = NoClass \/ frontend[k].super \in ns

\* Some superclass of a class without an ID class is the topmost that has
\* none: the superclasses of what is built are built.
LEMMA MissingFound ==
    ASSUME Collection, Listed(classes), InOrder(classes),
           NEW n \in DOMAIN frontend, n \in Built, IdName[n] \notin Built
    PROVE  LET k == MissingId(n)
           IN  /\ k \in DOMAIN frontend /\ IdName[k] \notin Built
               /\ frontend[k].super = NoClass \/ IdName[frontend[k].super] \in Built
               /\ k \in Lineage(n) /\ Upward(Built \cap DOMAIN frontend)
<1> DEFINE B == Built \cap DOMAIN frontend
           M == {k \in Lineage(n) : IdName[k] \notin Built}
           T == {i \in DOMAIN classes : classes[i].name \in M}
<1>1. DOMAIN classes = 1..Len(classes) /\ Len(classes) \in Nat
  BY ListedLength
<1>2. ASSUME NEW i \in DOMAIN classes, classes[i].name \in DOMAIN frontend,
             frontend[classes[i].name].super # NoClass
      PROVE  \E j \in 1..i - 1 :
                 j \in DOMAIN classes /\ classes[j].name = frontend[classes[i].name].super
                 /\ classes[j].name \in DOMAIN frontend
  <2> DEFINE super == frontend[classes[i].name].super
  <2>1. classes[i].super = super
    BY <1>2 DEF InOrder
  <2>2. PICK j \in 1..i - 1 : classes[j].name = super
    BY <1>2, <2>1 DEF InOrder
  <2>3. j \in DOMAIN classes
    BY <1>1, <2>2
  <2>4. classes[j].name \in DOMAIN frontend \cup IdNames
    BY <2>3 DEF InOrder
  <2>5. super \notin IdNames
    <3>1. frontend[classes[i].name] \in ToSet(decls)
      BY <1>2 DEF Collection
    <3>2. PICK m \in DOMAIN decls : decls[m] = frontend[classes[i].name]
      BY <3>1 DEF ToSet
    <3>3. decls[m].super \notin IdNames
      BY DEF Collection, Declares, Declared
    <3>4. QED
      BY <3>2, <3>3
  <2>6. QED
    BY <2>2, <2>3, <2>4, <2>5
<1>3. B \in SUBSET DOMAIN frontend /\ n \in B
  OBVIOUS
<1>4. \A k \in B : frontend[k].super \in B \cup {NoClass}
  <2>1. ASSUME NEW k \in B, frontend[k].super # NoClass
        PROVE  frontend[k].super \in B
    <3>1. PICK i \in DOMAIN classes : classes[i].name = k
      BY <2>1 DEF Built, ClassNames
    <3>2. PICK j \in DOMAIN classes : classes[j].name = frontend[k].super
                                      /\ classes[j].name \in DOMAIN frontend
      BY <1>2, <2>1, <3>1
    <3>3. QED
      BY <3>2 DEF Built, ClassNames
  <2>2. QED
    BY <2>1
<1>5. Lineage(n) \subseteq B
  BY <1>3, <1>4 DEF Lineage
<1>6. n \in Lineage(n)
  BY DEF Lineage
<1>7. ASSUME NEW k \in Lineage(n), frontend[k].super # NoClass, frontend[k].super \in DOMAIN frontend
      PROVE  frontend[k].super \in Lineage(n)
  BY <1>7 DEF Lineage
<1>8. T \subseteq Nat /\ T # {}
  <2>1. PICK i \in DOMAIN classes : classes[i].name = n
    BY DEF Built, ClassNames
  <2>2. i \in T
    BY <1>6, <2>1
  <2>3. QED
    BY <1>1, <2>2
<1>9. PICK i \in T : \A j \in T : i <= j
  BY <1>8, LeastNumber
<1> DEFINE k == classes[i].name
<1>10. k \in Lineage(n) /\ IdName[k] \notin Built /\ k \in DOMAIN frontend
  BY <1>5, <1>9
<1>11. frontend[k].super = NoClass \/ IdName[frontend[k].super] \in Built
  <2> SUFFICES ASSUME frontend[k].super # NoClass, IdName[frontend[k].super] \notin Built
               PROVE  FALSE
    OBVIOUS
  <2>1. PICK j \in 1..i - 1 : j \in DOMAIN classes /\ classes[j].name = frontend[k].super
                              /\ classes[j].name \in DOMAIN frontend
    BY <1>2, <1>9, <1>10
  <2>2. frontend[k].super \in Lineage(n)
    BY <1>7, <1>10, <2>1
  <2>3. j \in T
    BY <2>1, <2>2
  <2>4. QED
    BY <1>8, <1>9, <2>1, <2>3
<1>12. /\ MissingId(n) \in Lineage(n) /\ IdName[MissingId(n)] \notin Built
       /\ frontend[MissingId(n)].super = NoClass \/ IdName[frontend[MissingId(n)].super] \in Built
  <2>1. \E m \in Lineage(n) : /\ IdName[m] \notin ClassNames(classes)
                              /\ \/ frontend[m].super = NoClass
                                 \/ IdName[frontend[m].super] \in ClassNames(classes)
    BY <1>10, <1>11 DEF Built
  <2>2. QED
    BY <2>1 DEF MissingId, Built
<1>13. Upward(B)
  BY <1>4 DEF Upward
<1>14. QED
  BY <1>5, <1>12, <1>13
-----------------------------------------------------------------------------
(* The steps.                                                               *)

\* What a step that leaves the declarations alone has to show.
LEMMA StepKeeps ==
    ASSUME BuildInv, decls' = decls, frontend' = frontend,
           Callers(stack', ClassNames(classes')), Waiting(stack', ClassNames(classes')),
           stack' # <<>>, IdsLater(stack', ClassNames(classes')),
           Listed(classes'), InOrder(classes')
    PROVE  BuildInv'
<1>1. Built' = ClassNames(classes')
  BY DEF Built
<1>2. Collection'
  BY DEF BuildInv, Collection
<1>3. Callers(stack, Built)' /\ IdsLater(stack, Built)'
  BY <1>1 DEF Callers, IdsLater
<1>4. Waiting(stack, Built)'
  BY <1>1 DEF Waiting, Dependencies, DependsOn
<1>5. InOrder(classes)'
  BY DEF InOrder, Dependencies, DependsOn
<1>6. QED
  BY <1>2, <1>3, <1>4, <1>5 DEF BuildInv

\* The innermost call with the first of what it has to do left out.
LEMMA PoppedProperties ==
    ASSUME BuildInv, stack # <<>>, Last(stack).todo # <<>>
    PROVE  LET k == Len(stack)
           IN  /\ DOMAIN stack = 1..k /\ k \in Nat \ {0} /\ Last(stack) = stack[k]
               /\ Listed(Popped) /\ DOMAIN Popped = 1..k /\ Len(Popped) = k
               /\ \A j \in DOMAIN stack : Popped[j].name = stack[j].name /\ Frame(Popped[j])
               /\ \A j \in DOMAIN stack : j # k => Popped[j] = stack[j]
               /\ Popped[k].todo = Tail(stack[k].todo)
               /\ Len(stack[k].todo) \in Nat \ {0} /\ DOMAIN stack[k].todo = 1..Len(stack[k].todo)
               /\ Head(Last(stack).todo) = stack[k].todo[1]
               /\ DOMAIN Tail(stack[k].todo) = 1..Len(stack[k].todo) - 1
               /\ \A p \in 1..Len(stack[k].todo) - 1 :
                      Tail(stack[k].todo)[p] = stack[k].todo[p + 1]
<1> DEFINE k == Len(stack)
           f == stack[k]
           g == [name |-> f.name, todo |-> Tail(f.todo)]
<1>1. Listed(stack) /\ \A j \in DOMAIN stack : Frame(stack[j])
  BY DEF BuildInv, Callers
<1>2. DOMAIN stack = 1..k /\ k \in Nat \ {0}
  <2>1. DOMAIN stack = 1..k /\ k \in Nat
    BY <1>1, ListedLength
  <2>2. k # 0
    BY <1>1, EmptySeq DEF Listed
  <2>3. QED
    BY <2>1, <2>2
<1>3. k \in DOMAIN stack /\ Last(stack) = f
  BY <1>2 DEF Last
<1>4. f = [name |-> f.name, todo |-> f.todo] /\ Listed(f.todo) /\ f.todo # <<>>
  BY <1>1, <1>3 DEF Frame
<1> DEFINE t == f.todo
<1>5. /\ Listed(Tail(t)) /\ DOMAIN Tail(t) = 1..Len(t) - 1 /\ Len(t) \in Nat \ {0}
      /\ Head(t) = t[1]
      /\ \A p \in 1..Len(t) - 1 : Tail(t)[p] = t[p + 1]
  BY <1>4, ListedTail
<1>6. DOMAIN t = 1..Len(t)
  BY <1>4, ListedLength
<1>7. [f EXCEPT !.todo = Tail(f.todo)] = g
  <2>1. \A a, b, c : [[name |-> a, todo |-> b] EXCEPT !.todo = c] = [name |-> a, todo |-> c]
    OBVIOUS
  <2>2. [[name |-> f.name, todo |-> f.todo] EXCEPT !.todo = Tail(f.todo)] = g
    BY <2>1
  <2>3. f = [name |-> f.name, todo |-> f.todo]
    BY <1>4
  <2> HIDE DEF f
  <2>4. QED
    BY <2>2, <2>3, Zenon
<1>8. Popped = [stack EXCEPT ![k] = g]
  <2>1. Popped = [stack EXCEPT ![k] = [stack[k] EXCEPT !.todo = Tail(stack[k].todo)]]
    BY DEF Popped
  <2>2. QED
    BY <1>7, <2>1
<1>9. g.name = f.name /\ g.todo = Tail(t) /\ g = [name |-> g.name, todo |-> g.todo]
  OBVIOUS
<1>10. Frame(g)
  BY <1>5, <1>9 DEF Frame
<1> HIDE DEF g
<1>11. Listed(Popped) /\ DOMAIN Popped = DOMAIN stack
  BY <1>1, <1>3, <1>8, ListedExcept
<1>12. Len(Popped) = k
  BY <1>2, <1>11, ListedLength
<1>13. Popped[k] = g /\ \A j \in DOMAIN stack : j # k => Popped[j] = stack[j]
  <2>1. stack = [j \in DOMAIN stack |-> stack[j]]
    <3>1. stack \in Seq(ToSet(stack))
      BY <1>1 DEF Listed
    <3>2. QED
      BY <3>1, LenProperties
  <2>2. QED
    BY <1>3, <1>8, <2>1
<1>14. \A j \in DOMAIN stack : Popped[j].name = stack[j].name /\ Frame(Popped[j])
  BY <1>1, <1>9, <1>10, <1>13
<1>15. QED
  BY <1>2, <1>3, <1>5, <1>6, <1>9, <1>11, <1>12, <1>13, <1>14

\* A call may go on if what it has called for is built, or is nothing that
\* anything waits for.
LEMMA PopStep ==
    ASSUME BuildInv, stack # <<>>, Last(stack).todo # <<>>,
           decls' = decls, frontend' = frontend, classes' = classes, stack' = Popped,
           \A n : Head(Last(stack).todo) = Build(n) => n \in Built
    PROVE  BuildInv'
<1> DEFINE k == Len(stack)
           t == stack[k].todo
           s == Popped
           built == Built
<1>1. /\ DOMAIN stack = 1..k /\ k \in Nat \ {0} /\ Last(stack) = stack[k]
      /\ Listed(s) /\ DOMAIN s = 1..k /\ Len(s) = k
  BY PoppedProperties
<1>2. /\ \A j \in DOMAIN stack : s[j].name = stack[j].name /\ Frame(s[j])
      /\ \A j \in DOMAIN stack : j # k => s[j] = stack[j]
  BY PoppedProperties
<1>3. /\ s[k].todo = Tail(t)
      /\ Len(t) \in Nat \ {0} /\ DOMAIN t = 1..Len(t)
      /\ Head(Last(stack).todo) = t[1]
      /\ DOMAIN Tail(t) = 1..Len(t) - 1
      /\ \A p \in 1..Len(t) - 1 : Tail(t)[p] = t[p + 1]
  BY PoppedProperties
<1>4. Callers(stack, built) /\ Waiting(stack, built) /\ IdsLater(stack, built)
  BY DEF BuildInv
<1>5. \A n : t[1] = Build(n) => n \in built
  BY <1>3
<1>6. stack' = s /\ ClassNames(classes') = built
  BY DEF Built
<1>7. s # <<>>
  BY <1>1, EmptySeq
<1> HIDE DEF s, k, built
<1>8. Callers(s, built)
  <2>1. ASSUME NEW j \in DOMAIN s, j # 1, NEW p \in DOMAIN s[j].todo
        PROVE  s[j].todo[p].op = "class"
    <3>1. CASE j # k
      BY <1>1, <1>2, <1>4, <2>1, <3>1 DEF Callers
    <3>2. CASE j = k
      <4>1. p \in 1..Len(t) - 1 /\ s[j].todo[p] = t[p + 1]
        BY <1>3, <2>1, <3>2
      <4>2. p + 1 \in DOMAIN t
        BY <1>3, <4>1
      <4>3. t[p + 1].op = "class"
        BY <1>1, <1>4, <2>1, <3>2, <4>2 DEF Callers
      <4>4. QED
        BY <4>1, <4>3
    <3>3. QED
      BY <3>1, <3>2
  <2>2. QED
    BY <1>1, <1>2, <1>4, <2>1 DEF Callers
<1>9. Waiting(s, built)
  <2> SUFFICES ASSUME NEW j \in DOMAIN s, j # 1,
                      NEW n \in Dependencies(frontend[stack[j].name])
               PROVE  n \in built \/ Listing(s, j, n) \/ Above(s, j, n)
    BY <1>1, <1>2 DEF Waiting
  <2>1. n \in built \/ Listing(stack, j, n) \/ Above(stack, j, n)
    BY <1>1, <1>4 DEF Waiting
  <2>2. CASE Above(stack, j, n)
    BY <1>1, <1>2, <2>2 DEF Above
  <2>3. CASE Listing(stack, j, n) /\ j # k
    BY <1>1, <1>2, <2>3 DEF Listing
  <2>4. CASE Listing(stack, j, n) /\ j = k
    <3>1. PICK p \in DOMAIN t : t[p] = Build(n)
      BY <2>4 DEF Listing
    <3>2. CASE p = 1
      BY <1>5, <3>1, <3>2
    <3>3. CASE p # 1
      <4>1. p - 1 \in 1..Len(t) - 1 /\ (p - 1) + 1 = p
        BY <1>3, <3>3
      <4>2. p - 1 \in DOMAIN s[k].todo /\ s[k].todo[p - 1] = Build(n)
        BY <1>3, <3>1, <4>1
      <4>3. QED
        BY <2>4, <4>2 DEF Listing
    <3>4. QED
      BY <3>2, <3>3
  <2>5. QED
    BY <2>1, <2>2, <2>3, <2>4
<1>10. IdsLater(s, built)
  <2>1. CASE k # 1
    <3>1. s[1] = stack[1] /\ \A n : Above(stack, 1, n) => Above(s, 1, n)
      BY <1>1, <1>2, <2>1 DEF Above
    <3>2. QED
      BY <1>4, <3>1 DEF IdsLater
  <2>2. CASE k = 1
    <3> SUFFICES ASSUME NEW p \in DOMAIN s[1].todo, s[1].todo[p].op = "id"
                 PROVE  /\ s[1].todo[p].name \in DOMAIN frontend
                        /\ \/ s[1].todo[p].name \in built
                           \/ p # 1 /\ s[1].todo[p - 1] = Build(s[1].todo[p].name)
                           \/ p = 1 /\ Above(s, 1, s[1].todo[p].name)
      BY DEF IdsLater
    <3> DEFINE call == t[p + 1]
    <3>1. p \in 1..Len(t) - 1 /\ p + 1 \in DOMAIN t /\ s[1].todo[p] = call /\ call.op = "id"
          /\ p + 1 # 1 /\ (p + 1) - 1 = p
      <4>1. s[1].todo = Tail(t)
        BY <1>3, <2>2
      <4>2. p \in 1..Len(t) - 1
        BY <1>3, <4>1
      <4>3. s[1].todo[p] = t[p + 1]
        BY <1>3, <4>1, <4>2
      <4> HIDE DEF t
      <4>4. QED
        BY <1>3, <4>2, <4>3
    <3>2. call.name \in DOMAIN frontend /\ (call.name \in built \/ t[p] = Build(call.name))
      <4>1. stack[1].todo = t
        BY <2>2
      <4>2. \A q \in DOMAIN t : t[q].op = "id" => /\ t[q].name \in DOMAIN frontend
                                                  /\ \/ t[q].name \in built
                                                     \/ q # 1 /\ t[q - 1] = Build(t[q].name)
                                                     \/ q = 1
        BY <1>4, <4>1 DEF IdsLater
      <4> HIDE DEF t
      <4>3. QED
        BY <3>1, <4>2
    <3>3. CASE p = 1
      BY <1>5, <3>1, <3>2, <3>3
    <3>4. CASE p # 1
      <4>0. \A n \in Nat : \A q \in 1..n - 1 : q # 1 => q - 1 \in 1..n - 1 /\ (q - 1) + 1 = q
        OBVIOUS
      <4>1. p - 1 \in 1..Len(t) - 1 /\ (p - 1) + 1 = p
        <5>1. Len(t) \in Nat /\ p \in 1..Len(t) - 1
          BY <1>3, <3>1
        <5> HIDE DEF t, call
        <5>2. QED
          BY <3>4, <4>0, <5>1
      <4>2. s[1].todo[p - 1] = t[p]
        BY <1>3, <2>2, <4>1
      <4>3. QED
        BY <3>1, <3>2, <3>4, <4>2
    <3>5. QED
      BY <3>3, <3>4
  <2>3. QED
    BY <2>1, <2>2
<1>11. Listed(classes') /\ InOrder(classes')
  BY DEF BuildInv
<1>12. QED
  BY <1>6, <1>7, <1>8, <1>9, <1>10, <1>11, StepKeeps

\* A call that goes in waits for what it calls.
LEMMA EnterStep == BuildInv /\ Enter => BuildInv'
<1> SUFFICES ASSUME BuildInv, Enter
             PROVE  BuildInv'
  OBVIOUS
<1> DEFINE n == Called
           d == frontend[n]
           new == [name |-> n, todo |-> Needs(d)]
           k == Len(stack)
           t == stack[k].todo
           r == Popped
           s == Append(r, new)
           built == Built
<1>1. /\ stack # <<>> /\ Last(stack).todo # <<>>
      /\ n \notin ClassNames(classes) \cup Touched(stack) /\ n \in DOMAIN frontend
      /\ stack' = s
      /\ UNCHANGED <<version, decls, frontend, classes, outcome>>
  BY DEF Enter, Calls
<1>2. /\ DOMAIN stack = 1..k /\ k \in Nat \ {0} /\ Last(stack) = stack[k]
      /\ Listed(r) /\ DOMAIN r = 1..k /\ Len(r) = k
  BY <1>1, PoppedProperties
<1>3. /\ \A j \in DOMAIN stack : r[j].name = stack[j].name /\ Frame(r[j])
      /\ \A j \in DOMAIN stack : j # k => r[j] = stack[j]
  BY <1>1, PoppedProperties
<1>4. /\ r[k].todo = Tail(t)
      /\ Len(t) \in Nat \ {0} /\ DOMAIN t = 1..Len(t)
      /\ Head(Last(stack).todo) = t[1]
      /\ DOMAIN Tail(t) = 1..Len(t) - 1
      /\ \A p \in 1..Len(t) - 1 : Tail(t)[p] = t[p + 1]
  BY <1>1, PoppedProperties
<1>5. Callers(stack, built) /\ Waiting(stack, built) /\ IdsLater(stack, built)
  BY <1>1 DEF BuildInv
<1>6. d \in ToSet(decls) /\ Collection
  BY <1>1 DEF BuildInv, Collection
<1>7. /\ Listed(Needs(d)) /\ \A p \in DOMAIN Needs(d) : Needs(d)[p].op = "class"
      /\ \A m \in Dependencies(d) : \E p \in DOMAIN Needs(d) : Needs(d)[p] = Build(m)
  BY <1>6, NeedsAll
<1>8. \A m : t[1] = Build(m) => m = n
  BY <1>4 DEF Called, Build
<1>9. ClassNames(classes') = built /\ n \notin built /\ \A j \in DOMAIN stack : j # 1 => stack[j].name # n
  BY <1>1, <1>2 DEF Built, Touched
<1>10. Frame(new) /\ new.name = n /\ new.todo = Needs(d)
  BY <1>7 DEF Frame
<1> HIDE DEF new, r, built, n
<1>11. /\ Listed(s) /\ DOMAIN s = 1..k + 1 /\ s[k + 1] = new
       /\ \A j \in 1..k : s[j] = r[j]
  BY <1>2, ListedAppend
<1> HIDE DEF s, d
<1>12. s # <<>>
  BY <1>11, <1>2, EmptySeq
<1>13. k + 1 \in DOMAIN s /\ k + 1 # 1 /\ \A j \in DOMAIN s : j = k + 1 \/ j \in DOMAIN stack
  BY <1>2, <1>11
<1>14. \A j \in DOMAIN stack : j \in DOMAIN s /\ s[j].name = stack[j].name /\ Frame(s[j])
  BY <1>2, <1>3, <1>11
<1>15. \A j \in DOMAIN stack : j # k => s[j] = stack[j]
  BY <1>2, <1>3, <1>11
<1>16. s[k].todo = Tail(t) /\ k \in DOMAIN stack
  BY <1>2, <1>4, <1>11
<1>17. \A j, m : Above(stack, j, m) => Above(s, j, m)
  BY <1>14 DEF Above
<1>18. Above(s, k, n)
  BY <1>10, <1>11, <1>13 DEF Above
<1> HIDE DEF k
<1>19. Callers(s, built)
  <2>1. \A j \in DOMAIN s : Frame(s[j])
    BY <1>10, <1>11, <1>13, <1>14
  <2>2. ASSUME NEW j \in DOMAIN s, j # 1
        PROVE  /\ s[j].name \in DOMAIN frontend /\ s[j].name \notin built
               /\ \A i \in DOMAIN s : i # 1 /\ s[i].name = s[j].name => i = j
    <3>1. CASE j = k + 1
      BY <1>1, <1>9, <1>10, <1>11, <1>13, <1>14, <3>1
    <3>2. CASE j \in DOMAIN stack
      <4>1. s[j].name = stack[j].name /\ s[j].name # n
        BY <1>9, <1>14, <2>2, <3>2
      <4>2. \A i \in DOMAIN stack : i # 1 /\ stack[i].name = stack[j].name => i = j
        BY <1>5, <2>2, <3>2 DEF Callers
      <4>3. \A i \in DOMAIN s : i # 1 /\ s[i].name = s[j].name => i = j
        BY <1>10, <1>11, <1>13, <1>14, <4>1, <4>2
      <4>4. QED
        BY <1>5, <2>2, <3>2, <4>1, <4>3 DEF Callers
    <3>3. QED
      BY <1>13, <3>1, <3>2
  <2>3. ASSUME NEW j \in DOMAIN s, j # 1, NEW p \in DOMAIN s[j].todo
        PROVE  s[j].todo[p].op = "class"
    <3>1. CASE j = k + 1
      BY <1>7, <1>10, <1>11, <2>3, <3>1
    <3>2. CASE j \in DOMAIN stack /\ j # k
      BY <1>5, <1>15, <2>3, <3>2 DEF Callers
    <3>3. CASE j = k
      <4>1. p \in 1..Len(t) - 1 /\ s[j].todo[p] = t[p + 1]
        BY <1>4, <1>16, <2>3, <3>3
      <4>2. p + 1 \in DOMAIN t
        BY <1>4, <4>1
      <4>3. t[p + 1].op = "class"
        BY <1>5, <1>16, <2>3, <3>3, <4>2 DEF Callers
      <4>4. QED
        BY <4>1, <4>3
    <3>4. QED
      BY <1>13, <3>1, <3>2, <3>3
  <2>4. QED
    BY <1>11, <2>1, <2>2, <2>3 DEF Callers
<1>20. Waiting(s, built)
  <2> SUFFICES ASSUME NEW j \in DOMAIN s, j # 1,
                      NEW m \in Dependencies(frontend[s[j].name])
               PROVE  m \in built \/ Listing(s, j, m) \/ Above(s, j, m)
    BY DEF Waiting
  <2>1. CASE j = k + 1
    <3>1. m \in Dependencies(d) /\ s[j] = new
      BY <1>10, <1>11, <2>1 DEF d
    <3>2. QED
      BY <1>7, <1>10, <3>1 DEF Listing
  <2>2. CASE j \in DOMAIN stack
    <3>1. m \in built \/ Listing(stack, j, m) \/ Above(stack, j, m)
      BY <1>5, <1>14, <2>2 DEF Waiting
    <3>2. CASE Listing(stack, j, m) /\ j # k
      BY <1>15, <2>2, <3>2 DEF Listing
    <3>3. CASE Listing(stack, j, m) /\ j = k
      <4>1. PICK p \in DOMAIN t : t[p] = Build(m)
        BY <3>3 DEF Listing
      <4>2. CASE p = 1
        BY <1>8, <1>18, <3>3, <4>1, <4>2
      <4>3. CASE p # 1
        <5>1. p - 1 \in 1..Len(t) - 1 /\ (p - 1) + 1 = p
          BY <1>4, <4>3
        <5>2. p - 1 \in DOMAIN s[k].todo /\ s[k].todo[p - 1] = Build(m)
          BY <1>4, <1>16, <4>1, <5>1
        <5>3. QED
          BY <3>3, <5>2 DEF Listing
      <4>4. QED
        BY <4>2, <4>3
    <3>4. QED
      BY <1>17, <3>1, <3>2, <3>3
  <2>3. QED
    BY <1>13, <2>1, <2>2
<1>21. IdsLater(s, built)
  <2>1. CASE k # 1
    <3>1. s[1] = stack[1]
      <4>1. 1 \in DOMAIN stack
        BY <1>2 DEF k
      <4>2. QED
        BY <1>15, <2>1, <4>1
    <3>2. QED
      BY <1>5, <1>17, <3>1 DEF IdsLater
  <2>2. CASE k = 1
    <3> SUFFICES ASSUME NEW p \in DOMAIN s[1].todo, s[1].todo[p].op = "id"
                 PROVE  /\ s[1].todo[p].name \in DOMAIN frontend
                        /\ \/ s[1].todo[p].name \in built
                           \/ p # 1 /\ s[1].todo[p - 1] = Build(s[1].todo[p].name)
                           \/ p = 1 /\ Above(s, 1, s[1].todo[p].name)
      BY DEF IdsLater
    <3> DEFINE call == t[p + 1]
    <3>1. p \in 1..Len(t) - 1 /\ p + 1 \in DOMAIN t /\ s[1].todo[p] = call /\ call.op = "id"
          /\ p + 1 # 1 /\ (p + 1) - 1 = p
      <4>1. s[1].todo = Tail(t)
        BY <1>16, <2>2
      <4>2. p \in 1..Len(t) - 1
        BY <1>4, <4>1
      <4>3. s[1].todo[p] = t[p + 1]
        BY <1>4, <4>1, <4>2
      <4> HIDE DEF t
      <4>4. QED
        BY <1>4, <4>2, <4>3
    <3>2. call.name \in DOMAIN frontend /\ (call.name \in built \/ t[p] = Build(call.name))
      <4>1. stack[1].todo = t
        BY <2>2
      <4>2. \A q \in DOMAIN t : t[q].op = "id" => /\ t[q].name \in DOMAIN frontend
                                                  /\ \/ t[q].name \in built
                                                     \/ q # 1 /\ t[q - 1] = Build(t[q].name)
                                                     \/ q = 1
        BY <1>5, <4>1 DEF IdsLater
      <4> HIDE DEF t
      <4>3. QED
        BY <3>1, <4>2
    <3>3. CASE p = 1
      BY <1>8, <1>18, <2>2, <3>1, <3>2, <3>3
    <3>4. CASE p # 1
      <4>1. p - 1 \in 1..Len(t) - 1 /\ (p - 1) + 1 = p
        BY <1>4, <3>1, <3>4
      <4>2. s[1].todo[p - 1] = t[p]
        BY <1>4, <1>16, <2>2, <4>1
      <4>3. QED
        BY <3>1, <3>2, <3>4, <4>2
    <3>5. QED
      BY <3>3, <3>4
  <2>3. QED
    BY <2>1, <2>2
<1>22. Listed(classes') /\ InOrder(classes')
  BY <1>1 DEF BuildInv
<1>23. QED
  BY <1>1, <1>9, <1>12, <1>19, <1>20, <1>21, <1>22, StepKeeps

\* A class is built when everything it depends on is.
LEMMA FinishStep == BuildInv /\ Finish => BuildInv'
<1> SUFFICES ASSUME BuildInv, Finish
             PROVE  BuildInv'
  OBVIOUS
<1> DEFINE k == Len(stack)
           n == stack[k].name
           d == frontend[n]
           c == NewClass(d.name, d.super, d.virtual, d.aligned, d.members, classes)
           s == Front(stack)
           built == Built \cup {n}
<1>1. /\ Callers(stack, Built) /\ Waiting(stack, Built) /\ Listed(stack)
      /\ Listed(classes) /\ InOrder(classes) /\ Collection
  BY DEF BuildInv, Callers
<1>2. DOMAIN stack = 1..k /\ k \in Nat /\ k > 1 /\ Last(stack) = stack[k]
  <2>1. DOMAIN stack = 1..k /\ k \in Nat
    BY <1>1, ListedLength
  <2>2. k > 1
    BY DEF Finish
  <2>3. QED
    BY <2>1, <2>2 DEF Last
<1>3. k \in DOMAIN stack /\ k # 1 /\ k - 1 \in 0..k /\ 1 \in DOMAIN stack
  BY <1>2
<1>4. CASE ~Known(d)
  <2>1. UNCHANGED <<version, decls, frontend, stack, classes>>
    BY <1>2, <1>4 DEF Finish, Fail
  <2>2. stack # <<>> /\ IdsLater(stack, Built)
    <3>1. stack # <<>>
      BY <1>2, EmptySeq
    <3>2. QED
      BY <3>1 DEF BuildInv
  <2>3. ClassNames(classes') = Built
    BY <2>1 DEF Built
  <2>4. QED
    BY <1>1, <2>1, <2>2, <2>3, StepKeeps
<1>5. CASE Known(d)
  <2>1. /\ classes' = Append(classes, c) /\ stack' = s
        /\ UNCHANGED <<version, decls, frontend, outcome>>
        /\ stack[k].todo = <<>>
    BY <1>2, <1>5 DEF Finish
  <2>2. c.name = d.name /\ c.super = d.super
    BY DEF NewClass
  <2>3. n \in DOMAIN frontend /\ n \notin Built /\ d.name = n
    BY <1>1, <1>3 DEF Callers, Collection
  <2>4. Dependencies(d) \subseteq Built
    <3> SUFFICES ASSUME NEW m \in Dependencies(d)
                 PROVE  m \in Built
      OBVIOUS
    <3>1. m \in Built \/ Listing(stack, k, m) \/ Above(stack, k, m)
      BY <1>1, <1>3 DEF Waiting
    <3>2. ~Above(stack, k, m)
      BY <1>2 DEF Above
    <3>3. ~Listing(stack, k, m)
      BY <2>1, ListedEmpty DEF Listing
    <3>4. QED
      BY <3>1, <3>2, <3>3
  <2>5. d.super # NoClass => d.super \in Built
    BY <2>4 DEF Dependencies
  <2> HIDE DEF c
  <2>6. /\ c.name \notin Built /\ (c.super # NoClass => c.super \in Built)
        /\ c.name \in DOMAIN frontend => /\ Dependencies(frontend[c.name]) \subseteq Built
                                         /\ c.super = frontend[c.name].super
        /\ c.name \in DOMAIN frontend \cup IdNames
    BY <2>2, <2>3, <2>4, <2>5
  <2>7. Listed(classes') /\ InOrder(classes') /\ ClassNames(classes') = built
    BY <1>1, <2>1, <2>2, <2>3, <2>6, AppendInOrder
  <2>8. /\ Listed(s) /\ DOMAIN s = 1..k - 1 /\ Len(s) = k - 1
        /\ \A j \in 1..k - 1 : s[j] = stack[j]
    BY <1>1, <1>3, ListedFirst DEF Front
  <2> HIDE DEF s
  <2>9. /\ \A j \in DOMAIN s : j \in DOMAIN stack /\ s[j] = stack[j] /\ j # k
        /\ \A j \in DOMAIN stack : j \in DOMAIN s \/ j = k
        /\ s # <<>> /\ 1 \in DOMAIN s
    BY <1>2, <2>8, EmptySeq
  <2>10. Callers(s, built)
    <3>1. \A j \in DOMAIN s : j # 1 => s[j].name # n
      BY <1>1, <1>3, <2>9 DEF Callers
    <3>2. QED
      BY <1>1, <2>8, <2>9, <3>1 DEF Callers
  <2>11. \A j, m : Above(stack, j, m) => m \in built \/ Above(s, j, m)
    BY <2>9 DEF Above
  <2>12. Waiting(s, built)
    <3> SUFFICES ASSUME NEW j \in DOMAIN s, j # 1,
                        NEW m \in Dependencies(frontend[s[j].name])
                 PROVE  m \in built \/ Listing(s, j, m) \/ Above(s, j, m)
      BY DEF Waiting
    <3>1. m \in Built \/ Listing(stack, j, m) \/ Above(stack, j, m)
      BY <1>1, <2>9 DEF Waiting
    <3>2. QED
      BY <2>9, <2>11, <3>1 DEF Listing
  <2>13. IdsLater(s, built)
    <3>1. stack # <<>> /\ s[1] = stack[1]
      BY <1>2, <2>9, EmptySeq
    <3>2. IdsLater(stack, Built)
      BY <3>1 DEF BuildInv
    <3>3. QED
      BY <2>11, <3>1, <3>2 DEF IdsLater
  <2>14. QED
    BY <2>1, <2>7, <2>9, <2>10, <2>12, <2>13, StepKeeps
<1>6. QED
  BY <1>4, <1>5

\* A class of the files is as declared, and one that has the name of an ID
\* class depends on nothing.
LEMMA AsDeclared ==
    ASSUME Collection, NEW n \in DOMAIN frontend
    PROVE  /\ frontend[n].name = n /\ n \in Names /\ Declared(frontend[n])
           /\ n \in IdNames => frontend[n].super = NoClass /\ Dependencies(frontend[n]) = {}
<1> DEFINE d == frontend[n]
<1>1. d.name = n /\ d \in ToSet(decls) /\ DOMAIN frontend \subseteq Names /\ Declares(decls)
  BY DEF Collection
<1>3. Declared(d)
  <2>1. PICK i \in DOMAIN decls : decls[i] = d
    BY <1>1 DEF ToSet
  <2>2. QED
    BY <1>1, <2>1 DEF Declares
<1> HIDE DEF d
<1>4. ASSUME n \in IdNames
      PROVE  d.super = NoClass /\ Dependencies(d) = {}
  <2>1. d.super = NoClass /\ \A m \in ToSet(d.members) : m.type \notin Names
    BY <1>1, <1>3, <1>4 DEF Declared, StandsAlone
  <2>2. d.super \notin Names
    BY <2>1, BuildAssumption
  <2>3. \A i \in DOMAIN d.members : d.members[i].type \notin Names
    BY <2>1 DEF ToSet
  <2>4. QED
    BY <1>1, <2>1, <2>2, <2>3 DEF Dependencies, DependsOn
<1>5. QED
  BY <1>1, <1>3, <1>4 DEF d

\* Only the ID class of a root may have the name of a class.
LEMMA RootIds ==
    ASSUME NEW m \in Names, IdName[m] \in Names
    PROVE  m \in Roots
<1>1. PICK i \in DOMAIN Sorted : Sorted[i] = m
  BY DEF Names
<1>2. PICK j \in DOMAIN Sorted : Sorted[j] = IdName[m]
  BY DEF Names
<1>3. QED
  BY <1>1, <1>2, BuildAssumption

\* The class whose ID class the main loop asks for is built.
LEMMA IdCalled ==
    BuildInv /\ BuildIdClass =>
        /\ Called \in DOMAIN frontend /\ Called \in Built /\ IdName[Called] \notin Built
        /\ version >= 4 /\ IsRooted(Called)
        /\ Running /\ stack # <<>> /\ \A j \in DOMAIN stack : j = 1
        /\ classes' = Append(classes, IdClass(MissingId(Called), classes))
        /\ UNCHANGED <<version, decls, frontend, stack, outcome>>
<1> SUFFICES ASSUME BuildInv, BuildIdClass
             PROVE  /\ Called \in DOMAIN frontend /\ Called \in Built /\ IdName[Called] \notin Built
                    /\ version >= 4 /\ IsRooted(Called)
                    /\ Running /\ stack # <<>> /\ \A j \in DOMAIN stack : j = 1
                    /\ classes' = Append(classes, IdClass(MissingId(Called), classes))
                    /\ UNCHANGED <<version, decls, frontend, stack, outcome>>
  OBVIOUS
<1> DEFINE n == Called
           t == stack[Len(stack)].todo
<1>1. /\ stack # <<>> /\ Last(stack).todo # <<>> /\ Head(Last(stack).todo).op = "id"
      /\ IdName[n] \notin Built /\ version >= 4 /\ IsRooted(n) /\ Running
      /\ classes' = Append(classes, IdClass(MissingId(n), classes))
      /\ UNCHANGED <<version, decls, frontend, stack, outcome>>
  BY DEF BuildIdClass, Calls, NeedsId, Built
<1>2. Callers(stack, Built) /\ IdsLater(stack, Built)
  BY <1>1 DEF BuildInv
<1>3. /\ DOMAIN stack = 1..Len(stack) /\ Len(stack) \in Nat \ {0}
      /\ Len(t) \in Nat \ {0} /\ DOMAIN t = 1..Len(t)
      /\ Head(Last(stack).todo) = t[1]
  BY <1>1, PoppedProperties
<1>4. 1 \in DOMAIN t /\ t[1].op = "id" /\ t[1].name = n /\ Len(stack) \in DOMAIN stack
  BY <1>1, <1>3 DEF Called
<1>5. Len(stack) = 1
  BY <1>2, <1>4 DEF Callers
<1>6. n \in DOMAIN frontend /\ n \in Built
  <2>1. ~Above(stack, 1, n)
    BY <1>3, <1>5 DEF Above
  <2>2. stack[1].todo = t
    BY <1>5
  <2> HIDE DEF t, n
  <2>3. QED
    BY <1>2, <1>4, <2>1, <2>2 DEF IdsLater
<1>7. \A j \in DOMAIN stack : j = 1
  BY <1>3, <1>5
<1>8. QED
  BY <1>1, <1>6, <1>7

\* An ID class is built when that of its superclass is, and the class itself.
LEMMA IdStep == BuildInv /\ BuildIdClass => BuildInv'
<1> SUFFICES ASSUME BuildInv, BuildIdClass
             PROVE  BuildInv'
  OBVIOUS
<1> DEFINE n == Called
           m == MissingId(n)
           d == frontend[m]
           c == IdClass(m, classes)
           built == Built \cup {IdName[m]}
<1>1. /\ stack # <<>> /\ IdName[n] \notin Built /\ n \in DOMAIN frontend /\ n \in Built
      /\ \A j \in DOMAIN stack : j = 1
      /\ classes' = Append(classes, c)
      /\ UNCHANGED <<version, decls, frontend, stack, outcome>>
  BY IdCalled
<1>2. /\ Callers(stack, Built) /\ Waiting(stack, Built) /\ IdsLater(stack, Built)
      /\ Listed(classes) /\ InOrder(classes) /\ Collection
  BY <1>1 DEF BuildInv
<1> HIDE DEF n, m
<1>7. /\ m \in DOMAIN frontend /\ IdName[m] \notin Built
      /\ d.super = NoClass \/ IdName[d.super] \in Built
  BY <1>1, <1>2, MissingFound DEF m
<1>8. c.name = IdName[m] /\ c.super = IF d.super = NoClass THEN NoClass ELSE IdName[d.super]
  BY DEF IdClass, NewClass
<1>9. /\ IdName[m] \in IdNames
      /\ IdName[m] \in DOMAIN frontend =>
             /\ Dependencies(frontend[IdName[m]]) = {}
             /\ frontend[IdName[m]].super = NoClass /\ d.super = NoClass
  <2>1. m \in Names /\ d.name = m /\ Declared(d)
    BY <1>2, <1>7, AsDeclared
  <2>2. IdName[m] \in IdNames
    BY <2>1 DEF IdNames
  <2> HIDE DEF d
  <2>3. ASSUME IdName[m] \in DOMAIN frontend
        PROVE  /\ Dependencies(frontend[IdName[m]]) = {}
               /\ frontend[IdName[m]].super = NoClass /\ d.super = NoClass
    <3>1. /\ IdName[m] \in Names
          /\ frontend[IdName[m]].super = NoClass /\ Dependencies(frontend[IdName[m]]) = {}
      BY <1>2, <2>2, <2>3, AsDeclared
    <3>2. m \in Roots
      BY <2>1, <3>1, RootIds
    <3>3. d.super = NoClass
      BY <2>1, <3>2 DEF Declared
    <3>4. QED
      BY <3>1, <3>3
  <2>4. QED
    BY <2>2, <2>3
<1> HIDE DEF c
<1>10. /\ c.name \notin Built /\ (c.super # NoClass => c.super \in Built)
       /\ c.name \in DOMAIN frontend => /\ Dependencies(frontend[c.name]) \subseteq Built
                                        /\ c.super = frontend[c.name].super
       /\ c.name \in DOMAIN frontend \cup IdNames
  BY <1>7, <1>8, <1>9
<1>11. Listed(classes') /\ InOrder(classes') /\ ClassNames(classes') = built
  BY <1>1, <1>2, <1>8, <1>10, AppendInOrder
<1>12. Built \subseteq built
  OBVIOUS
<1>13. Callers(stack, built)
  BY <1>1, <1>2 DEF Callers
<1>14. Waiting(stack, built)
  BY <1>2, <1>12 DEF Waiting
<1>15. IdsLater(stack, built)
  BY <1>2, <1>12 DEF IdsLater
<1> HIDE DEF built
<1>16. QED
  BY <1>1, <1>11, <1>13, <1>14, <1>15, StepKeeps

\* The main loop begins.
LEMMA StartStep == BuildInv /\ Start => BuildInv'
<1> SUFFICES ASSUME BuildInv, Start
             PROVE  BuildInv'
  OBVIOUS
<1> DEFINE main == [name |-> Main, todo |-> MainTodo]
           s == <<main>>
<1>1. /\ stack' = s /\ stack = <<>> /\ classes = <<>>
      /\ UNCHANGED <<version, decls, frontend, classes, outcome>>
  BY DEF BuildInv, Start, MainTodo, MainCalls
<1>2. Listed(MainTodo) /\
      \A p \in DOMAIN MainTodo : MainTodo[p].op = "id" =>
          /\ MainTodo[p].name \in DOMAIN frontend
          /\ p # 1 /\ MainTodo[p - 1] = Build(MainTodo[p].name)
  BY MainLoop
<1>3. Frame(main) /\ main.todo = MainTodo
  BY <1>2 DEF Frame
<1> HIDE DEF main
<1>4. Listed(s) /\ DOMAIN s = 1..1 /\ s[1] = main /\ s # <<>>
  <2>1. s \in Seq({main}) /\ Len(s) = 1 /\ s[1] = main
    BY One
  <2> HIDE DEF s
  <2>2. s = [i \in 1..1 |-> s[i]] /\ DOMAIN s = 1..1
    BY <2>1, LenProperties
  <2>3. s # <<>>
    BY <2>1, EmptySeq
  <2>4. QED
    BY <2>1, <2>2, <2>3, ListedFunction
<1> HIDE DEF s
<1> DEFINE built == ClassNames(classes)
<1>5. Callers(s, built) /\ Waiting(s, built)
  BY <1>3, <1>4 DEF Callers, Waiting
<1>6. IdsLater(s, built)
  BY <1>2, <1>3, <1>4 DEF IdsLater
<1>7. Listed(classes) /\ InOrder(classes)
  BY DEF BuildInv
<1> HIDE DEF built
<1>8. ClassNames(classes') = built
  BY <1>1 DEF built
<1>9. QED
  BY <1>1, <1>4, <1>5, <1>6, <1>7, <1>8, StepKeeps

\* A declaration is collected under its name.
LEMMA CollectStep == BuildInv /\ Collect => BuildInv'
<1> SUFFICES ASSUME BuildInv, Collect
             PROVE  BuildInv'
  OBVIOUS
<1> DEFINE d == decls[Collected + 1]
<1>1. stack = <<>> /\ classes = <<>> /\ Collected < Len(decls) /\ Collection
  BY DEF BuildInv, Collect
<1>2. UNCHANGED <<version, decls, stack, classes>>
  BY DEF Collect, Fail
<1>3. Collection'
  <2>1. CASE d.name \in DOMAIN frontend
    <3>1. frontend' = frontend
      BY <2>1 DEF Collect, Fail
    <3>2. QED
      BY <1>1, <1>2, <3>1 DEF Collection
  <2>2. CASE d.name \notin DOMAIN frontend
    <3> DEFINE all == DOMAIN frontend \cup {d.name}
    <3>1. frontend' = [n \in all |-> IF n = d.name THEN d ELSE frontend[n]]
      BY <2>2 DEF Collect
    <3>2. Collected \in Nat
      BY <1>1, FS_CardinalityType DEF Collection, Collected
    <3>3. Len(decls) \in Nat /\ DOMAIN decls = 1..Len(decls)
      <4>1. Listed(decls)
        BY <1>1 DEF Collection, Declares, Declared, Listed
      <4>2. QED
        BY <4>1, ListedLength
    <3>4. Collected + 1 \in DOMAIN decls
      BY <1>1, <3>2, <3>3
    <3>5. d \in ToSet(decls)
      BY <3>4 DEF ToSet
    <3>6. d.name \in Names
      BY <1>1, <3>4 DEF Collection, Declares, Declared
    <3> HIDE DEF d
    <3>7. IsFiniteSet(all) /\ all \subseteq Names
      BY <1>1, <3>6, FS_AddElement DEF Collection
    <3> HIDE DEF all
    <3>8. DOMAIN frontend' = all
      BY <3>1
    <3>9. \A n \in all : frontend'[n].name = n /\ frontend'[n] \in ToSet(decls)
      BY <1>1, <3>1, <3>5 DEF Collection, all
    <3>10. QED
      BY <1>1, <1>2, <3>7, <3>8, <3>9 DEF Collection
  <2>3. QED
    BY <2>1, <2>2
<1>4. DOMAIN stack' = {} /\ DOMAIN classes' = {} /\ Listed(stack') /\ Listed(classes')
  BY <1>1, <1>2, ListedEmpty
<1>5. Callers(stack, Built)' /\ Waiting(stack, Built)' /\ InOrder(classes)'
  BY <1>4 DEF Callers, Waiting, InOrder
<1>6. QED
  BY <1>1, <1>2, <1>3, <1>4, <1>5 DEF BuildInv

\* A step that changes nothing but the outcome.
LEMMA OutcomeStep ==
    ASSUME BuildInv, UNCHANGED <<decls, frontend, stack, classes>>
    PROVE  BuildInv'
<1>1. decls' = decls /\ frontend' = frontend /\ stack' = stack /\ classes' = classes
  OBVIOUS
<1>2. Built' = Built
  BY <1>1 DEF Built
<1>3. Collection'
  BY <1>1 DEF BuildInv, Collection
<1>4. Callers(stack, Built)' /\ (stack # <<>> => IdsLater(stack, Built))'
  BY <1>1, <1>2 DEF BuildInv, Callers, IdsLater
<1>5. Waiting(stack, Built)'
  BY <1>1, <1>2 DEF BuildInv, Waiting, Dependencies, DependsOn
<1>6. InOrder(classes)'
  BY <1>1 DEF BuildInv, InOrder, Dependencies, DependsOn
<1>7. QED
  BY <1>1, <1>3, <1>4, <1>5, <1>6 DEF BuildInv

\* Whatever build_protocol() does next, the invariant is kept.
LEMMA BuildStep == BuildInv /\ [Next]_vars => BuildInv'
<1> SUFFICES ASSUME BuildInv, [Next]_vars
             PROVE  BuildInv'
  OBVIOUS
<1>1. CASE Collect
  BY <1>1, CollectStep
<1>2. CASE Start
  BY <1>2, StartStep
<1>3. CASE Reuse
  <2>1. /\ stack # <<>> /\ Last(stack).todo # <<>> /\ Called \in Built
        /\ decls' = decls /\ frontend' = frontend /\ classes' = classes /\ stack' = Popped
    BY <1>3 DEF Reuse, Calls, Built
  <2>2. \A n : Head(Last(stack).todo) = Build(n) => n \in Built
    BY <2>1 DEF Called, Build
  <2>3. QED
    BY <2>1, <2>2, PopStep
<1>4. CASE Cycle
  BY <1>4, OutcomeStep DEF Cycle, Fail
<1>5. CASE NotFound
  BY <1>5, OutcomeStep DEF NotFound, Fail
<1>6. CASE Enter
  BY <1>6, EnterStep
<1>7. CASE Finish
  BY <1>7, FinishStep
<1>8. CASE BuildIdClass
  BY <1>8, IdStep
<1>9. CASE NextName
  <2>1. /\ stack # <<>> /\ Last(stack).todo # <<>> /\ Head(Last(stack).todo).op = "id"
        /\ decls' = decls /\ frontend' = frontend /\ classes' = classes /\ stack' = Popped
    BY <1>9 DEF NextName, Calls
  <2>2. \A n : Head(Last(stack).todo) = Build(n) => n \in Built
    BY <2>1 DEF Build
  <2>3. QED
    BY <2>1, <2>2, PopStep
<1>10. CASE Done
  BY <1>10, OutcomeStep DEF Done
<1>11. CASE UNCHANGED vars
  BY <1>11, OutcomeStep DEF vars
<1>12. QED
  BY <1>1, <1>2, <1>3, <1>4, <1>5, <1>6, <1>7, <1>8, <1>9, <1>10, <1>11 DEF Next

\* Before anything is collected, there is nothing to be out of order.
LEMMA NothingBuilt ==
    Declares(decls) /\ frontend = <<>> /\ stack = <<>> /\ classes = <<>> => BuildInv
<1> SUFFICES ASSUME Declares(decls), frontend = <<>>, stack = <<>>, classes = <<>>
             PROVE  BuildInv
  OBVIOUS
<1>1. DOMAIN frontend = {} /\ DOMAIN stack = {} /\ DOMAIN classes = {}
      /\ Listed(stack) /\ Listed(classes)
  BY ListedEmpty
<1>2. Collection
  BY <1>1, FS_EmptySet DEF Collection
<1>3. Callers(stack, Built) /\ Waiting(stack, Built) /\ InOrder(classes)
  BY <1>1 DEF Callers, Waiting, InOrder
<1>4. QED
  BY <1>1, <1>2, <1>3 DEF BuildInv

\* Nor is there in a state that a step leads to.
LEMMA NothingBuiltNext ==
    (Declares(decls) /\ frontend = <<>> /\ stack = <<>> /\ classes = <<>> => BuildInv)'
BY NothingBuilt, PTL

\* The order that the generators rely on.
LEMMA OrderKept == BuildInv => DependenciesFirst
<1> SUFFICES ASSUME BuildInv, NEW i \in DOMAIN classes
             PROVE  LET before == ClassNames(SubSeq(classes, 1, i - 1))
                        c == classes[i]
                    IN  /\ c.name \notin before
                        /\ c.super # NoClass => c.super \in before
                        /\ c.name \in DOMAIN frontend => DependsOn(frontend[c.name]) \subseteq before
  BY DEF DependenciesFirst
<1>1. Listed(classes) /\ InOrder(classes)
  BY DEF BuildInv
<1>2. ClassNames(SubSeq(classes, 1, i - 1)) = {classes[j].name : j \in 1..i - 1}
  BY <1>1, NamesBefore
<1>3. QED
  BY <1>1, <1>2 DEF InOrder, Dependencies
-----------------------------------------------------------------------------
(* The files that are read.                                                 *)

\* What is kept of a version: its number and its declarations.
Input(x) == x = [version |-> x.version, decls |-> x.decls] /\ Declares(x.decls)

FrontInv ==
    /\ BuildInv
    /\ files \in FileSets /\ read \in Nat
    /\ Listed(inputs) /\ Listed(ir)
    /\ \A i \in DOMAIN inputs : Input(inputs[i])

\* create_member() keeps what the parser says of a member but the kind.
LEMMA CreatedTagged ==
    ASSUME NEW m, Tagged(m)
    PROVE  Tagged(CreateMember(m)) /\ CreateMember(m).type = m.type
<1>1. DOMAIN m = {"kind", "name", "type", "count"}
  BY DEF Tagged
<1>2. CASE m.kind = "data" /\ m.name \in {"length", "len"}
  <2>1. CreateMember(m) = [m EXCEPT !.kind = "length"]
    BY <1>2 DEF CreateMember
  <2>2. QED
    BY <1>1, <1>2, <2>1 DEF Tagged
<1>3. CASE m.kind = "data" /\ m.name = "version"
  <2>1. CreateMember(m) = [m EXCEPT !.kind = "version"]
    BY <1>3 DEF CreateMember
  <2>2. QED
    BY <1>1, <1>3, <2>1 DEF Tagged
<1>4. CASE ~(m.kind = "data" /\ m.name \in {"length", "len"}) /\ ~(m.kind = "data" /\ m.name = "version")
  BY <1>4 DEF CreateMember
<1>5. QED
  BY <1>2, <1>3, <1>4

\* The length of a class does not depend on the kinds of its members.
LEMMA CreatedMeasured ==
    ASSUME NEW s, Listed(s.members), \A m \in ToSet(s.members) : Tagged(m), Measured(s)
    PROVE  Measured(CreateClass(s))
<1> DEFINE ms == s.members
           d == CreateClass(s)
           new == [k \in DOMAIN ms |-> CreateMember(ms[k])]
           len(l, v) == [k \in DOMAIN l |-> MemberLength(v, l[k], <<>>)]
<1>1. /\ d.name = s.name /\ d.members = new /\ d.aligned = s.aligned
      /\ d.virtual = HasDiscriminator(s)
  BY DEF CreateClass
<1>2. DOMAIN ms = 1..Len(ms) /\ Len(ms) \in Nat
  BY ListedLength
<1>3. ASSUME NEW k \in DOMAIN ms
      PROVE  /\ new[k].type = ms[k].type /\ new[k].count = ms[k].count
             /\ ms[k].kind # "discriminator" => new[k].kind # "discriminator"
  <2>1. ms[k] \in ToSet(ms) /\ new[k] = CreateMember(ms[k])
    BY DEF ToSet
  <2>2. Tagged(ms[k])
    BY <2>1
  <2> HIDE DEF ms, new
  <2>3. QED
    BY <2>1, <2>2 DEF Tagged, CreateMember
<1>4. DOMAIN new = DOMAIN ms /\ new = [k \in 1..Len(ms) |-> new[k]]
  BY <1>2
<1> HIDE DEF new, ms, d
<1>5. Len(new) = Len(ms)
  <2>1. Listed(new)
    BY <1>2, <1>4, ListedFunction
  <2>2. DOMAIN new = 1..Len(new) /\ Len(new) \in Nat
    BY <2>1, ListedLength
  <2>3. QED
    BY <1>2, <1>4, <2>2
<1>6. ASSUME NEW v \in Versions, s.name \in DOMAIN BasicLength,
             \E t \in DOMAIN Mixed : Mixed[t][v] = s.name
      PROVE  LET lengths == CalcLengths(v, d.members, d.virtual, <<>>)
             IN  /\ ~d.virtual
                 /\ \A m \in ToSet(d.members) :
                       /\ m.kind # "discriminator"
                       /\ Base(m.type, v) \in DOMAIN BasicLength \ (Names \cup IdNames)
                 /\ BasicLength[d.name] =
                       [bytes |-> IF d.aligned THEN RoundUp(lengths.base) ELSE lengths.base,
                        fixed |-> lengths.fixed]
  <2> DEFINE old == CalcLengths(v, ms, s.virtual, <<>>)
             lengths == CalcLengths(v, new, d.virtual, <<>>)
  <2>1. /\ ~s.virtual
        /\ \A k \in DOMAIN ms : /\ ms[k].kind # "discriminator"
                                /\ Base(ms[k].type, v) \in DOMAIN BasicLength \ (Names \cup IdNames)
        /\ BasicLength[s.name] =
              [bytes |-> IF s.aligned THEN RoundUp(old.base) ELSE old.base, fixed |-> old.fixed]
    BY <1>6 DEF Measured, ToSet, ms
  <2>2. ~d.virtual
    BY <1>1, <2>1 DEF HasDiscriminator, ms
  <2>3. \A k \in DOMAIN ms : MemberLength(v, new[k], <<>>) = MemberLength(v, ms[k], <<>>)
    BY <1>3 DEF MemberLength
  <2>4. len(new, v) = len(ms, v)
    BY <1>4, <2>3
  <2> HIDE DEF len
  <2>5. lengths = LayOut(new, d.virtual, len(ms, v)) /\ old = LayOut(ms, s.virtual, len(ms, v))
    BY <2>4 DEF CalcLengths, len
  <2>6. lengths.base = old.base
    BY <1>5, <2>5 DEF LayOut
  <2>7. lengths.fixed = old.fixed
    BY <1>5, <2>1, <2>2, <2>5 DEF LayOut
  <2> HIDE DEF lengths, old
  <2>8. \A m \in ToSet(new) : /\ m.kind # "discriminator"
                             /\ Base(m.type, v) \in DOMAIN BasicLength \ (Names \cup IdNames)
    BY <1>3, <1>4, <2>1 DEF ToSet
  <2>9. QED
    BY <1>1, <2>1, <2>2, <2>6, <2>7, <2>8 DEF lengths
<1>7. QED
  BY <1>1, <1>6 DEF Measured, d

\* create_ofinput() makes declarations of the structs of a file.
LEMMA CreatedDeclares ==
    ASSUME NEW ss, Declares(ss)
    PROVE  Declares([i \in DOMAIN ss |-> CreateClass(ss[i])])
<1> DEFINE ds == [i \in DOMAIN ss |-> CreateClass(ss[i])]
<1>1. Listed(ss)
  BY DEF Declares, Declared, Listed
<1>2. DOMAIN ss = 1..Len(ss) /\ Len(ss) \in Nat
  BY <1>1, ListedLength
<1>3. \A i \in DOMAIN ss : ds[i] = CreateClass(ss[i])
  OBVIOUS
<1>4. ds = [i \in 1..Len(ss) |-> ds[i]] /\ DOMAIN ds = DOMAIN ss
  BY <1>2
<1> HIDE DEF ds
<1>5. Listed(ds)
  BY <1>2, <1>4, ListedFunction
<1>6. ASSUME NEW i \in DOMAIN ds
      PROVE  Declared(ds[i])
  <2> DEFINE ms == ss[i].members
             new == [k \in DOMAIN ms |-> CreateMember(ms[k])]
  <2>1. ds[i] = CreateClass(ss[i]) /\ i \in DOMAIN ss
    BY <1>3, <1>4
  <2>2. ds[i].name = ss[i].name /\ ds[i].super = ss[i].super /\ ds[i].members = new
    BY <2>1 DEF CreateClass
  <2>3. Listed(ms)
    BY <2>1 DEF Declares, Declared, Listed
  <2>11. Measured(ds[i])
    <3>1. Measured(ss[i]) /\ \A m \in ToSet(ms) : Tagged(m)
      BY <2>1 DEF Declares, Declared, ms
    <3>2. Measured(CreateClass(ss[i]))
      BY <2>3, <3>1, CreatedMeasured
    <3>3. QED
      BY <2>1, <3>2
  <2> HIDE DEF ms
  <2>4. DOMAIN ms = 1..Len(ms) /\ Len(ms) \in Nat
    BY <2>3, ListedLength
  <2>5. new = [k \in 1..Len(ms) |-> new[k]]
    BY <2>4
  <2>6. /\ \A m \in ToSet(ms) : Tagged(m) /\ m.type \notin IdNames
        /\ ss[i].name \in IdNames => \A m \in ToSet(ms) : m.type \notin Names
    BY <2>1 DEF Declares, Declared, StandsAlone, ms
  <2>7. \A k \in DOMAIN new : Tagged(new[k]) /\ ms[k] \in ToSet(ms) /\ new[k].type = ms[k].type
    BY <2>6, CreatedTagged DEF ToSet
  <2> HIDE DEF new
  <2>8. Listed(new)
    BY <2>4, <2>5, ListedFunction
  <2>9. /\ \A m \in ToSet(new) : Tagged(m) /\ m.type \notin IdNames
        /\ ss[i].name \in IdNames => \A m \in ToSet(new) : m.type \notin Names
    BY <2>6, <2>7 DEF ToSet
  <2>10. QED
    BY <2>1, <2>2, <2>8, <2>9, <2>11 DEF Declares, Declared, StandsAlone, Listed
<1>7. QED
  BY <1>5, <1>6 DEF Declares, Declared, Listed, ds

\* The declarations of two files are declarations.
LEMMA JoinedDeclares ==
    ASSUME NEW a, Declares(a), NEW b, Declares(b)
    PROVE  Declares(a \o b)
<1> DEFINE c == a \o b
<1>1. Listed(a) /\ Listed(b)
  BY DEF Declares, Declared, Listed
<1>2. /\ DOMAIN a = 1..Len(a) /\ Len(a) \in Nat
      /\ DOMAIN b = 1..Len(b) /\ Len(b) \in Nat
  BY <1>1, ListedLength
<1>3. /\ Listed(c) /\ DOMAIN c = 1..Len(a) + Len(b)
      /\ \A i \in 1..Len(a) : c[i] = a[i]
      /\ \A i \in 1..Len(b) : c[Len(a) + i] = b[i]
  BY <1>1, ListedJoined
<1>4. (\A i \in DOMAIN a : Declared(a[i])) /\ (\A i \in DOMAIN b : Declared(b[i]))
  BY DEF Declares
<1> HIDE DEF c
<1>5. ASSUME NEW i \in DOMAIN c
      PROVE  Declared(c[i])
  <2>1. CASE i <= Len(a)
    <3>1. i \in 1..Len(a)
      BY <1>2, <1>3, <2>1
    <3>2. QED
      BY <1>2, <1>3, <1>4, <3>1
  <2>2. CASE ~(i <= Len(a))
    <3>1. i - Len(a) \in 1..Len(b) /\ Len(a) + (i - Len(a)) = i
      BY <1>2, <1>3, <2>2
    <3>2. c[i] = b[i - Len(a)]
      BY <1>3, <3>1
    <3>3. QED
      BY <1>2, <1>4, <3>1, <3>2
  <2>3. QED
    BY <2>1, <2>2
<1>6. QED
  BY <1>3, <1>5 DEF Declares, Listed, c

\* Reading a file adds its declarations to those of its versions.
LEMMA FileAdded ==
    ASSUME NEW f, Declares(f.structs),
           Listed(inputs), \A i \in DOMAIN inputs : Input(inputs[i])
    PROVE  Listed(Appended(f)) /\ \A i \in DOMAIN Appended(f) : Input(Appended(f)[i])
<1> DEFINE new == [i \in DOMAIN f.structs |-> CreateClass(f.structs[i])]
           met == {inputs[i].version : i \in DOMAIN inputs}
           fresh == (WireVersions(f) \cap Targets) \ met
           rank(v) == Cardinality({w \in fresh : w <= v})
           number(i) == CHOOSE v \in fresh : rank(v) = i
           old == [i \in DOMAIN inputs |->
                      IF inputs[i].version \in WireVersions(f) THEN [inputs[i] EXCEPT !.decls = @ \o new]
                      ELSE inputs[i]]
           more == [i \in 1..Cardinality(fresh) |-> [version |-> number(i), decls |-> new]]
<1>1. Appended(f) = old \o more
  BY DEF Appended
<1>2. Declares(new)
  BY CreatedDeclares
<1>3. Cardinality(fresh) \in Nat
  <2>1. IsFiniteSet(Targets) /\ fresh \subseteq Targets
    BY FilesAssumption
  <2> HIDE DEF fresh
  <2>2. IsFiniteSet(fresh)
    BY <2>1, FS_Subset
  <2>3. QED
    BY <2>2, FS_CardinalityType
<1> HIDE DEF new, number, fresh
<1>4. DOMAIN inputs = 1..Len(inputs) /\ Len(inputs) \in Nat
  BY ListedLength
<1>5. \A i \in DOMAIN inputs : Input(old[i])
  <2> SUFFICES ASSUME NEW i \in DOMAIN inputs
               PROVE  Input(old[i])
    OBVIOUS
  <2>1. CASE inputs[i].version \notin WireVersions(f)
    BY <2>1
  <2>2. CASE inputs[i].version \in WireVersions(f)
    <3>1. /\ inputs[i] = [version |-> inputs[i].version, decls |-> inputs[i].decls]
          /\ Declares(inputs[i].decls)
      BY DEF Input
    <3>2. Declares(inputs[i].decls \o new)
      BY <1>2, <3>1, JoinedDeclares
    <3> DEFINE joined == inputs[i].decls \o new
    <3>3. old[i] = [inputs[i] EXCEPT !.decls = joined]
      BY <2>2
    <3> HIDE DEF joined, old
    <3>4. old[i] = [version |-> inputs[i].version, decls |-> joined]
      BY <3>1, <3>3
    <3>5. QED
      BY <3>2, <3>4 DEF Input, joined
  <2>3. QED
    BY <2>1, <2>2
<1>6. old = [i \in 1..Len(inputs) |-> old[i]]
  BY <1>4
<1>7. \A i \in 1..Cardinality(fresh) : Input(more[i])
  BY <1>2 DEF Input
<1>8. more = [i \in 1..Cardinality(fresh) |-> more[i]]
  OBVIOUS
<1> HIDE DEF old, more
<1>9. /\ Listed(old) /\ Len(old) = Len(inputs)
      /\ Listed(more) /\ Len(more) = Cardinality(fresh)
  BY <1>3, <1>4, <1>6, <1>8, ListedFunction
<1> DEFINE all == old \o more
<1>10. /\ Listed(all) /\ DOMAIN all = 1..Len(old) + Len(more)
       /\ \A i \in 1..Len(old) : all[i] = old[i]
       /\ \A i \in 1..Len(more) : all[Len(old) + i] = more[i]
  <2>1. Listed(old)
    BY <1>9
  <2>2. Listed(more)
    BY <1>9
  <2>3. QED
    BY <2>1, <2>2, ListedJoined
<1> HIDE DEF all
<1>11. ASSUME NEW i \in DOMAIN all
       PROVE  Input(all[i])
  <2>1. CASE i <= Len(old)
    <3>1. i \in 1..Len(old)
      BY <1>4, <1>9, <1>10, <2>1
    <3>2. QED
      BY <1>4, <1>5, <1>9, <1>10, <3>1
  <2>2. CASE ~(i <= Len(old))
    <3>1. i - Len(old) \in 1..Len(more) /\ Len(old) + (i - Len(old)) = i
      BY <1>3, <1>4, <1>9, <1>10, <2>2
    <3>2. all[i] = more[i - Len(old)]
      BY <1>10, <3>1
    <3>3. QED
      BY <1>7, <1>9, <3>1, <3>2
  <2>3. QED
    BY <2>1, <2>2
<1>12. QED
  BY <1>1, <1>10, <1>11 DEF all

\* The next file is read, or it cannot be used.
LEMMA ReadStep == FrontInv /\ ReadFile => FrontInv'
<1> SUFFICES ASSUME FrontInv, ReadFile
             PROVE  FrontInv'
  OBVIOUS
<1> DEFINE f == files[read + 1]
<1>1. UNCHANGED <<files, ir, decls, frontend, stack, classes>> /\ read < Len(files)
  BY DEF ReadFile
<1>2. BuildInv'
  BY <1>1, OutcomeStep DEF FrontInv
<1>3. Listed(files)
  BY FilesAssumption DEF FrontInv, Listed
<1>4. read + 1 \in DOMAIN files
  BY <1>1, <1>3, ListedLength DEF FrontInv
<1>5. Declares(f.structs)
  BY <1>4, FilesAssumption DEF FrontInv
<1> HIDE DEF f
<1>6. Listed(Appended(f)) /\ \A i \in DOMAIN Appended(f) : Input(Appended(f)[i])
  BY <1>5, FileAdded DEF FrontInv
<1>7. \/ read' = read /\ inputs' = inputs
      \/ read' = read + 1 /\ inputs' = Appended(f)
  BY DEF ReadFile, f
<1>8. files' = files /\ ir' = ir
  BY <1>1
<1>9. CASE read' = read /\ inputs' = inputs
  BY <1>2, <1>8, <1>9 DEF FrontInv, Input
<1>10. CASE read' = read + 1 /\ inputs' = Appended(f)
  BY <1>2, <1>6, <1>8, <1>10 DEF FrontInv, Input
<1>11. QED
  BY <1>7, <1>9, <1>10

\* build_protocol() is called for the declarations of a version.
LEMMA CallStep == FrontInv /\ CallBuild => FrontInv'
<1> SUFFICES ASSUME FrontInv, CallBuild
             PROVE  FrontInv'
  OBVIOUS
<1>1. UNCHANGED frontVars
  BY DEF CallBuild
<1>2. frontend' = <<>> /\ stack' = <<>> /\ classes' = <<>>
  BY DEF CallBuild
<1>3. Declares(decls')
  <2>1. Len(ir) < Len(inputs) /\ decls' = inputs[Len(ir) + 1].decls
    BY DEF CallBuild
  <2>2. Len(ir) \in Nat /\ Len(inputs) \in Nat /\ DOMAIN inputs = 1..Len(inputs)
    BY ListedLength DEF FrontInv
  <2>3. Len(ir) + 1 \in DOMAIN inputs
    BY <2>1, <2>2
  <2>4. QED
    BY <2>1, <2>3 DEF FrontInv, Input
<1>4. BuildInv'
  BY <1>2, <1>3, NothingBuiltNext DEF Declares, Declared
<1>5. QED
  BY <1>1, <1>4 DEF FrontInv, frontVars, Input

\* What the generator knows is in order in every step of the front end.
LEMMA FrontStep == FrontInv /\ [FrontEndNext]_<<vars, frontVars>> => FrontInv'
<1> SUFFICES ASSUME FrontInv, [FrontEndNext]_<<vars, frontVars>>
             PROVE  FrontInv'
  OBVIOUS
<1>1. CASE ReadFile
  BY <1>1, ReadStep
<1>2. CASE CallBuild
  BY <1>2, CallStep
<1>3. ASSUME UNCHANGED <<decls, frontend, stack, classes>>, UNCHANGED <<files, read, inputs>>, Listed(ir')
      PROVE  FrontInv'
  <2>1. BuildInv'
    BY <1>3, OutcomeStep DEF FrontInv
  <2>2. QED
    BY <1>3, <2>1 DEF FrontInv, Input
<1>4. CASE Return
  <2>1. Listed(ir) /\ ir' = Append(ir, [version |-> version, classes |-> classes])
    BY <1>4 DEF FrontInv, Return
  <2>2. Listed(ir')
    BY <2>1, ListedAppend
  <2>3. QED
    BY <1>3, <1>4, <2>2 DEF Return
<1>5. CASE AllBuilt
  BY <1>3, <1>5 DEF AllBuilt, frontVars, FrontInv
<1>6. CASE Next /\ UNCHANGED frontVars
  <2>1. BuildInv'
    BY <1>6, BuildStep DEF FrontInv
  <2>2. QED
    BY <1>6, <2>1 DEF FrontInv, frontVars, Input
<1>7. CASE UNCHANGED <<vars, frontVars>>
  BY <1>3, <1>7 DEF vars, frontVars, FrontInv
<1>8. QED
  BY <1>1, <1>2, <1>4, <1>5, <1>6, <1>7 DEF FrontEndNext
-----------------------------------------------------------------------------
\* Whatever the declarations of a version are, a class of the protocol comes
\* after its superclass and after the classes it embeds, and the ID classes
\* after those of their superclasses, at any time and if an error ends it too.
THEOREM BuiltInOrder == Spec => []DependenciesFirst
<1>1. Init => BuildInv
  BY NothingBuilt, BuildAssumption DEF Init
<1>2. BuildInv /\ [Next]_vars => BuildInv'
  BY BuildStep
<1>3. BuildInv => DependenciesFirst
  BY OrderKept
<1>4. QED
  BY <1>1, <1>2, <1>3, PTL DEF Spec

\* The same of the protocols of all versions, whatever the input files hold
\* and however many versions they are for: what is left of one version never
\* gets into the order of the next.
THEOREM AllBuiltInOrder == FrontEndSpec => []DependenciesFirst
<1>1. FrontEndInit => FrontInv
  <2> SUFFICES ASSUME FrontEndInit
               PROVE  FrontInv
    OBVIOUS
  <2>1. files \in FileSets /\ read = 0 /\ inputs = <<>> /\ ir = <<>>
        /\ decls = <<>> /\ frontend = <<>> /\ stack = <<>> /\ classes = <<>>
    BY DEF FrontEndInit
  <2>2. Declares(decls)
    BY <2>1, ListedEmpty DEF Declares, Declared, Listed
  <2>3. BuildInv
    BY <2>1, <2>2, NothingBuilt
  <2>4. Listed(inputs) /\ Listed(ir) /\ DOMAIN inputs = {}
    BY <2>1, ListedEmpty
  <2>5. QED
    BY <2>1, <2>3, <2>4 DEF FrontInv
<1>2. FrontInv /\ [FrontEndNext]_<<vars, frontVars>> => FrontInv'
  BY FrontStep
<1>3. FrontInv => DependenciesFirst
  BY OrderKept DEF FrontInv
<1>4. QED
  BY <1>1, <1>2, <1>3, PTL DEF FrontEndSpec
-----------------------------------------------------------------------------
(* What a call builds, and what is built in the end.                        *)

\* A call builds nothing that its class does not depend on.
LEMMA NeedsOnly ==
    ASSUME Collection, NEW d \in ToSet(decls)
    PROVE  \A p \in DOMAIN Needs(d) : Needs(d)[p].name \in Dependencies(d)
<1> DEFINE T == {Build(n) : n \in Dependencies(d)}
           super == IF d.super = NoClass THEN <<>> ELSE <<Build(d.super)>>
           calls(m) == IF m.count = 1 /\ m.type \in DOMAIN frontend THEN <<Build(m.type)>> ELSE <<>>
           ss == [i \in DOMAIN d.members |-> calls(d.members[i])]
           rest == FlattenSeq(ss)
<1>1. DOMAIN d.members = 1..Len(d.members) /\ Len(d.members) \in Nat
  <2>1. Listed(d.members)
    BY MembersListed DEF Collection
  <2>2. QED
    BY <2>1, ListedLength
<1>2. \A t \in T : t.name \in Dependencies(d)
  BY DEF Build
<1>3. d.super # NoClass => Build(d.super) \in T
  BY DEF Dependencies
<1>4. \A i \in DOMAIN d.members : LET m == d.members[i] IN
          m.count = 1 /\ m.type \in DOMAIN frontend => Build(m.type) \in T
  BY DEF Dependencies, DependsOn
<1>5. Needs(d) = super \o rest
  BY DEF Needs
<1> HIDE DEF T
<1>6. super \in Seq(T)
  <2>1. CASE d.super = NoClass
    BY <2>1, EmptySeq
  <2>2. CASE d.super # NoClass
    BY <1>3, <2>2, One
  <2>3. QED
    BY <2>1, <2>2
<1>7. \A i \in DOMAIN d.members : calls(d.members[i]) \in Seq(T)
  <2> SUFFICES ASSUME NEW i \in DOMAIN d.members
               PROVE  calls(d.members[i]) \in Seq(T)
    OBVIOUS
  <2> DEFINE m == d.members[i]
  <2>1. CASE m.count = 1 /\ m.type \in DOMAIN frontend
    <3>1. Build(m.type) \in T
      BY <1>4, <2>1
    <3>2. QED
      BY <2>1, <3>1, One
  <2>2. CASE ~(m.count = 1 /\ m.type \in DOMAIN frontend)
    BY <2>2, EmptySeq
  <2>3. QED
    BY <2>1, <2>2
<1>8. ss \in [1..Len(d.members) -> Seq(T)]
  BY <1>1, <1>7
<1> HIDE DEF ss, super, calls
<1>9. ss \in Seq(Seq(T))
  BY <1>1, <1>8, SeqDef
<1>10. rest \in Seq(T)
  BY <1>9, FlattenTyped
<1> HIDE DEF rest
<1>11. Needs(d) \in Seq(T)
  BY <1>5, <1>6, <1>10, ConcatProperties
<1>12. \A p \in DOMAIN Needs(d) : Needs(d)[p] \in T
  BY <1>11, LenProperties, ElementOfSeq
<1>13. QED
  BY <1>2, <1>12

\* The main loop builds all classes of the files, and asks for no others.
LEMMA MainComplete ==
    ASSUME Collection
    PROVE  /\ \A p \in DOMAIN MainTodo : MainTodo[p].name \in DOMAIN frontend
           /\ \A n \in DOMAIN frontend : \E p \in DOMAIN MainTodo : MainTodo[p] = Build(n)
           /\ \A n \in DOMAIN frontend : \E p \in DOMAIN MainTodo : MainTodo[p] = BuildId(n)
           /\ \A n \in DOMAIN frontend : \A p \in DOMAIN MainTodo :
                 ForStruct(MainTodo[p], n) => \E q \in 1..p - 1 : MainTodo[q] = BuildId(n)
<1> DEFINE T == {Build(n) : n \in DOMAIN frontend} \cup {BuildId(n) : n \in DOMAIN frontend}
           ss == [i \in DOMAIN Sorted |-> MainCalls(Sorted[i])]
           w == MainTodo
<1>1. DOMAIN Sorted = 1..Len(Sorted) /\ Len(Sorted) \in Nat
  BY BuildAssumption, LenProperties
<1>2. \A n \in DOMAIN frontend : Build(n) \in T /\ BuildId(n) \in T
  OBVIOUS
<1>3. \A t \in T : t.name \in DOMAIN frontend
  BY DEF Build, BuildId
<1> HIDE DEF T
<1>4. ASSUME NEW n
      PROVE  /\ MainCalls(n) \in Seq(T)
             /\ n \in DOMAIN frontend =>
                    /\ Len(MainCalls(n)) = 2
                    /\ MainCalls(n)[1] = Build(n) /\ MainCalls(n)[2] = BuildId(n)
             /\ n \notin DOMAIN frontend => Len(MainCalls(n)) = 0
  <2>1. CASE n \in DOMAIN frontend
    <3>1. MainCalls(n) = <<Build(n), BuildId(n)>>
      BY <2>1 DEF MainCalls
    <3>2. QED
      BY <1>2, <2>1, <3>1, Two
  <2>2. CASE n \notin DOMAIN frontend
    BY <2>2, EmptySeq DEF MainCalls
  <2>3. QED
    BY <2>1, <2>2
<1>5. \A i \in 1..Len(Sorted) : ss[i] = MainCalls(Sorted[i])
  BY <1>1
<1>6. ss \in [1..Len(Sorted) -> Seq(T)]
  BY <1>1, <1>4
<1>7. w = FlattenSeq(ss)
  BY DEF MainTodo
<1> HIDE DEF ss, w
<1>8. ss \in Seq(Seq(T)) /\ Len(ss) = Len(Sorted)
  <2>1. ss \in Seq(Seq(T)) /\ DOMAIN ss = 1..Len(Sorted)
    BY <1>1, <1>6, SeqDef
  <2>2. DOMAIN ss = 1..Len(ss) /\ Len(ss) \in Nat
    BY <2>1, LenProperties
  <2>3. QED
    BY <1>1, <2>1, <2>2
<1>9. w \in Seq(T) /\ Listed(w) /\ Blocks(w, ss, Len(ss))
  BY <1>7, <1>8, FlattenBlocks
<1>10. \A i \in 1..Len(ss) : \A k \in 1..Len(ss[i]) : \E p \in 1..Len(w) : w[p] = ss[i][k]
  BY <1>9, Zenon DEF Blocks
<1>11. DOMAIN w = 1..Len(w) /\ Len(w) \in Nat
  BY <1>9, ListedLength
<1>12. \A p \in DOMAIN w : w[p].name \in DOMAIN frontend
  <2>1. \A p \in DOMAIN w : w[p] \in T
    BY <1>9, LenProperties, ElementOfSeq
  <2>2. QED
    BY <1>3, <2>1
<1>13. ASSUME NEW n \in DOMAIN frontend
       PROVE  (\E p \in DOMAIN w : w[p] = Build(n)) /\ (\E p \in DOMAIN w : w[p] = BuildId(n))
  <2>1. n \in Names
    BY DEF Collection
  <2>2. PICK i \in 1..Len(Sorted) : Sorted[i] = n
    BY <1>1, <2>1 DEF Names
  <2>3. Len(ss[i]) = 2 /\ ss[i][1] = Build(n) /\ ss[i][2] = BuildId(n)
    BY <1>4, <1>5, <2>2
  <2>4. i \in 1..Len(ss) /\ 1 \in 1..Len(ss[i]) /\ 2 \in 1..Len(ss[i])
    BY <1>8, <2>3
  <2>5. (\E p \in 1..Len(w) : w[p] = ss[i][1]) /\ (\E p \in 1..Len(w) : w[p] = ss[i][2])
    BY <1>10, <2>4
  <2>6. QED
    BY <1>11, <2>3, <2>5
<1>14. \A p \in 1..Len(w) : \E i \in 1..Len(ss) :
           (\E k \in 1..Len(ss[i]) : w[p] = ss[i][k]) /\ Earlier(w, ss, i, p)
  BY <1>9, Zenon DEF Blocks
<1>15. ASSUME NEW n \in DOMAIN frontend, NEW p \in DOMAIN w, ForStruct(w[p], n)
       PROVE  \E q \in 1..p - 1 : w[q] = BuildId(n)
  <2>1. PICK i \in 1..Len(ss) : (\E k \in 1..Len(ss[i]) : w[p] = ss[i][k]) /\ Earlier(w, ss, i, p)
    BY <1>11, <1>14
  <2>2. PICK k \in 1..Len(ss[i]) : w[p] = ss[i][k]
    BY <2>1
  <2>3. i \in 1..Len(Sorted) /\ ss[i] = MainCalls(Sorted[i])
    BY <1>5, <1>8
  <2>4. Len(ss[i]) = 2 /\ ss[i][1] = Build(Sorted[i]) /\ ss[i][2] = BuildId(Sorted[i])
    <3>1. Len(ss[i]) # 0
      BY <2>2
    <3>2. QED
      BY <1>4, <2>3, <3>1
  <2>5. k = 1 \/ k = 2
    BY <2>2, <2>4
  <2>6. w[p] = Build(Sorted[i]) \/ w[p] = BuildId(Sorted[i])
    BY <2>2, <2>4, <2>5
  <2>7. Sorted[i] = IdName[n]
    BY <1>15, <2>6 DEF ForStruct, Build, BuildId
  <2>8. PICK h \in 1..Len(Sorted) : Sorted[h] = n
    <3>1. n \in Names
      BY DEF Collection
    <3>2. QED
      BY <1>1, <3>1 DEF Names
  <2>9. h < i
    BY <1>1, <2>3, <2>7, <2>8, BuildAssumption
  <2>10. h \in 1..i - 1 /\ ss[h] = MainCalls(n)
    BY <1>5, <2>3, <2>8, <2>9
  <2>11. 2 \in 1..Len(ss[h]) /\ ss[h][2] = BuildId(n)
    BY <1>4, <2>10
  <2>12. QED
    BY <2>1, <2>10, <2>11 DEF Earlier
<1>16. QED
  BY <1>12, <1>13, <1>15 DEF w

\* The declarations collected so far are the first of all, by their names.
Complete ==
    /\ Collected \in Nat /\ Collected <= Len(decls)
    /\ \A i \in 1..Collected : decls[i].name \in DOMAIN frontend /\ frontend[decls[i].name] = decls[i]
    /\ \A n \in DOMAIN frontend : \E i \in 1..Collected : decls[i].name = n
    /\ \A i, j \in 1..Collected : decls[i].name = decls[j].name => i = j
    /\ stack # <<>> => Collected = Len(decls)

TwiceIn(ds) == \E i, j \in DOMAIN ds : i # j /\ ds[i].name = ds[j].name

\* Every class of the files is built, or the main loop will build it.
Coverage(s, built) == \A n \in DOMAIN frontend : n \in built \/ Listing(s, 1, n) \/ Above(s, 1, n)

\* A call is made, and will be made, because a class depends on another.
Reasons(s) ==
    /\ \A p \in DOMAIN s[1].todo : s[1].todo[p].name \in DOMAIN frontend
    /\ \A j \in DOMAIN s : j # 1 =>
          /\ \A p \in DOMAIN s[j].todo : s[j].todo[p].name \in Dependencies(frontend[s[j].name])
          /\ j + 1 \in DOMAIN s => s[j + 1].name \in Dependencies(frontend[s[j].name])

\* Some classes depend on one another.
Cyclic == \E ns \in SUBSET DOMAIN frontend : ns # {} /\ \A n \in ns : Dependencies(frontend[n]) \cap ns # {}

\* Some class has a superclass that is nowhere.
Orphaned == \E n \in DOMAIN frontend : frontend[n].super \notin DOMAIN frontend \cup {NoClass}

CallInv ==
    /\ Complete
    /\ stack # <<>> => Coverage(stack, Built) /\ Reasons(stack)
    /\ outcome = "redefined" => TwiceIn(decls)
    /\ outcome = "cycle" => stack # <<>> /\ Cyclic
    /\ outcome = "notfound" => stack # <<>> /\ Orphaned
    /\ outcome = "done" => stack # <<>> /\ DOMAIN frontend \subseteq Built

\* What a step has to show that leaves the declarations and the outcome alone.
LEMMA CallKeeps ==
    ASSUME CallInv, Running, UNCHANGED <<decls, frontend, outcome>>,
           Collected = Len(decls),
           Coverage(stack', ClassNames(classes')), Reasons(stack')
    PROVE  CallInv'
<1>1. Collected' = Collected
  BY DEF Collected
<1>2. Complete'
  BY <1>1 DEF CallInv, Complete
<1>3. Coverage(stack, Built)'
  BY DEF Coverage, Built, Listing, Above
<1>4. Reasons(stack)'
  BY DEF Reasons, Dependencies, DependsOn
<1>5. outcome' = "running"
  BY DEF Running
<1>6. QED
  BY <1>2, <1>3, <1>4, <1>5 DEF CallInv

\* What a step has to show that changes the outcome only.
LEMMA CallFails ==
    ASSUME CallInv, UNCHANGED <<decls, frontend, stack, classes>>,
           outcome' = "redefined" => TwiceIn(decls),
           outcome' = "cycle" => stack # <<>> /\ Cyclic,
           outcome' = "notfound" => stack # <<>> /\ Orphaned,
           outcome' = "done" => stack # <<>> /\ DOMAIN frontend \subseteq Built
    PROVE  CallInv'
<1>1. decls' = decls /\ frontend' = frontend /\ stack' = stack /\ classes' = classes
  OBVIOUS
<1>2. Complete'
  BY <1>1 DEF CallInv, Complete, Collected
<1>3. Coverage(stack, Built)' = Coverage(stack, Built)
  BY <1>1 DEF Coverage, Built, Listing, Above
<1>4. Reasons(stack)' = Reasons(stack)
  BY <1>1 DEF Reasons, Dependencies, DependsOn
<1>5. Cyclic' = Cyclic /\ Orphaned' = Orphaned /\ Built' = Built
  BY <1>1 DEF Cyclic, Orphaned, Built, Dependencies, DependsOn
<1>6. QED
  BY <1>1, <1>2, <1>3, <1>4, <1>5 DEF CallInv

\* A declaration is collected, or its name is there.
LEMMA CollectCalls == BuildInv /\ CallInv /\ Collect => CallInv'
<1> SUFFICES ASSUME BuildInv, CallInv, Collect
             PROVE  CallInv'
  OBVIOUS
<1> DEFINE k == Collected
           d == decls[k + 1]
<1>1. stack = <<>> /\ k < Len(decls) /\ Complete /\ Collection /\ Running
  BY DEF BuildInv, CallInv, Collect
<1>2. UNCHANGED <<version, decls, stack, classes>>
  BY DEF Collect, Fail
<1>3. k \in Nat /\ DOMAIN decls = 1..Len(decls) /\ Len(decls) \in Nat
  <2>1. Listed(decls)
    BY <1>1 DEF Collection, Declares, Declared, Listed
  <2>2. QED
    BY <1>1, <2>1, ListedLength DEF Complete
<1>4. CASE d.name \in DOMAIN frontend
  <2>1. frontend' = frontend /\ outcome' = "redefined"
    BY <1>4 DEF Collect, Fail
  <2>2. PICK i \in 1..k : decls[i].name = d.name
    BY <1>1, <1>4 DEF Complete
  <2>3. i \in DOMAIN decls /\ k + 1 \in DOMAIN decls /\ i # k + 1
    BY <1>1, <1>3, <2>2
  <2>4. TwiceIn(decls)
    BY <2>2, <2>3 DEF TwiceIn
  <2>5. QED
    BY <1>2, <2>1, <2>4, CallFails
<1>5. CASE d.name \notin DOMAIN frontend
  <2> DEFINE all == DOMAIN frontend \cup {d.name}
  <2>1. frontend' = [n \in all |-> IF n = d.name THEN d ELSE frontend[n]] /\ outcome' = outcome
    BY <1>5 DEF Collect
  <2>2. Cardinality(all) = k + 1
    <3>1. IsFiniteSet(DOMAIN frontend)
      BY <1>1 DEF Collection
    <3> HIDE DEF d
    <3>2. Cardinality(all) = Cardinality(DOMAIN frontend) + 1
      BY <1>5, <3>1, FS_AddElement
    <3>3. QED
      BY <3>2 DEF Collected
  <2> HIDE DEF all
  <2>3. DOMAIN frontend' = all
    BY <2>1
  <2>4. Collected' = k + 1
    BY <2>2, <2>3 DEF Collected
  <2>5. \A i \in 1..k + 1 : i \in 1..k \/ i = k + 1
    BY <1>3
  <2>6. \A i \in 1..k : i \in 1..k + 1 /\ decls[i].name # d.name
    BY <1>1, <1>3, <1>5 DEF Complete
  <2>7. k + 1 \in 1..k + 1 /\ k + 1 \in Nat /\ k + 1 <= Len(decls)
    BY <1>1, <1>3
  <2>8. \A i \in 1..k : decls[i].name \in DOMAIN frontend /\ frontend[decls[i].name] = decls[i]
    BY <1>1 DEF Complete
  <2>9. \A i \in 1..k + 1 : decls[i].name \in all /\ frontend'[decls[i].name] = decls[i]
    BY <2>1, <2>5, <2>6, <2>8 DEF all
  <2>10. \A n \in all : \E i \in 1..k + 1 : decls[i].name = n
    <3>1. \A n \in DOMAIN frontend : \E i \in 1..k : decls[i].name = n
      BY <1>1 DEF Complete
    <3>2. QED
      BY <2>6, <2>7, <3>1 DEF all
  <2>11. \A i, j \in 1..k + 1 : decls[i].name = decls[j].name => i = j
    <3>1. \A i, j \in 1..k : decls[i].name = decls[j].name => i = j
      BY <1>1 DEF Complete
    <3>2. QED
      BY <2>5, <2>6, <3>1
  <2> HIDE DEF k
  <2>12. Complete'
    BY <1>1, <1>2, <2>3, <2>4, <2>7, <2>9, <2>10, <2>11 DEF Complete
  <2>13. QED
    BY <1>1, <1>2, <2>1, <2>12 DEF CallInv, Running
<1>6. QED
  BY <1>4, <1>5

\* The main loop begins with everything that is to be built.
LEMMA StartCalls == BuildInv /\ CallInv /\ Start => CallInv'
<1> SUFFICES ASSUME BuildInv, CallInv, Start
             PROVE  CallInv'
  OBVIOUS
<1> DEFINE main == [name |-> Main, todo |-> MainTodo]
           s == <<main>>
<1>1. /\ stack' = s /\ Running /\ Collected = Len(decls) /\ Collection
      /\ UNCHANGED <<version, decls, frontend, classes, outcome>>
  BY DEF BuildInv, Start, MainTodo, MainCalls
<1>2. /\ \A p \in DOMAIN MainTodo : MainTodo[p].name \in DOMAIN frontend
      /\ \A n \in DOMAIN frontend : \E p \in DOMAIN MainTodo : MainTodo[p] = Build(n)
  BY <1>1, MainComplete
<1>3. main.todo = MainTodo
  OBVIOUS
<1> HIDE DEF main
<1>4. DOMAIN s = {1} /\ s[1] = main
  <2>1. s \in Seq({main}) /\ Len(s) = 1 /\ s[1] = main
    BY One
  <2> HIDE DEF s
  <2>2. DOMAIN s = 1..1
    BY <2>1, LenProperties
  <2>3. QED
    BY <2>1, <2>2
<1> HIDE DEF s
<1>5. Coverage(s, ClassNames(classes'))
  BY <1>2, <1>3, <1>4 DEF Coverage, Listing
<1>6. Reasons(s)
  BY <1>2, <1>3, <1>4 DEF Reasons
<1>7. QED
  BY <1>1, <1>5, <1>6, CallKeeps

\* What a call has made leaves its list.
LEMMA PopCalls ==
    ASSUME BuildInv, CallInv, Running, stack # <<>>, Last(stack).todo # <<>>,
           UNCHANGED <<decls, frontend, classes, outcome>>, stack' = Popped,
           \A n : Head(Last(stack).todo) = Build(n) => n \in Built
    PROVE  CallInv'
<1> DEFINE k == Len(stack)
           t == stack[k].todo
           s == Popped
           built == Built
<1>1. DOMAIN stack = 1..k /\ k \in Nat \ {0} /\ DOMAIN s = 1..k
  BY PoppedProperties
<1>2. /\ \A j \in DOMAIN stack : s[j].name = stack[j].name
      /\ \A j \in DOMAIN stack : j # k => s[j] = stack[j]
  BY PoppedProperties
<1>3. /\ s[k].todo = Tail(t)
      /\ Len(t) \in Nat \ {0} /\ DOMAIN t = 1..Len(t)
      /\ Head(Last(stack).todo) = t[1]
      /\ DOMAIN Tail(t) = 1..Len(t) - 1
      /\ \A p \in 1..Len(t) - 1 : Tail(t)[p] = t[p + 1]
  BY PoppedProperties
<1>4. Coverage(stack, built) /\ Reasons(stack) /\ Collected = Len(decls)
  BY DEF CallInv, Complete
<1>5. \A n : t[1] = Build(n) => n \in built
  BY <1>3
<1>6. stack' = s /\ ClassNames(classes') = built
  BY DEF Built
<1> HIDE DEF s, k, built
<1>7. \A p \in DOMAIN s[k].todo : p + 1 \in DOMAIN t /\ s[k].todo[p] = t[p + 1]
  <2>1. \A n \in Nat : \A p \in 1..n - 1 : p + 1 \in 1..n
    OBVIOUS
  <2> HIDE DEF t
  <2>2. QED
    BY <1>3, <2>1
<1>8. \A p \in DOMAIN t : p # 1 => p - 1 \in DOMAIN s[k].todo /\ s[k].todo[p - 1] = t[p]
  <2>1. \A n \in Nat : \A p \in 1..n : p # 1 => p - 1 \in 1..n - 1 /\ (p - 1) + 1 = p
    OBVIOUS
  <2> HIDE DEF t
  <2>2. QED
    BY <1>3, <2>1
<1>9. 1 \in DOMAIN stack /\ k \in DOMAIN stack
  BY <1>1
<1>10. Coverage(s, built)
  <2> SUFFICES ASSUME NEW n \in DOMAIN frontend, n \notin built
               PROVE  Listing(s, 1, n) \/ Above(s, 1, n)
    BY DEF Coverage
  <2>1. Listing(stack, 1, n) \/ Above(stack, 1, n)
    BY <1>4 DEF Coverage
  <2>2. CASE Above(stack, 1, n)
    BY <1>1, <1>2, <2>2 DEF Above
  <2>3. CASE Listing(stack, 1, n) /\ k # 1
    BY <1>2, <1>9, <2>3 DEF Listing
  <2>4. CASE Listing(stack, 1, n) /\ k = 1
    <3>1. PICK p \in DOMAIN t : t[p] = Build(n)
      BY <2>4 DEF Listing
    <3>2. p # 1
      BY <1>5, <3>1
    <3>3. p - 1 \in DOMAIN s[k].todo /\ s[k].todo[p - 1] = Build(n)
      BY <1>8, <3>1, <3>2
    <3>4. QED
      BY <2>4, <3>3 DEF Listing
  <2>5. QED
    BY <2>1, <2>2, <2>3, <2>4
<1>11. \A j \in DOMAIN stack : \A p \in DOMAIN s[j].todo :
           \E q \in DOMAIN stack[j].todo : stack[j].todo[q] = s[j].todo[p]
  <2> SUFFICES ASSUME NEW j \in DOMAIN stack, NEW p \in DOMAIN s[j].todo
               PROVE  \E q \in DOMAIN stack[j].todo : stack[j].todo[q] = s[j].todo[p]
    OBVIOUS
  <2>1. CASE j # k
    BY <1>2, <2>1
  <2>2. CASE j = k
    <3>1. p + 1 \in DOMAIN t /\ s[j].todo[p] = t[p + 1]
      BY <1>7, <2>2
    <3>2. QED
      BY <2>2, <3>1
  <2>3. QED
    BY <2>1, <2>2
<1>12. Reasons(s)
  <2>1. \A p \in DOMAIN s[1].todo : s[1].todo[p].name \in DOMAIN frontend
    BY <1>4, <1>9, <1>11 DEF Reasons
  <2>2. ASSUME NEW j \in DOMAIN s, j # 1
        PROVE  /\ \A p \in DOMAIN s[j].todo : s[j].todo[p].name \in Dependencies(frontend[s[j].name])
               /\ j + 1 \in DOMAIN s => s[j + 1].name \in Dependencies(frontend[s[j].name])
    <3>1. j \in DOMAIN stack /\ s[j].name = stack[j].name
      BY <1>1, <1>2
    <3>2. /\ \A q \in DOMAIN stack[j].todo : stack[j].todo[q].name \in Dependencies(frontend[stack[j].name])
          /\ j + 1 \in DOMAIN stack => stack[j + 1].name \in Dependencies(frontend[stack[j].name])
      BY <1>4, <2>2, <3>1 DEF Reasons
    <3>3. j + 1 \in DOMAIN s => j + 1 \in DOMAIN stack /\ s[j + 1].name = stack[j + 1].name
      BY <1>1, <1>2
    <3>4. QED
      BY <1>11, <3>1, <3>2, <3>3
  <2>3. QED
    BY <2>1, <2>2 DEF Reasons
<1>13. QED
  BY <1>4, <1>6, <1>10, <1>12, CallKeeps

\* A call goes in because the class that calls depends on it.
LEMMA EnterCalls == BuildInv /\ CallInv /\ Enter => CallInv'
<1> SUFFICES ASSUME BuildInv, CallInv, Enter
             PROVE  CallInv'
  OBVIOUS
<1> DEFINE n == Called
           d == frontend[n]
           new == [name |-> n, todo |-> Needs(d)]
           k == Len(stack)
           t == stack[k].todo
           r == Popped
           s == Append(r, new)
           built == Built
<1>1. /\ stack # <<>> /\ Last(stack).todo # <<>> /\ n \in DOMAIN frontend
      /\ stack' = s /\ Running
      /\ UNCHANGED <<version, decls, frontend, classes, outcome>>
  BY DEF Enter, Calls
<1>2. DOMAIN stack = 1..k /\ k \in Nat \ {0} /\ Listed(r) /\ DOMAIN r = 1..k /\ Len(r) = k
  BY <1>1, PoppedProperties
<1>3. /\ \A j \in DOMAIN stack : r[j].name = stack[j].name
      /\ \A j \in DOMAIN stack : j # k => r[j] = stack[j]
  BY <1>1, PoppedProperties
<1>4. /\ r[k].todo = Tail(t)
      /\ Len(t) \in Nat \ {0} /\ DOMAIN t = 1..Len(t)
      /\ Head(Last(stack).todo) = t[1]
      /\ DOMAIN Tail(t) = 1..Len(t) - 1
      /\ \A p \in 1..Len(t) - 1 : Tail(t)[p] = t[p + 1]
  BY <1>1, PoppedProperties
<1>5. Coverage(stack, built) /\ Reasons(stack) /\ Collected = Len(decls)
  BY <1>1 DEF CallInv, Complete
<1>6. d \in ToSet(decls) /\ Collection
  BY <1>1 DEF BuildInv, Collection
<1>7. \A p \in DOMAIN Needs(d) : Needs(d)[p].name \in Dependencies(d)
  BY <1>6, NeedsOnly
<1>8. t[1].name = n /\ \A m : t[1] = Build(m) => m = n
  BY <1>4 DEF Called, Build
<1>9. ClassNames(classes') = built
  BY <1>1 DEF Built
<1>10. new.name = n /\ new.todo = Needs(d)
  OBVIOUS
<1> HIDE DEF new, r, built, n
<1>11. /\ DOMAIN s = 1..k + 1 /\ s[k + 1] = new
       /\ \A j \in 1..k : s[j] = r[j]
  BY <1>2, ListedAppend
<1> HIDE DEF s, d
<1>13. k + 1 \in DOMAIN s /\ k + 1 # 1 /\ \A j \in DOMAIN s : j = k + 1 \/ j \in DOMAIN stack
  BY <1>2, <1>11
<1>14. \A j \in DOMAIN stack : j \in DOMAIN s /\ s[j].name = stack[j].name
  BY <1>2, <1>3, <1>11
<1>15. \A j \in DOMAIN stack : j # k => s[j] = stack[j]
  BY <1>2, <1>3, <1>11
<1>16. s[k].todo = Tail(t) /\ k \in DOMAIN stack /\ 1 \in DOMAIN stack
  BY <1>2, <1>4, <1>11
<1>17. \A m : Above(stack, 1, m) => Above(s, 1, m)
  BY <1>14 DEF Above
<1>18. Above(s, k, n)
  BY <1>10, <1>11, <1>13 DEF Above
<1>22. \A j \in DOMAIN stack : j # k => j + 1 \in DOMAIN stack
  BY <1>2
<1> HIDE DEF k
<1>19. \A p \in DOMAIN s[k].todo : p + 1 \in DOMAIN t /\ s[k].todo[p] = t[p + 1]
  <2>1. \A a \in Nat : \A p \in 1..a - 1 : p + 1 \in 1..a
    OBVIOUS
  <2> HIDE DEF t
  <2>2. QED
    BY <1>4, <1>16, <2>1
<1>20. \A p \in DOMAIN t : p # 1 => p - 1 \in DOMAIN s[k].todo /\ s[k].todo[p - 1] = t[p]
  <2>1. \A a \in Nat : \A p \in 1..a : p # 1 => p - 1 \in 1..a - 1 /\ (p - 1) + 1 = p
    OBVIOUS
  <2> HIDE DEF t
  <2>2. QED
    BY <1>4, <1>16, <2>1
<1>21. \A j \in DOMAIN stack : \A p \in DOMAIN s[j].todo :
           \E q \in DOMAIN stack[j].todo : stack[j].todo[q] = s[j].todo[p]
  BY <1>15, <1>19
<1>23. 1 \in DOMAIN t /\ t = stack[k].todo
  BY <1>4
<1>24. Coverage(s, built)
  <2> SUFFICES ASSUME NEW m \in DOMAIN frontend, m \notin built
               PROVE  Listing(s, 1, m) \/ Above(s, 1, m)
    BY DEF Coverage
  <2>1. Listing(stack, 1, m) \/ Above(stack, 1, m)
    BY <1>5 DEF Coverage
  <2>2. CASE Above(stack, 1, m)
    BY <1>17, <2>2
  <2>3. CASE Listing(stack, 1, m) /\ k # 1
    BY <1>15, <1>16, <2>3 DEF Listing
  <2>4. CASE Listing(stack, 1, m) /\ k = 1
    <3>1. PICK p \in DOMAIN t : t[p] = Build(m)
      BY <2>4 DEF Listing
    <3>2. CASE p = 1
      BY <1>8, <1>18, <2>4, <3>1, <3>2
    <3>3. CASE p # 1
      <4>1. p - 1 \in DOMAIN s[k].todo /\ s[k].todo[p - 1] = Build(m)
        BY <1>20, <3>1, <3>3
      <4>2. QED
        BY <2>4, <4>1 DEF Listing
    <3>4. QED
      BY <3>2, <3>3
  <2>5. QED
    BY <2>1, <2>2, <2>3, <2>4
<1>25. Reasons(s)
  <2>1. \A p \in DOMAIN s[1].todo : s[1].todo[p].name \in DOMAIN frontend
    BY <1>5, <1>16, <1>21 DEF Reasons
  <2>2. ASSUME NEW j \in DOMAIN s, j # 1
        PROVE  /\ \A p \in DOMAIN s[j].todo : s[j].todo[p].name \in Dependencies(frontend[s[j].name])
               /\ j + 1 \in DOMAIN s => s[j + 1].name \in Dependencies(frontend[s[j].name])
    <3>1. CASE j = k + 1
      <4>1. j + 1 \notin DOMAIN s
        BY <1>2, <1>11, <3>1 DEF k
      <4>2. s[j] = new
        BY <1>11, <3>1
      <4>3. QED
        BY <1>7, <1>10, <4>1, <4>2 DEF d
    <3>2. CASE j \in DOMAIN stack
      <4>1. s[j].name = stack[j].name
        BY <1>14, <3>2
      <4>2. /\ \A q \in DOMAIN stack[j].todo : stack[j].todo[q].name \in Dependencies(frontend[stack[j].name])
            /\ j + 1 \in DOMAIN stack => stack[j + 1].name \in Dependencies(frontend[stack[j].name])
        BY <1>5, <2>2, <3>2 DEF Reasons
      <4>3. \A p \in DOMAIN s[j].todo : s[j].todo[p].name \in Dependencies(frontend[s[j].name])
        BY <1>21, <3>2, <4>1, <4>2
      <4>4. CASE j # k
        BY <1>14, <1>22, <3>2, <4>1, <4>2, <4>3, <4>4
      <4>5. CASE j = k
        <5>1. n \in Dependencies(frontend[stack[k].name])
          BY <1>8, <1>23, <4>2, <4>5
        <5>2. s[j + 1].name = n
          BY <1>10, <1>11, <4>5
        <5>3. QED
          BY <4>1, <4>3, <4>5, <5>1, <5>2
      <4>6. QED
        BY <4>4, <4>5
    <3>3. QED
      BY <1>13, <3>1, <3>2
  <2>3. QED
    BY <2>1, <2>2 DEF Reasons
<1>26. QED
  BY <1>1, <1>5, <1>9, <1>24, <1>25, CallKeeps

\* A class is built, or has a member of a type that nobody knows.
LEMMA FinishCalls == BuildInv /\ CallInv /\ Finish => CallInv'
<1> SUFFICES ASSUME BuildInv, CallInv, Finish
             PROVE  CallInv'
  OBVIOUS
<1> DEFINE k == Len(stack)
           n == stack[k].name
           d == frontend[n]
           c == NewClass(d.name, d.super, d.virtual, d.aligned, d.members, classes)
           s == Front(stack)
           built == ClassNames(classes')
<1>1. /\ Callers(stack, Built) /\ Listed(stack) /\ Listed(classes) /\ Collection
  BY DEF BuildInv, Callers
<1>2. DOMAIN stack = 1..k /\ k \in Nat /\ k > 1 /\ Last(stack) = stack[k]
  <2>1. DOMAIN stack = 1..k /\ k \in Nat
    BY <1>1, ListedLength
  <2>2. k > 1
    BY DEF Finish
  <2>3. QED
    BY <2>1, <2>2 DEF Last
<1>3. k \in DOMAIN stack /\ k # 1 /\ k - 1 \in 0..k /\ 1 \in DOMAIN stack
  BY <1>2
<1>4. Coverage(stack, Built) /\ Reasons(stack) /\ Collected = Len(decls) /\ Running
  <2>1. stack # <<>>
    BY <1>2, EmptySeq
  <2>2. QED
    BY <2>1 DEF CallInv, Complete, Finish
<1>5. CASE ~Known(d)
  <2>1. Fail("unknowntype")
    BY <1>2, <1>5 DEF Finish
  <2>2. QED
    BY <2>1, CallFails DEF Fail
<1>6. CASE Known(d)
  <2>1. /\ classes' = Append(classes, c) /\ stack' = s
        /\ UNCHANGED <<version, decls, frontend, outcome>>
    BY <1>2, <1>6 DEF Finish
  <2>2. c.name = n
    <3>1. n \in DOMAIN frontend
      BY <1>1, <1>3 DEF Callers
    <3>2. d.name = n
      BY <1>1, <3>1 DEF Collection
    <3>3. QED
      BY <3>2 DEF NewClass
  <2> HIDE DEF c
  <2>3. Built \subseteq built /\ n \in built
    <3>1. /\ DOMAIN classes' = 1..Len(classes) + 1 /\ classes'[Len(classes) + 1] = c
          /\ \A i \in 1..Len(classes) : classes'[i] = classes[i]
      BY <1>1, <2>1, ListedAppend
    <3>2. DOMAIN classes = 1..Len(classes) /\ Len(classes) \in Nat
      BY <1>1, ListedLength
    <3>3. DOMAIN classes \subseteq DOMAIN classes' /\ Len(classes) + 1 \in DOMAIN classes'
      BY <3>1, <3>2
    <3>4. QED
      BY <2>2, <3>1, <3>2, <3>3 DEF Built, ClassNames
  <2>4. DOMAIN s = 1..k - 1 /\ \A j \in 1..k - 1 : s[j] = stack[j]
    BY <1>1, <1>3, ListedFirst DEF Front
  <2> HIDE DEF s, built
  <2>5. /\ \A j \in DOMAIN s : j \in DOMAIN stack /\ s[j] = stack[j]
        /\ \A j \in DOMAIN stack : j \in DOMAIN s \/ j = k
        /\ 1 \in DOMAIN s
    BY <1>2, <2>4
  <2>6. Coverage(s, built)
    <3> SUFFICES ASSUME NEW m \in DOMAIN frontend, m \notin built
                 PROVE  Listing(s, 1, m) \/ Above(s, 1, m)
      BY DEF Coverage
    <3>1. Listing(stack, 1, m) \/ Above(stack, 1, m)
      BY <1>4, <2>3 DEF Coverage
    <3>2. CASE Listing(stack, 1, m)
      BY <2>5, <3>2 DEF Listing
    <3>3. CASE Above(stack, 1, m)
      BY <2>3, <2>5, <3>3 DEF Above
    <3>4. QED
      BY <3>1, <3>2, <3>3
  <2>7. Reasons(s)
    BY <1>4, <2>5 DEF Reasons
  <2>8. QED
    BY <1>4, <2>1, <2>6, <2>7, CallKeeps DEF built
<1>7. QED
  BY <1>5, <1>6

\* An ID class is built; the calls stay as they are.
LEMMA IdCalls == BuildInv /\ CallInv /\ BuildIdClass => CallInv'
<1> SUFFICES ASSUME BuildInv, CallInv, BuildIdClass
             PROVE  CallInv'
  OBVIOUS
<1> DEFINE c == IdClass(MissingId(Called), classes)
           built == ClassNames(classes')
<1>1. /\ stack # <<>> /\ Running /\ classes' = Append(classes, c)
      /\ UNCHANGED <<version, decls, frontend, stack, outcome>>
  BY DEF BuildIdClass, Calls
<1> HIDE DEF c
<1>2. Built \subseteq built
  <2>1. Listed(classes)
    BY DEF BuildInv
  <2>2. /\ DOMAIN classes' = 1..Len(classes) + 1
        /\ \A i \in 1..Len(classes) : classes'[i] = classes[i]
    BY <1>1, <2>1, ListedAppend
  <2>3. DOMAIN classes = 1..Len(classes) /\ Len(classes) \in Nat
    BY <2>1, ListedLength
  <2>4. DOMAIN classes \subseteq DOMAIN classes'
    BY <2>2, <2>3
  <2>5. QED
    BY <2>2, <2>3, <2>4 DEF Built, ClassNames
<1>3. Coverage(stack, Built) /\ Reasons(stack) /\ Collected = Len(decls)
  BY <1>1 DEF CallInv, Complete
<1> HIDE DEF built
<1>4. Coverage(stack', built) /\ Reasons(stack')
  BY <1>1, <1>2, <1>3 DEF Coverage
<1>5. QED
  BY <1>1, <1>3, <1>4, CallKeeps DEF built

\* A class that is being built is called for again: the classes of the calls
\* in between depend on one another.
LEMMA CycleCalls == BuildInv /\ CallInv /\ Cycle => CallInv'
<1> SUFFICES ASSUME BuildInv, CallInv, Cycle
             PROVE  CallInv'
  OBVIOUS
<1> DEFINE n == Called
           k == Len(stack)
           t == stack[k].todo
<1>1. /\ stack # <<>> /\ Last(stack).todo # <<>> /\ n \in Touched(stack)
      /\ UNCHANGED <<version, decls, frontend, stack, classes>> /\ outcome' = "cycle"
  BY DEF Cycle, Calls, Fail
<1>2. /\ DOMAIN stack = 1..k /\ k \in Nat \ {0}
      /\ Len(t) \in Nat \ {0} /\ DOMAIN t = 1..Len(t) /\ Head(Last(stack).todo) = t[1]
  BY <1>1, PoppedProperties
<1>3. Callers(stack, Built) /\ Reasons(stack)
  BY <1>1 DEF BuildInv, CallInv
<1>4. t[1].name = n /\ 1 \in DOMAIN t
  BY <1>2 DEF Called
<1>5. PICK j \in 2..k : stack[j].name = n
  <2> HIDE DEF n
  <2>1. n \in {stack[i].name : i \in 2..k}
    BY <1>1 DEF Touched
  <2> HIDE DEF k
  <2>2. QED
    BY <2>1
<1> HIDE DEF t, k, n
<1>6. \A i \in j..k : i \in DOMAIN stack /\ i # 1 /\ (i # k => i + 1 \in j..k /\ i + 1 \in DOMAIN stack)
  BY <1>2, <1>5
<1>7. j \in j..k
  BY <1>2, <1>5
<1> DEFINE ns == {stack[i].name : i \in j..k}
<1>8. ns \subseteq DOMAIN frontend /\ n \in ns
  BY <1>3, <1>5, <1>6, <1>7 DEF Callers
<1>9. ASSUME NEW i \in j..k
      PROVE  Dependencies(frontend[stack[i].name]) \cap ns # {}
  <2>1. CASE i = k
    <3>1. t[1].name \in Dependencies(frontend[stack[i].name])
      BY <1>3, <1>4, <1>6, <2>1 DEF Reasons, t
    <3>2. QED
      BY <1>4, <1>8, <3>1
  <2>2. CASE i # k
    <3>1. stack[i + 1].name \in Dependencies(frontend[stack[i].name])
      BY <1>3, <1>6, <2>2 DEF Reasons
    <3>2. stack[i + 1].name \in ns
      BY <1>6, <2>2
    <3>3. QED
      BY <3>1, <3>2
  <2>3. QED
    BY <2>1, <2>2
<1>10. Cyclic
  <2>1. \A m \in ns : Dependencies(frontend[m]) \cap ns # {}
    BY <1>9
  <2> HIDE DEF ns
  <2>2. QED
    BY <1>8, <2>1 DEF Cyclic
<1>11. QED
  BY <1>1, <1>10, CallFails

\* Only a superclass can be called for and not be there.
LEMMA NotFoundCalls == BuildInv /\ CallInv /\ NotFound => CallInv'
<1> SUFFICES ASSUME BuildInv, CallInv, NotFound
             PROVE  CallInv'
  OBVIOUS
<1> DEFINE n == Called
           k == Len(stack)
           t == stack[k].todo
           d == frontend[stack[k].name]
<1>1. /\ stack # <<>> /\ Last(stack).todo # <<>> /\ n \notin DOMAIN frontend
      /\ UNCHANGED <<version, decls, frontend, stack, classes>> /\ outcome' = "notfound"
  BY DEF NotFound, Calls, Fail
<1>2. /\ DOMAIN stack = 1..k /\ k \in Nat \ {0}
      /\ Len(t) \in Nat \ {0} /\ DOMAIN t = 1..Len(t) /\ Head(Last(stack).todo) = t[1]
  BY <1>1, PoppedProperties
<1>3. Callers(stack, Built) /\ Reasons(stack)
  BY <1>1 DEF BuildInv, CallInv
<1>4. t[1].name = n /\ 1 \in DOMAIN t /\ k \in DOMAIN stack
  BY <1>2 DEF Called
<1> HIDE DEF k, n
<1>5. k # 1
  BY <1>1, <1>3, <1>4 DEF Reasons
<1>6. n \in Dependencies(d) /\ stack[k].name \in DOMAIN frontend
  BY <1>3, <1>4, <1>5 DEF Reasons, Callers
<1>7. n = d.super /\ n # NoClass
  BY <1>1, <1>6 DEF Dependencies, DependsOn
<1>8. Orphaned
  BY <1>1, <1>6, <1>7 DEF Orphaned
<1>9. QED
  BY <1>1, <1>8, CallFails

\* The main loop ends when everything is built.
LEMMA DoneCalls == BuildInv /\ CallInv /\ Done => CallInv'
<1> SUFFICES ASSUME BuildInv, CallInv, Done
             PROVE  CallInv'
  OBVIOUS
<1>1. /\ Len(stack) = 1 /\ stack[1].todo = <<>> /\ outcome' = "done"
      /\ UNCHANGED <<version, decls, frontend, stack, classes>>
  BY DEF Done
<1>2. stack # <<>> /\ DOMAIN stack = 1..1
  <2>1. Listed(stack)
    BY DEF BuildInv, Callers
  <2>2. DOMAIN stack = 1..Len(stack)
    BY <2>1, ListedLength
  <2>3. stack # <<>>
    <3>1. Len(<<>>) = 0 /\ Len(stack) # 0
      BY <1>1, EmptySeq
    <3>2. QED
      BY <3>1, Zenon
  <2>4. QED
    BY <1>1, <2>2, <2>3
<1>3. \A n : ~Listing(stack, 1, n) /\ ~Above(stack, 1, n)
  BY <1>1, <1>2, ListedEmpty DEF Listing, Above
<1>4. DOMAIN frontend \subseteq Built
  BY <1>2, <1>3 DEF CallInv, Coverage
<1>5. QED
  BY <1>1, <1>2, <1>4, CallFails

\* Whatever build_protocol() does next, the invariant is kept.
LEMMA CallsStep == BuildInv /\ CallInv /\ [Next]_vars => CallInv'
<1> SUFFICES ASSUME BuildInv, CallInv, [Next]_vars
             PROVE  CallInv'
  OBVIOUS
<1>1. CASE Collect
  BY <1>1, CollectCalls
<1>2. CASE Start
  BY <1>2, StartCalls
<1>3. CASE Reuse
  <2>1. /\ stack # <<>> /\ Last(stack).todo # <<>> /\ Called \in Built /\ Running
        /\ UNCHANGED <<decls, frontend, classes, outcome>> /\ stack' = Popped
    BY <1>3 DEF Reuse, Calls, Built
  <2>2. \A n : Head(Last(stack).todo) = Build(n) => n \in Built
    BY <2>1 DEF Called, Build
  <2>3. QED
    BY <2>1, <2>2, PopCalls
<1>4. CASE Cycle
  BY <1>4, CycleCalls
<1>5. CASE NotFound
  BY <1>5, NotFoundCalls
<1>6. CASE Enter
  BY <1>6, EnterCalls
<1>7. CASE Finish
  BY <1>7, FinishCalls
<1>8. CASE BuildIdClass
  BY <1>8, IdCalls
<1>9. CASE NextName
  <2>1. /\ stack # <<>> /\ Last(stack).todo # <<>> /\ Head(Last(stack).todo).op = "id" /\ Running
        /\ UNCHANGED <<decls, frontend, classes, outcome>> /\ stack' = Popped
    BY <1>9 DEF NextName, Calls
  <2>2. \A n : Head(Last(stack).todo) = Build(n) => n \in Built
    BY <2>1 DEF Build
  <2>3. QED
    BY <2>1, <2>2, PopCalls
<1>10. CASE Done
  BY <1>10, DoneCalls
<1>11. CASE UNCHANGED vars
  BY <1>11, CallFails DEF vars, CallInv
<1>12. QED
  BY <1>1, <1>2, <1>3, <1>4, <1>5, <1>6, <1>7, <1>8, <1>9, <1>10, <1>11 DEF Next

\* What can be built is without cycles and with all superclasses, and nothing
\* but ID classes is added.
LEMMA BuiltMeans ==
    ASSUME BuildInv, DOMAIN frontend \subseteq Built
    PROVE  ~Cyclic /\ ~Orphaned /\ Built \ IdNames \subseteq DOMAIN frontend
<1>1. Listed(classes) /\ InOrder(classes) /\ Collection
  BY DEF BuildInv
<1>2. DOMAIN classes = 1..Len(classes) /\ Len(classes) \in Nat
  BY <1>1, ListedLength
<1>3. ~Cyclic
  <2> SUFFICES ASSUME NEW ns \in SUBSET DOMAIN frontend, ns # {},
                      \A n \in ns : Dependencies(frontend[n]) \cap ns # {}
               PROVE  FALSE
    BY DEF Cyclic
  <2> DEFINE T == {i \in DOMAIN classes : classes[i].name \in ns}
  <2>1. T \subseteq Nat /\ T # {}
    <3>1. PICK n \in ns : TRUE
      OBVIOUS
    <3>2. PICK i \in DOMAIN classes : classes[i].name = n
      BY <3>1 DEF Built, ClassNames
    <3>3. QED
      BY <1>2, <3>1, <3>2
  <2>2. PICK i \in T : \A j \in T : i <= j
    BY <2>1, LeastNumber
  <2>3. PICK m \in Dependencies(frontend[classes[i].name]) : m \in ns
    BY <2>2
  <2>4. classes[i].name \in DOMAIN frontend /\ i \in DOMAIN classes
    BY <2>2
  <2>5. PICK j \in 1..i - 1 : classes[j].name = m
    <3>1. Dependencies(frontend[classes[i].name]) \subseteq {classes[j].name : j \in 1..i - 1}
      BY <1>1, <2>4 DEF InOrder
    <3>2. m \in {classes[j].name : j \in 1..i - 1}
      BY <2>3, <3>1
    <3>3. QED
      BY <3>2
  <2>6. j \in DOMAIN classes
    BY <1>2, <2>4, <2>5
  <2>7. j \in T
    BY <2>3, <2>5, <2>6
  <2>8. QED
    BY <2>1, <2>2, <2>5, <2>7
<1>4. ~Orphaned
  <2> SUFFICES ASSUME NEW n \in DOMAIN frontend, frontend[n].super \notin DOMAIN frontend \cup {NoClass}
               PROVE  FALSE
    BY DEF Orphaned
  <2>1. PICK i \in DOMAIN classes : classes[i].name = n
    BY DEF Built, ClassNames
  <2>2. frontend[n].super \in Dependencies(frontend[n])
    BY DEF Dependencies
  <2>3. PICK j \in 1..i - 1 : classes[j].name = frontend[n].super
    BY <1>1, <2>1, <2>2 DEF InOrder
  <2>4. j \in DOMAIN classes
    BY <1>2, <2>1, <2>3
  <2>5. frontend[n].super \in IdNames
    BY <1>1, <2>3, <2>4 DEF InOrder
  <2>6. PICK m \in DOMAIN decls : decls[m] = frontend[n]
    BY <1>1 DEF Collection, ToSet
  <2>7. decls[m].super \notin IdNames
    BY <1>1 DEF Collection, Declares, Declared
  <2>8. QED
    BY <2>5, <2>6, <2>7
<1>5. Built \ IdNames \subseteq DOMAIN frontend
  BY <1>1 DEF Built, ClassNames, InOrder
<1>6. QED
  BY <1>3, <1>4, <1>5
-----------------------------------------------------------------------------
(* The declarations of a version and the structs of the files for it.       *)

\* The numbers in a set that are not greater than one of them.
UpTo(F, v) == {w \in F : w <= v}

\* Every place in a finite set of numbers is that of exactly one of them.
LEMMA RankFound ==
    ASSUME NEW F, F \subseteq Nat, IsFiniteSet(F)
    PROVE  /\ Cardinality(F) \in Nat
           /\ \A v \in F : Cardinality(UpTo(F, v)) \in 1..Cardinality(F)
           /\ \A v, w \in F : Cardinality(UpTo(F, v)) = Cardinality(UpTo(F, w)) => v = w
           /\ \A i \in 1..Cardinality(F) : \E v \in F : Cardinality(UpTo(F, v)) = i
<1> DEFINE n == Cardinality(F)
           f == [v \in F |-> Cardinality(UpTo(F, v))]
<1>1. n \in Nat
  BY FS_CardinalityType
<1>2. ASSUME NEW v \in F
      PROVE  /\ IsFiniteSet(UpTo(F, v)) /\ Cardinality(UpTo(F, v)) \in 1..n
  <2> DEFINE U == UpTo(F, v)
  <2>1. U \in SUBSET F /\ v \in U
    BY DEF UpTo
  <2> HIDE DEF U
  <2>2. IsFiniteSet(U) /\ Cardinality(U) <= n
    BY <2>1, FS_Subset
  <2>3. Cardinality(U) \in Nat
    BY <2>2, FS_CardinalityType
  <2>4. Cardinality(U) # 0
    BY <2>1, <2>2, FS_EmptySet
  <2> HIDE DEF n
  <2>5. Cardinality(U) \in 1..n
    BY <1>1, <2>2, <2>3, <2>4
  <2>6. QED
    BY <2>2, <2>5 DEF U
<1>3. ASSUME NEW v \in F, NEW w \in F, Cardinality(UpTo(F, v)) = Cardinality(UpTo(F, w)), v <= w
      PROVE  v = w
  <2> DEFINE U == UpTo(F, v)
             W == UpTo(F, w)
  <2>1. v \in Nat /\ w \in Nat
    OBVIOUS
  <2>2. U \in SUBSET W
    <3>1. \A a, b, c \in Nat : a <= b /\ b <= c => a <= c
      OBVIOUS
    <3>2. \A u \in F : u <= v => u <= w
      BY <1>3, <2>1, <3>1
    <3>3. QED
      BY <3>2 DEF UpTo
  <2>3. w \in W
    BY <2>1 DEF UpTo
  <2>4. IsFiniteSet(W) /\ Cardinality(W) = Cardinality(U)
    BY <1>2, <1>3
  <2> HIDE DEF U, W
  <2>5. W = U
    BY <2>2, <2>4, FS_Subset
  <2>6. w <= v
    BY <2>3, <2>5 DEF U, UpTo
  <2>7. QED
    BY <1>3, <2>1, <2>6
<1>4. \A v, w \in F : f[v] = f[w] => v = w
  <2> SUFFICES ASSUME NEW v \in F, NEW w \in F, f[v] = f[w]
               PROVE  v = w
    OBVIOUS
  <2>1. Cardinality(UpTo(F, v)) = Cardinality(UpTo(F, w))
    OBVIOUS
  <2>2. v \in Nat /\ w \in Nat
    OBVIOUS
  <2>3. v <= w \/ w <= v
    BY <2>2
  <2>4. QED
    BY <1>3, <2>1, <2>3
<1>5. f \in [F -> 1..n]
  BY <1>2
<1>6. f \in Injection(F, 1..n)
  <2> HIDE DEF f, n
  <2>1. QED
    BY <1>4, <1>5 DEF Injection, IsInjective
<1>7. IsFiniteSet(1..n) /\ Cardinality(1..n) = n
  <2> HIDE DEF n
  <2>1. 1 \in Int /\ n \in Int /\ (1 > n \/ 1 <= n)
    BY <1>1
  <2>2. IsFiniteSet(1..n) /\ Cardinality(1..n) = IF 1 > n THEN 0 ELSE n - 1 + 1
    BY <2>1, FS_Interval
  <2>3. QED
    BY <1>1, <2>2
<1>8. f \in Surjection(F, 1..n)
  <2> HIDE DEF f
  <2>1. Cardinality(F) = Cardinality(1..n)
    BY <1>7
  <2> HIDE DEF n
  <2>2. QED
    BY <1>6, <1>7, <2>1, FS_Injection
<1>9. \A i \in 1..n : \E v \in F : f[v] = i
  <2> HIDE DEF f, n
  <2>1. QED
    BY <1>8 DEF Surjection
<1>10. \A v \in F : f[v] = Cardinality(UpTo(F, v))
  OBVIOUS
<1> HIDE DEF f
<1>11. \A v, w \in F : Cardinality(UpTo(F, v)) = Cardinality(UpTo(F, w)) => v = w
  BY <1>4, <1>10
<1>12. \A i \in 1..n : \E v \in F : Cardinality(UpTo(F, v)) = i
  BY <1>9, <1>10
<1>13. QED
  BY <1>1, <1>2, <1>11, <1>12

\* The structs that the first files have for a version, by file and position.
Places(fs, v, r) ==
    UNION {{<<k, i>> : i \in DOMAIN fs[k].structs} : k \in {l \in 1..r : v \in WireVersions(fs[l])}}
At(fs, p) == fs[p[1]].structs[p[2]]

\* The declarations are the structs of the first files for the version, each
\* of them once.
Pairs(pos, fs, ds, v, r) ==
    /\ pos \in [DOMAIN ds -> Places(fs, v, r)]
    /\ \A i, j \in DOMAIN ds : pos[i] = pos[j] => i = j
    /\ \A p \in Places(fs, v, r) : \E i \in DOMAIN ds : pos[i] = p
    /\ \A i \in DOMAIN ds : ds[i] = CreateClass(At(fs, pos[i]))
Made(fs, ds, v, r) == \E pos : Pairs(pos, fs, ds, v, r)

\* The inputs are of the versions that the first files are for, and hold the
\* declarations of these files.
Gathered(fs, r, ins) ==
    /\ \A i, j \in DOMAIN ins : ins[i].version = ins[j].version => i = j
    /\ {ins[i].version : i \in DOMAIN ins} = {v \in Targets : \E k \in 1..r : v \in WireVersions(fs[k])}
    /\ \A i \in DOMAIN ins : Made(fs, ins[i].decls, ins[i].version, r)

\* What is in the set of places.
LEMMA InPlaces ==
    ASSUME NEW fs, NEW v, NEW r
    PROVE  /\ \A k, i : <<k, i>> \in Places(fs, v, r) <=>
                            k \in 1..r /\ v \in WireVersions(fs[k]) /\ i \in DOMAIN fs[k].structs
           /\ \A p \in Places(fs, v, r) : p = <<p[1], p[2]>>
<1> DEFINE K == {l \in 1..r : v \in WireVersions(fs[l])}
           block(k) == {<<k, i>> : i \in DOMAIN fs[k].structs}
<1>1. \A k, i : <<k, i>> \in block(k) <=> i \in DOMAIN fs[k].structs
  OBVIOUS
<1>2. \A k : \A p \in block(k) : p = <<p[1], p[2]>> /\ p[1] = k
  OBVIOUS
<1>3. Places(fs, v, r) = UNION {block(k) : k \in K}
  BY DEF Places
<1> HIDE DEF block
<1>4. \A p : p \in Places(fs, v, r) <=> \E k \in K : p \in block(k)
  BY <1>3
<1>5. \A p \in Places(fs, v, r) : p = <<p[1], p[2]>>
  BY <1>2, <1>4
<1>6. ASSUME NEW k, NEW i
      PROVE  <<k, i>> \in Places(fs, v, r) <=> k \in K /\ i \in DOMAIN fs[k].structs
  <2>1. \A l : <<k, i>> \in block(l) => l = k
    <3>1. <<k, i>>[1] = k
      OBVIOUS
    <3>2. QED
      BY <1>2, <3>1
  <2>2. QED
    BY <1>1, <1>4, <2>1
<1>7. QED
  BY <1>5, <1>6

\* A file that is not for a version leaves the declarations of the version as
\* they are.
LEMMA MadeStays ==
    ASSUME NEW fs, NEW v, NEW r \in Nat, v \notin WireVersions(fs[r + 1])
    PROVE  Places(fs, v, r + 1) = Places(fs, v, r)
<1>1. {l \in 1..r + 1 : v \in WireVersions(fs[l])} = {l \in 1..r : v \in WireVersions(fs[l])}
  <2>1. \A l \in 1..r + 1 : l \in 1..r \/ l = r + 1
    OBVIOUS
  <2>2. \A l \in 1..r : l \in 1..r + 1
    OBVIOUS
  <2>3. QED
    BY <2>1, <2>2
<1>2. QED
  BY <1>1 DEF Places

\* A file that is for a version adds its structs behind the declarations.
LEMMA MadeAdded ==
    ASSUME NEW fs, NEW v, NEW r \in Nat, v \in WireVersions(fs[r + 1]),
           Listed(fs[r + 1].structs),
           NEW ds, NEW n \in Nat, DOMAIN ds = 1..n, Made(fs, ds, v, r),
           NEW es, DOMAIN es = 1..n + Len(fs[r + 1].structs),
           \A i \in 1..n : es[i] = ds[i],
           \A i \in DOMAIN fs[r + 1].structs : es[n + i] = CreateClass(fs[r + 1].structs[i])
    PROVE  Made(fs, es, v, r + 1)
<1> DEFINE ss == fs[r + 1].structs
           m == Len(ss)
<1>1. DOMAIN ss = 1..m /\ m \in Nat
  BY ListedLength
<1>2. PICK pos : Pairs(pos, fs, ds, v, r)
  BY DEF Made
<1> DEFINE new == [i \in 1..n + m |-> IF i \in 1..n THEN pos[i] ELSE <<r + 1, i - n>>]
           P == Places(fs, v, r)
           Q == Places(fs, v, r + 1)
<1>3. /\ \A k, i : <<k, i>> \in P <=> k \in 1..r /\ v \in WireVersions(fs[k]) /\ i \in DOMAIN fs[k].structs
      /\ \A p \in P : p = <<p[1], p[2]>>
  BY InPlaces
<1>4. /\ \A k, i : <<k, i>> \in Q <=> k \in 1..r + 1 /\ v \in WireVersions(fs[k]) /\ i \in DOMAIN fs[k].structs
      /\ \A p \in Q : p = <<p[1], p[2]>>
  BY InPlaces
<1>5. /\ \A i \in 1..n : pos[i] \in P /\ ds[i] = CreateClass(At(fs, pos[i]))
      /\ \A i, j \in 1..n : pos[i] = pos[j] => i = j
      /\ \A p \in P : \E i \in 1..n : pos[i] = p
  BY <1>2 DEF Pairs
<1> HIDE DEF P, Q
<1>6. \A k \in 1..r : k \in 1..r + 1 /\ k # r + 1
  OBVIOUS
<1>7. \A k \in 1..r + 1 : k \in 1..r \/ k = r + 1
  OBVIOUS
<1>8. r + 1 \in 1..r + 1
  OBVIOUS
<1>9. \A p \in P : p \in Q /\ p[1] # r + 1
  BY <1>3, <1>4, <1>6
<1>10. \A p \in Q : p \in P \/ \E i \in 1..m : p = <<r + 1, i>>
  <2> SUFFICES ASSUME NEW p \in Q, p \notin P
               PROVE  \E i \in 1..m : p = <<r + 1, i>>
    OBVIOUS
  <2>1. p = <<p[1], p[2]>>
    BY <1>4
  <2>2. p[1] \in 1..r + 1 /\ v \in WireVersions(fs[p[1]]) /\ p[2] \in DOMAIN fs[p[1]].structs
    BY <1>4, <2>1
  <2>3. p[1] \notin 1..r
    BY <1>3, <2>1, <2>2
  <2>4. p[1] = r + 1
    BY <1>7, <2>2, <2>3
  <2>5. p[2] \in 1..m
    BY <1>1, <2>2, <2>4
  <2>6. QED
    BY <2>1, <2>4, <2>5
<1>11. \A i \in 1..m : <<r + 1, i>> \in Q
  BY <1>1, <1>4, <1>8
<1> HIDE DEF m, ss
<1>12. \A i \in 1..n + m : i \in 1..n \/ (i \notin 1..n /\ i - n \in 1..m /\ n + (i - n) = i)
  BY <1>1
<1>13. \A i \in 1..m : n + i \in 1..n + m /\ n + i \notin 1..n /\ (n + i) - n = i
  BY <1>1
<1>14. \A i \in 1..n : i \in 1..n + m
  BY <1>1
<1>15. \A i \in 1..n : new[i] = pos[i]
  BY <1>14
<1>16. \A i \in 1..n + m : i \notin 1..n => new[i] = <<r + 1, i - n>>
  OBVIOUS
<1>17. DOMAIN new = 1..n + m
  OBVIOUS
<1> HIDE DEF new
<1>18. ASSUME NEW i \in 1..n + m
       PROVE  new[i] \in Q /\ es[i] = CreateClass(At(fs, new[i]))
  <2>1. CASE i \in 1..n
    BY <1>5, <1>9, <1>15, <2>1
  <2>2. CASE i \notin 1..n
    <3>1. i - n \in 1..m /\ n + (i - n) = i /\ new[i] = <<r + 1, i - n>>
      BY <1>12, <1>16, <2>2
    <3>2. At(fs, new[i]) = ss[i - n]
      BY <3>1 DEF At, ss
    <3>3. es[n + (i - n)] = CreateClass(ss[i - n])
      BY <1>1, <3>1 DEF ss, m
    <3>4. QED
      BY <1>11, <3>1, <3>2, <3>3
  <2>3. QED
    BY <2>1, <2>2
<1>19. \A i, j \in 1..n + m : new[i] = new[j] => i = j
  <2> SUFFICES ASSUME NEW i \in 1..n + m, NEW j \in 1..n + m, new[i] = new[j]
               PROVE  i = j
    OBVIOUS
  <2>0. \A k \in 1..n + m : k \notin 1..n => new[k][1] = r + 1 /\ new[k][2] = k - n
    BY <1>16
  <2>1. CASE i \in 1..n /\ j \in 1..n
    BY <1>5, <1>15, <2>1
  <2>2. CASE i \in 1..n /\ j \notin 1..n
    BY <1>5, <1>9, <1>15, <2>0, <2>2
  <2>3. CASE i \notin 1..n /\ j \in 1..n
    BY <1>5, <1>9, <1>15, <2>0, <2>3
  <2>4. CASE i \notin 1..n /\ j \notin 1..n
    <3>1. i - n = j - n
      BY <2>0, <2>4
    <3>2. i \in Int /\ j \in Int
      OBVIOUS
    <3>3. QED
      BY <3>1, <3>2
  <2>5. QED
    BY <2>1, <2>2, <2>3, <2>4
<1>20. ASSUME NEW p \in Q
       PROVE  \E i \in 1..n + m : new[i] = p
  <2>1. CASE p \in P
    BY <1>5, <1>14, <1>15, <2>1
  <2>2. CASE \E i \in 1..m : p = <<r + 1, i>>
    <3>1. PICK i \in 1..m : p = <<r + 1, i>>
      BY <2>2
    <3>2. n + i \in 1..n + m /\ new[n + i] = <<r + 1, i>>
      <4>1. n + i \in 1..n + m /\ n + i \notin 1..n /\ (n + i) - n = i
        BY <1>13
      <4>2. new[n + i] = <<r + 1, (n + i) - n>>
        BY <1>16, <4>1
      <4>3. QED
        BY <4>1, <4>2
    <3>3. QED
      BY <3>1, <3>2
  <2>3. QED
    BY <1>10, <2>1, <2>2
<1>21. DOMAIN es = 1..n + m
  BY DEF m, ss
<1>22. new = [i \in 1..n + m |-> new[i]]
  BY DEF new
<1>23. new \in [DOMAIN es -> Q]
  BY <1>18, <1>21, <1>22
<1>24. Pairs(new, fs, es, v, r + 1)
  BY <1>18, <1>19, <1>20, <1>21, <1>23 DEF Pairs, Q
<1>25. QED
  BY <1>24 DEF Made

\* The first file that is for a version makes its declarations.
LEMMA MadeFirst ==
    ASSUME NEW fs, NEW v, NEW r \in Nat, v \in WireVersions(fs[r + 1]),
           \A k \in 1..r : v \notin WireVersions(fs[k]),
           Listed(fs[r + 1].structs)
    PROVE  Made(fs, [i \in DOMAIN fs[r + 1].structs |-> CreateClass(fs[r + 1].structs[i])], v, r + 1)
<1> DEFINE ss == fs[r + 1].structs
           new == [i \in DOMAIN ss |-> CreateClass(ss[i])]
<1>1. DOMAIN ss = 1..Len(ss) /\ Len(ss) \in Nat
  BY ListedLength
<1>2. DOMAIN <<>> = {}
  BY ListedEmpty
<1>3. Places(fs, v, r) = {}
  BY DEF Places
<1>4. Pairs(<<>>, fs, <<>>, v, r)
  <2>1. <<>> \in [DOMAIN <<>> -> Places(fs, v, r)]
    BY <1>2
  <2>2. QED
    BY <1>2, <1>3, <2>1 DEF Pairs
<1>5. Made(fs, <<>>, v, r)
  BY <1>4 DEF Made
<1>6. /\ DOMAIN <<>> = 1..0 /\ DOMAIN new = 1..0 + Len(ss)
      /\ \A i \in 1..0 : new[i] = <<>>[i]
  BY <1>1, <1>2
<1>7. \A i \in DOMAIN ss : new[0 + i] = CreateClass(ss[i])
  <2>1. \A i \in DOMAIN ss : 0 + i = i
    BY <1>1
  <2>2. QED
    BY <2>1
<1> HIDE DEF new
<1>8. Made(fs, new, v, r + 1)
  <2>1. 0 \in Nat
    OBVIOUS
  <2>2. QED
    BY <1>5, <1>6, <1>7, <2>1, MadeAdded
<1>9. QED
  BY <1>8 DEF new

\* Every file that is read is added to the inputs of the versions it is for.
LEMMA InputsGathered ==
    ASSUME Listed(inputs), \A i \in DOMAIN inputs : Input(inputs[i]),
           read \in Nat, Gathered(files, read, inputs), Declares(files[read + 1].structs)
    PROVE  Gathered(files, read + 1, Appended(files[read + 1]))
<1> DEFINE f == files[read + 1]
           r == read
           new == [i \in DOMAIN f.structs |-> CreateClass(f.structs[i])]
           met == {inputs[i].version : i \in DOMAIN inputs}
           fresh == (WireVersions(f) \cap Targets) \ met
           rank(v) == Cardinality({w \in fresh : w <= v})
           number(i) == CHOOSE v \in fresh : rank(v) = i
           old == [i \in DOMAIN inputs |->
                      IF inputs[i].version \in WireVersions(f) THEN [inputs[i] EXCEPT !.decls = @ \o new]
                      ELSE inputs[i]]
           m == Cardinality(fresh)
           n == Len(inputs)
           more == [i \in 1..m |-> [version |-> number(i), decls |-> new]]
           all == old \o more
<1>1. Appended(f) = all
  BY DEF Appended
<1>2. \A v : rank(v) = Cardinality(UpTo(fresh, v))
  BY DEF UpTo
<1>3. \A i : number(i) = CHOOSE v \in fresh : rank(v) = i
  OBVIOUS
<1>4. \A v : v \in fresh <=> v \in WireVersions(f) /\ v \in Targets /\ v \notin met
  OBVIOUS
<1>5. fresh \subseteq Nat /\ IsFiniteSet(fresh)
  <2>1. IsFiniteSet(Targets) /\ fresh \subseteq Targets /\ Targets \subseteq Nat
    BY FilesAssumption
  <2> HIDE DEF fresh
  <2>2. QED
    BY <2>1, FS_Subset
<1> HIDE DEF rank, number
<1>6. /\ m \in Nat
      /\ \A v \in fresh : rank(v) \in 1..m
      /\ \A v, w \in fresh : rank(v) = rank(w) => v = w
      /\ \A i \in 1..m : \E v \in fresh : rank(v) = i
  <2> HIDE DEF fresh
  <2>1. /\ m \in Nat
        /\ \A v \in fresh : Cardinality(UpTo(fresh, v)) \in 1..m
        /\ \A v, w \in fresh : Cardinality(UpTo(fresh, v)) = Cardinality(UpTo(fresh, w)) => v = w
        /\ \A i \in 1..m : \E v \in fresh : Cardinality(UpTo(fresh, v)) = i
    BY <1>5, RankFound
  <2> HIDE DEF m
  <2>2. QED
    BY <1>2, <2>1
<1>7. \A i \in 1..m : number(i) \in fresh /\ rank(number(i)) = i
  <2> HIDE DEF m, fresh
  <2>1. QED
    BY <1>3, <1>6
<1>8. DOMAIN inputs = 1..n /\ n \in Nat
  BY ListedLength
<1>9. /\ \A i \in 1..n : old[i].version = inputs[i].version
      /\ \A i \in 1..n : inputs[i].version \notin WireVersions(f) => old[i].decls = inputs[i].decls
      /\ \A i \in 1..n : inputs[i].version \in WireVersions(f) => old[i].decls = inputs[i].decls \o new
  <2> HIDE DEF new
  <2> SUFFICES ASSUME NEW i \in 1..n
               PROVE  /\ old[i].version = inputs[i].version
                      /\ inputs[i].version \notin WireVersions(f) => old[i].decls = inputs[i].decls
                      /\ inputs[i].version \in WireVersions(f) => old[i].decls = inputs[i].decls \o new
    OBVIOUS
  <2>1. CASE inputs[i].version \notin WireVersions(f)
    BY <1>8, <2>1
  <2>2. CASE inputs[i].version \in WireVersions(f)
    <3>1. inputs[i] = [version |-> inputs[i].version, decls |-> inputs[i].decls]
      BY <1>8 DEF Input
    <3> DEFINE joined == inputs[i].decls \o new
    <3>2. old[i] = [inputs[i] EXCEPT !.decls = joined]
      BY <1>8, <2>2
    <3> HIDE DEF joined, old
    <3>3. old[i] = [version |-> inputs[i].version, decls |-> joined]
      BY <3>1, <3>2
    <3>4. QED
      BY <2>2, <3>3 DEF joined
  <2>3. QED
    BY <2>1, <2>2
<1>10. \A i \in 1..m : more[i].version = number(i) /\ more[i].decls = new
  OBVIOUS
<1>11. old = [i \in 1..n |-> old[i]] /\ more = [i \in 1..m |-> more[i]]
  BY <1>8
<1> HIDE DEF old, more, fresh, met
<1>12. Listed(old) /\ Len(old) = n
  <2> HIDE DEF n
  <2>1. QED
    BY <1>8, <1>11, ListedFunction
<1>13. Listed(more) /\ Len(more) = m
  <2> HIDE DEF m
  <2>1. QED
    BY <1>6, <1>11, ListedFunction
<1>14. /\ DOMAIN all = 1..n + m
       /\ \A i \in 1..n : all[i] = old[i]
       /\ \A i \in 1..m : all[n + i] = more[i]
  <2>1. /\ DOMAIN all = 1..Len(old) + Len(more)
        /\ \A i \in 1..Len(old) : all[i] = old[i]
        /\ \A i \in 1..Len(more) : all[Len(old) + i] = more[i]
    <3>1. Listed(old)
      BY <1>12
    <3>2. Listed(more)
      BY <1>13
    <3>3. QED
      BY <3>1, <3>2, ListedJoined
  <2>2. QED
    BY <1>12, <1>13, <2>1
<1> HIDE DEF all, m, n
<1>15. \A i \in 1..n : all[i].version = inputs[i].version /\ i \in 1..n + m
  BY <1>6, <1>8, <1>9, <1>14
<1>16. \A i \in 1..n + m : i \notin 1..n =>
           all[i].version = number(i - n) /\ all[i].decls = new /\ i - n \in 1..m
  <2> SUFFICES ASSUME NEW i \in 1..n + m, i \notin 1..n
               PROVE  all[i].version = number(i - n) /\ all[i].decls = new /\ i - n \in 1..m
    OBVIOUS
  <2>1. i - n \in 1..m /\ n + (i - n) = i
    BY <1>6, <1>8
  <2>2. all[n + (i - n)] = more[i - n]
    BY <1>14, <2>1
  <2>3. QED
    BY <1>10, <2>1, <2>2
<1>17. \A i \in 1..m : n + i \in 1..n + m /\ n + i \notin 1..n /\ (n + i) - n = i
  BY <1>6, <1>8
<1>18. /\ \A i, j \in 1..n : inputs[i].version = inputs[j].version => i = j
       /\ met = {v \in Targets : \E k \in 1..r : v \in WireVersions(files[k])}
       /\ \A i \in 1..n : Made(files, inputs[i].decls, inputs[i].version, r)
       /\ \A i \in 1..n : inputs[i].version \in met
       /\ \A v \in met : \E i \in 1..n : inputs[i].version = v
  <2>1. met = {inputs[i].version : i \in 1..n}
    BY <1>8 DEF met
  <2>2. QED
    BY <1>8, <2>1 DEF Gathered
<1>19. \A i, j \in 1..n + m : all[i].version = all[j].version => i = j
  <2> SUFFICES ASSUME NEW i \in 1..n + m, NEW j \in 1..n + m, all[i].version = all[j].version
               PROVE  i = j
    OBVIOUS
  <2>0. \A k \in 1..n + m : all[k].version \in met <=> k \in 1..n
    <3>1. \A k \in 1..n : all[k].version \in met
      BY <1>15, <1>18
    <3>2. \A k \in 1..n + m : k \notin 1..n => all[k].version \in fresh
      BY <1>7, <1>16
    <3>3. QED
      BY <1>4, <3>1, <3>2
  <2>1. CASE i \in 1..n /\ j \in 1..n
    BY <1>15, <1>18, <2>1
  <2>2. CASE i \in 1..n /\ j \notin 1..n
    BY <2>0, <2>2
  <2>3. CASE i \notin 1..n /\ j \in 1..n
    BY <2>0, <2>3
  <2>4. CASE i \notin 1..n /\ j \notin 1..n
    <3>1. i - n \in 1..m /\ j - n \in 1..m /\ number(i - n) = number(j - n)
      BY <1>16, <2>4
    <3>2. i - n = j - n
      <4>1. rank(number(i - n)) = i - n /\ rank(number(j - n)) = j - n
        BY <1>7, <3>1
      <4>2. QED
        BY <3>1, <4>1
    <3>3. QED
      BY <1>6, <1>8, <3>2
  <2>5. QED
    BY <2>1, <2>2, <2>3, <2>4
<1>20. \A k \in 1..r + 1 : k \in 1..r \/ k = r + 1
  OBVIOUS
<1>21. r + 1 \in 1..r + 1 /\ \A k \in 1..r : k \in 1..r + 1
  OBVIOUS
<1>22. ASSUME NEW i \in 1..n + m
       PROVE  all[i].version \in Targets /\ \E k \in 1..r + 1 : all[i].version \in WireVersions(files[k])
  <2>1. CASE i \in 1..n
    BY <1>15, <1>18, <1>21, <2>1
  <2>2. CASE i \notin 1..n
    BY <1>4, <1>7, <1>16, <1>21, <2>2
  <2>3. QED
    BY <2>1, <2>2
<1>23. ASSUME NEW v \in Targets, NEW k \in 1..r + 1, v \in WireVersions(files[k])
       PROVE  \E i \in 1..n + m : all[i].version = v
  <2>1. CASE v \in met
    BY <1>15, <1>18, <2>1
  <2>2. CASE v \notin met
    <3>1. v \in fresh
      BY <1>4, <1>18, <1>20, <1>23, <2>2
    <3> DEFINE i == rank(v)
    <3>2. i \in 1..m /\ number(i) = v
      <4>1. i \in 1..m
        BY <1>6, <3>1
      <4>2. number(i) \in fresh /\ rank(number(i)) = rank(v)
        BY <1>7, <4>1
      <4>3. QED
        BY <1>6, <3>1, <4>1, <4>2
    <3> HIDE DEF i
    <3>3. n + i \in 1..n + m /\ n + i \notin 1..n /\ (n + i) - n = i
      BY <1>17, <3>2
    <3>4. all[n + i].version = number((n + i) - n)
      BY <1>16, <3>3
    <3>5. QED
      BY <3>2, <3>3, <3>4
  <2>3. QED
    BY <2>1, <2>2
<1>24. {all[i].version : i \in 1..n + m} = {v \in Targets : \E k \in 1..r + 1 : v \in WireVersions(files[k])}
  BY <1>22, <1>23
<1>25. Listed(f.structs)
  BY DEF Declares, Declared, Listed
<1>26. ASSUME NEW i \in 1..n + m
       PROVE  Made(files, all[i].decls, all[i].version, r + 1)
  <2> DEFINE v == all[i].version
  <2>1. CASE i \notin 1..n
    <3>1. v \in fresh /\ all[i].decls = new
      BY <1>7, <1>16, <2>1
    <3>2. v \in WireVersions(f) /\ \A k \in 1..r : v \notin WireVersions(files[k])
      BY <1>4, <1>18, <3>1
    <3> HIDE DEF v
    <3>3. Made(files, new, v, r + 1)
      BY <1>25, <3>2, MadeFirst
    <3>4. QED
      BY <3>1, <3>3 DEF v
  <2>2. CASE i \in 1..n /\ v \notin WireVersions(f)
    <3>1. all[i].decls = inputs[i].decls /\ v = inputs[i].version
      BY <1>9, <1>14, <1>15, <2>2
    <3>2. Made(files, inputs[i].decls, v, r)
      BY <1>18, <2>2, <3>1
    <3> HIDE DEF v, f
    <3>3. Places(files, v, r + 1) = Places(files, v, r)
      BY <2>2, MadeStays DEF f
    <3>4. Made(files, inputs[i].decls, v, r + 1)
      BY <3>2, <3>3 DEF Made, Pairs
    <3>5. QED
      BY <3>1, <3>4 DEF v
  <2>3. CASE i \in 1..n /\ v \in WireVersions(f)
    <3> DEFINE ds == inputs[i].decls
               es == all[i].decls
    <3>1. es = ds \o new /\ v = inputs[i].version
      BY <1>9, <1>14, <1>15, <2>3
    <3>2. Made(files, ds, v, r)
      BY <1>18, <2>3, <3>1
    <3>3. Listed(ds)
      BY <1>8, <2>3 DEF Input, Declares, Declared, Listed
    <3>4. DOMAIN f.structs = 1..Len(f.structs) /\ Len(f.structs) \in Nat
      BY <1>25, ListedLength
    <3>5. Listed(new) /\ Len(new) = Len(f.structs)
      <4>1. new = [k \in 1..Len(f.structs) |-> new[k]]
        BY <3>4
      <4> HIDE DEF new
      <4>2. QED
        BY <3>4, <4>1, ListedFunction
    <3>6. \A k \in DOMAIN f.structs : new[k] = CreateClass(f.structs[k])
      OBVIOUS
    <3> HIDE DEF new, ds, es, v
    <3>7. /\ DOMAIN es = 1..Len(ds) + Len(new)
          /\ \A k \in 1..Len(ds) : es[k] = ds[k]
          /\ \A k \in 1..Len(new) : es[Len(ds) + k] = new[k]
      <4>1. Listed(new)
        BY <3>5
      <4>2. /\ DOMAIN (ds \o new) = 1..Len(ds) + Len(new)
            /\ \A k \in 1..Len(ds) : (ds \o new)[k] = ds[k]
            /\ \A k \in 1..Len(new) : (ds \o new)[Len(ds) + k] = new[k]
        BY <3>3, <4>1, ListedJoined
      <4>3. QED
        BY <3>1, <4>2
    <3>8. DOMAIN ds = 1..Len(ds) /\ Len(ds) \in Nat
      BY <3>3, ListedLength
    <3> DEFINE a == Len(ds)
    <3>9. /\ DOMAIN es = 1..a + Len(f.structs)
          /\ \A k \in 1..a : es[k] = ds[k]
          /\ \A k \in DOMAIN f.structs : es[a + k] = CreateClass(f.structs[k])
          /\ DOMAIN ds = 1..a /\ a \in Nat
      BY <3>4, <3>5, <3>6, <3>7, <3>8
    <3> HIDE DEF a
    <3>10. Made(files, es, v, r + 1)
      BY <1>25, <2>3, <3>2, <3>9, MadeAdded
    <3>11. QED
      BY <3>10 DEF es, v
  <2>4. QED
    BY <2>1, <2>2, <2>3
<1>27. Gathered(files, r + 1, all)
  <2> HIDE DEF r
  <2>1. QED
    BY <1>14, <1>19, <1>24, <1>26 DEF Gathered
<1>28. QED
  BY <1>1, <1>27
-----------------------------------------------------------------------------
(* What is wrong with the declarations is wrong with the files.             *)

NamesIn(ds) == {ds[i].name : i \in DOMAIN ds}
UsesOf(s) == {s.super} \cup {m.type : m \in {n \in ToSet(s.members) : n.count = 1}}
UsesIn(ds, name) == UNION {UsesOf(ds[i]) : i \in {j \in DOMAIN ds : ds[j].name = name}}
CircularIn(ds) ==
    \E ns \in (SUBSET NamesIn(ds)) \ {{}} : \A n \in ns : UsesIn(ds, n) \cap ns # {}
OrphanIn(ds) == \E i \in DOMAIN ds : ds[i].super \notin NamesIn(ds) \cup {NoClass}

\* Among classes of these names, a class has a member of a type that nobody
\* knows, or of a class that it does not wait for.
Lacks(s, v, names) ==
    \E m \in ToSet(s.members) :
        s.name \notin IdNames /\ Base(m.type, v) \notin DOMAIN BasicLength \cup names
WaitsNot(s, v, names) ==
    \E m \in ToSet(s.members) :
        LET type == Base(m.type, v)
        IN  type \notin DOMAIN BasicLength /\ ~(m.count = 1 /\ m.type = type /\ type \in names)
UnknownIn(ds, v) == \E i \in DOMAIN ds : Lacks(ds[i], v, NamesIn(ds))
UnawaitedIn(ds, v) == \E i \in DOMAIN ds : WaitsNot(ds[i], v, NamesIn(ds))

\* When all declarations are collected, they are the classes.
LEMMA CollectedAll ==
    ASSUME Collection, Complete, Collected = Len(decls)
    PROVE  /\ DOMAIN frontend = NamesIn(decls) /\ ~TwiceIn(decls)
           /\ Cyclic <=> CircularIn(decls)
           /\ Orphaned <=> OrphanIn(decls)
<1>1. DOMAIN decls = 1..Len(decls)
  <2>1. Listed(decls)
    BY DEF Collection, Declares, Declared, Listed
  <2>2. QED
    BY <2>1, ListedLength
<1>2. /\ \A i \in DOMAIN decls : decls[i].name \in DOMAIN frontend /\ frontend[decls[i].name] = decls[i]
      /\ \A n \in DOMAIN frontend : \E i \in DOMAIN decls : decls[i].name = n
      /\ \A i, j \in DOMAIN decls : decls[i].name = decls[j].name => i = j
  BY <1>1 DEF Complete
<1>3. DOMAIN frontend = NamesIn(decls)
  <2>1. \A n : n \in NamesIn(decls) <=> \E i \in DOMAIN decls : decls[i].name = n
    BY DEF NamesIn
  <2>2. \A n \in DOMAIN frontend : n \in NamesIn(decls)
    BY <1>2, <2>1
  <2>3. \A n \in NamesIn(decls) : n \in DOMAIN frontend
    BY <1>2, <2>1
  <2>4. QED
    BY <2>2, <2>3
<1>4. ~TwiceIn(decls)
  BY <1>2 DEF TwiceIn
<1>5. Orphaned <=> OrphanIn(decls)
  <2>1. Orphaned <=> \E n \in DOMAIN frontend : frontend[n].super \notin NamesIn(decls) \cup {NoClass}
    BY <1>3 DEF Orphaned
  <2>2. QED
    BY <1>2, <2>1 DEF OrphanIn
<1>6. \A n \in DOMAIN frontend : UsesIn(decls, n) = UsesOf(frontend[n])
  <2> SUFFICES ASSUME NEW n \in DOMAIN frontend
               PROVE  UsesIn(decls, n) = UsesOf(frontend[n])
    OBVIOUS
  <2>1. PICK i \in DOMAIN decls : decls[i].name = n
    BY <1>2
  <2>2. {j \in DOMAIN decls : decls[j].name = n} = {i} /\ decls[i] = frontend[n]
    BY <1>2, <2>1
  <2>3. UsesIn(decls, n) = UNION {UsesOf(decls[j]) : j \in {i}}
    BY <2>2 DEF UsesIn
  <2>4. QED
    BY <2>2, <2>3
<1>7. \A n, m \in DOMAIN frontend : m \in UsesOf(frontend[n]) <=> m \in Dependencies(frontend[n])
  <2> SUFFICES ASSUME NEW n \in DOMAIN frontend, NEW m \in DOMAIN frontend
               PROVE  m \in UsesOf(frontend[n]) <=> m \in Dependencies(frontend[n])
    OBVIOUS
  <2> DEFINE d == frontend[n]
  <2>1. m # NoClass
    BY BuildAssumption DEF Collection
  <2>2. m \in UsesOf(d) <=> m = d.super \/ \E x \in ToSet(d.members) : x.count = 1 /\ m = x.type
    BY DEF UsesOf
  <2>3. m \in UsesOf(d) <=>
            m = d.super \/ \E i \in DOMAIN d.members : d.members[i].count = 1 /\ m = d.members[i].type
    BY <2>2 DEF ToSet
  <2>4. m \in Dependencies(d) <=>
            m = d.super \/ \E i \in DOMAIN d.members : d.members[i].type = m /\ d.members[i].count = 1
    BY <2>1 DEF Dependencies, DependsOn
  <2>5. QED
    BY <2>3, <2>4
<1>8. Cyclic <=> CircularIn(decls)
  <2>1. ASSUME NEW ns \in SUBSET DOMAIN frontend, NEW n \in ns
        PROVE  Dependencies(frontend[n]) \cap ns # {} <=> UsesIn(decls, n) \cap ns # {}
    <3>1. \A m \in ns : m \in UsesIn(decls, n) <=> m \in Dependencies(frontend[n])
      BY <1>6, <1>7
    <3>2. QED
      BY <3>1
  <2>2. CircularIn(decls) <=>
            \E ns \in SUBSET DOMAIN frontend : ns # {} /\ \A n \in ns : UsesIn(decls, n) \cap ns # {}
    BY <1>3 DEF CircularIn
  <2>3. QED
    BY <2>1, <2>2 DEF Cyclic
<1>9. QED
  BY <1>3, <1>4, <1>5, <1>8

\* A file that can be used is for the versions that its lines say.
LEMMA ForMeans ==
    ASSUME NEW f, ~BadInput(f), NEW v
    PROVE  IsFor(f, v) <=> v \in WireVersions(f)
<1>1. ToSet(f.versions) \subseteq Supported \cup {AnyVersion}
  BY DEF BadInput
<1>2. \A i \in DOMAIN f.versions : f.versions[i] \in Supported \/ f.versions[i] = AnyVersion
  BY <1>1 DEF ToSet
<1>3. v \in WireVersions(f) <=>
          \E i \in DOMAIN f.versions : v \in IF f.versions[i] = AnyVersion THEN Supported ELSE {f.versions[i]}
  BY DEF WireVersions, ToSet
<1>4. QED
  BY <1>2, <1>3 DEF IsFor

\* create_ofinput() keeps the names and types of a struct.
LEMMA CreatedSame ==
    ASSUME NEW s, \A m \in ToSet(s.members) : Tagged(m)
    PROVE  /\ CreateClass(s).name = s.name /\ CreateClass(s).super = s.super
           /\ UsesOf(CreateClass(s)) = UsesOf(s)
           /\ \A v, names : /\ Lacks(CreateClass(s), v, names) <=> Lacks(s, v, names)
                            /\ WaitsNot(CreateClass(s), v, names) <=> WaitsNot(s, v, names)
<1> DEFINE ms == s.members
           new == [i \in DOMAIN ms |-> CreateMember(ms[i])]
           d == CreateClass(s)
<1>1. d.name = s.name /\ d.super = s.super /\ d.members = new
  BY DEF CreateClass
<1>2. \A i \in DOMAIN ms : CreateMember(ms[i]).type = ms[i].type /\ CreateMember(ms[i]).count = ms[i].count
  <2> SUFFICES ASSUME NEW i \in DOMAIN ms
               PROVE  CreateMember(ms[i]).type = ms[i].type /\ CreateMember(ms[i]).count = ms[i].count
    OBVIOUS
  <2> DEFINE m == ms[i]
  <2>1. DOMAIN m = {"kind", "name", "type", "count"}
    BY DEF ToSet, Tagged
  <2> HIDE DEF m
  <2>2. QED
    BY <2>1 DEF CreateMember
<1>3. DOMAIN new = DOMAIN ms /\ \A i \in DOMAIN ms : new[i] = CreateMember(ms[i])
  OBVIOUS
<1> HIDE DEF new, d
<1>4. ASSUME NEW t
      PROVE  /\ t \in UsesOf(d) <=> t = d.super \/ \E i \in DOMAIN new : new[i].count = 1 /\ t = new[i].type
             /\ t \in UsesOf(s) <=> t = s.super \/ \E i \in DOMAIN ms : ms[i].count = 1 /\ t = ms[i].type
  <2>1. t \in UsesOf(d) <=> t = d.super \/ \E x \in ToSet(new) : x.count = 1 /\ t = x.type
    BY <1>1 DEF UsesOf
  <2>2. t \in UsesOf(s) <=> t = s.super \/ \E x \in ToSet(ms) : x.count = 1 /\ t = x.type
    BY DEF UsesOf
  <2>3. QED
    BY <2>1, <2>2 DEF ToSet
<1>5. \A t : t \in UsesOf(d) <=> t \in UsesOf(s)
  BY <1>1, <1>2, <1>3, <1>4
<1>6. ASSUME NEW v, NEW names
      PROVE  /\ Lacks(d, v, names) <=> Lacks(s, v, names)
             /\ WaitsNot(d, v, names) <=> WaitsNot(s, v, names)
  <2>1. \A x : x \in ToSet(new) <=> \E i \in DOMAIN ms : x = CreateMember(ms[i])
    BY <1>3 DEF ToSet
  <2>2. \A x : x \in ToSet(ms) <=> \E i \in DOMAIN ms : x = ms[i]
    BY DEF ToSet
  <2>3. Lacks(d, v, names) <=> Lacks(s, v, names)
    BY <1>1, <1>2, <2>1, <2>2 DEF Lacks
  <2>4. WaitsNot(d, v, names) <=> WaitsNot(s, v, names)
    BY <1>1, <1>2, <2>1, <2>2 DEF WaitsNot
  <2>5. QED
    BY <2>3, <2>4
<1>7. QED
  BY <1>1, <1>5, <1>6 DEF d

\* All files can be used.
Usable == files \in FileSets /\ \A k \in 1..Len(files) : ~BadInput(files[k])

\* The structs of a version are those of the files for it.
LEMMA StructsPlaces ==
    ASSUME Usable, NEW v
    PROVE  /\ DOMAIN files = 1..Len(files) /\ Len(files) \in Nat
           /\ DOMAIN Structs(v) = Places(files, v, Len(files))
           /\ \A p \in DOMAIN Structs(v) : Structs(v)[p] = At(files, p)
<1>1. DOMAIN files = 1..Len(files) /\ Len(files) \in Nat
  <2>1. Listed(files)
    BY FilesAssumption DEF Usable, Listed
  <2>2. QED
    BY <2>1, ListedLength
<1>2. \A k \in 1..Len(files) : IsFor(files[k], v) <=> v \in WireVersions(files[k])
  BY ForMeans DEF Usable
<1>3. {k \in DOMAIN files : IsFor(files[k], v)} = {l \in 1..Len(files) : v \in WireVersions(files[l])}
  BY <1>1, <1>2
<1>4. DOMAIN Structs(v) = UNION {{<<f, i>> : i \in DOMAIN files[f].structs} :
                                     f \in {k \in DOMAIN files : IsFor(files[k], v)}}
  BY DEF Structs
<1>5. DOMAIN Structs(v) = Places(files, v, Len(files))
  BY <1>3, <1>4 DEF Places
<1>6. \A p \in DOMAIN Structs(v) : Structs(v)[p] = At(files, p)
  BY DEF Structs, At
<1>7. QED
  BY <1>1, <1>5, <1>6

\* The declarations of a version are its structs, each of them once.
LEMMA MadeOfStructs ==
    ASSUME Usable, NEW v, NEW ds, Made(files, ds, v, Len(files))
    PROVE  \E pos :
              /\ \A i \in DOMAIN ds : pos[i] \in DOMAIN Structs(v)
              /\ \A i, j \in DOMAIN ds : pos[i] = pos[j] => i = j
              /\ \A p \in DOMAIN Structs(v) : \E i \in DOMAIN ds : pos[i] = p
              /\ \A i \in DOMAIN ds :
                    LET s == Structs(v)[pos[i]]
                    IN  ds[i] = CreateClass(s) /\ \A m \in ToSet(s.members) : Tagged(m)
<1> DEFINE S == Structs(v)
           P == DOMAIN S
<1>1. PICK pos : Pairs(pos, files, ds, v, Len(files))
  BY DEF Made
<1>2. /\ DOMAIN files = 1..Len(files) /\ P = Places(files, v, Len(files))
      /\ \A p \in P : S[p] = At(files, p)
  BY StructsPlaces
<1> HIDE DEF S, P
<1>3. /\ \A i \in DOMAIN ds : pos[i] \in P
      /\ \A i, j \in DOMAIN ds : pos[i] = pos[j] => i = j
      /\ \A p \in P : \E i \in DOMAIN ds : pos[i] = p
      /\ \A i \in DOMAIN ds : ds[i] = CreateClass(S[pos[i]])
  BY <1>1, <1>2 DEF Pairs
<1>4. ASSUME NEW p \in P
      PROVE  \A m \in ToSet(S[p].members) : Tagged(m)
  <2>1. /\ \A k, i : <<k, i>> \in P <=> k \in 1..Len(files) /\ v \in WireVersions(files[k])
                                        /\ i \in DOMAIN files[k].structs
        /\ p = <<p[1], p[2]>>
    BY <1>2, InPlaces
  <2>2. p[1] \in DOMAIN files /\ p[2] \in DOMAIN files[p[1]].structs
    BY <1>2, <2>1
  <2>3. S[p] = files[p[1]].structs[p[2]]
    BY <1>2 DEF At
  <2>4. S[p] \in ToSet(files[p[1]].structs)
    BY <2>2, <2>3 DEF ToSet
  <2>5. Declares(files[p[1]].structs)
    BY <2>2, FilesAssumption DEF Usable
  <2>6. QED
    BY <2>2, <2>3, <2>5 DEF Declares, Declared
<1>5. QED
  BY <1>3, <1>4 DEF S, P

\* What is true of the declarations of a version is true of the structs of
\* the files.
LEMMA MadeMeans ==
    ASSUME Usable, NEW v, NEW ds, Made(files, ds, v, Len(files))
    PROVE  /\ NamesFor(v) = NamesIn(ds)
           /\ Twice(v) <=> TwiceIn(ds)
           /\ Circular(v) <=> CircularIn(ds)
           /\ Orphan(v) <=> OrphanIn(ds)
           /\ Unknown(v) <=> UnknownIn(ds, v)
           /\ Unawaited(v) <=> UnawaitedIn(ds, v)
<1> DEFINE S == Structs(v)
           P == DOMAIN S
<1>1. PICK pos :
          /\ \A i \in DOMAIN ds : pos[i] \in P
          /\ \A i, j \in DOMAIN ds : pos[i] = pos[j] => i = j
          /\ \A p \in P : \E i \in DOMAIN ds : pos[i] = p
          /\ \A i \in DOMAIN ds :
                ds[i] = CreateClass(S[pos[i]]) /\ \A m \in ToSet(S[pos[i]].members) : Tagged(m)
  BY MadeOfStructs
<1> HIDE DEF S, P
<1>2. \A i \in DOMAIN ds : /\ ds[i].name = S[pos[i]].name /\ ds[i].super = S[pos[i]].super
                           /\ UsesOf(ds[i]) = UsesOf(S[pos[i]])
                           /\ \A names :
                                 /\ Lacks(ds[i], v, names) <=> Lacks(S[pos[i]], v, names)
                                 /\ WaitsNot(ds[i], v, names) <=> WaitsNot(S[pos[i]], v, names)
  <2> SUFFICES ASSUME NEW i \in DOMAIN ds
               PROVE  /\ ds[i].name = S[pos[i]].name /\ ds[i].super = S[pos[i]].super
                      /\ UsesOf(ds[i]) = UsesOf(S[pos[i]])
                      /\ \A names :
                            /\ Lacks(ds[i], v, names) <=> Lacks(S[pos[i]], v, names)
                            /\ WaitsNot(ds[i], v, names) <=> WaitsNot(S[pos[i]], v, names)
    OBVIOUS
  <2> DEFINE s == S[pos[i]]
  <2>1. \A m \in ToSet(s.members) : Tagged(m)
    BY <1>1
  <2>2. ds[i] = CreateClass(s)
    BY <1>1
  <2> HIDE DEF s
  <2>3. /\ ds[i].name = s.name /\ ds[i].super = s.super /\ UsesOf(ds[i]) = UsesOf(s)
        /\ \A names : /\ Lacks(ds[i], v, names) <=> Lacks(s, v, names)
                      /\ WaitsNot(ds[i], v, names) <=> WaitsNot(s, v, names)
    BY <2>1, <2>2, CreatedSame
  <2>4. QED
    BY <2>3 DEF s
<1>3. NamesFor(v) = NamesIn(ds)
  <2>1. NamesFor(v) = {S[p].name : p \in P}
    BY DEF NamesFor, S, P
  <2>2. QED
    BY <1>1, <1>2, <2>1 DEF NamesIn
<1>4. Twice(v) <=> TwiceIn(ds)
  <2>1. Twice(v) <=> \E p, q \in P : p # q /\ S[p].name = S[q].name
    BY DEF Twice, S, P
  <2>2. ASSUME NEW p \in P, NEW q \in P, p # q, S[p].name = S[q].name
        PROVE  TwiceIn(ds)
    BY <1>1, <1>2, <2>2 DEF TwiceIn
  <2>3. ASSUME NEW i \in DOMAIN ds, NEW j \in DOMAIN ds, i # j, ds[i].name = ds[j].name
        PROVE  \E p, q \in P : p # q /\ S[p].name = S[q].name
    BY <1>1, <1>2, <2>3
  <2>4. QED
    BY <2>1, <2>2, <2>3 DEF TwiceIn
<1>5. Orphan(v) <=> OrphanIn(ds)
  <2>1. Orphan(v) <=> \E p \in P : S[p].super \notin NamesIn(ds) \cup {NoClass}
    BY <1>3 DEF Orphan, S, P
  <2>2. QED
    BY <1>1, <1>2, <2>1 DEF OrphanIn
<1>6. ASSUME NEW n
      PROVE  Uses(v, n) = UsesIn(ds, n)
  <2>1. Uses(v, n) = UNION {UsesOf(S[p]) : p \in {q \in P : S[q].name = n}}
    BY DEF Uses, UsesOf, S, P
  <2>2. \A t : t \in Uses(v, n) <=> \E p \in P : S[p].name = n /\ t \in UsesOf(S[p])
    BY <2>1
  <2>3. \A t : t \in UsesIn(ds, n) <=> \E i \in DOMAIN ds : ds[i].name = n /\ t \in UsesOf(ds[i])
    BY DEF UsesIn
  <2>4. \A t : t \in Uses(v, n) <=> t \in UsesIn(ds, n)
    BY <1>1, <1>2, <2>2, <2>3
  <2>5. QED
    BY <2>4
<1>7. Circular(v) <=> CircularIn(ds)
  BY <1>3, <1>6 DEF Circular, CircularIn
<1>8. Unknown(v) <=> UnknownIn(ds, v)
  <2>1. Unknown(v) <=> \E p \in P : Lacks(S[p], v, NamesIn(ds))
    BY <1>3 DEF Unknown, Lacks, S, P
  <2>2. QED
    BY <1>1, <1>2, <2>1 DEF UnknownIn
<1>9. Unawaited(v) <=> UnawaitedIn(ds, v)
  <2>1. Unawaited(v) <=> \E p \in P : WaitsNot(S[p], v, NamesIn(ds))
    BY <1>3 DEF Unawaited, WaitsNot, S, P
  <2>2. QED
    BY <1>1, <1>2, <2>1 DEF UnawaitedIn
<1>10. QED
  BY <1>3, <1>4, <1>5, <1>7, <1>8, <1>9

\* A version that no file is for has nothing that could be wrong.
LEMMA NothingFor ==
    ASSUME Usable, NEW v, \A k \in DOMAIN files : v \notin WireVersions(files[k])
    PROVE  ~Twice(v) /\ ~Circular(v) /\ ~Orphan(v) /\ ~Unknown(v)
<1>1. DOMAIN Structs(v) = {}
  <2>1. DOMAIN files = 1..Len(files) /\ DOMAIN Structs(v) = Places(files, v, Len(files))
    BY StructsPlaces
  <2>2. {l \in 1..Len(files) : v \in WireVersions(files[l])} = {}
    BY <2>1
  <2>3. Places(files, v, Len(files)) = {}
    BY <2>2 DEF Places
  <2>4. QED
    BY <2>1, <2>3
<1>2. NamesFor(v) = {}
  BY <1>1 DEF NamesFor
<1>3. QED
  BY <1>1, <1>2 DEF Twice, Circular, Orphan, Unknown
-----------------------------------------------------------------------------
(* Building the protocols one after the other.                              *)

\* The protocol of a version has the classes of its declarations, with which
\* nothing is wrong.
Honest(p, input) ==
    /\ p.version = input.version
    /\ NamesIn(input.decls) \subseteq ClassNames(p.classes)
    /\ ClassNames(p.classes) \ IdNames \subseteq NamesIn(input.decls)
    /\ ~TwiceIn(input.decls) /\ ~CircularIn(input.decls) /\ ~OrphanIn(input.decls)

\* The first files have been read, and then the first protocols were made.
Progress ==
    /\ read <= Len(files) /\ \A k \in 1..read : ~BadInput(files[k])
    /\ outcome = "bad input" => \E k \in DOMAIN files : BadInput(files[k])
    /\ outcome \notin {"reading", "bad input"} \/ ir # <<>> => read = Len(files)
    /\ Gathered(files, read, inputs)
    /\ Len(ir) <= Len(inputs) /\ \A i \in DOMAIN ir : Honest(ir[i], inputs[i])
    /\ outcome \notin {"reading", "bad input", "built"} =>
           /\ Len(ir) < Len(inputs)
           /\ version = inputs[Len(ir) + 1].version /\ decls = inputs[Len(ir) + 1].decls
    /\ outcome = "built" => Len(ir) = Len(inputs)

AllInv == FrontInv /\ CallInv /\ Progress

\* What the front end knows of its lists.
LEMMA FrontLists ==
    ASSUME FrontInv
    PROVE  /\ DOMAIN files = 1..Len(files) /\ Len(files) \in Nat
           /\ DOMAIN inputs = 1..Len(inputs) /\ Len(inputs) \in Nat
           /\ DOMAIN ir = 1..Len(ir) /\ Len(ir) \in Nat
<1>1. Listed(files)
  BY FilesAssumption DEF FrontInv, Listed
<1>2. DOMAIN files = 1..Len(files) /\ Len(files) \in Nat
  BY <1>1, ListedLength
<1>3. DOMAIN inputs = 1..Len(inputs) /\ Len(inputs) \in Nat
  BY ListedLength DEF FrontInv
<1>4. DOMAIN ir = 1..Len(ir) /\ Len(ir) \in Nat
  BY ListedLength DEF FrontInv
<1>5. QED
  BY <1>2, <1>3, <1>4

\* Reading a file.
LEMMA ReadProgress == AllInv /\ ReadFile => CallInv' /\ Progress'
<1> SUFFICES ASSUME AllInv, ReadFile
             PROVE  CallInv' /\ Progress'
  OBVIOUS
<1> DEFINE f == files[read + 1]
<1>1. /\ UNCHANGED <<files, ir, version, decls, frontend, stack, classes>>
      /\ read < Len(files) /\ outcome = "reading"
  BY DEF ReadFile
<1>2. FrontInv /\ CallInv /\ Progress
  BY DEF AllInv
<1>3. \/ BadInput(f) /\ outcome' = "bad input" /\ read' = read /\ inputs' = inputs
      \/ ~BadInput(f) /\ outcome' = "reading" /\ read' = read + 1 /\ inputs' = Appended(f)
  BY <1>1 DEF ReadFile
<1>4. read + 1 \in DOMAIN files /\ read \in Nat /\ read + 1 <= Len(files) /\ Len(files) \in Nat
  <2>1. read \in Nat /\ DOMAIN files = 1..Len(files) /\ Len(files) \in Nat
    BY <1>2, FrontLists DEF FrontInv
  <2>2. QED
    BY <1>1, <2>1
<1>5. outcome' \notin {"redefined", "cycle", "notfound", "done"}
  BY <1>3
<1>6. CallInv'
  BY <1>1, <1>2, <1>5, CallFails
<1>7. ir = <<>>
  <2>1. read # Len(files)
    BY <1>1, <1>4
  <2>2. QED
    BY <1>2, <2>1 DEF Progress
<1>8. DOMAIN ir = {} /\ Len(ir) = 0
  BY <1>7, ListedEmpty, EmptySeq
<1>9. CASE BadInput(f) /\ outcome' = "bad input" /\ read' = read /\ inputs' = inputs
  <2>1. \E k \in DOMAIN files : BadInput(files[k])
    BY <1>4, <1>9
  <2> HIDE DEF f
  <2>2. QED
    BY <1>1, <1>2, <1>6, <1>7, <1>8, <1>9, <2>1 DEF Progress
<1>10. CASE ~BadInput(f) /\ outcome' = "reading" /\ read' = read + 1 /\ inputs' = Appended(f)
  <2>1. Declares(f.structs)
    BY <1>2, <1>4, FilesAssumption DEF FrontInv
  <2>2. Gathered(files, read + 1, Appended(f))
    BY <1>2, <1>4, <2>1, InputsGathered DEF FrontInv, Progress
  <2>3. \A k \in 1..read + 1 : ~BadInput(files[k])
    <3>1. \A k \in 1..read + 1 : k \in 1..read \/ k = read + 1
      BY <1>4
    <3>2. QED
      BY <1>2, <1>10, <3>1 DEF Progress
  <2>4. Len(Appended(f)) \in Nat
    <3>1. Listed(Appended(f))
      BY <1>2, <2>1, FileAdded DEF FrontInv
    <3>2. QED
      BY <3>1, ListedLength
  <2> HIDE DEF f
  <2>5. Len(ir') <= Len(inputs')
    BY <1>1, <1>8, <1>10, <2>4
  <2>6. DOMAIN ir' = {} /\ ir' = <<>>
    BY <1>1, <1>7, <1>8
  <2>7. Gathered(files, read, inputs)' = Gathered(files', read', inputs')
    BY DEF Gathered
  <2>8. Gathered(files', read', inputs')
    BY <1>1, <1>10, <2>2
  <2>9. read' <= Len(files') /\ \A k \in 1..read' : ~BadInput(files'[k])
    BY <1>1, <1>4, <1>10, <2>3
  <2>10. Progress'
    BY <1>10, <2>5, <2>6, <2>8, <2>9 DEF Progress
  <2>11. QED
    BY <1>6, <2>10
<1>11. QED
  BY <1>3, <1>9, <1>10

\* Nothing has been called for yet.
LEMMA NothingCalled ==
    /\ Declares(decls) /\ frontend = <<>> /\ stack = <<>>
    /\ outcome \notin {"redefined", "cycle", "notfound", "done"}
    => CallInv
<1> SUFFICES ASSUME Declares(decls), frontend = <<>>, stack = <<>>,
                    outcome \notin {"redefined", "cycle", "notfound", "done"}
             PROVE  CallInv
  OBVIOUS
<1>1. DOMAIN frontend = {} /\ Collected = 0
  BY ListedEmpty, FS_EmptySet DEF Collected
<1>2. Len(decls) \in Nat
  <2>1. Listed(decls)
    BY DEF Declares, Declared, Listed
  <2>2. QED
    BY <2>1, ListedLength
<1>3. Complete
  BY <1>1, <1>2 DEF Complete
<1>4. QED
  BY <1>3 DEF CallInv

\* Nor in a state that a step leads to.
LEMMA NothingCalledNext ==
    (/\ Declares(decls) /\ frontend = <<>> /\ stack = <<>>
     /\ outcome \notin {"redefined", "cycle", "notfound", "done"}
     => CallInv)'
BY NothingCalled, PTL

\* What a step has to show of the inputs and protocols that leaves them alone.
LEMMA ProgressStays ==
    ASSUME Progress, UNCHANGED frontVars,
           outcome' # "bad input", read = Len(files),
           outcome' \notin {"reading", "built"} =>
               /\ Len(ir) < Len(inputs)
               /\ version' = inputs[Len(ir) + 1].version /\ decls' = inputs[Len(ir) + 1].decls,
           outcome' = "built" => Len(ir) = Len(inputs)
    PROVE  Progress'
<1>1. files' = files /\ read' = read /\ inputs' = inputs /\ ir' = ir
  BY DEF frontVars
<1>2. QED
  BY <1>1 DEF Progress

\* build_protocol() is called.
LEMMA CallProgress == AllInv /\ CallBuild => CallInv' /\ Progress'
<1> SUFFICES ASSUME AllInv, CallBuild
             PROVE  CallInv' /\ Progress'
  OBVIOUS
<1>1. FrontInv /\ Progress /\ FrontInv'
  BY CallStep DEF AllInv
<1>2. /\ read = Len(files) /\ Len(ir) < Len(inputs)
      /\ version' = inputs[Len(ir) + 1].version /\ decls' = inputs[Len(ir) + 1].decls
      /\ frontend' = <<>> /\ stack' = <<>> /\ outcome' = "running" /\ UNCHANGED frontVars
  BY DEF CallBuild
<1>3. Declares(decls')
  BY <1>1 DEF FrontInv, BuildInv, Collection, Declares, Declared
<1>4. CallInv'
  BY <1>2, <1>3, NothingCalledNext DEF Declares, Declared
<1>5. Progress'
  BY <1>1, <1>2, ProgressStays
<1>6. QED
  BY <1>4, <1>5

\* build_protocol() returns.
LEMMA ReturnProgress == AllInv /\ Return => CallInv' /\ Progress'
<1> SUFFICES ASSUME AllInv, Return
             PROVE  CallInv' /\ Progress'
  OBVIOUS
<1> DEFINE p == [version |-> version, classes |-> classes]
           n == Len(ir)
<1>1. FrontInv /\ BuildInv /\ CallInv /\ Progress
  BY DEF AllInv, FrontInv
<1>2. /\ outcome = "done" /\ ir' = Append(ir, p) /\ outcome' = "reading"
      /\ UNCHANGED <<files, read, inputs, version, decls, frontend, stack, classes>>
  BY DEF Return
<1>3. CallInv'
  BY <1>1, <1>2, CallFails
<1>4. /\ n < Len(inputs) /\ read = Len(files)
      /\ version = inputs[n + 1].version /\ decls = inputs[n + 1].decls
  BY <1>1, <1>2 DEF Progress
<1>5. stack # <<>> /\ DOMAIN frontend \subseteq Built /\ Collection /\ Complete /\ Collected = Len(decls)
  BY <1>1, <1>2 DEF CallInv, BuildInv, Complete
<1>6. ~Cyclic /\ ~Orphaned /\ Built \ IdNames \subseteq DOMAIN frontend
  BY <1>1, <1>5, BuiltMeans
<1>7. /\ DOMAIN frontend = NamesIn(decls) /\ ~TwiceIn(decls)
      /\ Cyclic <=> CircularIn(decls)
      /\ Orphaned <=> OrphanIn(decls)
  BY <1>5, CollectedAll
<1>8. Honest(p, inputs[n + 1])
  BY <1>4, <1>5, <1>6, <1>7 DEF Honest, Built
<1>9. DOMAIN ir = 1..n /\ n \in Nat /\ Len(inputs) \in Nat /\ Listed(ir)
  BY <1>1, FrontLists DEF FrontInv
<1> HIDE DEF p, n
<1>10. /\ Listed(ir') /\ DOMAIN ir' = 1..n + 1 /\ ir'[n + 1] = p
       /\ \A i \in 1..n : ir'[i] = ir[i]
  BY <1>2, <1>9, ListedAppend DEF n
<1>11. Len(ir') = n + 1
  <2>1. DOMAIN ir' = 1..Len(ir') /\ Len(ir') \in Nat
    BY <1>10, ListedLength
  <2>2. QED
    BY <1>9, <1>10, <2>1
<1>12. \A i \in DOMAIN ir' : Honest(ir'[i], inputs[i])
  <2>1. \A i \in 1..n + 1 : i \in 1..n \/ i = n + 1
    BY <1>9
  <2>2. \A i \in 1..n : Honest(ir[i], inputs[i])
    BY <1>1, <1>9 DEF Progress
  <2>3. QED
    BY <1>8, <1>10, <2>1, <2>2
<1>13. Len(ir') <= Len(inputs)
  BY <1>4, <1>9, <1>11
<1>14. files' = files /\ read' = read /\ inputs' = inputs
  BY <1>2
<1>15. Progress'
  BY <1>1, <1>2, <1>4, <1>12, <1>13, <1>14 DEF Progress
<1>16. QED
  BY <1>3, <1>15

\* What a step of build_protocol() does not change.
LEMMA NextKeeps ==
    ASSUME Next
    PROVE  /\ outcome = "running" /\ version' = version /\ decls' = decls
           /\ outcome' \notin {"reading", "bad input", "built"}
BY DEF Next, Collect, Start, Reuse, Cycle, NotFound, Enter, Finish, BuildIdClass, NextName, Done,
       Calls, Fail, Running

\* The front end gets on with every step.
LEMMA ProgressStep == AllInv /\ [FrontEndNext]_<<vars, frontVars>> => AllInv'
<1> SUFFICES ASSUME AllInv, [FrontEndNext]_<<vars, frontVars>>
             PROVE  AllInv'
  OBVIOUS
<1>1. FrontInv /\ BuildInv /\ CallInv /\ Progress
  BY DEF AllInv, FrontInv
<1>2. FrontInv'
  BY <1>1, FrontStep
<1>3. CASE ReadFile
  BY <1>2, <1>3, ReadProgress DEF AllInv
<1>4. CASE CallBuild
  BY <1>2, <1>4, CallProgress DEF AllInv
<1>5. CASE Return
  BY <1>2, <1>5, ReturnProgress DEF AllInv
<1>6. CASE AllBuilt
  <2>1. /\ read = Len(files) /\ Len(ir) = Len(inputs) /\ outcome' = "built"
        /\ UNCHANGED <<frontVars, version, decls, frontend, stack, classes>>
    BY <1>6 DEF AllBuilt
  <2>2. CallInv'
    BY <1>1, <2>1, CallFails
  <2>3. Progress'
    BY <1>1, <2>1, ProgressStays
  <2>4. QED
    BY <1>2, <2>2, <2>3 DEF AllInv
<1>7. CASE Next /\ UNCHANGED frontVars
  <2>1. CallInv'
    BY <1>1, <1>7, CallsStep
  <2>2. /\ outcome = "running" /\ version' = version /\ decls' = decls
        /\ outcome' \notin {"reading", "bad input", "built"}
    BY <1>7, NextKeeps
  <2>3. /\ read = Len(files) /\ Len(ir) < Len(inputs)
        /\ version = inputs[Len(ir) + 1].version /\ decls = inputs[Len(ir) + 1].decls
    BY <1>1, <2>2 DEF Progress
  <2>4. Progress'
    BY <1>1, <1>7, <2>2, <2>3, ProgressStays
  <2>5. QED
    BY <1>2, <2>1, <2>4 DEF AllInv
<1>8. CASE UNCHANGED <<vars, frontVars>>
  <2>1. /\ files' = files /\ read' = read /\ inputs' = inputs /\ ir' = ir
        /\ version' = version /\ decls' = decls /\ frontend' = frontend /\ stack' = stack
        /\ classes' = classes /\ outcome' = outcome
    BY <1>8 DEF vars, frontVars
  <2>2. CallInv'
    BY <1>1, <2>1, CallFails DEF CallInv
  <2>3. Progress'
    BY <1>1, <2>1 DEF Progress
  <2>4. QED
    BY <1>2, <2>2, <2>3 DEF AllInv
<1>9. QED
  BY <1>3, <1>4, <1>5, <1>6, <1>7, <1>8 DEF FrontEndNext

\* All that can be wrong with the files, but for the types of the members.
StructsReported ==
    /\ outcome = "built" => \A v \in Targets : ~Twice(v) /\ ~Circular(v) /\ ~Orphan(v)
    /\ outcome = "redefined" => Twice(version)
    /\ outcome = "cycle" => Circular(version)
    /\ outcome = "notfound" => Orphan(version)
    /\ outcome = "bad input" => \E i \in DOMAIN files : BadInput(files[i])

\* What the files say of a version is what the generator takes.
LEMMA ProgressMeans == AllInv => StructsReported /\ ProtocolsComplete
<1> SUFFICES ASSUME AllInv
             PROVE  StructsReported /\ ProtocolsComplete
  OBVIOUS
<1>1. FrontInv /\ BuildInv /\ CallInv /\ Progress
  BY DEF AllInv, FrontInv
<1>2. /\ DOMAIN files = 1..Len(files) /\ Len(files) \in Nat
      /\ DOMAIN inputs = 1..Len(inputs) /\ Len(inputs) \in Nat
      /\ DOMAIN ir = 1..Len(ir) /\ Len(ir) \in Nat
  BY <1>1, FrontLists
<1>3. ASSUME read = Len(files)
      PROVE  /\ Usable
             /\ \A i \in DOMAIN inputs : LET v == inputs[i].version
                                             ds == inputs[i].decls IN
                   /\ NamesFor(v) = NamesIn(ds) /\ (Twice(v) <=> TwiceIn(ds))
                   /\ (Circular(v) <=> CircularIn(ds)) /\ (Orphan(v) <=> OrphanIn(ds))
             /\ \A v : (\E k \in DOMAIN files : v \in WireVersions(files[k])) <=>
                       (\E k \in DOMAIN files : IsFor(files[k], v))
  <2>1. Usable
    BY <1>1, <1>3 DEF FrontInv, Progress, Usable
  <2>2. \A i \in DOMAIN inputs : Made(files, inputs[i].decls, inputs[i].version, Len(files))
    BY <1>1, <1>3 DEF Progress, Gathered
  <2>3. \A v : \A k \in DOMAIN files : IsFor(files[k], v) <=> v \in WireVersions(files[k])
    BY <1>2, <2>1, ForMeans DEF Usable
  <2>4. ASSUME NEW i \in DOMAIN inputs
        PROVE  LET v == inputs[i].version
                   ds == inputs[i].decls
               IN  /\ NamesFor(v) = NamesIn(ds) /\ (Twice(v) <=> TwiceIn(ds))
                   /\ (Circular(v) <=> CircularIn(ds)) /\ (Orphan(v) <=> OrphanIn(ds))
    BY <2>1, <2>2, MadeMeans
  <2>5. QED
    BY <2>1, <2>3, <2>4
<1>4. ASSUME outcome \notin {"reading", "bad input", "built"}
      PROVE  /\ (Twice(version) <=> TwiceIn(decls)) /\ (Circular(version) <=> CircularIn(decls))
             /\ (Orphan(version) <=> OrphanIn(decls))
  <2>1. /\ read = Len(files) /\ Len(ir) < Len(inputs)
        /\ version = inputs[Len(ir) + 1].version /\ decls = inputs[Len(ir) + 1].decls
    BY <1>1, <1>4 DEF Progress
  <2>2. Len(ir) + 1 \in DOMAIN inputs
    BY <1>2, <2>1
  <2>3. QED
    BY <1>3, <2>1, <2>2
<1>5. outcome = "redefined" => Twice(version)
  BY <1>1, <1>4 DEF CallInv
<1>6. ASSUME outcome \in {"cycle", "notfound"}
      PROVE  (Cyclic <=> CircularIn(decls)) /\ (Orphaned <=> OrphanIn(decls))
  <2>1. Collection /\ Complete /\ Collected = Len(decls)
    BY <1>1, <1>6 DEF BuildInv, CallInv, Complete
  <2>2. QED
    BY <2>1, CollectedAll
<1>7. (outcome = "cycle" => Circular(version)) /\ (outcome = "notfound" => Orphan(version))
  BY <1>1, <1>4, <1>6 DEF CallInv
<1>8. ASSUME outcome = "built"
      PROVE  /\ read = Len(files) /\ DOMAIN ir = DOMAIN inputs
             /\ \A i \in DOMAIN ir : Honest(ir[i], inputs[i])
             /\ \A i, j \in DOMAIN inputs : inputs[i].version = inputs[j].version => i = j
             /\ {inputs[i].version : i \in DOMAIN inputs} =
                    {v \in Targets : \E k \in DOMAIN files : v \in WireVersions(files[k])}
  BY <1>1, <1>2, <1>8 DEF Progress, Gathered
<1>9. ASSUME outcome = "built", NEW v \in Targets
      PROVE  ~Twice(v) /\ ~Circular(v) /\ ~Orphan(v)
  <2>1. CASE \E k \in DOMAIN files : v \in WireVersions(files[k])
    <3>1. v \in {inputs[i].version : i \in DOMAIN inputs}
      BY <1>8, <1>9, <2>1
    <3>2. PICK i \in DOMAIN inputs : inputs[i].version = v
      BY <3>1
    <3>3. Honest(ir[i], inputs[i]) /\ read = Len(files)
      BY <1>8, <1>9
    <3>4. QED
      BY <1>3, <3>2, <3>3 DEF Honest
  <2>2. CASE ~\E k \in DOMAIN files : v \in WireVersions(files[k])
    BY <1>3, <1>8, <1>9, <2>2, NothingFor
  <2>3. QED
    BY <2>1, <2>2
<1>10. outcome = "bad input" => \E i \in DOMAIN files : BadInput(files[i])
  BY <1>1 DEF Progress
<1>11. StructsReported
  BY <1>5, <1>7, <1>9, <1>10 DEF StructsReported
<1>12. ASSUME outcome = "built"
       PROVE  /\ \A i, j \in DOMAIN ir : ir[i].version = ir[j].version => i = j
              /\ {ir[i].version : i \in DOMAIN ir} =
                     {v \in Targets : \E k \in DOMAIN files : IsFor(files[k], v)}
              /\ \A i \in DOMAIN ir :
                    LET names == {c.name : c \in ToSet(ir[i].classes)}
                    IN  /\ NamesFor(ir[i].version) \subseteq names
                        /\ names \ IdNames \subseteq NamesFor(ir[i].version)
  <2>1. \A i \in DOMAIN ir : ir[i].version = inputs[i].version
    BY <1>8, <1>12 DEF Honest
  <2>2. {ir[i].version : i \in DOMAIN ir} = {inputs[i].version : i \in DOMAIN inputs}
    BY <1>8, <1>12, <2>1
  <2>3. {v \in Targets : \E k \in DOMAIN files : v \in WireVersions(files[k])} =
            {v \in Targets : \E k \in DOMAIN files : IsFor(files[k], v)}
    BY <1>3, <1>8, <1>12
  <2>4. ASSUME NEW i \in DOMAIN ir
        PROVE  LET names == {c.name : c \in ToSet(ir[i].classes)}
               IN  /\ NamesFor(ir[i].version) \subseteq names
                   /\ names \ IdNames \subseteq NamesFor(ir[i].version)
    <3>1. {c.name : c \in ToSet(ir[i].classes)} = ClassNames(ir[i].classes)
      BY DEF ClassNames, ToSet
    <3>2. /\ NamesIn(inputs[i].decls) \subseteq ClassNames(ir[i].classes)
          /\ ClassNames(ir[i].classes) \ IdNames \subseteq NamesIn(inputs[i].decls)
      BY <1>8, <1>12 DEF Honest
    <3>3. NamesFor(inputs[i].version) = NamesIn(inputs[i].decls)
      BY <1>3, <1>8, <1>12
    <3>4. QED
      BY <2>1, <3>1, <3>2, <3>3
  <2>5. QED
    BY <1>8, <1>12, <2>1, <2>2, <2>3, <2>4
<1>13. ProtocolsComplete
  BY <1>12 DEF ProtocolsComplete
<1>14. QED
  BY <1>11, <1>13

\* Before the first file, there is nothing to be honoured.
LEMMA ProgressInitially == FrontEndInit => AllInv
<1> SUFFICES ASSUME FrontEndInit
             PROVE  AllInv
  OBVIOUS
<1>1. files \in FileSets /\ read = 0 /\ inputs = <<>> /\ ir = <<>> /\ outcome = "reading"
      /\ decls = <<>> /\ frontend = <<>> /\ stack = <<>> /\ classes = <<>>
  BY DEF FrontEndInit
<1>2. Declares(decls)
  BY <1>1, ListedEmpty DEF Declares, Declared, Listed
<1>3. BuildInv
  BY <1>1, <1>2, NothingBuilt
<1>4. Listed(inputs) /\ Listed(ir) /\ DOMAIN inputs = {} /\ DOMAIN ir = {}
      /\ Len(inputs) = 0 /\ Len(ir) = 0
  BY <1>1, ListedEmpty, EmptySeq
<1>5. FrontInv
  BY <1>1, <1>3, <1>4 DEF FrontInv
<1>6. CallInv
  BY <1>1, <1>2, NothingCalled
<1>7. Len(files) \in Nat
  BY <1>5, FrontLists
<1>8. 1..read = {}
  BY <1>1
<1>9. Gathered(files, read, inputs)
  BY <1>4, <1>8 DEF Gathered
<1>10. Progress
  BY <1>1, <1>4, <1>7, <1>8, <1>9 DEF Progress
<1>11. QED
  BY <1>5, <1>6, <1>10 DEF AllInv
-----------------------------------------------------------------------------
(* ID classes.                                                              *)

\* The classes that have an ID class, and the superclass of that.
WithId == {n \in DOMAIN frontend : version >= 4 /\ IsRooted(n)}
SuperId(d) == IF d.super = NoClass THEN NoClass ELSE IdName[d.super]

IdsOf(ids) == {IdName[n] : n \in ids}

\* What is no class of the files is the ID class of one of these classes, and
\* what has the name of such an ID class is it.
IdsMirror(cs, ids, fe) ==
    \A i \in DOMAIN cs :
        /\ cs[i].name \in DOMAIN fe \cup IdsOf(ids)
        /\ \A n \in ids : cs[i].name = IdName[n] =>
              /\ cs[i].virtual \/ cs[i].fixed
              /\ cs[i].super = SuperId(fe[n]) /\ cs[i].members = IdMembers(fe[n])

\* Each of these classes has its ID class, or will have it.
IdsThere(built, ids) == \A n \in ids : IdName[n] \in built
IdsComing(s, built, ids) ==
    \A n \in ids : IdName[n] \in built \/ \E p \in DOMAIN s[1].todo : s[1].todo[p] = BuildId(n)

\* A struct with the name of an ID class waits behind it on the list of the
\* main loop, and no call builds it.
IdsFirst(s, built, ids) ==
    /\ \A j \in DOMAIN s : j # 1 => s[j].name \notin IdsOf(ids)
    /\ \A n \in ids : \A p \in DOMAIN s[1].todo : ForStruct(s[1].todo[p], n) =>
          IdName[n] \in built \/ \E q \in 1..p - 1 : s[1].todo[q] = BuildId(n)

MirrorInv ==
    /\ IdsMirror(classes, WithId, frontend)
    /\ stack # <<>> => IdsComing(stack, Built, WithId) /\ IdsFirst(stack, Built, WithId)
    /\ outcome = "done" => IdsThere(Built, WithId)

\* The superclasses of a class form a set with all of their superclasses, the
\* least one that has the class.
LEMMA LineageClosed ==
    ASSUME NEW B, Upward(B), NEW n \in B
    PROVE  /\ n \in Lineage(n) /\ Lineage(n) \subseteq B /\ Upward(Lineage(n))
           /\ \A S : Upward(S) /\ n \in S => Lineage(n) \subseteq S
<1>1. n \in DOMAIN frontend
  BY DEF Upward
<1>2. ASSUME NEW S, Upward(S), n \in S
      PROVE  Lineage(n) \subseteq S
  <2>1. S \in SUBSET DOMAIN frontend /\ \A k \in S : frontend[k].super \in S \cup {NoClass}
    BY <1>2 DEF Upward
  <2>2. QED
    BY <1>2, <2>1 DEF Lineage
<1>3. n \in Lineage(n)
  BY <1>1 DEF Lineage
<1>4. Lineage(n) \subseteq B
  BY <1>2
<1>5. ASSUME NEW k \in Lineage(n), frontend[k].super # NoClass
      PROVE  frontend[k].super \in Lineage(n)
  <2>1. frontend[k].super \in DOMAIN frontend
    BY <1>4, <1>5 DEF Upward
  <2>2. QED
    BY <1>5, <2>1 DEF Lineage
<1>6. Upward(Lineage(n))
  BY <1>1, <1>4, <1>5 DEF Upward
<1>7. QED
  BY <1>2, <1>3, <1>4, <1>6

\* The superclasses of a class, up to a root, are subclasses of that root.
LEMMA RootAbove ==
    ASSUME NEW B, Upward(B), NEW n \in B, NEW m \in Lineage(n), IsRooted(n),
           \A r \in DOMAIN frontend : r \in Roots => frontend[r].super = NoClass
    PROVE  IsRooted(m)
<1> DEFINE Z == {j \in Lineage(n) : m \in Lineage(j)} \cup Lineage(m)
<1>1. n \in Lineage(n) /\ Lineage(n) \subseteq B /\ Upward(Lineage(n))
  BY LineageClosed
<1>2. m \in Lineage(m) /\ Lineage(m) \subseteq Lineage(n) /\ Upward(Lineage(m))
  BY <1>1, LineageClosed
<1>3. ASSUME NEW j \in Lineage(n), m \in Lineage(j), frontend[j].super # NoClass
      PROVE  frontend[j].super \in Z
  <2> DEFINE s == frontend[j].super
             S == {j} \cup Lineage(s)
  <2>1. s \in Lineage(n)
    BY <1>1, <1>3 DEF Upward
  <2>2. s \in Lineage(s) /\ Upward(Lineage(s))
    BY <1>1, <2>1, LineageClosed
  <2>3. Upward(S)
    <3>1. j \in DOMAIN frontend
      BY <1>1 DEF Upward
    <3>2. QED
      BY <2>2, <3>1 DEF Upward
  <2>4. Lineage(j) \subseteq S
    BY <1>1, <2>3, LineageClosed
  <2>5. m = j \/ m \in Lineage(s)
    BY <1>3, <2>4
  <2>6. CASE m = j
    BY <1>2, <1>3, <2>6 DEF Upward
  <2>7. CASE m \in Lineage(s)
    BY <2>1, <2>7
  <2>8. QED
    BY <2>5, <2>6, <2>7
<1>4. ASSUME NEW j \in Lineage(m), frontend[j].super # NoClass
      PROVE  frontend[j].super \in Z
  BY <1>2, <1>4 DEF Upward
<1>5. Upward(Z) /\ n \in Z
  <2>1. Z \subseteq DOMAIN frontend
    BY <1>1, <1>2 DEF Upward
  <2>2. \A j \in Z : frontend[j].super # NoClass => frontend[j].super \in Z
    BY <1>3, <1>4
  <2>3. n \in Z
    BY <1>1
  <2> HIDE DEF Z
  <2>4. QED
    BY <2>1, <2>2, <2>3 DEF Upward
<1>6. PICK r \in Lineage(n) : r \in Roots
  BY DEF IsRooted
<1>7. r \in Z
  <2> HIDE DEF Z
  <2>1. QED
    BY <1>5, <1>6, LineageClosed
<1>8. CASE r \in Lineage(m)
  BY <1>6, <1>8 DEF IsRooted
<1>9. CASE m \in Lineage(r)
  <2>1. r \in DOMAIN frontend
    BY <1>1 DEF Upward
  <2>2. Upward({r})
    BY <1>6, <2>1 DEF Upward
  <2>3. Lineage(r) \subseteq {r}
    BY <2>2, LineageClosed
  <2>4. m = r
    BY <1>9, <2>3
  <2>5. QED
    BY <1>2, <1>6, <2>4 DEF IsRooted
<1>10. QED
  BY <1>7, <1>8, <1>9

\* The members of an ID class are those of the class but the data, of plain
\* types of fixed length.
LEMMA IdMembersScalar ==
    ASSUME NEW d, Listed(d.members), \A m \in ToSet(d.members) : Tagged(m)
    PROVE  /\ Listed(IdMembers(d))
           /\ \A i \in DOMAIN IdMembers(d) : IdMembers(d)[i].type \in Scalars
           /\ ToSet(IdMembers(d)) = {m \in ToSet(d.members) : m.kind \notin {"data", "pad"}}
<1> DEFINE ms == d.members
           T == {m \in ToSet(ms) : m.type \in Scalars /\ m.kind \notin {"data", "pad"}}
           kept(m) == IF m.kind \in {"data", "pad"} THEN <<>> ELSE <<m>>
           ss == [i \in DOMAIN ms |-> kept(ms[i])]
           w == IdMembers(d)
<1>1. DOMAIN ms = 1..Len(ms) /\ Len(ms) \in Nat
  BY ListedLength
<1>2. ASSUME NEW i \in DOMAIN ms
      PROVE  kept(ms[i]) \in Seq(T)
  <2>1. ms[i] \in ToSet(ms) /\ Tagged(ms[i])
    BY DEF ToSet
  <2>2. CASE ms[i].kind \in {"data", "pad"}
    BY <2>2, EmptySeq
  <2>3. CASE ms[i].kind \notin {"data", "pad"}
    <3>1. ms[i] \in T
      BY <2>1, <2>3 DEF Tagged
    <3> HIDE DEF T
    <3>2. <<ms[i]>> \in Seq(T)
      BY <3>1, One
    <3>3. QED
      BY <2>3, <3>2
  <2>4. QED
    BY <2>2, <2>3
<1>3. w = FlattenSeq(ss)
  BY DEF IdMembers
<1>10. ASSUME NEW i \in DOMAIN ms, ms[i].kind \notin {"data", "pad"}
       PROVE  1 \in 1..Len(ss[i]) /\ ss[i][1] = ms[i]
  <2>1. ss[i] = <<ms[i]>>
    BY <1>10
  <2> HIDE DEF ss, ms
  <2>2. Len(<<ms[i]>>) = 1 /\ <<ms[i]>>[1] = ms[i]
    OBVIOUS
  <2>3. QED
    BY <2>1, <2>2
<1> HIDE DEF kept
<1>4. ss \in [1..Len(ms) -> Seq(T)]
  <2> HIDE DEF T
  <2>1. QED
    BY <1>1, <1>2
<1> HIDE DEF ss, w, T
<1>5. ss \in Seq(Seq(T))
  BY <1>1, <1>4, SeqDef
<1>6. w \in Seq(T) /\ Listed(w) /\ Blocks(w, ss, Len(ss))
  BY <1>3, <1>5, FlattenBlocks
<1>7. DOMAIN w = 1..Len(w)
  BY <1>6, ListedLength
<1>8. \A i \in DOMAIN w : w[i] \in T
  BY <1>6, <1>7, ElementOfSeq
<1>9. ASSUME NEW m \in ToSet(ms), m.kind \notin {"data", "pad"}
      PROVE  m \in ToSet(w)
  <2>1. PICK i \in DOMAIN ms : ms[i] = m
    BY <1>9 DEF ToSet
  <2>2. 1 \in 1..Len(ss[i]) /\ ss[i][1] = m
    BY <1>9, <1>10, <2>1
  <2>3. i \in 1..Len(ss)
    <3>1. DOMAIN ss = 1..Len(ss) /\ DOMAIN ss = 1..Len(ms)
      BY <1>4, <1>5, LenProperties
    <3>2. QED
      BY <1>1, <3>1
  <2>4. \A j \in 1..Len(ss) : \A k \in 1..Len(ss[j]) : \E p \in 1..Len(w) : w[p] = ss[j][k]
    BY <1>6, Zenon DEF Blocks
  <2>5. \E p \in 1..Len(w) : w[p] = ss[i][1]
    BY <2>2, <2>3, <2>4
  <2>6. QED
    BY <1>7, <2>2, <2>5 DEF ToSet
<1>11. ToSet(w) = {m \in ToSet(ms) : m.kind \notin {"data", "pad"}}
  <2>1. \A m \in ToSet(w) : m \in T
    BY <1>8 DEF ToSet
  <2>2. QED
    BY <1>9, <2>1 DEF T
<1>12. QED
  BY <1>6, <1>8, <1>11 DEF T, w, ms

\* An ID class has a fixed length, unless it is abstract.
LEMMA IdFixed ==
    ASSUME BuildInv, version \in Versions, NEW n \in DOMAIN frontend
    PROVE  LET c == IdClass(n, classes) IN c.virtual \/ c.fixed
<1> DEFINE d == frontend[n]
           ms == IdMembers(d)
           cm == ClassMap(classes)
           len(i) == MemberLength(version, ms[i], cm)
<1>1. Listed(ms) /\ \A i \in DOMAIN ms : ms[i].type \in Scalars
  <2>1. d \in ToSet(decls) /\ Declares(decls)
    BY DEF BuildInv, Collection
  <2>2. Listed(d.members) /\ \A m \in ToSet(d.members) : Tagged(m)
    BY <2>1 DEF Declares, Declared, Listed, ToSet
  <2> HIDE DEF d
  <2>3. QED
    BY <2>2, IdMembersScalar
<1>2. DOMAIN cm \subseteq Names \cup IdNames
  <2>1. DOMAIN cm = Built
    BY DEF ClassMap, Built
  <2>2. InOrder(classes) /\ DOMAIN frontend \subseteq Names
    BY DEF BuildInv, Collection
  <2>3. QED
    BY <2>1, <2>2 DEF InOrder, Built, ClassNames
<1> HIDE DEF ms, cm
<1>3. ASSUME NEW i \in DOMAIN ms
      PROVE  len(i).fixed
  <2> DEFINE base == Base(ms[i].type, version)
  <2>1. base \in DOMAIN BasicLength \ (Names \cup IdNames) /\ BasicLength[base].fixed
    BY <1>1 DEF Scalars
  <2>2. base \notin DOMAIN cm
    BY <1>2, <2>1
  <2>3. len(i) = [known |-> TRUE, bytes |-> ms[i].count * BasicLength[base].bytes,
                  fixed |-> BasicLength[base].fixed]
    BY <2>1, <2>2 DEF MemberLength
  <2>4. QED
    BY <2>1, <2>3
<1>4. DOMAIN ms = 1..Len(ms) /\ Len(ms) \in Nat
  BY <1>1, ListedLength
<1>5. CalcLengths(version, ms, d.virtual, cm).fixed <=>
          (\A j \in 1..(Len(ms) + 1) - 1 : [i \in DOMAIN ms |-> len(i)][j].fixed) /\ ~d.virtual
  BY DEF CalcLengths, LayOut
<1>6. \A j \in 1..(Len(ms) + 1) - 1 : j \in DOMAIN ms
  BY <1>4
<1> HIDE DEF len
<1>7. ~d.virtual => CalcLengths(version, ms, d.virtual, cm).fixed
  BY <1>3, <1>5, <1>6
<1>8. /\ IdClass(n, classes).virtual = d.virtual
      /\ IdClass(n, classes).fixed = CalcLengths(version, ms, d.virtual, cm).fixed
  BY DEF IdClass, NewClass, ms, cm
<1>9. QED
  BY <1>7, <1>8

\* What a step has to show that leaves the declarations alone.
LEMMA MirrorKeeps ==
    ASSUME UNCHANGED <<version, frontend>>, IdsMirror(classes', WithId, frontend),
           stack' # <<>> => /\ IdsComing(stack', ClassNames(classes'), WithId)
                            /\ IdsFirst(stack', ClassNames(classes'), WithId),
           outcome' = "done" => IdsThere(ClassNames(classes'), WithId)
    PROVE  MirrorInv'
<1>1. WithId' = WithId /\ frontend' = frontend
  BY DEF WithId, IsRooted, Lineage
<1>2. Built' = ClassNames(classes')
  BY DEF Built
<1>3. IdsMirror(classes', WithId', frontend')
  BY <1>1
<1>4. stack' # <<>> => IdsComing(stack', Built', WithId') /\ IdsFirst(stack', Built', WithId')
  BY <1>1, <1>2
<1>5. outcome' = "done" => IdsThere(Built', WithId')
  BY <1>1, <1>2
<1>6. QED
  BY <1>3, <1>4, <1>5 DEF MirrorInv

\* A step that leaves the calls and the classes alone too, and is not the end.
LEMMA MirrorStays ==
    ASSUME MirrorInv, UNCHANGED <<version, frontend, stack, classes>>,
           outcome' # "done" \/ outcome' = outcome
    PROVE  MirrorInv'
<1>1. ClassNames(classes') = Built
  BY DEF Built
<1>2. /\ IdsMirror(classes', WithId, frontend)
      /\ stack' # <<>> => IdsComing(stack', Built, WithId) /\ IdsFirst(stack', Built, WithId)
      /\ outcome' = "done" => IdsThere(Built, WithId)
  BY DEF MirrorInv
<1>3. QED
  BY <1>1, <1>2, MirrorKeeps

\* Nothing has been built, and nothing has been called.
LEMMA MirrorEmpty ==
    stack' = <<>> /\ classes' = <<>> /\ outcome' # "done" => MirrorInv'
<1> SUFFICES ASSUME stack' = <<>>, classes' = <<>>, outcome' # "done"
             PROVE  MirrorInv'
  OBVIOUS
<1>1. DOMAIN classes' = {}
  BY ListedEmpty
<1>2. IdsMirror(classes', WithId', frontend')
  BY <1>1 DEF IdsMirror
<1>3. QED
  BY <1>2 DEF MirrorInv

\* The main loop begins, with every ID class on its list.
LEMMA StartMirror == BuildInv /\ MirrorInv /\ Start => MirrorInv'
<1> SUFFICES ASSUME BuildInv, MirrorInv, Start
             PROVE  MirrorInv'
  OBVIOUS
<1> DEFINE main == [name |-> Main, todo |-> MainTodo]
           s == <<main>>
<1>1. /\ stack' = s /\ Running
      /\ UNCHANGED <<version, decls, frontend, classes, outcome>>
  BY DEF Start, MainTodo, MainCalls
<1>2. /\ \A n \in DOMAIN frontend : \E p \in DOMAIN MainTodo : MainTodo[p] = BuildId(n)
      /\ \A n \in DOMAIN frontend : \A p \in DOMAIN MainTodo :
            ForStruct(MainTodo[p], n) => \E q \in 1..p - 1 : MainTodo[q] = BuildId(n)
  BY MainComplete DEF BuildInv
<1>3. main.todo = MainTodo
  OBVIOUS
<1> HIDE DEF main
<1>4. s[1] = main /\ \A j \in DOMAIN s : j = 1
  OBVIOUS
<1> HIDE DEF s
<1>5. \A n \in WithId : n \in DOMAIN frontend
  BY DEF WithId
<1>6. IdsComing(s, Built, WithId)
  BY <1>2, <1>3, <1>4, <1>5 DEF IdsComing
<1>7. IdsFirst(s, Built, WithId)
  BY <1>2, <1>3, <1>4, <1>5 DEF IdsFirst
<1>8. ClassNames(classes') = Built
  BY <1>1 DEF Built
<1>9. IdsMirror(classes', WithId, frontend) /\ outcome' # "done"
  BY <1>1 DEF MirrorInv, Running
<1>10. QED
  BY <1>1, <1>6, <1>7, <1>8, <1>9, MirrorKeeps

\* The list of the main loop becomes shorter by a call that is done, or that
\* builds a class.
LEMMA PopMirror ==
    ASSUME BuildInv, MirrorInv, Running, stack # <<>>, Last(stack).todo # <<>>,
           UNCHANGED <<version, frontend, classes, outcome>>,
           stack' = Popped \/ \E new : new.name \notin IdsOf(WithId) /\ stack' = Append(Popped, new),
           \A n \in WithId : Head(Last(stack).todo) = BuildId(n) => IdName[n] \in Built
    PROVE  MirrorInv'
<1> DEFINE k == Len(stack)
           t == stack[k].todo
           r == Popped
           built == Built
<1>1. /\ DOMAIN stack = 1..k /\ k \in Nat \ {0} /\ Listed(r) /\ DOMAIN r = 1..k /\ Len(r) = k
      /\ \A j \in DOMAIN stack : j # k => r[j] = stack[j]
  BY PoppedProperties
<1>2. /\ r[k].todo = Tail(t)
      /\ Len(t) \in Nat \ {0} /\ DOMAIN t = 1..Len(t)
      /\ Head(Last(stack).todo) = t[1]
      /\ DOMAIN Tail(t) = 1..Len(t) - 1
      /\ \A p \in 1..Len(t) - 1 : Tail(t)[p] = t[p + 1]
  BY PoppedProperties
<1>3. /\ IdsComing(stack, built, WithId) /\ IdsFirst(stack, built, WithId)
      /\ IdsMirror(classes, WithId, frontend) /\ outcome # "done"
  BY DEF MirrorInv, Running
<1>12. \A j \in DOMAIN stack : r[j].name = stack[j].name
  BY PoppedProperties
<1>4. \A n \in WithId : t[1] = BuildId(n) => IdName[n] \in built
  BY <1>2
<1>5. ClassNames(classes') = built
  BY DEF Built
<1> HIDE DEF r, built
<1>6. stack'[1] = r[1] /\ \A j \in DOMAIN stack' : j # 1 => stack'[j].name \notin IdsOf(WithId)
  <2>1. \A j \in 1..k : j # 1 => r[j].name \notin IdsOf(WithId)
    BY <1>1, <1>3, <1>12 DEF IdsFirst
  <2>2. CASE stack' = r
    BY <1>1, <2>1, <2>2
  <2>3. CASE \E new : new.name \notin IdsOf(WithId) /\ stack' = Append(r, new)
    <3>1. PICK new : new.name \notin IdsOf(WithId) /\ stack' = Append(r, new)
      BY <2>3
    <3>2. /\ \A j \in 1..k : stack'[j] = r[j]
          /\ stack'[k + 1] = new /\ DOMAIN stack' = 1..k + 1
      <4>1. /\ DOMAIN Append(r, new) = 1..Len(r) + 1 /\ Append(r, new)[Len(r) + 1] = new
            /\ \A j \in 1..Len(r) : Append(r, new)[j] = r[j]
        BY <1>1, ListedAppend
      <4>2. QED
        BY <1>1, <3>1, <4>1
    <3>3. 1 \in 1..k /\ \A j \in 1..k + 1 : j \in 1..k \/ j = k + 1
      BY <1>1
    <3>4. QED
      BY <2>1, <3>1, <3>2, <3>3
  <2>4. QED
    BY <2>2, <2>3 DEF r
<1>7. \A p \in DOMAIN t : p # 1 => p - 1 \in DOMAIN Tail(t) /\ Tail(t)[p - 1] = t[p]
  <2>1. \A a \in Nat : \A p \in 1..a : p # 1 => p - 1 \in 1..a - 1 /\ (p - 1) + 1 = p
    OBVIOUS
  <2> HIDE DEF t
  <2>2. QED
    BY <1>2, <2>1
<1>8. 1 \in DOMAIN stack
  BY <1>1
<1> HIDE DEF k
<1>9. ASSUME NEW n \in WithId, IdName[n] \notin built
      PROVE  \E p \in DOMAIN r[1].todo : r[1].todo[p] = BuildId(n)
  <2>1. PICK p \in DOMAIN stack[1].todo : stack[1].todo[p] = BuildId(n)
    BY <1>3, <1>9 DEF IdsComing
  <2>2. CASE k # 1
    BY <1>1, <1>8, <2>1, <2>2
  <2>3. CASE k = 1
    <3>1. p \in DOMAIN t /\ t[p] = BuildId(n)
      BY <2>1, <2>3
    <3>2. p # 1
      BY <1>4, <1>9, <3>1
    <3>3. p - 1 \in DOMAIN r[1].todo /\ r[1].todo[p - 1] = BuildId(n)
      BY <1>2, <1>7, <2>3, <3>1, <3>2
    <3>4. QED
      BY <3>3
  <2>4. QED
    BY <2>2, <2>3
<1>10. IdsComing(stack', built, WithId)
  BY <1>6, <1>9 DEF IdsComing
<1>13. ASSUME NEW n \in WithId, NEW p \in DOMAIN r[1].todo, ForStruct(r[1].todo[p], n),
              IdName[n] \notin built
       PROVE  \E q \in 1..p - 1 : r[1].todo[q] = BuildId(n)
  <2>1. CASE k # 1
    <3>1. r[1] = stack[1]
      BY <1>1, <1>8, <2>1
    <3>2. QED
      BY <1>3, <1>13, <3>1 DEF IdsFirst
  <2>2. CASE k = 1
    <3>1. p \in 1..Len(t) - 1 /\ ForStruct(t[p + 1], n) /\ p + 1 \in DOMAIN t
      <4>1. \A a \in Nat : \A i \in 1..a - 1 : i + 1 \in 1..a
        OBVIOUS
      <4>2. r[1].todo = Tail(t)
        BY <1>2, <2>2
      <4> HIDE DEF t
      <4>3. p \in 1..Len(t) - 1 /\ r[1].todo[p] = t[p + 1]
        BY <1>2, <1>13, <4>2
      <4>4. QED
        BY <1>2, <1>13, <4>1, <4>3
    <3>2. PICK q \in 1..(p + 1) - 1 : t[q] = BuildId(n)
      <4>1. stack[1].todo = t
        BY <2>2
      <4>2. QED
        BY <1>3, <1>13, <3>1, <4>1 DEF IdsFirst
    <3>3. q # 1
      BY <1>4, <1>13, <3>2
    <3>4. q - 1 \in 1..p - 1 /\ q \in DOMAIN t
      <4>1. \A a \in Nat : \A i \in 1..a - 1 : \A j \in 1..(i + 1) - 1 :
                j # 1 => j - 1 \in 1..i - 1 /\ j \in 1..a
        OBVIOUS
      <4> HIDE DEF t
      <4>2. QED
        BY <1>2, <3>1, <3>2, <3>3, <4>1
    <3>5. Tail(t)[q - 1] = BuildId(n)
      BY <1>7, <3>2, <3>3, <3>4
    <3>6. QED
      BY <1>2, <2>2, <3>4, <3>5
  <2>3. QED
    BY <2>1, <2>2
<1>14. IdsFirst(stack', built, WithId)
  BY <1>6, <1>13 DEF IdsFirst
<1>11. QED
  BY <1>3, <1>5, <1>10, <1>14, MirrorKeeps

\* A class is put behind those that are built.
LEMMA OneMoreClass ==
    ASSUME NEW cs, Listed(cs), NEW c
    PROVE  LET ds == Append(cs, c)
           IN  /\ \A i \in DOMAIN ds : ds[i] = c \/ (i \in DOMAIN cs /\ ds[i] = cs[i])
               /\ \A i \in DOMAIN cs : i \in DOMAIN ds /\ ds[i] = cs[i]
<1> DEFINE ds == Append(cs, c)
<1>1. DOMAIN cs = 1..Len(cs) /\ Len(cs) \in Nat
  BY ListedLength
<1>2. /\ DOMAIN ds = 1..Len(cs) + 1 /\ ds[Len(cs) + 1] = c
      /\ \A i \in 1..Len(cs) : ds[i] = cs[i]
  BY ListedAppend
<1> HIDE DEF ds
<1>3. QED
  BY <1>1, <1>2

\* A class of the files is built, which has not the name of an ID class.
LEMMA FinishMirror == BuildInv /\ MirrorInv /\ Finish => MirrorInv'
<1> SUFFICES ASSUME BuildInv, MirrorInv, Finish
             PROVE  MirrorInv'
  OBVIOUS
<1> DEFINE k == Len(stack)
           n == stack[k].name
           d == frontend[n]
           c == NewClass(d.name, d.super, d.virtual, d.aligned, d.members, classes)
           s == Front(stack)
           built == ClassNames(classes')
<1>1. /\ Callers(stack, Built) /\ Listed(stack) /\ Listed(classes) /\ Collection
  BY DEF BuildInv, Callers
<1>2. DOMAIN stack = 1..k /\ k \in Nat /\ k > 1 /\ Last(stack) = stack[k]
  <2>1. DOMAIN stack = 1..k /\ k \in Nat
    BY <1>1, ListedLength
  <2>2. k > 1
    BY DEF Finish
  <2>3. QED
    BY <2>1, <2>2 DEF Last
<1>3. k \in DOMAIN stack /\ k # 1 /\ k - 1 \in 0..k
  BY <1>2
<1>4. CASE ~Known(d)
  <2>1. Fail("unknowntype")
    BY <1>2, <1>4 DEF Finish
  <2>2. QED
    BY <2>1, MirrorStays DEF Fail
<1>5. CASE Known(d)
  <2>1. /\ classes' = Append(classes, c) /\ stack' = s /\ Running
        /\ UNCHANGED <<version, decls, frontend, outcome>>
    BY <1>2, <1>5 DEF Finish
  <2>2. c.name = n /\ n \in DOMAIN frontend
    <3>1. n \in DOMAIN frontend
      BY <1>1, <1>3 DEF Callers
    <3>2. d.name = n
      BY <1>1, <3>1 DEF Collection
    <3>3. QED
      BY <3>1, <3>2 DEF NewClass
  <2> HIDE DEF c
  <2>3. /\ c.name \notin IdsOf(WithId)
        /\ IdsComing(stack, Built, WithId) /\ IdsFirst(stack, Built, WithId)
    <3>1. stack # <<>>
      BY <1>2, EmptySeq
    <3>2. IdsComing(stack, Built, WithId) /\ IdsFirst(stack, Built, WithId)
      BY <3>1 DEF MirrorInv
    <3>3. QED
      BY <1>3, <2>2, <3>2 DEF IdsFirst
  <2>4. /\ \A i \in DOMAIN classes' : classes'[i] = c \/ (i \in DOMAIN classes /\ classes'[i] = classes[i])
        /\ \A i \in DOMAIN classes : i \in DOMAIN classes' /\ classes'[i] = classes[i]
    BY <1>1, <2>1, OneMoreClass
  <2>5. IdsMirror(classes, WithId, frontend) /\ outcome' # "done"
    BY <2>1 DEF MirrorInv, Running
  <2>6. IdsMirror(classes', WithId, frontend)
    <3>1. \A n_1 \in WithId : c.name # IdName[n_1]
      BY <2>3 DEF IdsOf
    <3>2. QED
      BY <2>2, <2>4, <2>5, <3>1 DEF IdsMirror
  <2>7. Built \subseteq built
    BY <2>4 DEF Built, ClassNames
  <2>8. s[1] = stack[1] /\ \A j \in DOMAIN s : j \in DOMAIN stack /\ s[j] = stack[j]
    <3>1. DOMAIN s = 1..k - 1 /\ \A j \in 1..k - 1 : s[j] = stack[j]
      BY <1>1, <1>3, ListedFirst DEF Front
    <3>2. 1 \in 1..k - 1 /\ \A j \in 1..k - 1 : j \in 1..k
      BY <1>2
    <3> HIDE DEF s, k
    <3>3. QED
      BY <1>2, <3>1, <3>2
  <2> HIDE DEF s, built
  <2>9. IdsComing(stack', built, WithId)
    BY <2>1, <2>3, <2>7, <2>8 DEF IdsComing
  <2>10. IdsFirst(stack', built, WithId)
    BY <2>1, <2>3, <2>7, <2>8 DEF IdsFirst
  <2>11. QED
    BY <2>1, <2>5, <2>6, <2>9, <2>10, MirrorKeeps DEF built
<1>6. QED
  BY <1>4, <1>5

\* The ID class of a subclass of a root is built.
LEMMA IdMirror == BuildInv /\ MirrorInv /\ version \in Versions /\ BuildIdClass => MirrorInv'
<1> SUFFICES ASSUME BuildInv, MirrorInv, version \in Versions, BuildIdClass
             PROVE  MirrorInv'
  OBVIOUS
<1> DEFINE n == Called
           m == MissingId(n)
           d == frontend[m]
           c == IdClass(m, classes)
           built == ClassNames(classes')
<1>1. /\ stack # <<>> /\ Running /\ n \in DOMAIN frontend /\ n \in Built
      /\ IdName[n] \notin Built /\ version >= 4 /\ IsRooted(n)
      /\ classes' = Append(classes, c)
      /\ UNCHANGED <<version, decls, frontend, stack, outcome>>
  BY IdCalled
<1>2. Listed(classes) /\ InOrder(classes) /\ Collection
  BY <1>1 DEF BuildInv
<1> HIDE DEF n, m
<1>7. m \in DOMAIN frontend /\ m \in Lineage(n) /\ Upward(Built \cap DOMAIN frontend)
  BY <1>1, <1>2, MissingFound DEF m
<1>8. m \in WithId
  <2>1. \A r \in DOMAIN frontend : r \in Roots => frontend[r].super = NoClass
    <3> SUFFICES ASSUME NEW r \in DOMAIN frontend, r \in Roots
                 PROVE  frontend[r].super = NoClass
      OBVIOUS
    <3>1. frontend[r].name = r /\ Declared(frontend[r])
      BY <1>2, AsDeclared
    <3>2. QED
      BY <3>1 DEF Declared
  <2>2. n \in Built \cap DOMAIN frontend
    BY <1>1
  <2>3. IsRooted(m)
    BY <1>1, <1>7, <2>1, <2>2, RootAbove
  <2>4. QED
    BY <1>1, <1>7, <2>3 DEF WithId
<1>9. c.virtual \/ c.fixed
  BY <1>7, IdFixed
<1>10. c.name = IdName[m] /\ c.super = SuperId(d) /\ c.members = IdMembers(d)
  BY DEF IdClass, NewClass, SuperId
<1> HIDE DEF c
<1>17. \A k \in WithId : IdName[k] = IdName[m] => k = m
  BY <1>2, <1>7, BuildAssumption DEF Collection, WithId
<1>11. /\ \A i \in DOMAIN classes' : classes'[i] = c \/ (i \in DOMAIN classes /\ classes'[i] = classes[i])
       /\ \A i \in DOMAIN classes : i \in DOMAIN classes' /\ classes'[i] = classes[i]
  BY <1>1, <1>2, OneMoreClass
<1>12. /\ IdsMirror(classes, WithId, frontend) /\ outcome' # "done"
       /\ IdsComing(stack, Built, WithId) /\ IdsFirst(stack, Built, WithId)
  BY <1>1 DEF MirrorInv, Running
<1>13. IdsMirror(classes', WithId, frontend)
  <2>1. c.name \in IdsOf(WithId)
    BY <1>8, <1>10 DEF IdsOf
  <2>2. \A k \in WithId : c.name = IdName[k] =>
            c.super = SuperId(frontend[k]) /\ c.members = IdMembers(frontend[k])
    BY <1>10, <1>17
  <2>3. QED
    BY <1>9, <1>11, <1>12, <2>1, <2>2 DEF IdsMirror
<1>14. Built \subseteq built
  BY <1>11 DEF Built, ClassNames
<1> HIDE DEF built
<1>15. IdsComing(stack', built, WithId) /\ IdsFirst(stack', built, WithId)
  BY <1>1, <1>12, <1>14 DEF IdsComing, IdsFirst
<1>16. QED
  BY <1>1, <1>12, <1>13, <1>15, MirrorKeeps DEF built

\* The list of the main loop is empty: no ID class is missing.
LEMMA DoneMirror == BuildInv /\ MirrorInv /\ Done => MirrorInv'
<1> SUFFICES ASSUME BuildInv, MirrorInv, Done
             PROVE  MirrorInv'
  OBVIOUS
<1>1. /\ Len(stack) = 1 /\ stack[1].todo = <<>>
      /\ UNCHANGED <<version, decls, frontend, stack, classes>>
  BY DEF Done
<1>2. stack # <<>>
  <2>1. Len(<<>>) = 0 /\ Len(stack) # 0
    BY <1>1, EmptySeq
  <2>2. QED
    BY <2>1, Zenon
<1>3. /\ IdsComing(stack, Built, WithId) /\ IdsFirst(stack, Built, WithId)
      /\ IdsMirror(classes, WithId, frontend)
  BY <1>2 DEF MirrorInv
<1>4. DOMAIN stack[1].todo = {}
  BY <1>1, ListedEmpty
<1>5. IdsThere(Built, WithId)
  BY <1>3, <1>4 DEF IdsComing, IdsThere
<1>6. ClassNames(classes') = Built
  BY <1>1 DEF Built
<1>7. QED
  BY <1>1, <1>3, <1>5, <1>6, MirrorKeeps

\* No call is made for a struct with the name of an ID class.
LEMMA EnteredNoId ==
    ASSUME BuildInv, CallInv, MirrorInv, Enter
    PROVE  \E new : new.name \notin IdsOf(WithId) /\ stack' = Append(Popped, new)
<1> DEFINE k == Len(stack)
           t == stack[k].todo
           m == Called
           new == [name |-> m, todo |-> Needs(frontend[m])]
<1>1. /\ stack # <<>> /\ Last(stack).todo # <<>> /\ Head(Last(stack).todo).op = "class"
      /\ m \notin Built /\ stack' = Append(Popped, new)
  BY DEF Enter, Calls, Built
<1>2. /\ DOMAIN stack = 1..k /\ k \in Nat \ {0}
      /\ Len(t) \in Nat \ {0} /\ DOMAIN t = 1..Len(t)
      /\ Head(Last(stack).todo) = t[1]
  BY <1>1, PoppedProperties
<1>3. k \in DOMAIN stack /\ 1 \in DOMAIN t /\ t[1].op = "class" /\ t[1].name = m
  BY <1>1, <1>2 DEF Called
<1>4. Collection /\ Callers(stack, Built) /\ Reasons(stack) /\ IdsFirst(stack, Built, WithId)
  BY <1>1 DEF BuildInv, CallInv, MirrorInv
<1> HIDE DEF m
<1>5. m \notin IdsOf(WithId)
  <2> SUFFICES ASSUME NEW n \in WithId, m = IdName[n]
               PROVE  FALSE
    BY DEF IdsOf
  <2>1. n \in Names /\ m \in IdNames
    <3>1. n \in Names
      BY <1>4 DEF Collection, WithId
    <3>2. QED
      BY <3>1 DEF IdNames
  <2>2. CASE k = 1
    <3>1. ForStruct(t[1], n)
      BY <1>3, <2>2 DEF ForStruct
    <3>2. stack[1].todo = t
      BY <2>2
    <3>3. m \in Built \/ \E q \in 1..1 - 1 : t[q] = BuildId(n)
      BY <1>3, <1>4, <3>1, <3>2 DEF IdsFirst
    <3>4. \A q : q \notin 1..1 - 1
      OBVIOUS
    <3>5. QED
      BY <1>1, <3>3, <3>4
  <2>3. CASE k # 1
    <3> DEFINE f == frontend[stack[k].name]
    <3>1. stack[k].name \in DOMAIN frontend /\ m \in Dependencies(f)
      BY <1>3, <1>4, <2>3 DEF Callers, Reasons
    <3>2. Declared(f)
      BY <1>4, <3>1, AsDeclared
    <3> HIDE DEF f
    <3>3. f.super \notin IdNames /\ \A i \in DOMAIN f.members : f.members[i].type \notin IdNames
      BY <3>2 DEF Declared, ToSet
    <3>4. QED
      BY <2>1, <3>1, <3>3 DEF Dependencies, DependsOn
  <2>4. QED
    BY <2>2, <2>3
<1>6. new.name = m
  OBVIOUS
<1> HIDE DEF new
<1>7. QED
  BY <1>1, <1>5, <1>6

\* Whatever build_protocol() does next, ID classes mirror the classes.
LEMMA MirrorStep ==
    BuildInv /\ CallInv /\ MirrorInv /\ version \in Versions /\ Next => MirrorInv'
<1> SUFFICES ASSUME BuildInv, CallInv, MirrorInv, version \in Versions, Next
             PROVE  MirrorInv'
  OBVIOUS
<1>1. CASE Collect
  <2>1. classes = <<>> /\ stack = <<>> /\ Running
    BY <1>1 DEF Collect, BuildInv
  <2>2. stack' = <<>> /\ classes' = <<>> /\ outcome' # "done"
    BY <1>1, <2>1 DEF Collect, Fail, Running
  <2>3. QED
    BY <2>2, MirrorEmpty
<1>2. CASE Start
  BY <1>2, StartMirror
<1>3. CASE Reuse
  <2>1. /\ stack # <<>> /\ Last(stack).todo # <<>> /\ Head(Last(stack).todo).op = "class" /\ Running
        /\ UNCHANGED <<version, frontend, classes, outcome>> /\ stack' = Popped
    BY <1>3 DEF Reuse, Calls
  <2>2. \A n \in WithId : Head(Last(stack).todo) = BuildId(n) => IdName[n] \in Built
    BY <2>1 DEF BuildId
  <2>3. QED
    BY <2>1, <2>2, PopMirror
<1>4. CASE Cycle
  BY <1>4, MirrorStays DEF Cycle, Fail
<1>5. CASE NotFound
  BY <1>5, MirrorStays DEF NotFound, Fail
<1>6. CASE Enter
  <2>1. /\ stack # <<>> /\ Last(stack).todo # <<>> /\ Head(Last(stack).todo).op = "class" /\ Running
        /\ UNCHANGED <<version, frontend, classes, outcome>>
    BY <1>6 DEF Enter, Calls
  <2>2. \A n \in WithId : Head(Last(stack).todo) = BuildId(n) => IdName[n] \in Built
    BY <2>1 DEF BuildId
  <2>3. \E new : new.name \notin IdsOf(WithId) /\ stack' = Append(Popped, new)
    BY <1>6, EnteredNoId
  <2>4. QED
    BY <2>1, <2>2, <2>3, PopMirror
<1>7. CASE Finish
  BY <1>7, FinishMirror
<1>8. CASE BuildIdClass
  BY <1>8, IdMirror
<1>9. CASE NextName
  <2>1. /\ stack # <<>> /\ Last(stack).todo # <<>> /\ ~NeedsId(Called) /\ Running
        /\ UNCHANGED <<version, frontend, classes, outcome>> /\ stack' = Popped
    BY <1>9 DEF NextName, Calls
  <2>2. ASSUME NEW n \in WithId, Head(Last(stack).todo) = BuildId(n)
        PROVE  IdName[n] \in Built
    <3>1. Called = n
      BY <2>2 DEF Called, BuildId
    <3>2. QED
      BY <2>1, <2>2, <3>1 DEF NeedsId, WithId, Built
  <2>3. QED
    BY <2>1, <2>2, PopMirror
<1>10. CASE Done
  BY <1>10, DoneMirror
<1>11. QED
  BY <1>1, <1>2, <1>3, <1>4, <1>5, <1>6, <1>7, <1>8, <1>9, <1>10 DEF Next

\* The version of a protocol that is being built is one of the targets.
LEMMA VersionKnown == AllInv /\ Next => version \in Versions
<1> SUFFICES ASSUME AllInv, Next
             PROVE  version \in Versions
  OBVIOUS
<1>1. FrontInv /\ Progress /\ outcome = "running"
  BY NextKeeps DEF AllInv
<1>2. /\ Len(ir) < Len(inputs) /\ version = inputs[Len(ir) + 1].version
      /\ Gathered(files, read, inputs)
  BY <1>1 DEF Progress
<1>3. /\ DOMAIN inputs = 1..Len(inputs) /\ Len(inputs) \in Nat /\ Len(ir) \in Nat
  BY <1>1, FrontLists
<1>4. Len(ir) + 1 \in DOMAIN inputs
  BY <1>2, <1>3
<1>5. version \in {inputs[i].version : i \in DOMAIN inputs}
  BY <1>2, <1>4
<1>6. QED
  BY <1>2, <1>5, FilesAssumption DEF Gathered

\* The same for the front end.
LEMMA FrontMirror ==
    AllInv /\ MirrorInv /\ [FrontEndNext]_<<vars, frontVars>> => AllInv' /\ MirrorInv'
<1> SUFFICES ASSUME AllInv, MirrorInv, [FrontEndNext]_<<vars, frontVars>>
             PROVE  AllInv' /\ MirrorInv'
  OBVIOUS
<1>1. AllInv'
  BY ProgressStep
<1>2. CASE ReadFile
  <2>1. UNCHANGED <<version, frontend, stack, classes>> /\ outcome' # "done"
    BY <1>2 DEF ReadFile
  <2>2. QED
    BY <1>1, <2>1, MirrorStays
<1>3. CASE CallBuild
  <2>1. stack' = <<>> /\ classes' = <<>> /\ outcome' # "done"
    BY <1>3 DEF CallBuild
  <2>2. QED
    BY <1>1, <2>1, MirrorEmpty
<1>4. CASE Return
  <2>1. UNCHANGED <<version, frontend, stack, classes>> /\ outcome' # "done"
    BY <1>4 DEF Return
  <2>2. QED
    BY <1>1, <2>1, MirrorStays
<1>5. CASE AllBuilt
  <2>1. UNCHANGED <<version, frontend, stack, classes>> /\ outcome' # "done"
    BY <1>5 DEF AllBuilt
  <2>2. QED
    BY <1>1, <2>1, MirrorStays
<1>6. CASE Next /\ UNCHANGED frontVars
  <2>1. BuildInv /\ CallInv /\ version \in Versions
    BY <1>6, VersionKnown DEF AllInv, FrontInv
  <2>2. QED
    BY <1>1, <1>6, <2>1, MirrorStep
<1>7. CASE UNCHANGED <<vars, frontVars>>
  <2>1. UNCHANGED <<version, frontend, stack, classes>> /\ outcome' = outcome
    BY <1>7 DEF vars
  <2>2. QED
    BY <1>1, <2>1, MirrorStays
<1>8. QED
  BY <1>2, <1>3, <1>4, <1>5, <1>6, <1>7 DEF FrontEndNext

\* What the ID classes are when the protocol is done.
LEMMA MirrorMeans == AllInv /\ MirrorInv => IdClassesMirror
<1> SUFFICES ASSUME AllInv, MirrorInv
             PROVE  IdClassesMirror
  OBVIOUS
<1>1. /\ Collection /\ CallInv /\ IdsMirror(classes, WithId, frontend) /\ Listed(classes)
      /\ DOMAIN frontend \subseteq Names
  BY DEF AllInv, FrontInv, BuildInv, Collection, MirrorInv
<1>2. HasId = WithId
  BY DEF HasId, WithId, IsRooted
<1>3. \A c \in ToSet(classes) : c.name \in {IdName[n] : n \in WithId} => c.virtual \/ c.fixed
  BY <1>1 DEF IdsMirror, ToSet
<1>4. ASSUME outcome = "done"
      PROVE  ClassNames(classes) = DOMAIN frontend \cup {IdName[n] : n \in WithId}
  <2>1. DOMAIN frontend \subseteq Built /\ IdsThere(Built, WithId)
    BY <1>1, <1>4 DEF CallInv, MirrorInv
  <2>2. DOMAIN frontend \cup {IdName[n] : n \in WithId} \subseteq ClassNames(classes)
    BY <2>1 DEF Built, IdsThere
  <2>3. ClassNames(classes) \subseteq DOMAIN frontend \cup {IdName[n] : n \in WithId}
    BY <1>1 DEF ClassNames, IdsMirror, IdsOf
  <2>4. QED
    BY <2>2, <2>3
<1>5. ASSUME outcome = "done", NEW n \in WithId
      PROVE  LET c == ClassMap(classes)[IdName[n]]
                 d == frontend[n]
             IN  /\ c.super = SuperId(d)
                 /\ ToSet(c.members) = {m \in ToSet(d.members) : m.kind \notin {"data", "pad"}}
  <2> DEFINE i == CHOOSE j \in DOMAIN classes : classes[j].name = IdName[n]
             d == frontend[n]
  <2>1. IdName[n] \in ClassNames(classes)
    BY <1>4, <1>5
  <2>2. i \in DOMAIN classes /\ classes[i].name = IdName[n]
    BY <2>1 DEF ClassNames
  <2>3. ClassMap(classes)[IdName[n]] = classes[i]
    BY <2>1 DEF ClassMap
  <2> HIDE DEF i
  <2>4. classes[i].super = SuperId(d) /\ classes[i].members = IdMembers(d)
    BY <1>1, <2>2 DEF IdsMirror
  <2>5. n \in DOMAIN frontend
    BY DEF WithId
  <2>6. Declared(d)
    BY <1>1, <2>5, AsDeclared
  <2> HIDE DEF d
  <2>7. ToSet(IdMembers(d)) = {m \in ToSet(d.members) : m.kind \notin {"data", "pad"}}
    <3>1. Listed(d.members) /\ \A m \in ToSet(d.members) : Tagged(m)
      BY <2>6 DEF Declared, Listed
    <3>2. QED
      BY <3>1, IdMembersScalar
  <2>8. QED
    BY <2>3, <2>4, <2>7 DEF d
<1>6. QED
  BY <1>2, <1>3, <1>4, <1>5 DEF IdClassesMirror, SuperId

\* From version 1.3 on, every subclass of an action, whatever file it is in
\* and however deep below it, has exactly one ID class in the protocol, the
\* subclass of the ID class of its superclass; and the assertion in
\* build_id_class(), that an ID class has a fixed length, never fails.
THEOREM IdsMirrorClasses == FrontEndSpec => []IdClassesMirror
<1>1. FrontEndInit => AllInv /\ MirrorInv
  <2> SUFFICES ASSUME FrontEndInit
               PROVE  AllInv /\ MirrorInv
    OBVIOUS
  <2>1. AllInv
    BY ProgressInitially
  <2>2. stack = <<>> /\ outcome # "done" /\ DOMAIN classes = {}
    BY ListedEmpty DEF FrontEndInit
  <2>3. MirrorInv
    BY <2>2 DEF MirrorInv, IdsMirror
  <2>4. QED
    BY <2>1, <2>3
<1>2. AllInv /\ MirrorInv /\ [FrontEndNext]_<<vars, frontVars>> => (AllInv /\ MirrorInv)'
  BY FrontMirror
<1>3. AllInv /\ MirrorInv => IdClassesMirror
  BY MirrorMeans
<1>4. QED
  BY <1>1, <1>2, <1>3, PTL DEF FrontEndSpec
-----------------------------------------------------------------------------
(* Lengths.                                                                 *)
\* The classes before one.
Before(cs, i) == [j \in 1..i - 1 |-> cs[j]]

\* A class has the members declared, each of a class before it or of a plain
\* type, or is an ID class, and its lengths are those that they give it.
Sized(c, cs, v, fe) ==
    /\ Listed(c.members)
    /\ LET lengths == CalcLengths(v, c.members, c.virtual, ClassMap(cs))
       IN  c.base = lengths.base /\ c.fixed = lengths.fixed /\ c.offsets = lengths.offsets
    /\ \/ c.name \in IdNames /\ \A m \in ToSet(c.members) : m.type \in Scalars
       \/ /\ c.name \in DOMAIN fe
          /\ LET d == fe[c.name]
             IN  c.members = d.members /\ c.virtual = d.virtual /\ c.aligned = d.aligned
          /\ \A m \in ToSet(c.members) : Base(m.type, v) \in ClassNames(cs) \cup DOMAIN BasicLength

LengthInv ==
    \A i \in DOMAIN classes :
        version \in Versions /\ Sized(classes[i], Before(classes, i), version, frontend)

\* The lengths of a class are those of its members.
LEMMA LengthsAgree ==
    ASSUME NEW v, NEW ms, NEW virtual, NEW e, NEW f,
           \A i \in DOMAIN ms : MemberLength(v, ms[i], e) = MemberLength(v, ms[i], f)
    PROVE  CalcLengths(v, ms, virtual, e) = CalcLengths(v, ms, virtual, f)
<1>1. [i \in DOMAIN ms |-> MemberLength(v, ms[i], e)] = [i \in DOMAIN ms |-> MemberLength(v, ms[i], f)]
  OBVIOUS
<1>2. QED
  BY <1>1 DEF CalcLengths

\* A class has a fixed length if it is not abstract and all its members have.
LEMMA AllFixed ==
    ASSUME NEW v, NEW ms, Listed(ms), NEW virtual, NEW e
    PROVE  CalcLengths(v, ms, virtual, e).fixed <=>
               ~virtual /\ \A i \in DOMAIN ms : MemberLength(v, ms[i], e).fixed
<1> DEFINE len == [i \in DOMAIN ms |-> MemberLength(v, ms[i], e)]
<1>1. DOMAIN ms = 1..Len(ms) /\ Len(ms) \in Nat
  BY ListedLength
<1>2. CalcLengths(v, ms, virtual, e).fixed <=>
          (\A j \in 1..(Len(ms) + 1) - 1 : len[j].fixed) /\ ~virtual
  BY DEF CalcLengths, LayOut
<1>3. 1..(Len(ms) + 1) - 1 = DOMAIN ms
  BY <1>1
<1>4. \A i \in DOMAIN ms : len[i] = MemberLength(v, ms[i], e)
  OBVIOUS
<1> HIDE DEF len
<1>5. QED
  BY <1>2, <1>3, <1>4

\* The length of a member of a plain type, and of one that is a class.
LEMMA LengthOfMember ==
    ASSUME NEW v, NEW m, NEW e
    PROVE  LET type == Base(m.type, v)
           IN  /\ type \in DOMAIN e =>
                     MemberLength(v, m, e) =
                         [known |-> TRUE,
                          bytes |-> m.count * (IF e[type].aligned THEN RoundUp(e[type].base) ELSE e[type].base),
                          fixed |-> e[type].fixed]
               /\ type \notin DOMAIN e /\ type \in DOMAIN BasicLength =>
                     MemberLength(v, m, e) = [known |-> TRUE, bytes |-> m.count * BasicLength[type].bytes,
                                              fixed |-> BasicLength[type].fixed]
               /\ MemberLength(v, m, e).known => type \in DOMAIN e \cup DOMAIN BasicLength
BY DEF MemberLength

\* Classes have different names.
LEMMA NamesDiffer ==
    ASSUME BuildInv, NEW i \in DOMAIN classes, NEW j \in DOMAIN classes, classes[i].name = classes[j].name
    PROVE  i = j
<1>1. DOMAIN classes = 1..Len(classes) /\ Len(classes) \in Nat
  BY ListedLength DEF BuildInv
<1>2. ASSUME NEW a \in DOMAIN classes, NEW b \in DOMAIN classes, classes[a].name = classes[b].name
      PROVE  ~(a < b)
  <2>1. classes[b].name \notin {classes[k].name : k \in 1..b - 1}
    BY DEF BuildInv, InOrder
  <2>2. a < b => a \in 1..b - 1
    BY <1>1
  <2>3. QED
    BY <1>2, <2>1, <2>2
<1>3. ~(i < j) /\ ~(j < i)
  BY <1>2
<1>4. QED
  BY <1>1, <1>3

\* A class is found by its name, also among those before another.
LEMMA FoundByName ==
    ASSUME BuildInv, NEW i \in DOMAIN classes
    PROVE  /\ classes[i].name \in DOMAIN ClassMap(classes) /\ ClassMap(classes)[classes[i].name] = classes[i]
           /\ \A j \in 1..i - 1 :
                 j \in DOMAIN classes /\ classes[j].name \in DOMAIN ClassMap(Before(classes, i))
                 /\ ClassMap(Before(classes, i))[classes[j].name] = classes[j]
           /\ DOMAIN ClassMap(classes) = ClassNames(classes)
           /\ DOMAIN ClassMap(Before(classes, i)) = {classes[j].name : j \in 1..i - 1}
<1>1. DOMAIN classes = 1..Len(classes) /\ Len(classes) \in Nat
  BY ListedLength DEF BuildInv
<1>2. \A a, b \in DOMAIN classes : classes[a].name = classes[b].name => a = b
  BY NamesDiffer
<1>3. classes[i].name \in DOMAIN ClassMap(classes) /\ ClassMap(classes)[classes[i].name] = classes[i]
  <2> DEFINE k == CHOOSE j \in DOMAIN classes : classes[j].name = classes[i].name
  <2>1. k \in DOMAIN classes /\ classes[k].name = classes[i].name
    OBVIOUS
  <2>2. k = i
    BY <1>2, <2>1
  <2>3. classes[i].name \in ClassNames(classes)
    BY DEF ClassNames
  <2>4. ClassMap(classes)[classes[i].name] = classes[k] /\ DOMAIN ClassMap(classes) = ClassNames(classes)
    BY <2>3 DEF ClassMap
  <2> HIDE DEF k
  <2>5. QED
    BY <2>2, <2>3, <2>4
<1> DEFINE b == Before(classes, i)
<1>4. DOMAIN b = 1..i - 1 /\ \A j \in 1..i - 1 : b[j] = classes[j]
  BY DEF Before
<1> HIDE DEF b
<1>5. \A j \in 1..i - 1 : j \in DOMAIN classes
  BY <1>1
<1>6. ClassNames(b) = {classes[j].name : j \in 1..i - 1}
  BY <1>4 DEF ClassNames
<1>7. ASSUME NEW j \in 1..i - 1
      PROVE  classes[j].name \in DOMAIN ClassMap(b) /\ ClassMap(b)[classes[j].name] = classes[j]
  <2> DEFINE k == CHOOSE l \in DOMAIN b : b[l].name = classes[j].name
  <2>1. k \in DOMAIN b /\ b[k].name = classes[j].name
    BY <1>4
  <2>2. classes[j].name \in ClassNames(b)
    BY <1>6
  <2>3. ClassMap(b)[classes[j].name] = b[k] /\ DOMAIN ClassMap(b) = ClassNames(b)
    BY <2>2 DEF ClassMap
  <2> HIDE DEF k
  <2>4. k = j
    BY <1>2, <1>4, <1>5, <2>1
  <2>5. QED
    BY <1>4, <2>2, <2>3, <2>4
<1>8. DOMAIN ClassMap(classes) = ClassNames(classes) /\ DOMAIN ClassMap(b) = ClassNames(b)
  BY DEF ClassMap
<1>9. QED
  BY <1>3, <1>5, <1>6, <1>7, <1>8 DEF b

\* The lengths of the classes are not touched.
LEMMA LengthsStay ==
    LengthInv /\ UNCHANGED <<version, frontend, classes>> => LengthInv'
BY DEF LengthInv

\* Nothing has been built.
LEMMA LengthsEmpty == classes' = <<>> => LengthInv'
BY ListedEmpty DEF LengthInv

\* A class is put behind those that are built.
LEMMA LengthsAppend ==
    ASSUME LengthInv, Listed(classes), version \in Versions, UNCHANGED <<version, frontend>>,
           NEW c, classes' = Append(classes, c), Sized(c, classes, version, frontend)
    PROVE  LengthInv'
<1> DEFINE n == Len(classes)
<1>1. DOMAIN classes = 1..n /\ n \in Nat
  BY ListedLength
<1>2. /\ DOMAIN classes' = 1..n + 1 /\ classes'[n + 1] = c
      /\ \A i \in 1..n : classes'[i] = classes[i]
  BY ListedAppend
<1>3. ASSUME NEW i \in 1..n
      PROVE  Sized(classes'[i], Before(classes', i), version, frontend)
  <2>1. \A j \in 1..i - 1 : classes'[j] = classes[j]
    BY <1>1, <1>2
  <2>2. Before(classes', i) = Before(classes, i)
    BY <2>1 DEF Before
  <2>3. Sized(classes[i], Before(classes, i), version, frontend)
    BY <1>1 DEF LengthInv
  <2>4. QED
    BY <1>2, <2>2, <2>3
<1>4. Before(classes', n + 1) = classes
  <2>1. (n + 1) - 1 = n
    BY <1>1
  <2>2. Before(classes', n + 1) = [j \in 1..n |-> classes'[j]]
    BY <2>1 DEF Before
  <2>3. [j \in 1..n |-> classes'[j]] = [j \in 1..n |-> classes[j]]
    BY <1>2
  <2>4. classes = [j \in 1..n |-> classes[j]]
    <3>1. classes \in Seq(ToSet(classes))
      BY DEF Listed
    <3>2. QED
      BY <1>1, <3>1
  <2>5. QED
    BY <2>2, <2>3, <2>4
<1>5. \A i \in DOMAIN classes' : Sized(classes'[i], Before(classes', i), version, frontend)
  <2>1. \A i \in DOMAIN classes' : i \in 1..n \/ i = n + 1
    BY <1>1, <1>2
  <2> HIDE DEF n
  <2>2. QED
    BY <1>2, <1>3, <1>4, <2>1
<1>6. QED
  BY <1>5 DEF LengthInv

\* A class of the files is built, with all its types known.
LEMMA FinishLengths ==
    BuildInv /\ LengthInv /\ version \in Versions /\ Finish => LengthInv'
<1> SUFFICES ASSUME BuildInv, LengthInv, version \in Versions, Finish
             PROVE  LengthInv'
  OBVIOUS
<1> DEFINE n == Last(stack).name
           d == frontend[n]
           c == NewClass(d.name, d.super, d.virtual, d.aligned, d.members, classes)
           ms == d.members
<1>1. Callers(stack, Built) /\ Listed(stack) /\ Listed(classes) /\ Collection
  BY DEF BuildInv, Callers
<1>2. n \in DOMAIN frontend
  <2>1. DOMAIN stack = 1..Len(stack) /\ Len(stack) \in Nat
    BY <1>1, ListedLength
  <2>2. Len(stack) > 1
    BY DEF Finish
  <2>3. Len(stack) \in DOMAIN stack /\ Len(stack) # 1
    BY <2>1, <2>2
  <2>4. stack[Len(stack)].name \in DOMAIN frontend
    BY <1>1, <2>3 DEF Callers
  <2>5. QED
    BY <2>4 DEF Last
<1>3. d.name = n /\ Declared(d)
  BY <1>1, <1>2, AsDeclared
<1>4. CASE ~Known(d)
  <2>1. UNCHANGED <<version, frontend, classes>>
    BY <1>4 DEF Finish, Fail
  <2>2. QED
    BY <2>1, LengthsStay
<1>5. CASE Known(d)
  <2>1. classes' = Append(classes, c) /\ UNCHANGED <<version, frontend>>
    BY <1>5 DEF Finish
  <2>2. /\ c.name = n /\ c.virtual = d.virtual /\ c.aligned = d.aligned /\ c.members = ms
        /\ LET lengths == CalcLengths(version, ms, d.virtual, ClassMap(classes))
           IN  c.base = lengths.base /\ c.fixed = lengths.fixed /\ c.offsets = lengths.offsets
    BY <1>3 DEF NewClass
  <2>3. Listed(ms)
    BY <1>3 DEF Declared, Listed
  <2>4. \A i \in DOMAIN ms : MemberLength(version, ms[i], ClassMap(classes)).known
    BY <1>5 DEF Known, CalcLengths, LayOut
  <2>5. DOMAIN ClassMap(classes) = ClassNames(classes)
    BY DEF ClassMap
  <2> HIDE DEF c, d
  <2>6. \A m \in ToSet(ms) : Base(m.type, version) \in ClassNames(classes) \cup DOMAIN BasicLength
    BY <2>4, <2>5, LengthOfMember DEF ToSet
  <2>7. Sized(c, classes, version, frontend)
    BY <1>2, <2>2, <2>3, <2>6 DEF Sized, d
  <2>8. QED
    BY <1>1, <2>1, <2>7, LengthsAppend
<1>6. QED
  BY <1>4, <1>5

\* An ID class is built, of members with plain types.
LEMMA IdLengths ==
    BuildInv /\ LengthInv /\ version \in Versions /\ BuildIdClass => LengthInv'
<1> SUFFICES ASSUME BuildInv, LengthInv, version \in Versions, BuildIdClass
             PROVE  LengthInv'
  OBVIOUS
<1> DEFINE m == MissingId(Called)
           d == frontend[m]
           c == IdClass(m, classes)
<1>1. /\ Called \in DOMAIN frontend /\ Called \in Built /\ IdName[Called] \notin Built
      /\ classes' = Append(classes, c) /\ UNCHANGED <<version, frontend>>
  BY IdCalled
<1>2. Listed(classes) /\ InOrder(classes) /\ Collection
  BY DEF BuildInv
<1>3. m \in DOMAIN frontend
  BY <1>1, <1>2, MissingFound
<1> HIDE DEF m
<1>4. m \in Names /\ Declared(d)
  BY <1>2, <1>3, AsDeclared
<1>5. Listed(IdMembers(d)) /\ \A i \in DOMAIN IdMembers(d) : IdMembers(d)[i].type \in Scalars
  <2>1. Listed(d.members) /\ \A x \in ToSet(d.members) : Tagged(x)
    BY <1>4 DEF Declared, Listed
  <2> HIDE DEF d
  <2>2. QED
    BY <2>1, IdMembersScalar
<1>6. /\ c.name = IdName[m] /\ c.members = IdMembers(d)
      /\ LET lengths == CalcLengths(version, c.members, c.virtual, ClassMap(classes))
         IN  c.base = lengths.base /\ c.fixed = lengths.fixed /\ c.offsets = lengths.offsets
  BY DEF IdClass, NewClass
<1> HIDE DEF c, d
<1>7. Listed(c.members) /\ \A x \in ToSet(c.members) : x.type \in Scalars
  BY <1>5, <1>6 DEF ToSet
<1>8. c.name \in IdNames
  BY <1>4, <1>6 DEF IdNames
<1>9. Sized(c, classes, version, frontend)
  BY <1>6, <1>7, <1>8 DEF Sized
<1>10. QED
  BY <1>1, <1>2, <1>9, LengthsAppend

\* Whatever build_protocol() does next, the lengths are those of the members.
LEMMA LengthsStep ==
    BuildInv /\ LengthInv /\ version \in Versions /\ Next => LengthInv'
<1> SUFFICES ASSUME BuildInv, LengthInv, version \in Versions, Next
             PROVE  LengthInv'
  OBVIOUS
<1>1. CASE Collect
  <2>1. classes = <<>>
    BY <1>1 DEF Collect, BuildInv
  <2>2. classes' = <<>>
    BY <1>1, <2>1 DEF Collect, Fail
  <2>3. QED
    BY <2>2, LengthsEmpty
<1>2. CASE Start \/ Reuse \/ Cycle \/ NotFound \/ Enter \/ NextName \/ Done
  <2>1. UNCHANGED <<version, frontend, classes>>
    BY <1>2 DEF Start, Reuse, Cycle, NotFound, Enter, NextName, Done, Fail
  <2>2. QED
    BY <2>1, LengthsStay
<1>3. CASE Finish
  BY <1>3, FinishLengths
<1>4. CASE BuildIdClass
  BY <1>4, IdLengths
<1>5. QED
  BY <1>1, <1>2, <1>3, <1>4 DEF Next

\* The same for the front end.
LEMMA FrontLengths ==
    AllInv /\ LengthInv /\ [FrontEndNext]_<<vars, frontVars>> => LengthInv'
<1> SUFFICES ASSUME AllInv, LengthInv, [FrontEndNext]_<<vars, frontVars>>
             PROVE  LengthInv'
  OBVIOUS
<1>1. CASE ReadFile \/ Return \/ AllBuilt
  <2>1. ReadFile => UNCHANGED <<version, frontend, classes>>
    BY DEF ReadFile
  <2>2. Return \/ AllBuilt => UNCHANGED <<version, frontend, classes>>
    BY DEF Return, AllBuilt
  <2>3. UNCHANGED <<version, frontend, classes>>
    BY <1>1, <2>1, <2>2
  <2>4. QED
    BY <2>3, LengthsStay
<1>2. CASE CallBuild
  <2>1. classes' = <<>>
    BY <1>2 DEF CallBuild
  <2>2. QED
    BY <2>1, LengthsEmpty
<1>3. CASE Next /\ UNCHANGED frontVars
  <2>1. BuildInv /\ version \in Versions
    BY <1>3, VersionKnown DEF AllInv, FrontInv
  <2>2. QED
    BY <1>3, <2>1, LengthsStep
<1>4. CASE UNCHANGED <<vars, frontVars>>
  <2>1. UNCHANGED <<version, frontend, classes>>
    BY <1>4 DEF vars
  <2>2. QED
    BY <2>1, LengthsStay
<1>5. QED
  BY <1>1, <1>2, <1>3, <1>4 DEF FrontEndNext

\* The type of a member is that of a class before, or a plain type; a class of
\* the files that is built later has its name only if a mixed type stands for
\* that class.
LEMMA TypesBefore ==
    ASSUME BuildInv, LengthInv, NEW i \in DOMAIN classes, NEW m \in ToSet(classes[i].members)
    PROVE  LET type == Base(m.type, version)
               before == ClassNames(Before(classes, i))
           IN  /\ type \notin IdNames
               /\ type \in before \cup DOMAIN BasicLength
               /\ type \notin before /\ type \in DOMAIN frontend =>
                      \E t \in DOMAIN Mixed : Mixed[t][version] = type
<1> DEFINE c == classes[i]
           type == Base(m.type, version)
           before == ClassNames(Before(classes, i))
<1>1. Sized(c, Before(classes, i), version, frontend) /\ version \in Versions
  BY DEF LengthInv
<1>2. Collection /\ InOrder(classes) /\ Listed(classes) /\ DOMAIN frontend \subseteq Names
  BY DEF BuildInv, Collection
<1>3. before = {classes[j].name : j \in 1..i - 1}
  BY FoundByName DEF ClassMap
<1>4. CASE m.type \in Scalars
  <2>1. type \in DOMAIN BasicLength \ (Names \cup IdNames)
    BY <1>1, <1>4 DEF Scalars
  <2>2. QED
    BY <1>2, <2>1
<1>5. CASE m.type \notin Scalars
  <2> DEFINE d == frontend[c.name]
  <2>1. /\ c.name \in DOMAIN frontend /\ c.members = d.members
        /\ type \in before \cup DOMAIN BasicLength
    BY <1>1, <1>5 DEF Sized
  <2>2. Declared(d)
    BY <1>2, <2>1, AsDeclared
  <2>3. Dependencies(d) \subseteq before
    BY <1>2, <1>3, <2>1 DEF InOrder
  <2> HIDE DEF d, before
  <2>4. Tagged(m) /\ m.type \notin IdNames
    BY <2>1, <2>2 DEF Declared
  <2>5. type \notin IdNames
    BY <1>1, <2>4, BuildAssumption DEF Base
  <2>6. ASSUME type \notin before, type \in DOMAIN frontend, m.type \notin DOMAIN Mixed
        PROVE  FALSE
    <3>1. type = m.type
      BY <2>6 DEF Base
    <3>2. m.count = 1
      <4>1. m.type \in Names /\ m.type \in DOMAIN BasicLength
        BY <1>2, <2>1, <2>6, <3>1
      <4>2. QED
        BY <2>4, <4>1 DEF Tagged
    <3>3. m.type \in Dependencies(d)
      <4>1. \E k \in DOMAIN d.members : d.members[k] = m
        BY <2>1 DEF ToSet
      <4>2. QED
        BY <2>6, <3>1, <3>2, <4>1 DEF Dependencies, DependsOn
    <3>4. QED
      BY <2>3, <2>6, <3>1, <3>3
  <2>7. m.type \in DOMAIN Mixed => type = Mixed[m.type][version]
    BY DEF Base
  <2>8. QED
    BY <2>1, <2>5, <2>6, <2>7 DEF before
<1>6. QED
  BY <1>4, <1>5

\* A class that a mixed type stands for, and that is a plain type as well, has
\* the length of the plain type.
LEMMA MeasuredClass ==
    ASSUME BuildInv, LengthInv, NEW i \in DOMAIN classes,
           classes[i].name \in DOMAIN BasicLength \ IdNames,
           \E t \in DOMAIN Mixed : Mixed[t][version] = classes[i].name
    PROVE  LET c == classes[i]
           IN  /\ ~c.virtual
               /\ \A m \in ToSet(c.members) :
                     Base(m.type, version) \in DOMAIN BasicLength \ (Names \cup IdNames)
               /\ BasicLength[c.name] =
                     [bytes |-> IF c.aligned THEN RoundUp(c.base) ELSE c.base, fixed |-> c.fixed]
<1> DEFINE c == classes[i]
           d == frontend[c.name]
           ms == d.members
           cm == ClassMap(Before(classes, i))
<1>1. Sized(c, Before(classes, i), version, frontend) /\ version \in Versions
  BY DEF LengthInv
<1>2. Collection /\ InOrder(classes) /\ Listed(classes) /\ DOMAIN frontend \subseteq Names
  BY DEF BuildInv, Collection
<1>3. /\ c.name \in DOMAIN frontend /\ c.members = ms /\ c.virtual = d.virtual /\ c.aligned = d.aligned
      /\ LET lengths == CalcLengths(version, ms, d.virtual, cm)
         IN  c.base = lengths.base /\ c.fixed = lengths.fixed
  BY <1>1 DEF Sized
<1>4. Declared(d) /\ d.name = c.name
  BY <1>2, <1>3, AsDeclared
<1>5. /\ ~d.virtual
      /\ \A m \in ToSet(ms) : Base(m.type, version) \in DOMAIN BasicLength \ (Names \cup IdNames)
      /\ LET lengths == CalcLengths(version, ms, d.virtual, <<>>)
         IN  BasicLength[d.name] =
                 [bytes |-> IF d.aligned THEN RoundUp(lengths.base) ELSE lengths.base,
                  fixed |-> lengths.fixed]
  BY <1>1, <1>4 DEF Declared, Measured
<1>6. DOMAIN cm \subseteq Names \cup IdNames
  <2>1. DOMAIN cm = {classes[j].name : j \in 1..i - 1} /\ \A j \in 1..i - 1 : j \in DOMAIN classes
    BY FoundByName
  <2>2. \A j \in DOMAIN classes : classes[j].name \in DOMAIN frontend \cup IdNames
    BY <1>2 DEF InOrder
  <2>3. QED
    BY <1>2, <2>1, <2>2
<1> HIDE DEF c, d, cm
<1>7. \A k \in DOMAIN ms : MemberLength(version, ms[k], cm) = MemberLength(version, ms[k], <<>>)
  <2> SUFFICES ASSUME NEW k \in DOMAIN ms
               PROVE  MemberLength(version, ms[k], cm) = MemberLength(version, ms[k], <<>>)
    OBVIOUS
  <2>1. Base(ms[k].type, version) \in DOMAIN BasicLength \ (Names \cup IdNames)
    BY <1>5 DEF ToSet
  <2>2. Base(ms[k].type, version) \notin DOMAIN cm /\ Base(ms[k].type, version) \notin DOMAIN <<>>
    BY <1>6, <2>1, ListedEmpty
  <2>3. QED
    BY <2>1, <2>2, LengthOfMember
<1>8. CalcLengths(version, ms, d.virtual, cm) = CalcLengths(version, ms, d.virtual, <<>>)
  BY <1>7, LengthsAgree
<1>9. QED
  BY <1>3, <1>4, <1>5, <1>8 DEF c

\* What is built after a class does not change the length of its members.
LEMMA MemberStays ==
    ASSUME BuildInv, LengthInv, NEW i \in DOMAIN classes, NEW m \in ToSet(classes[i].members)
    PROVE  MemberLength(version, m, ClassMap(Before(classes, i))) =
               MemberLength(version, m, ClassMap(classes))
<1> DEFINE type == Base(m.type, version)
           before == ClassMap(Before(classes, i))
           all == ClassMap(classes)
<1>1. InOrder(classes) /\ Listed(classes)
  BY DEF BuildInv
<1>2. /\ DOMAIN before = {classes[j].name : j \in 1..i - 1} /\ DOMAIN all = ClassNames(classes)
      /\ \A j \in 1..i - 1 : j \in DOMAIN classes /\ before[classes[j].name] = classes[j]
      /\ \A j \in DOMAIN classes : all[classes[j].name] = classes[j]
  BY FoundByName
<1>3. DOMAIN before = ClassNames(Before(classes, i))
  BY DEF ClassMap
<1>4. /\ type \notin IdNames /\ type \in DOMAIN before \cup DOMAIN BasicLength
      /\ type \notin DOMAIN before /\ type \in DOMAIN frontend =>
             \E t \in DOMAIN Mixed : Mixed[t][version] = type
  BY <1>3, TypesBefore
<1> HIDE DEF before, all, type
<1>5. CASE type \in DOMAIN before
  <2>1. PICK j \in 1..i - 1 : classes[j].name = type
    BY <1>2, <1>5
  <2>2. type \in DOMAIN all /\ all[type] = before[type]
    BY <1>2, <2>1 DEF ClassNames
  <2>3. QED
    BY <1>5, <2>2, LengthOfMember DEF type, before, all
<1>6. CASE type \notin DOMAIN before /\ type \notin DOMAIN all
  BY <1>4, <1>6, LengthOfMember DEF type, before, all
<1>7. CASE type \notin DOMAIN before /\ type \in DOMAIN all
  <2>1. PICK j \in DOMAIN classes : classes[j].name = type
    BY <1>2, <1>7 DEF ClassNames
  <2> DEFINE c == classes[j]
  <2>2. type \in DOMAIN frontend /\ type \in DOMAIN BasicLength
    <3>1. c.name \in DOMAIN frontend \cup IdNames
      BY <1>1 DEF InOrder
    <3>2. QED
      BY <1>4, <1>7, <2>1, <3>1
  <2>3. BasicLength[type] = [bytes |-> IF c.aligned THEN RoundUp(c.base) ELSE c.base, fixed |-> c.fixed]
    <3>1. \E t \in DOMAIN Mixed : Mixed[t][version] = c.name
      BY <1>4, <1>7, <2>1, <2>2
    <3>2. c.name \in DOMAIN BasicLength \ IdNames
      BY <1>4, <2>1, <2>2
    <3>3. QED
      BY <2>1, <3>1, <3>2, MeasuredClass
  <2>4. all[type] = c
    BY <1>2, <2>1
  <2> HIDE DEF c
  <2>5. /\ BasicLength[type].bytes = IF c.aligned THEN RoundUp(c.base) ELSE c.base
        /\ BasicLength[type].fixed = c.fixed
    BY <2>3
  <2>6. QED
    BY <1>7, <2>2, <2>4, <2>5, LengthOfMember DEF type, before, all
<1>8. QED
  BY <1>5, <1>6, <1>7 DEF before, all

\* A class has a fixed length if, with the classes before it, its members have.
LEMMA FixedByMembers ==
    ASSUME BuildInv, LengthInv, NEW i \in DOMAIN classes
    PROVE  LET c == classes[i]
           IN  /\ c.fixed <=> ~c.virtual /\ \A m \in ToSet(c.members) :
                                 MemberLength(version, m, ClassMap(Before(classes, i))).fixed
               /\ c.fixed <=> ~c.virtual /\ \A m \in ToSet(c.members) :
                                 MemberLength(version, m, ClassMap(classes)).fixed
<1> DEFINE c == classes[i]
           cm == ClassMap(Before(classes, i))
<1>1. Listed(c.members) /\ c.fixed = CalcLengths(version, c.members, c.virtual, cm).fixed
  BY DEF LengthInv, Sized
<1>2. c.fixed <=> ~c.virtual /\ \A k \in DOMAIN c.members : MemberLength(version, c.members[k], cm).fixed
  BY <1>1, AllFixed
<1> HIDE DEF cm
<1>3. c.fixed <=> ~c.virtual /\ \A m \in ToSet(c.members) : MemberLength(version, m, cm).fixed
  BY <1>2 DEF ToSet
<1>4. \A m \in ToSet(c.members) : MemberLength(version, m, cm) = MemberLength(version, m, ClassMap(classes))
  BY MemberStays DEF cm
<1>5. QED
  BY <1>3, <1>4 DEF cm

\* A set of classes that embed nothing but fixed types and one another.
ClosedIn(ns) ==
    \A k \in ns :
        LET c == ClassMap(classes)[k]
        IN  ~c.virtual /\ \A m \in ToSet(c.members) :
                LET type == Base(m.type, version)
                IN  IF type \in DOMAIN frontend THEN type \in ns ELSE BasicLength[type].fixed

\* The classes of fixed length are such a set.
LEMMA FixedClosed ==
    ASSUME BuildInv, LengthInv, DOMAIN frontend \subseteq Built
    PROVE  ClosedIn({k \in DOMAIN frontend : ClassMap(classes)[k].fixed})
<1> DEFINE all == ClassMap(classes)
           ns == {k \in DOMAIN frontend : all[k].fixed}
<1>1. InOrder(classes)
  BY DEF BuildInv
<1>2. /\ DOMAIN all = Built /\ \A i \in DOMAIN classes : all[classes[i].name] = classes[i]
  BY FoundByName DEF ClassMap, Built
<1>3. \A k \in Built : k \in DOMAIN frontend \cup IdNames
  BY <1>1 DEF InOrder, Built, ClassNames
<1> SUFFICES ASSUME NEW k \in ns, NEW m \in ToSet(all[k].members)
             PROVE  /\ ~all[k].virtual
                    /\ LET type == Base(m.type, version)
                       IN  IF type \in DOMAIN frontend THEN type \in ns ELSE BasicLength[type].fixed
  <2>1. ASSUME NEW k \in ns
        PROVE  ~all[k].virtual
    <3>1. PICK i \in DOMAIN classes : classes[i].name = k
      BY <2>1 DEF Built, ClassNames
    <3>2. all[k] = classes[i] /\ classes[i].fixed
      BY <1>2, <2>1, <3>1
    <3> HIDE DEF all
    <3>3. QED
      BY <3>2, FixedByMembers
  <2> HIDE DEF ns
  <2>2. QED
    BY <2>1 DEF ClosedIn, ns
<1> DEFINE type == Base(m.type, version)
<1>4. PICK i \in DOMAIN classes : classes[i].name = k
  BY DEF Built, ClassNames
<1>5. all[k] = classes[i] /\ all[k].fixed /\ m \in ToSet(classes[i].members)
  BY <1>2, <1>4
<1>6. ~all[k].virtual /\ MemberLength(version, m, all).fixed
  BY <1>5, FixedByMembers
<1>7. type \notin IdNames /\ type \in ClassNames(Before(classes, i)) \cup DOMAIN BasicLength
  BY <1>5, TypesBefore
<1>8. \A x \in ClassNames(Before(classes, i)) : x \in Built
  <2>1. /\ DOMAIN ClassMap(Before(classes, i)) = {classes[j].name : j \in 1..i - 1}
        /\ \A j \in 1..i - 1 : j \in DOMAIN classes
    BY FoundByName
  <2>2. ClassNames(Before(classes, i)) = {classes[j].name : j \in 1..i - 1}
    BY <2>1 DEF ClassMap
  <2>3. QED
    BY <2>1, <2>2 DEF Built, ClassNames
<1> HIDE DEF all, type
<1>9. CASE type \in DOMAIN frontend
  <2>1. type \in DOMAIN all
    BY <1>2, <1>9
  <2>2. MemberLength(version, m, all).fixed = all[type].fixed
    BY <2>1, LengthOfMember DEF type
  <2>3. type \in ns
    BY <1>6, <1>9, <2>2
  <2>4. QED
    BY <1>6, <1>9, <2>3 DEF type
<1>10. CASE type \notin DOMAIN frontend
  <2>1. type \notin DOMAIN all /\ type \in DOMAIN BasicLength
    BY <1>2, <1>3, <1>7, <1>8, <1>10
  <2>2. MemberLength(version, m, all).fixed = BasicLength[type].fixed
    BY <2>1, LengthOfMember DEF type
  <2>3. QED
    BY <1>6, <1>10, <2>2 DEF type
<1>11. QED
  BY <1>9, <1>10

\* In such a set, a plain type that a class of the set has the name of is of
\* fixed length.
LEMMA PlainFixed ==
    ASSUME BuildInv, LengthInv, DOMAIN frontend \subseteq Built, NEW ns, ns \subseteq DOMAIN frontend,
           ClosedIn(ns), NEW type \in ns, type \in DOMAIN BasicLength \ IdNames,
           \E t \in DOMAIN Mixed : Mixed[t][version] = type
    PROVE  BasicLength[type].fixed
<1>1. InOrder(classes) /\ DOMAIN frontend \subseteq Names
  BY DEF BuildInv, Collection
<1>2. PICK j \in DOMAIN classes : classes[j].name = type
  BY DEF Built, ClassNames
<1> DEFINE c == classes[j]
           all == ClassMap(classes)
<1>3. all[type] = c /\ DOMAIN all = Built
  BY <1>2, FoundByName DEF Built
<1>4. /\ ~c.virtual /\ BasicLength[type].fixed = c.fixed
      /\ \A m \in ToSet(c.members) : Base(m.type, version) \in DOMAIN BasicLength \ (Names \cup IdNames)
  <2>1. c.name \in DOMAIN BasicLength \ IdNames /\ \E t \in DOMAIN Mixed : Mixed[t][version] = c.name
    BY <1>2
  <2>2. /\ ~c.virtual
        /\ \A m \in ToSet(c.members) : Base(m.type, version) \in DOMAIN BasicLength \ (Names \cup IdNames)
        /\ BasicLength[c.name] = [bytes |-> IF c.aligned THEN RoundUp(c.base) ELSE c.base, fixed |-> c.fixed]
    BY <2>1, MeasuredClass
  <2> HIDE DEF c
  <2>3. BasicLength[c.name].fixed = c.fixed
    BY <2>2
  <2>4. QED
    BY <1>2, <2>2, <2>3 DEF c
<1>5. \A k \in Built : k \in DOMAIN frontend \cup IdNames
  BY <1>1 DEF InOrder, Built, ClassNames
<1> HIDE DEF c, all
<1>6. ASSUME NEW m \in ToSet(c.members)
      PROVE  MemberLength(version, m, all).fixed
  <2> DEFINE base == Base(m.type, version)
  <2>1. base \in DOMAIN BasicLength /\ base \notin DOMAIN all /\ base \notin DOMAIN frontend
    BY <1>1, <1>3, <1>4, <1>5
  <2>2. BasicLength[base].fixed
    BY <1>3, <2>1 DEF ClosedIn, all
  <2>3. QED
    BY <2>1, <2>2, LengthOfMember
<1>7. c.fixed
  BY <1>4, <1>6, FixedByMembers DEF c, all
<1>8. QED
  BY <1>4, <1>7

\* And all its classes have a fixed length: consider the first that has not.
LEMMA ClosedFixed ==
    ASSUME BuildInv, LengthInv, DOMAIN frontend \subseteq Built, NEW ns, ns \subseteq DOMAIN frontend,
           ClosedIn(ns), NEW n \in ns
    PROVE  ClassMap(classes)[n].fixed
<1> DEFINE all == ClassMap(classes)
           bad == {i \in DOMAIN classes : classes[i].name \in ns /\ ~classes[i].fixed}
<1>1. /\ DOMAIN classes = 1..Len(classes) /\ Len(classes) \in Nat
      /\ InOrder(classes)
  BY ListedLength DEF BuildInv
<1>2. \A i \in DOMAIN classes : all[classes[i].name] = classes[i]
  BY FoundByName
<1>3. ASSUME bad # {}
      PROVE  FALSE
  <2>1. bad \subseteq Nat
    BY <1>1
  <2>2. PICK i \in bad : \A j \in bad : i <= j
    BY <1>3, <2>1, LeastNumber
  <2> DEFINE c == classes[i]
             cm == ClassMap(Before(classes, i))
  <2>3. i \in DOMAIN classes /\ c.name \in ns /\ ~c.fixed /\ all[c.name] = c
    BY <1>2
  <2>4. ~c.virtual /\ \A m \in ToSet(c.members) :
            LET type == Base(m.type, version)
            IN  IF type \in DOMAIN frontend THEN type \in ns ELSE BasicLength[type].fixed
    BY <2>3 DEF ClosedIn
  <2>5. PICK m \in ToSet(c.members) : ~MemberLength(version, m, cm).fixed
    BY <2>3, <2>4, FixedByMembers
  <2> DEFINE type == Base(m.type, version)
  <2>6. /\ DOMAIN cm = {classes[j].name : j \in 1..i - 1} /\ DOMAIN cm = ClassNames(Before(classes, i))
        /\ \A j \in 1..i - 1 : j \in DOMAIN classes /\ cm[classes[j].name] = classes[j]
    <3>1. /\ DOMAIN cm = {classes[j].name : j \in 1..i - 1}
          /\ \A j \in 1..i - 1 : j \in DOMAIN classes /\ cm[classes[j].name] = classes[j]
      BY <2>3, FoundByName
    <3>2. DOMAIN cm = ClassNames(Before(classes, i))
      BY DEF ClassMap
    <3> HIDE DEF cm
    <3>3. QED
      BY <3>1, <3>2
  <2>7. /\ type \notin IdNames /\ type \in DOMAIN cm \cup DOMAIN BasicLength
        /\ type \notin DOMAIN cm /\ type \in DOMAIN frontend =>
               \E t \in DOMAIN Mixed : Mixed[t][version] = type
    BY <2>3, <2>6, TypesBefore
  <2>8. IF type \in DOMAIN frontend THEN type \in ns ELSE BasicLength[type].fixed
    BY <2>4
  <2> HIDE DEF cm, type, c
  <2>9. CASE type \in DOMAIN cm
    <3>1. PICK j \in 1..i - 1 : classes[j].name = type
      BY <2>6, <2>9
    <3>2. j \in DOMAIN classes /\ cm[type] = classes[j]
      BY <2>6, <3>1
    <3>3. type \in DOMAIN frontend
      BY <1>1, <2>7, <3>1, <3>2 DEF InOrder
    <3>4. ~(i <= j)
      BY <1>1, <2>3, <3>2
    <3>5. classes[j].fixed
      BY <2>2, <2>8, <3>1, <3>2, <3>3, <3>4
    <3>6. MemberLength(version, m, cm).fixed = cm[type].fixed
      BY <2>9, LengthOfMember DEF type
    <3>7. QED
      BY <2>5, <3>2, <3>5, <3>6
  <2>10. CASE type \notin DOMAIN cm
    <3>1. type \in DOMAIN BasicLength
      BY <2>7, <2>10
    <3>2. MemberLength(version, m, cm).fixed = BasicLength[type].fixed
      BY <2>10, <3>1, LengthOfMember DEF type
    <3>3. BasicLength[type].fixed
      <4>1. CASE type \in DOMAIN frontend
        BY <2>7, <2>8, <2>10, <3>1, <4>1, PlainFixed
      <4>2. QED
        BY <2>8, <4>1
    <3>4. QED
      BY <2>5, <3>2, <3>3
  <2>11. QED
    BY <2>9, <2>10
<1>4. PICK i \in DOMAIN classes : classes[i].name = n
  BY DEF Built, ClassNames
<1>5. QED
  BY <1>2, <1>3, <1>4

\* What the lengths are when the protocol is done.
LEMMA LengthsMean == AllInv /\ LengthInv => LengthsFinal
<1> SUFFICES ASSUME AllInv, LengthInv, outcome = "done", NEW n \in DOMAIN frontend
             PROVE  LET c == ClassMap(classes)[n]
                        now == CalcLengths(version, c.members, c.virtual, ClassMap(classes))
                    IN  /\ c.base = now.base /\ c.offsets = now.offsets
                        /\ c.fixed = now.fixed /\ (c.fixed <=> IsOfFixedLength(n))
  BY DEF LengthsFinal
<1> DEFINE all == ClassMap(classes)
<1>1. BuildInv /\ DOMAIN frontend \subseteq Built
  BY DEF AllInv, FrontInv, CallInv
<1>2. PICK i \in DOMAIN classes : classes[i].name = n
  BY <1>1 DEF Built, ClassNames
<1> DEFINE c == classes[i]
           cm == ClassMap(Before(classes, i))
<1>3. all[n] = c
  BY <1>1, <1>2, FoundByName
<1>4. LET lengths == CalcLengths(version, c.members, c.virtual, cm)
      IN  c.base = lengths.base /\ c.fixed = lengths.fixed /\ c.offsets = lengths.offsets
  BY DEF LengthInv, Sized
<1>5. \A k \in DOMAIN c.members :
          MemberLength(version, c.members[k], cm) = MemberLength(version, c.members[k], all)
  BY <1>1, MemberStays DEF ToSet
<1> HIDE DEF all, c, cm
<1>6. CalcLengths(version, c.members, c.virtual, cm) = CalcLengths(version, c.members, c.virtual, all)
  BY <1>5, LengthsAgree
<1>7. ASSUME c.fixed
      PROVE  IsOfFixedLength(n)
  <2> DEFINE ns == {k \in DOMAIN frontend : all[k].fixed}
  <2>1. n \in ns /\ ns \in SUBSET DOMAIN frontend
    BY <1>3, <1>7
  <2>2. ClosedIn(ns)
    BY <1>1, FixedClosed DEF all
  <2> HIDE DEF ns
  <2>3. QED
    BY <2>1, <2>2 DEF IsOfFixedLength, ClosedIn
<1>8. ASSUME IsOfFixedLength(n)
      PROVE  c.fixed
  <2>1. PICK ns \in SUBSET DOMAIN frontend : n \in ns /\ ClosedIn(ns)
    BY <1>8 DEF IsOfFixedLength, ClosedIn
  <2>2. all[n].fixed
    BY <1>1, <2>1, ClosedFixed DEF all
  <2>3. QED
    BY <1>3, <2>2
<1>9. QED
  BY <1>3, <1>4, <1>6, <1>7, <1>8 DEF all

\* The lengths and offsets of a class are those that the finished protocol
\* gives, although a class that a mixed type stands for may have been built
\* later; and calc_lengths() calls a class fixed exactly if nothing in it, at
\* any depth, varies.
THEOREM LengthsAreFinal == FrontEndSpec => []LengthsFinal
<1>1. FrontEndInit => AllInv /\ LengthInv
  <2> SUFFICES ASSUME FrontEndInit
               PROVE  AllInv /\ LengthInv
    OBVIOUS
  <2>1. AllInv
    BY ProgressInitially
  <2>2. DOMAIN classes = {}
    BY ListedEmpty DEF FrontEndInit
  <2>3. QED
    BY <2>1, <2>2 DEF LengthInv
<1>2. AllInv /\ LengthInv /\ [FrontEndNext]_<<vars, frontVars>> => (AllInv /\ LengthInv)'
  BY ProgressStep, FrontLengths
<1>3. AllInv /\ LengthInv => LengthsFinal
  BY LengthsMean
<1>4. QED
  BY <1>1, <1>2, <1>3, PTL DEF FrontEndSpec
-----------------------------------------------------------------------------
(* Types that nobody knows.                                                 *)

\* The protocols have no class with a member of an unknown type, and a class
\* is called unknown only if the member does not wait for it.
TypesInv ==
    /\ \A i \in DOMAIN ir : ~UnknownIn(inputs[i].decls, inputs[i].version)
    /\ outcome = "unknowntype" => UnawaitedIn(decls, version)

\* When build_protocol() is done, the type of every member is known, since it
\* was when the class was built.
LEMMA DoneTypes ==
    ASSUME BuildInv, CallInv, LengthInv, outcome = "done"
    PROVE  ~UnknownIn(decls, version)
<1> SUFFICES ASSUME NEW i \in DOMAIN decls, NEW m \in ToSet(decls[i].members),
                    decls[i].name \notin IdNames
             PROVE  Base(m.type, version) \in DOMAIN BasicLength \cup NamesIn(decls)
  BY DEF UnknownIn, Lacks
<1> DEFINE n == decls[i].name
           type == Base(m.type, version)
<1>1. Collection /\ Complete /\ Collected = Len(decls) /\ DOMAIN frontend \subseteq Built
  BY DEF BuildInv, CallInv, Complete
<1>2. DOMAIN frontend = NamesIn(decls)
  BY <1>1, CollectedAll
<1>3. n \in DOMAIN frontend /\ frontend[n] = decls[i]
  <2>1. Listed(decls)
    BY <1>1 DEF Collection, Declares, Declared, Listed
  <2>2. DOMAIN decls = 1..Len(decls)
    BY <2>1, ListedLength
  <2>3. QED
    BY <1>1, <2>2 DEF Complete
<1>4. PICK k \in DOMAIN classes : classes[k].name = n
  BY <1>1, <1>3 DEF Built, ClassNames
<1>5. m \in ToSet(classes[k].members)
  BY <1>3, <1>4 DEF LengthInv, Sized
<1>6. type \notin IdNames /\ type \in ClassNames(Before(classes, k)) \cup DOMAIN BasicLength
  BY <1>5, TypesBefore
<1>7. ClassNames(Before(classes, k)) \subseteq Built
  <2>1. DOMAIN ClassMap(Before(classes, k)) = {classes[j].name : j \in 1..k - 1}
        /\ \A j \in 1..k - 1 : j \in DOMAIN classes
    BY FoundByName
  <2>2. DOMAIN ClassMap(Before(classes, k)) = ClassNames(Before(classes, k))
    BY DEF ClassMap
  <2>3. QED
    BY <2>1, <2>2 DEF Built, ClassNames
<1>8. Built \ IdNames \subseteq DOMAIN frontend
  BY <1>1, BuiltMeans
<1>9. QED
  BY <1>2, <1>6, <1>7, <1>8

\* A class that the members of a call wait for has been built at its end.
LEMMA FinishTypes ==
    ASSUME BuildInv, CallInv, Finish, outcome' = "unknowntype"
    PROVE  UnawaitedIn(decls, version)
<1> DEFINE k == Len(stack)
           n == stack[k].name
           d == frontend[n]
<1>1. Callers(stack, Built) /\ Waiting(stack, Built) /\ Listed(stack) /\ Collection
  BY DEF BuildInv, Callers
<1>2. DOMAIN stack = 1..k /\ k \in Nat /\ k > 1 /\ Last(stack) = stack[k]
  <2>1. DOMAIN stack = 1..k /\ k \in Nat
    BY <1>1, ListedLength
  <2>2. k > 1
    BY DEF Finish
  <2>3. QED
    BY <2>1, <2>2 DEF Last
<1>3. k \in DOMAIN stack /\ k # 1 /\ k + 1 \notin DOMAIN stack /\ stack # <<>>
  BY <1>2, EmptySeq
<1>4. stack[k].todo = <<>> /\ ~Known(d)
  <2>1. Running /\ stack[k].todo = <<>> /\ (Known(d) => outcome' = outcome)
    BY <1>2 DEF Finish
  <2>2. QED
    BY <2>1 DEF Running
<1>5. n \in DOMAIN frontend
  BY <1>1, <1>3 DEF Callers
<1>6. PICK i \in DOMAIN decls : decls[i] = d
  BY <1>1, <1>5 DEF Collection, ToSet
<1>7. DOMAIN frontend = NamesIn(decls)
  BY <1>1, <1>3, CollectedAll DEF CallInv, Complete
<1>8. Dependencies(d) \subseteq Built
  <2> SUFFICES ASSUME NEW m \in Dependencies(d)
               PROVE  m \in Built
    OBVIOUS
  <2>1. m \in Built \/ Listing(stack, k, m) \/ Above(stack, k, m)
    BY <1>1, <1>3 DEF Waiting
  <2>2. ~Above(stack, k, m)
    BY <1>3 DEF Above
  <2>3. ~Listing(stack, k, m)
    BY <1>4, ListedEmpty DEF Listing
  <2>4. QED
    BY <2>1, <2>2, <2>3
<1> HIDE DEF d
<1>9. PICK j \in DOMAIN d.members : ~MemberLength(version, d.members[j], ClassMap(classes)).known
  BY <1>4 DEF Known, CalcLengths, LayOut
<1> DEFINE m == d.members[j]
           type == Base(m.type, version)
<1>10. type \notin Built /\ type \notin DOMAIN BasicLength
  <2>1. DOMAIN ClassMap(classes) = Built
    BY DEF ClassMap, Built
  <2>2. /\ type \in DOMAIN ClassMap(classes) => MemberLength(version, m, ClassMap(classes)).known
        /\ type \notin DOMAIN ClassMap(classes) /\ type \in DOMAIN BasicLength =>
               MemberLength(version, m, ClassMap(classes)).known
    BY LengthOfMember
  <2>3. QED
    BY <1>9, <2>1, <2>2
<1>11. ~(m.count = 1 /\ m.type = type /\ type \in NamesIn(decls))
  <2>1. m.count = 1 /\ m.type \in DOMAIN frontend => m.type \in Dependencies(d)
    BY DEF Dependencies, DependsOn
  <2>2. QED
    BY <1>7, <1>8, <1>10, <2>1
<1>12. m \in ToSet(d.members)
  BY DEF ToSet
<1> HIDE DEF m
<1>13. WaitsNot(d, version, NamesIn(decls))
  BY <1>10, <1>11, <1>12 DEF WaitsNot
<1>14. QED
  BY <1>6, <1>13 DEF UnawaitedIn

\* No step of build_protocol() but the end of a call reports such a type.
LEMMA OnlyFinish ==
    ASSUME Next, outcome' = "unknowntype"
    PROVE  Finish
BY DEF Next, Collect, Start, Reuse, Cycle, NotFound, Enter, BuildIdClass, NextName, Done,
       Calls, Fail, Running

\* The front end keeps to it.
LEMMA TypesStep ==
    AllInv /\ LengthInv /\ TypesInv /\ [FrontEndNext]_<<vars, frontVars>> => TypesInv'
<1> SUFFICES ASSUME AllInv, LengthInv, TypesInv, [FrontEndNext]_<<vars, frontVars>>
             PROVE  TypesInv'
  OBVIOUS
<1>1. FrontInv /\ BuildInv /\ CallInv /\ Progress
  BY DEF AllInv, FrontInv
<1>2. CASE ReadFile
  <2>1. outcome' # "unknowntype" /\ ir' = ir /\ outcome = "reading" /\ read < Len(files)
    BY <1>2 DEF ReadFile
  <2>2. read \in Nat /\ Len(files) \in Nat
    BY <1>1, FrontLists DEF FrontInv
  <2>3. ir = <<>>
    BY <1>1, <2>1, <2>2 DEF Progress
  <2>4. DOMAIN ir' = {}
    BY <2>1, <2>3, ListedEmpty
  <2>5. QED
    BY <2>1, <2>4 DEF TypesInv
<1>3. CASE CallBuild \/ AllBuilt
  <2>1. outcome' # "unknowntype" /\ ir' = ir /\ inputs' = inputs
    BY <1>3 DEF CallBuild, AllBuilt, frontVars
  <2>2. QED
    BY <2>1 DEF TypesInv
<1>4. CASE Return
  <2> DEFINE p == [version |-> version, classes |-> classes]
             n == Len(ir)
  <2>1. /\ outcome = "done" /\ ir' = Append(ir, p) /\ outcome' = "reading"
        /\ inputs' = inputs
    BY <1>4 DEF Return
  <2>2. ~UnknownIn(decls, version)
    BY <1>1, <2>1, DoneTypes
  <2>3. version = inputs[n + 1].version /\ decls = inputs[n + 1].decls
    BY <1>1, <2>1 DEF Progress
  <2>4. DOMAIN ir = 1..n /\ n \in Nat /\ Listed(ir)
    BY <1>1, FrontLists DEF FrontInv
  <2> HIDE DEF p, n
  <2>5. DOMAIN ir' = 1..n + 1
    BY <2>1, <2>4, ListedAppend DEF n
  <2>6. \A i \in DOMAIN ir' : i \in DOMAIN ir \/ i = n + 1
    BY <2>4, <2>5
  <2>7. QED
    BY <2>1, <2>2, <2>3, <2>6 DEF TypesInv
<1>5. CASE Next /\ UNCHANGED frontVars
  <2>1. version' = version /\ decls' = decls
    BY <1>5, NextKeeps
  <2>2. ir' = ir /\ inputs' = inputs
    BY <1>5 DEF frontVars
  <2>3. outcome' = "unknowntype" => UnawaitedIn(decls, version)
    BY <1>1, <1>5, OnlyFinish, FinishTypes
  <2>4. QED
    BY <2>1, <2>2, <2>3 DEF TypesInv
<1>6. CASE UNCHANGED <<vars, frontVars>>
  BY <1>6 DEF TypesInv, vars, frontVars
<1>7. QED
  BY <1>2, <1>3, <1>4, <1>5, <1>6 DEF FrontEndNext

\* What is known of the types is what the files say of them.
LEMMA TypesMean == AllInv /\ TypesInv => FilesHonoured
<1> SUFFICES ASSUME AllInv, TypesInv
             PROVE  FilesHonoured
  OBVIOUS
<1>1. FrontInv /\ Progress /\ StructsReported /\ ProtocolsComplete
  BY ProgressMeans DEF AllInv
<1>2. /\ DOMAIN files = 1..Len(files) /\ Len(files) \in Nat
      /\ DOMAIN inputs = 1..Len(inputs) /\ Len(inputs) \in Nat
      /\ DOMAIN ir = 1..Len(ir) /\ Len(ir) \in Nat
  BY <1>1, FrontLists
<1>3. ASSUME read = Len(files)
      PROVE  /\ Usable
             /\ \A i \in DOMAIN inputs :
                   LET v == inputs[i].version
                       ds == inputs[i].decls
                   IN  (Unknown(v) <=> UnknownIn(ds, v)) /\ (Unawaited(v) <=> UnawaitedIn(ds, v))
  <2>1. Usable
    BY <1>1, <1>3 DEF FrontInv, Progress, Usable
  <2>2. \A i \in DOMAIN inputs : Made(files, inputs[i].decls, inputs[i].version, Len(files))
    BY <1>1, <1>3 DEF Progress, Gathered
  <2>3. QED
    BY <2>1, <2>2, MadeMeans
<1>4. ASSUME outcome = "built", NEW v \in Targets
      PROVE  ~Unknown(v)
  <2>1. /\ read = Len(files) /\ DOMAIN ir = DOMAIN inputs
        /\ {inputs[i].version : i \in DOMAIN inputs} =
               {w \in Targets : \E k \in DOMAIN files : w \in WireVersions(files[k])}
    BY <1>1, <1>2, <1>4 DEF Progress, Gathered
  <2>2. CASE \E k \in DOMAIN files : v \in WireVersions(files[k])
    <3>1. v \in {inputs[i].version : i \in DOMAIN inputs}
      BY <2>1, <2>2
    <3>2. PICK i \in DOMAIN inputs : inputs[i].version = v
      BY <3>1
    <3>3. ~UnknownIn(inputs[i].decls, v)
      BY <2>1, <3>2 DEF TypesInv
    <3>4. QED
      BY <1>3, <2>1, <3>2, <3>3
  <2>3. CASE ~\E k \in DOMAIN files : v \in WireVersions(files[k])
    BY <1>3, <2>1, <2>3, NothingFor
  <2>4. QED
    BY <2>2, <2>3
<1>5. ASSUME outcome = "unknowntype"
      PROVE  Unawaited(version)
  <2>1. /\ read = Len(files) /\ Len(ir) < Len(inputs)
        /\ version = inputs[Len(ir) + 1].version /\ decls = inputs[Len(ir) + 1].decls
    BY <1>1, <1>5 DEF Progress
  <2>2. Len(ir) + 1 \in DOMAIN inputs
    BY <1>2, <2>1
  <2>3. UnawaitedIn(decls, version)
    BY <1>5 DEF TypesInv
  <2>4. QED
    BY <1>3, <2>1, <2>2, <2>3
<1>6. ErrorsReported
  BY <1>1, <1>4, <1>5 DEF ErrorsReported, StructsReported
<1>7. QED
  BY <1>1, <1>6 DEF FilesHonoured

\* Whatever the input files hold, the generator ends with a protocol of every
\* target version that a file is for, with the classes of all files for it,
\* or with an error that is in the files; and never with a protocol when
\* there is one.
THEOREM FilesAreHonoured == FrontEndSpec => []FilesHonoured
<1>1. FrontEndInit => AllInv /\ LengthInv /\ TypesInv
  <2> SUFFICES ASSUME FrontEndInit
               PROVE  AllInv /\ LengthInv /\ TypesInv
    OBVIOUS
  <2>1. AllInv
    BY ProgressInitially
  <2>2. DOMAIN classes = {} /\ DOMAIN ir = {} /\ outcome = "reading"
    BY ListedEmpty DEF FrontEndInit
  <2>3. QED
    BY <2>1, <2>2 DEF LengthInv, TypesInv
<1>2. AllInv /\ LengthInv /\ TypesInv /\ [FrontEndNext]_<<vars, frontVars>>
          => (AllInv /\ LengthInv /\ TypesInv)'
  BY ProgressStep, FrontLengths, TypesStep
<1>3. AllInv /\ TypesInv => FilesHonoured
  BY TypesMean
<1>4. QED
  BY <1>1, <1>2, <1>3, PTL DEF FrontEndSpec
=============================================================================

-------------------------- MODULE LociMembersProofs --------------------------
(***************************************************************************)
(* Who owns the buffers of LOCI, for all kinds of messages, all contents   *)
(* and whatever bytes a peer sends.                                        *)
(*                                                                         *)
(* What an object owns is decided by two fields, its parent and its        *)
(* buffer: no window, and no object in storage of the program, owns one.   *)
(* Every operation keeps the owners of all buffers, or makes one, or takes *)
(* one away together with its buffer.                                      *)
(***************************************************************************)
EXTENDS Messages, FiniteSetTheorems, TLAPS

Owns(objs, o, r) == objs[o].up = "none" /\ objs[o].home = r

\* The fields of an object, which is gone or has a buffer it may have lost.
Object(x) ==
    /\ DOMAIN x = {"is", "home", "up", "off", "len"}
    /\ x.home \in Roots \cup {"none"}
    /\ x.is = "gone" => x = Gone

\* A window has a parent, which is a message.
Window(x) == x = Gone \/ x.up \in {"msg", "copy"}

Shaped(objs) ==
    /\ objs = [o \in Objects |-> objs[o]]
    /\ \A o \in Objects : Object(objs[o])
    /\ \A o \in Windows : Window(objs[o])

Allocated(mem) ==
    /\ mem = [r \in Roots |-> mem[r]]
    /\ \A r \in Roots : DOMAIN mem[r] = {"st", "cells", "alloc"}

\* A buffer that is in use has one owner, another has none.
Owned(objs, mem) ==
    \A r \in Roots :
        /\ mem[r].st = "live" => \E o \in Objects : \A p \in Objects : Owns(objs, p, r) <=> p = o
        /\ mem[r].st # "live" => \A p \in Objects : ~Owns(objs, p, r)

OwnerInv == Shaped(ob) /\ Allocated(heap) /\ Owned(ob, heap) /\ fault # "double free"
-----------------------------------------------------------------------------
(* Owners.                                                                  *)

\* Nothing changes hands.
LEMMA OwnersKept ==
    ASSUME Owned(ob, heap), NEW objs, NEW mem,
           \A o \in Objects, r \in Roots : Owns(objs, o, r) <=> Owns(ob, o, r),
           \A r \in Roots : mem[r].st = "live" <=> heap[r].st = "live"
    PROVE  Owned(objs, mem)
BY DEF Owned

\* A new owner, of a buffer that had none.
LEMMA OwnerMade ==
    ASSUME Owned(ob, heap), NEW objs, NEW mem, NEW n \in Objects, NEW b \in Roots,
           heap[b].st # "live", mem[b].st = "live",
           \A r \in Roots : Owns(objs, n, r) <=> r = b,
           \A r \in Roots : ~Owns(ob, n, r),
           \A o \in Objects \ {n}, r \in Roots : Owns(objs, o, r) <=> Owns(ob, o, r),
           \A r \in Roots \ {b} : mem[r].st = "live" <=> heap[r].st = "live"
    PROVE  Owned(objs, mem)
<1> SUFFICES ASSUME NEW r \in Roots
             PROVE  /\ mem[r].st = "live" =>
                           \E o \in Objects : \A p \in Objects : Owns(objs, p, r) <=> p = o
                    /\ mem[r].st # "live" => \A p \in Objects : ~Owns(objs, p, r)
  BY DEF Owned
<1>1. CASE r = b
  BY <1>1 DEF Owned
<1>2. CASE r # b
  BY <1>2 DEF Owned
<1>3. QED
  BY <1>1, <1>2

\* The owner of a buffer loses it, and it is not in use any more.
LEMMA OwnerLost ==
    ASSUME Owned(ob, heap), NEW objs, NEW mem, NEW n \in Objects, NEW b \in Roots,
           Owns(ob, n, b), mem[b].st # "live",
           \A r \in Roots : ~Owns(objs, n, r),
           \A o \in Objects \ {n}, r \in Roots : Owns(objs, o, r) <=> Owns(ob, o, r),
           \A r \in Roots \ {b} : mem[r].st = "live" <=> heap[r].st = "live"
    PROVE  Owned(objs, mem)
<1>1. \A r \in Roots : Owns(ob, n, r) <=> r = b
  BY DEF Owns
<1> SUFFICES ASSUME NEW r \in Roots
             PROVE  /\ mem[r].st = "live" =>
                           \E o \in Objects : \A p \in Objects : Owns(objs, p, r) <=> p = o
                    /\ mem[r].st # "live" => \A p \in Objects : ~Owns(objs, p, r)
  BY DEF Owned
<1>2. CASE r = b
  BY <1>1, <1>2 DEF Owned
<1>3. CASE r # b
  BY <1>1, <1>3 DEF Owned
<1>4. QED
  BY <1>2, <1>3

\* The invariant says that each buffer in use has exactly one owner.
LEMMA OwnersCounted == OwnerInv => OneOwner
<1> SUFFICES ASSUME OwnerInv
             PROVE  OneOwner
  OBVIOUS
<1> SUFFICES ASSUME NEW r \in Roots
             PROVE  LET owners == {o \in Objects : ob[o].up = "none" /\ ob[o].home = r}
                    IN  CASE heap[r].st = "live" -> Cardinality(owners) = 1
                          [] OTHER -> owners = {}
  BY DEF OneOwner, OwnerInv
<1> DEFINE owners == {o \in Objects : ob[o].up = "none" /\ ob[o].home = r}
<1>1. owners = {o \in Objects : Owns(ob, o, r)}
  BY DEF Owns
<1> HIDE DEF owners
<1>2. CASE heap[r].st = "live"
  <2>1. PICK o \in Objects : \A p \in Objects : Owns(ob, p, r) <=> p = o
    BY <1>2 DEF OwnerInv, Owned
  <2>2. owners = {o}
    BY <1>1, <2>1
  <2>3. Cardinality(owners) = 1
    BY <2>2, FS_Singleton
  <2>4. QED
    BY <1>2, <2>3 DEF owners
<1>3. CASE heap[r].st # "live"
  <2>1. owners = {}
    BY <1>1, <1>3 DEF OwnerInv, Owned
  <2>2. QED
    BY <1>3, <2>1 DEF owners
<1>4. QED
  BY <1>2, <1>3
-----------------------------------------------------------------------------
(* Objects and buffers.                                                     *)

\* Objects and buffers have different names.
LEMMA Distinct ==
    /\ Roots \subseteq Objects /\ Windows \subseteq Objects /\ Roots \cap Windows = {}
    /\ "msg" \in Roots /\ "copy" \in Roots /\ "list" \in Roots
    /\ "none" \notin Objects /\ "double free" \notin Objects /\ "storage" \notin Objects
    /\ "msg" # "copy" /\ "msg" # "list" /\ "copy" # "list"
BY DEF Roots, Windows, Objects

\* An object that is gone.
LEMMA GoneObject ==
    Object(Gone) /\ Window(Gone) /\ Gone.home = "none" /\ Gone.up = "none" /\ Gone.is = "gone"
<1>1. Gone.home = "none" /\ Gone.up = "none" /\ Gone.is = "gone" /\ Window(Gone)
  BY DEF Window, Gone
<1>2. Object(Gone)
  BY DEF Object, Gone
<1>3. QED
  BY <1>1, <1>2

\* A new object with a buffer.
LEMMA NewRoot ==
    ASSUME NEW is, is # "gone", NEW home \in Roots, NEW len, NEW x, x = Root(is, home, len)
    PROVE  Object(x) /\ x.is = is /\ x.home = home /\ x.up = "none"
BY DEF Object, Root, Gone

\* An object that is gone owns nothing.
LEMMA GoneOwnsNothing ==
    ASSUME NEW objs, NEW o, objs[o] = Gone, NEW r \in Roots
    PROVE  ~Owns(objs, o, r)
BY Distinct, GoneObject DEF Owns

\* Nor does a window.
LEMMA WindowOwnsNothing ==
    ASSUME NEW objs, NEW o, Window(objs[o]), NEW r \in Roots
    PROVE  ~Owns(objs, o, r)
<1>1. CASE objs[o] = Gone
  BY <1>1, GoneOwnsNothing
<1>2. CASE objs[o].up \in {"msg", "copy"}
  BY <1>2 DEF Owns
<1>3. QED
  BY <1>1, <1>2 DEF Window

\* Dropping windows changes nothing else.
LEMMA Dropped ==
    ASSUME NEW objs, Shaped(objs), NEW o, NEW objs2, objs2 = WithoutWindows(objs, o)
    PROVE  /\ Shaped(objs2)
           /\ \A p \in Roots : objs2[p] = objs[p]
           /\ \A p \in Objects, r \in Roots : Owns(objs2, p, r) <=> Owns(objs, p, r)
<1>1. /\ objs2 = [p \in Objects |-> objs2[p]]
      /\ \A p \in Objects : objs2[p] = IF p \in Windows /\ objs[p].up = o THEN Gone ELSE objs[p]
  BY DEF WithoutWindows
<1>2. Shaped(objs2)
  BY <1>1, Distinct, GoneObject DEF Shaped
<1>3. \A p \in Roots : objs2[p] = objs[p]
  BY <1>1, Distinct
<1>4. ASSUME NEW p \in Objects, NEW r \in Roots
      PROVE  Owns(objs2, p, r) <=> Owns(objs, p, r)
  <2>1. CASE p \in Windows
    BY <1>2, <2>1, WindowOwnsNothing DEF Shaped
  <2>2. CASE p \notin Windows
    BY <1>1, <2>2 DEF Owns
  <2>3. QED
    BY <2>1, <2>2
<1>5. QED
  BY <1>2, <1>3, <1>4

\* One object or buffer is replaced.
With(f, a, x) == [f EXCEPT ![a] = x]

\* An object is replaced.
LEMMA ObjectSet ==
    ASSUME NEW objs, Shaped(objs), NEW o \in Objects, NEW x, Object(x), o \in Windows => Window(x),
           NEW objs2, objs2 = With(objs, o, x)
    PROVE  /\ Shaped(objs2) /\ objs2[o] = x
           /\ \A p \in Objects \ {o} : objs2[p] = objs[p]
BY DEF Shaped, With

\* A buffer is replaced.
LEMMA BufferSet ==
    ASSUME NEW mem, Allocated(mem), NEW b \in Roots, NEW x,
           DOMAIN x = {"st", "cells", "alloc"},
           NEW mem2, mem2 = With(mem, b, x)
    PROVE  /\ Allocated(mem2) /\ mem2[b] = x
           /\ \A r \in Roots \ {b} : mem2[r] = mem[r]
BY DEF Allocated, With

\* New buffers.
LEMMA NewBuffers ==
    /\ DOMAIN NoBuffer = {"st", "cells", "alloc"} /\ NoBuffer.st = "none"
    /\ \A cells, alloc :
          LET x == Buffer(cells, alloc)
          IN  DOMAIN x = {"st", "cells", "alloc"} /\ x.st = "live"
BY DEF NoBuffer, Buffer
-----------------------------------------------------------------------------
(* The steps.                                                               *)

\* A step after which everything has the owner it had.
LEMMA StepKeeps ==
    ASSUME OwnerInv, Shaped(ob'), Allocated(heap'), fault' # "double free",
           \A o \in Objects, r \in Roots : Owns(ob', o, r) <=> Owns(ob, o, r),
           \A r \in Roots : heap'[r].st = "live" <=> heap[r].st = "live"
    PROVE  OwnerInv'
<1>1. Owned(ob', heap')
  BY OwnersKept DEF OwnerInv
<1>2. QED
  BY <1>1 DEF OwnerInv

\* A step that makes a root, which owns a buffer that was not in use.
LEMMA StepMakes ==
    ASSUME OwnerInv, NEW objs, Shaped(objs),
           \A o \in Objects, r \in Roots : Owns(objs, o, r) <=> Owns(ob, o, r),
           NEW n \in Roots, objs[n] = Gone,
           NEW x, Object(x), x.up = "none", x.home \in Roots, heap[x.home].st # "live",
           NEW y, DOMAIN y = {"st", "cells", "alloc"}, y.st = "live",
           ob' = With(objs, n, x), heap' = With(heap, x.home, y), fault' = fault
    PROVE  OwnerInv'
<1>1. n \in Objects /\ n \notin Windows
  BY Distinct
<1>2. /\ Shaped(ob') /\ ob'[n] = x
      /\ \A p \in Objects \ {n} : ob'[p] = objs[p]
  BY <1>1, ObjectSet
<1> DEFINE b == x.home
<1>3. b \in Roots /\ heap[b].st # "live" /\ heap' = With(heap, b, y) /\ x.home = b
      /\ Allocated(heap) /\ Owned(ob, heap)
  BY DEF OwnerInv
<1> HIDE DEF b
<1>4. /\ Allocated(heap') /\ heap'[b] = y
      /\ \A r \in Roots \ {b} : heap'[r] = heap[r]
  BY <1>3, BufferSet
<1>5. \A r \in Roots : ~Owns(ob, n, r)
  BY <1>1, GoneOwnsNothing
<1>6. \A r \in Roots : Owns(ob', n, r) <=> r = b
  BY <1>2, <1>3 DEF Owns
<1>7. \A o \in Objects \ {n}, r \in Roots : Owns(ob', o, r) <=> Owns(ob, o, r)
  BY <1>2 DEF Owns
<1>8. heap'[b].st = "live" /\ \A r \in Roots \ {b} : heap'[r].st = "live" <=> heap[r].st = "live"
  BY <1>4
<1>9. Owned(ob', heap')
  BY <1>1, <1>3, <1>5, <1>6, <1>7, <1>8, OwnerMade
<1>10. QED
  BY <1>2, <1>4, <1>9 DEF OwnerInv

\* What the program may use has a buffer.
LEMMA UsableHome ==
    ASSUME NEW o, Usable(o)
    PROVE  ob[o].home \in Roots /\ heap[ob[o].home].st \in {"live", "taken"} /\ fault = "none"
BY DEF Usable, Going

\* A step that replaces one object by another that owns the same.
LEMMA StepSets ==
    ASSUME OwnerInv, NEW objs, Shaped(objs),
           \A o \in Objects, r \in Roots : Owns(objs, o, r) <=> Owns(ob, o, r),
           NEW n \in Objects, NEW x, Object(x), n \in Windows => Window(x),
           \A r \in Roots : Owns(ob, n, r) <=> (x.up = "none" /\ x.home = r),
           ob' = With(objs, n, x), Allocated(heap'), fault' # "double free",
           \A r \in Roots : heap'[r].st = "live" <=> heap[r].st = "live"
    PROVE  OwnerInv'
<1>1. Shaped(ob')
  BY ObjectSet
<1>2. ob'[n] = x /\ \A p \in Objects \ {n} : ob'[p] = objs[p]
  <2>1. objs = [o \in Objects |-> objs[o]] /\ ob' = [objs EXCEPT ![n] = x]
    BY DEF Shaped, With
  <2>2. QED
    BY <2>1
<1>3. ASSUME NEW p \in Objects, NEW r \in Roots
      PROVE  Owns(ob', p, r) <=> Owns(ob, p, r)
  <2>1. CASE p = n
    BY <1>2, <2>1 DEF Owns
  <2>2. CASE p # n
    <3>1. Owns(ob', p, r) <=> Owns(objs, p, r)
      BY <1>2, <2>2 DEF Owns
    <3>2. QED
      BY <3>1
  <2>3. QED
    BY <2>1, <2>2
<1>4. QED
  BY <1>1, <1>3, StepKeeps

\* A step that takes a buffer from its owner, and out of use.
LEMMA StepLoses ==
    ASSUME OwnerInv, NEW objs, Shaped(objs),
           \A o \in Objects, r \in Roots : Owns(objs, o, r) <=> Owns(ob, o, r),
           NEW n \in Objects, NEW x, Object(x), n \in Windows => Window(x),
           x.home = "none",
           NEW b \in Roots, Owns(ob, n, b),
           NEW y, DOMAIN y = {"st", "cells", "alloc"}, y.st # "live",
           ob' = With(objs, n, x), heap' = With(heap, b, y), fault' = fault
    PROVE  OwnerInv'
<1>1. Shaped(ob') /\ ob'[n] = x /\ \A p \in Objects \ {n} : ob'[p] = objs[p]
  BY ObjectSet
<1>2. Allocated(heap) /\ Owned(ob, heap)
  BY DEF OwnerInv
<1>3. /\ Allocated(heap') /\ heap'[b] = y
      /\ \A r \in Roots \ {b} : heap'[r] = heap[r]
  BY <1>2, BufferSet
<1>4. \A r \in Roots : ~Owns(ob', n, r)
  BY <1>1, Distinct DEF Owns
<1>5. \A o \in Objects \ {n}, r \in Roots : Owns(ob', o, r) <=> Owns(ob, o, r)
  BY <1>1 DEF Owns
<1>6. heap'[b].st # "live" /\ \A r \in Roots \ {b} : heap'[r].st = "live" <=> heap[r].st = "live"
  BY <1>3
<1>7. Owned(ob', heap')
  BY <1>2, <1>4, <1>5, <1>6, OwnerLost
<1>8. QED
  BY <1>1, <1>3, <1>7 DEF OwnerInv

\* A set accessor changes lengths and content.
LEMMA FinishStep ==
    ASSUME OwnerInv, NEW o \in Roots, Usable(o),
           NEW b, NEW delta, NEW value, Finish(o, b, delta, value)
    PROVE  OwnerInv'
<1> DEFINE len == ob[o].len + delta
           objs == WithoutWindows(ob, o)
           h == ob[o].home
<1>1. h \in Roots /\ fault = "none" /\ o \in Objects /\ o \notin Windows
  BY UsableHome, Distinct
<1>2. CASE len # Len(b)
  <2>1. fault' = o /\ ob' = ob /\ heap' = heap
    BY <1>2 DEF Finish
  <2>2. fault' # "double free"
    BY <1>1, <2>1, Distinct
  <2>3. QED
    BY <2>1, <2>2 DEF OwnerInv
<1>3. CASE len = Len(b)
  <2>1. /\ heap' = [heap EXCEPT ![h].cells = Lengthened(b, len)]
        /\ ob' = [objs EXCEPT ![o].len = len]
        /\ fault' = fault
    BY <1>3 DEF Finish
  <2>0. objs = WithoutWindows(ob, o)
    OBVIOUS
  <2> HIDE DEF len, objs, h
  <2>2. /\ Shaped(objs) /\ objs[o] = ob[o]
        /\ \A p \in Objects, r \in Roots : Owns(objs, p, r) <=> Owns(ob, p, r)
    BY <1>1, <2>0, Dropped DEF OwnerInv
  <2>3. ob[o].is # "gone" /\ Object(ob[o])
    BY <1>1 DEF Usable, Exists, OwnerInv, Shaped
  <2> DEFINE x == [ob[o] EXCEPT !.len = len]
  <2>4. Object(x) /\ x.up = ob[o].up /\ x.home = ob[o].home
    BY <2>3 DEF Object
  <2>5. ob' = With(objs, o, x)
    BY <2>1, <2>2 DEF With
  <2> HIDE DEF x
  <2>6. Shaped(ob') /\ ob'[o] = x /\ \A p \in Objects \ {o} : ob'[p] = objs[p]
    BY <1>1, <2>2, <2>4, <2>5, ObjectSet
  <2>7. \A p \in Objects, r \in Roots : Owns(ob', p, r) <=> Owns(ob, p, r)
    BY <2>2, <2>4, <2>6 DEF Owns
  <2>8. Allocated(heap') /\ \A r \in Roots : heap'[r].st = heap[r].st
    BY <1>1, <2>1 DEF OwnerInv, Allocated
  <2>9. fault' # "double free"
    BY <2>1 DEF OwnerInv
  <2>10. QED
    BY <2>6, <2>7, <2>8, <2>9, StepKeeps
<1>4. QED
  BY <1>2, <1>3

\* of_<class>_new() makes the message, and its buffer.
LEMMA NewStep == OwnerInv /\ New => OwnerInv'
<1> SUFFICES ASSUME OwnerInv, New
             PROVE  OwnerInv'
  OBVIOUS
<1> DEFINE objs == WithoutWindows(ob, "msg")
           x == Root("message", "msg", FixedLen(kind))
           y == Buffer(Fresh, Alloc[kind])
<1>0. x = Root("message", "msg", FixedLen(kind))
  OBVIOUS
<1>1. /\ ob["msg"].is = "gone" /\ heap["msg"] = NoBuffer
      /\ ob' = With(objs, "msg", x) /\ heap' = With(heap, "msg", y) /\ fault' = fault
  BY DEF New, Exists, With
<1> HIDE DEF x
<1>2. Object(x) /\ x.home = "msg" /\ x.up = "none"
  <2>1. "msg" \in Roots
    BY Distinct
  <2>2. QED
    BY <1>0, <2>1, NewRoot
<1>3. DOMAIN y = {"st", "cells", "alloc"} /\ y.st = "live" /\ heap["msg"].st # "live"
  BY <1>1, NewBuffers
<1>4. objs = WithoutWindows(ob, "msg")
  OBVIOUS
<1> HIDE DEF objs, x, y
<1>5. ob["msg"] = Gone
  BY <1>1, Distinct DEF OwnerInv, Shaped, Object
<1>6. /\ Shaped(objs) /\ objs["msg"] = Gone
      /\ \A p \in Objects, r \in Roots : Owns(objs, p, r) <=> Owns(ob, p, r)
  BY <1>4, <1>5, Distinct, Dropped DEF OwnerInv
<1>7. QED
  BY <1>1, <1>2, <1>3, <1>6, Distinct, StepMakes

\* The program makes a list of its own.
LEMMA NewListStep == OwnerInv /\ (\E es \in {<<>>} \cup {<<e>> : e \in Elements} : NewList(es)) => OwnerInv'
<1> SUFFICES ASSUME OwnerInv, NEW es, NewList(es)
             PROVE  OwnerInv'
  OBVIOUS
<1> DEFINE cells == FlattenSeq([i \in DOMAIN es |-> ElementCells(es[i])])
           x == Root("list", "list", Len(cells))
           y == Buffer(cells, Alloc[kind])
<1>0. x = Root("list", "list", Len(cells))
  OBVIOUS
<1>1. /\ ob["list"].is = "gone" /\ heap["list"] = NoBuffer
      /\ ob' = With(ob, "list", x) /\ heap' = With(heap, "list", y) /\ fault' = fault
  BY DEF NewList, Exists, With
<1> HIDE DEF x
<1>2. Object(x) /\ x.home = "list" /\ x.up = "none"
  <2>1. "list" \in Roots
    BY Distinct
  <2>2. QED
    BY <1>0, <2>1, NewRoot
<1>3. DOMAIN y = {"st", "cells", "alloc"} /\ y.st = "live" /\ heap["list"].st # "live"
  BY <1>1, NewBuffers
<1> HIDE DEF x, y
<1>4. ob["list"] = Gone /\ Shaped(ob)
  BY <1>1, Distinct DEF OwnerInv, Shaped, Object
<1>5. QED
  BY <1>1, <1>2, <1>3, <1>4, Distinct, StepMakes

\* of_object_dup() makes a copy with a buffer of its own.
LEMMA DupStep == ASSUME NEW o PROVE OwnerInv /\ Dup(o) => OwnerInv'
<1> SUFFICES ASSUME OwnerInv, Dup(o)
             PROVE  OwnerInv'
  OBVIOUS
<1> DEFINE cells == Slice(Cells(o), ob[o].off, ob[o].off + ob[o].len)
           objs == WithoutWindows(ob, "copy")
           x == Root(ob[o].is, "copy", Len(cells))
           y == Buffer(cells, Len(cells))
<1>0. x = Root(ob[o].is, "copy", Len(cells))
  OBVIOUS
<1>1. /\ ob["copy"].is = "gone" /\ heap["copy"] = NoBuffer /\ ob[o].is # "gone"
      /\ ob' = With(objs, "copy", x) /\ heap' = With(heap, "copy", y) /\ fault' = fault
  BY DEF Dup, Usable, Exists, With
<1> HIDE DEF x
<1>2. Object(x) /\ x.home = "copy" /\ x.up = "none"
  <2>1. "copy" \in Roots /\ ob[o].is # "gone"
    BY <1>1, Distinct
  <2>2. QED
    BY <1>0, <2>1, NewRoot
<1>3. DOMAIN y = {"st", "cells", "alloc"} /\ y.st = "live" /\ heap["copy"].st # "live"
  BY <1>1, NewBuffers
<1>4. objs = WithoutWindows(ob, "copy")
  OBVIOUS
<1> HIDE DEF objs, x, y
<1>5. ob["copy"] = Gone
  BY <1>1, Distinct DEF OwnerInv, Shaped, Object
<1>6. /\ Shaped(objs) /\ objs["copy"] = Gone
      /\ \A p \in Objects, r \in Roots : Owns(objs, p, r) <=> Owns(ob, p, r)
  BY <1>4, <1>5, Distinct, Dropped DEF OwnerInv
<1>7. QED
  BY <1>1, <1>2, <1>3, <1>6, Distinct, StepMakes

\* of_object_new_from_message() takes the bytes over.
LEMMA NewFromMessageStep == ASSUME NEW r \in Roots PROVE OwnerInv /\ NewFromMessage(r) => OwnerInv'
<1> SUFFICES ASSUME OwnerInv, NewFromMessage(r)
             PROVE  OwnerInv'
  OBVIOUS
<1> DEFINE cells == heap[r].cells
           objs == WithoutWindows(ob, "copy")
           x == Root("message", r, Len(cells))
           y == Buffer(cells, Len(cells))
<1>0. x = Root("message", r, Len(cells))
  OBVIOUS
<1>1. /\ ob["copy"].is = "gone" /\ heap[r].st = "taken"
      /\ ob' = With(objs, "copy", x) /\ heap' = With(heap, r, y) /\ fault' = fault
  BY DEF NewFromMessage, Exists, With
<1> HIDE DEF x
<1>2. Object(x) /\ x.home = r /\ x.up = "none"
  BY <1>0, NewRoot
<1>3. DOMAIN y = {"st", "cells", "alloc"} /\ y.st = "live"
  BY NewBuffers
<1>4. objs = WithoutWindows(ob, "copy")
  OBVIOUS
<1> HIDE DEF objs, x, y
<1>5. ob["copy"] = Gone
  BY <1>1, Distinct DEF OwnerInv, Shaped, Object
<1>6. /\ Shaped(objs) /\ objs["copy"] = Gone
      /\ \A p \in Objects, b \in Roots : Owns(objs, p, b) <=> Owns(ob, p, b)
  BY <1>4, <1>5, Distinct, Dropped DEF OwnerInv
<1>7. heap[r].st # "live"
  BY <1>1
<1>8. QED
  BY <1>1, <1>2, <1>3, <1>6, <1>7, Distinct, StepMakes

\* of_object_wire_buffer_steal() leaves the object without its buffer.
LEMMA StealStep == ASSUME NEW o \in Objects PROVE OwnerInv /\ Steal(o) => OwnerInv'
<1> SUFFICES ASSUME OwnerInv, Steal(o)
             PROVE  OwnerInv'
  OBVIOUS
<1> DEFINE objs == WithoutWindows(ob, o)
           b == ob[o].home
           x == [ob[o] EXCEPT !.home = "none"]
           y == [heap[b] EXCEPT !.st = "taken"]
<1>1. /\ Usable(o) /\ o \in Roots /\ ob[o].is = "message" /\ ob[o].up = "none"
      /\ heap' = [heap EXCEPT ![b].st = "taken"] /\ ob' = [objs EXCEPT ![o].home = "none"]
      /\ fault' = fault
  BY DEF Steal
<1>2. b \in Roots /\ Owns(ob, o, b)
  BY <1>1, UsableHome DEF Owns
<1>3. heap' = With(heap, b, y)
  BY <1>1 DEF With
<1>4. objs = WithoutWindows(ob, o)
  OBVIOUS
<1> HIDE DEF objs, b
<1>5. /\ Shaped(objs) /\ objs[o] = ob[o]
      /\ \A p \in Objects, r \in Roots : Owns(objs, p, r) <=> Owns(ob, p, r)
  BY <1>1, <1>4, Dropped DEF OwnerInv
<1>6. ob' = With(objs, o, x)
  BY <1>1, <1>5 DEF With
<1>7. Object(ob[o]) /\ Allocated(heap)
  BY DEF OwnerInv, Shaped
<1>8. Object(x) /\ x.home = "none"
  BY <1>1, <1>7 DEF Object
<1>9. DOMAIN y = {"st", "cells", "alloc"} /\ y.st = "taken"
  BY <1>2, <1>7 DEF Allocated
<1>10. o \notin Windows /\ y.st # "live"
  BY <1>1, <1>9, Distinct
<1> HIDE DEF x, y
<1>11. QED
  BY <1>1, <1>2, <1>3, <1>5, <1>6, <1>8, <1>9, <1>10, StepLoses

\* of_object_delete() frees the buffer of an object that owns one.
LEMMA DeleteStep == ASSUME NEW o \in Objects PROVE OwnerInv /\ Delete(o) => OwnerInv'
<1> SUFFICES ASSUME OwnerInv, Delete(o)
             PROVE  OwnerInv'
  OBVIOUS
<1> DEFINE objs == WithoutWindows(ob, o)
           b == ob[o].home
<1>1. ob[o].is # "gone" /\ ob' = With(objs, o, Gone)
  BY DEF Delete, Exists, With
<1>2. objs = WithoutWindows(ob, o)
  OBVIOUS
<1>3. b \in Roots \cup {"none"}
  BY DEF OwnerInv, Shaped, Object
<1>4. CASE ob[o].up = "none" /\ b \in Roots
  <2>1. Owns(ob, o, b) /\ heap[b].st = "live"
    BY <1>4 DEF Owns, OwnerInv, Owned
  <2>2. heap' = With(heap, b, NoBuffer) /\ fault' = fault
    BY <1>4, <2>1, Distinct DEF Delete, FreeBufferOf, Release, With
  <2> HIDE DEF objs, b
  <2>3. /\ Shaped(objs)
        /\ \A p \in Objects, r \in Roots : Owns(objs, p, r) <=> Owns(ob, p, r)
    BY <1>2, Dropped DEF OwnerInv
  <2>4. DOMAIN NoBuffer = {"st", "cells", "alloc"} /\ NoBuffer.st # "live"
    BY NewBuffers
  <2>5. Object(Gone) /\ Window(Gone) /\ Gone.home = "none"
    BY GoneObject
  <2>6. b \in Roots
    BY <1>4
  <2>7. QED
    BY <1>1, <2>1, <2>2, <2>3, <2>4, <2>5, <2>6, StepLoses
<1>5. CASE ~(ob[o].up = "none" /\ b \in Roots)
  <2>1. heap' = heap /\ fault' = fault
    BY <1>3, <1>5 DEF Delete, FreeBufferOf
  <2> HIDE DEF objs
  <2>2. /\ Shaped(objs)
        /\ \A p \in Objects, r \in Roots : Owns(objs, p, r) <=> Owns(ob, p, r)
    BY <1>2, Dropped DEF OwnerInv
  <2>3. Object(Gone) /\ Window(Gone) /\ Gone.home = "none" /\ "none" \notin Roots
    BY GoneObject, Distinct
  <2>4. \A r \in Roots : Owns(ob, o, r) <=> (Gone.up = "none" /\ Gone.home = r)
    BY <1>5, <2>3 DEF Owns
  <2>5. Allocated(heap') /\ fault' # "double free"
        /\ \A r \in Roots : heap'[r].st = "live" <=> heap[r].st = "live"
    BY <2>1 DEF OwnerInv
  <2>6. QED
    BY <1>1, <2>2, <2>3, <2>4, <2>5, StepSets
<1>6. QED
  BY <1>4, <1>5

\* The program is done with bytes that nobody owned.
LEMMA FreeBytesStep == ASSUME NEW r \in Roots PROVE OwnerInv /\ FreeBytes(r) => OwnerInv'
<1> SUFFICES ASSUME OwnerInv, FreeBytes(r)
             PROVE  OwnerInv'
  OBVIOUS
<1>1. heap[r].st = "taken" /\ heap' = With(heap, r, NoBuffer) /\ ob' = ob /\ fault' = fault
  BY DEF FreeBytes, Release, With
<1>2. DOMAIN NoBuffer = {"st", "cells", "alloc"} /\ NoBuffer.st # "live" /\ Allocated(heap)
  BY NewBuffers DEF OwnerInv
<1>3. Allocated(heap') /\ heap'[r] = NoBuffer /\ \A b \in Roots \ {r} : heap'[b] = heap[b]
  BY <1>1, <1>2, BufferSet
<1>4. \A b \in Roots : heap'[b].st = "live" <=> heap[b].st = "live"
  BY <1>1, <1>2, <1>3
<1>5. Shaped(ob') /\ fault' # "double free"
      /\ \A o \in Objects, b \in Roots : Owns(ob', o, b) <=> Owns(ob, o, b)
  BY <1>1 DEF OwnerInv
<1>6. QED
  BY <1>3, <1>4, <1>5, StepKeeps

\* The peer's bytes are the program's, not those of an object.
LEMMA ReceiveStep == OwnerInv /\ Receive => OwnerInv'
<1> SUFFICES ASSUME OwnerInv, Receive
             PROVE  OwnerInv'
  OBVIOUS
<1>1. PICK bytes : heap' = [heap EXCEPT !["msg"] = [Buffer(bytes, Len(bytes)) EXCEPT !.st = "taken"]]
  BY DEF Receive
<1> DEFINE y == [Buffer(bytes, Len(bytes)) EXCEPT !.st = "taken"]
<1>2. heap["msg"] = NoBuffer /\ ob' = ob /\ fault' = fault /\ heap' = With(heap, "msg", y)
  BY <1>1 DEF Receive, With
<1>3. DOMAIN y = {"st", "cells", "alloc"} /\ y.st = "taken"
  BY DEF Buffer
<1> HIDE DEF y
<1>4. Allocated(heap) /\ "msg" \in Roots
  BY Distinct DEF OwnerInv
<1>5. Allocated(heap') /\ heap'["msg"] = y /\ \A b \in Roots \ {"msg"} : heap'[b] = heap[b]
  BY <1>2, <1>3, <1>4, BufferSet
<1>6. heap["msg"].st # "live" /\ heap'["msg"].st # "live"
  BY <1>2, <1>3, <1>5, NewBuffers
<1>7. \A b \in Roots : heap'[b].st = "live" <=> heap[b].st = "live"
  BY <1>5, <1>6
<1>8. Shaped(ob') /\ fault' # "double free"
      /\ \A o \in Objects, b \in Roots : Owns(ob', o, b) <=> Owns(ob, o, b)
  BY <1>2 DEF OwnerInv
<1>9. QED
  BY <1>5, <1>7, <1>8, StepKeeps

\* of_object_new_from_message_preallocated() borrows the bytes.
LEMMA NewPreallocatedStep ==
    ASSUME NEW r \in Roots PROVE OwnerInv /\ NewPreallocated(r) => OwnerInv'
<1> SUFFICES ASSUME OwnerInv, NewPreallocated(r)
             PROVE  OwnerInv'
  OBVIOUS
<1> DEFINE len == Len(heap[r].cells)
           objs == WithoutWindows(ob, "copy")
           z == Root("message", r, len)
           x == [z EXCEPT !.up = "storage"]
<1>1. /\ ob["copy"].is = "gone" /\ fault' = fault
      /\ ob' = With(objs, "copy", x) /\ heap' = [heap EXCEPT ![r].alloc = len]
  BY DEF NewPreallocated, Exists, With
<1>2. objs = WithoutWindows(ob, "copy") /\ z = Root("message", r, len)
  OBVIOUS
<1> HIDE DEF objs, len, z
<1>3. Object(z) /\ z.is = "message"
  BY <1>2, NewRoot
<1>4. Object(x) /\ x.up = "storage"
  BY <1>3 DEF Object
<1> HIDE DEF x
<1>5. ob["copy"] = Gone /\ "copy" \in Objects /\ "copy" \notin Windows
  BY <1>1, Distinct DEF OwnerInv, Shaped, Object
<1>6. /\ Shaped(objs)
      /\ \A p \in Objects, b \in Roots : Owns(objs, p, b) <=> Owns(ob, p, b)
  BY <1>2, Dropped DEF OwnerInv
<1>7. \A b \in Roots : Owns(ob, "copy", b) <=> (x.up = "none" /\ x.home = b)
  BY <1>4, <1>5, GoneOwnsNothing
<1>8. Allocated(heap') /\ \A b \in Roots : heap'[b].st = heap[b].st
  BY <1>1 DEF OwnerInv, Allocated
<1>9. fault' # "double free"
  BY <1>1 DEF OwnerInv
<1>10. QED
  BY <1>1, <1>4, <1>5, <1>6, <1>7, <1>8, <1>9, StepSets

\* The object in storage goes, which owned nothing.
LEMMA DropStorageStep == OwnerInv /\ DropStorage => OwnerInv'
<1> SUFFICES ASSUME OwnerInv, DropStorage
             PROVE  OwnerInv'
  OBVIOUS
<1> DEFINE objs == WithoutWindows(ob, "copy")
<1>1. /\ ob["copy"].up = "storage" /\ fault' = fault /\ heap' = heap
      /\ ob' = With(objs, "copy", Gone)
  BY DEF DropStorage, With
<1>2. objs = WithoutWindows(ob, "copy")
  OBVIOUS
<1> HIDE DEF objs
<1>3. /\ Shaped(objs)
      /\ \A p \in Objects, b \in Roots : Owns(objs, p, b) <=> Owns(ob, p, b)
  BY <1>2, Dropped DEF OwnerInv
<1>4. Object(Gone) /\ Gone.home = "none" /\ "none" \notin Roots /\ "copy" \in Objects /\ "copy" \notin Windows
  BY GoneObject, Distinct
<1>5. \A b \in Roots : Owns(ob, "copy", b) <=> (Gone.up = "none" /\ Gone.home = b)
  BY <1>1, <1>4 DEF Owns
<1>6. Allocated(heap') /\ fault' # "double free"
      /\ \A b \in Roots : heap'[b].st = "live" <=> heap[b].st = "live"
  BY <1>1 DEF OwnerInv
<1>7. QED
  BY <1>1, <1>3, <1>4, <1>5, <1>6, StepSets

\* The bind accessors make a window, whatever it was before.
LEMMA BindStep ==
    ASSUME NEW o \in {"msg", "copy"}, NEW w \in Windows
    PROVE  OwnerInv /\ Bind(o, w) => OwnerInv'
<1> SUFFICES ASSUME OwnerInv, Bind(o, w)
             PROVE  OwnerInv'
  OBVIOUS
<1>1. PICK off, len : ob' = [ob EXCEPT ![w] = [is |-> "list", home |-> ob[o].home, up |-> o,
                                               off |-> off, len |-> len]]
  BY DEF Bind
<1> DEFINE x == [is |-> "list", home |-> ob[o].home, up |-> o, off |-> off, len |-> len]
<1>2. Usable(o) /\ heap' = heap /\ fault' = fault /\ ob' = With(ob, w, x)
  BY <1>1 DEF Bind, With
<1>3. ob[o].home \in Roots
  BY <1>2, UsableHome
<1>4. Object(x) /\ x.up = o
  BY <1>3 DEF Object
<1> HIDE DEF x
<1>5. Window(x) /\ w \in Objects
  BY <1>4, Distinct DEF Window
<1>6. Shaped(ob) /\ Window(ob[w])
  BY DEF OwnerInv, Shaped
<1>7. \A r \in Roots : Owns(ob, w, r) <=> (x.up = "none" /\ x.home = r)
  <2>1. \A r \in Roots : ~Owns(ob, w, r)
    BY <1>6, WindowOwnsNothing
  <2>2. x.up # "none"
    BY <1>4
  <2>3. QED
    BY <2>1, <2>2
<1>8. Allocated(heap') /\ fault' # "double free"
      /\ \A r \in Roots : heap'[r].st = "live" <=> heap[r].st = "live"
  BY <1>2 DEF OwnerInv
<1>9. QED
  BY <1>2, <1>4, <1>5, <1>6, <1>7, <1>8, StepSets

\* of_list_append() through a window changes lengths and content.
LEMMA AppendStep ==
    ASSUME NEW w \in Windows, NEW e PROVE OwnerInv /\ AppendTo(w, e) => OwnerInv'
<1> SUFFICES ASSUME OwnerInv, AppendTo(w, e)
             PROVE  OwnerInv'
  OBVIOUS
<1> DEFINE o == ob[w].up
           h == ob[w].home
<1>1. /\ w \in Objects /\ w \notin Roots /\ Usable(w) /\ h \in Roots /\ fault = "none"
      /\ ob[w].is # "gone" /\ ob[o].is = "message"
  <2>1. Usable(w)
    BY DEF AppendTo
  <2>2. h \in Roots /\ fault = "none"
    BY <2>1, UsableHome
  <2>3. ob[w].is # "gone" /\ ob[o].is = "message"
    BY <2>1 DEF Usable, Exists
  <2>4. QED
    BY <2>1, <2>2, <2>3, Distinct
<1>2. o \in Roots /\ o \in Objects /\ o # w
  <2>1. ob[w] # Gone
    BY <1>1, GoneObject
  <2>2. o \in {"msg", "copy"}
    BY <2>1 DEF OwnerInv, Shaped, Window
  <2>3. QED
    BY <1>1, <2>2, Distinct
<1>3. CASE ob' = ob /\ heap' = heap /\ fault' \in {"overrun", w}
  <2>1. fault' # "double free"
    BY <1>1, <1>3, Distinct
  <2>2. QED
    BY <1>3, <2>1 DEF OwnerInv
<1>4. ASSUME NEW new, NEW more, NEW len, fault' = fault,
             heap' = [heap EXCEPT ![h].cells = new],
             ob' = [ob EXCEPT ![w].len = @ + more, ![o].len = len]
      PROVE  OwnerInv'
  <2>1. Shaped(ob) /\ ob = [p \in Objects |-> ob[p]] /\ \A p \in Objects : Object(ob[p])
    BY DEF OwnerInv, Shaped
  <2>2. /\ ob' = [p \in Objects |-> ob'[p]]
        /\ \A p \in Objects : p # w /\ p # o => ob'[p] = ob[p]
        /\ ob'[w] = [ob[w] EXCEPT !.len = @ + more] /\ ob'[o] = [ob[o] EXCEPT !.len = len]
    BY <1>1, <1>2, <1>4, <2>1
  <2> HIDE DEF o, h
  <2>3. \A p \in {w, o} : /\ Object(ob'[p]) /\ ob'[p].up = ob[p].up /\ ob'[p].home = ob[p].home
                          /\ ob[p] # Gone
    <3>1. Object(ob[w]) /\ Object(ob[o]) /\ ob[w].is # "gone" /\ ob[o].is # "gone"
      BY <1>1, <1>2, <2>1
    <3>2. Object(ob'[w]) /\ ob'[w].up = ob[w].up /\ ob'[w].home = ob[w].home
      BY <2>2, <3>1 DEF Object
    <3>3. Object(ob'[o]) /\ ob'[o].up = ob[o].up /\ ob'[o].home = ob[o].home
      BY <2>2, <3>1 DEF Object
    <3>4. QED
      BY <3>1, <3>2, <3>3, GoneObject
  <2>4. \A p \in Objects, r \in Roots : Owns(ob', p, r) <=> Owns(ob, p, r)
    BY <2>2, <2>3 DEF Owns
  <2>5. Shaped(ob')
    <3>1. \A p \in Objects : Object(ob'[p])
      BY <2>1, <2>2, <2>3
    <3>2. ASSUME NEW p \in Windows
          PROVE  Window(ob'[p])
      <4>1. Window(ob[p]) /\ p \in Objects
        BY Distinct DEF OwnerInv, Shaped
      <4>2. CASE p \in {w, o}
        BY <2>3, <4>1, <4>2 DEF Window
      <4>3. CASE p \notin {w, o}
        <5>1. ob'[p] = ob[p]
          BY <2>2, <4>1, <4>3
        <5>2. QED
          BY <4>1, <5>1
      <4>4. QED
        BY <4>2, <4>3
    <3>3. QED
      BY <2>2, <3>1, <3>2 DEF Shaped
  <2>6. Allocated(heap') /\ \A r \in Roots : heap'[r].st = heap[r].st
    BY <1>1, <1>4 DEF OwnerInv, Allocated
  <2>7. fault' # "double free"
    BY <1>4 DEF OwnerInv
  <2>8. QED
    BY <2>4, <2>5, <2>6, <2>7, StepKeeps
<1> DEFINE b == Cells(w)
           cells == ElementCells(e)
           end == ob[w].off + ob[w].len
           grown == b \o Blanks(end + Len(cells) - Len(b))
           new == [i \in DOMAIN grown |->
                      IF i \in end + 1..end + Len(cells) THEN cells[i - end] ELSE grown[i]]
           len == ob[o].len + Len(cells)
<1>5. \/ ob' = ob /\ heap' = heap /\ fault' \in {"overrun", w}
      \/ /\ fault' = fault
         /\ heap' = [heap EXCEPT ![h].cells = Lengthened(new, len)]
         /\ ob' = [ob EXCEPT ![w].len = @ + Len(cells), ![o].len = len]
  <2>1. CASE Len(new) > heap[h].alloc
    BY <2>1 DEF AppendTo
  <2>2. CASE ~(Len(new) > heap[h].alloc) /\ len # Len(new)
    BY <2>2 DEF AppendTo
  <2>3. CASE ~(Len(new) > heap[h].alloc) /\ len = Len(new)
    BY <2>3 DEF AppendTo
  <2>4. QED
    BY <2>1, <2>2, <2>3
<1> HIDE DEF new, len, cells
<1>6. QED
  BY <1>3, <1>4, <1>5

\* The set accessors.
LEMMA SetStep ==
    ASSUME OwnerInv,
           \/ \E fields \in Matches : SetMatch(fields)
           \/ \E l \in {"list", "copy"} : SetFirstList(l) \/ SetSecondList(l)
           \/ \E data \in Packets : SetData(data)
    PROVE  OwnerInv'
<1>1. "msg" \in Roots /\ "msg" \in Objects
  BY Distinct
<1>2. \/ Usable("msg") /\ \E b, delta, value : Finish("msg", b, delta, value)
      \/ ob' = ob /\ heap' = heap /\ fault' = "msg"
  BY DEF SetMatch, SetFirstList, SetSecondList, SetData
<1>3. CASE Usable("msg") /\ \E b, delta, value : Finish("msg", b, delta, value)
  BY <1>1, <1>3, FinishStep
<1>4. CASE ob' = ob /\ heap' = heap /\ fault' = "msg"
  BY <1>4 DEF OwnerInv
<1>5. QED
  BY <1>2, <1>3, <1>4
-----------------------------------------------------------------------------
\* Whatever messages a program builds, copies, sends and parses, and whatever
\* bytes it is sent: no buffer is freed twice, each one in use has exactly one
\* owner, and nobody owns what was stolen, lent or freed.
THEOREM OneOwnerEach == Spec => []OneOwner
<1>1. Init => OwnerInv
  <2> SUFFICES ASSUME Init
               PROVE  OwnerInv
    OBVIOUS
  <2>1. /\ ob = [o \in Objects |-> Gone] /\ heap = [r \in Roots |-> NoBuffer]
        /\ fault = "none"
    BY DEF Init
  <2>2. Shaped(ob)
    BY <2>1, GoneObject, Distinct DEF Shaped
  <2>3. Allocated(heap) /\ \A r \in Roots : heap[r].st # "live"
    BY <2>1, NewBuffers DEF Allocated
  <2>4. \A o \in Objects, r \in Roots : ~Owns(ob, o, r)
    BY <2>1, GoneOwnsNothing
  <2>5. QED
    BY <2>1, <2>2, <2>3, <2>4 DEF OwnerInv, Owned
<1>2. OwnerInv /\ [Next]_vars => OwnerInv'
  <2> SUFFICES ASSUME OwnerInv, [Next]_vars
               PROVE  OwnerInv'
    OBVIOUS
  <2>1. CASE New
    BY <2>1, NewStep
  <2>2. CASE \E es \in {<<>>} \cup {<<e>> : e \in Elements} : NewList(es)
    BY <2>2, NewListStep
  <2>3. CASE \/ \E fields \in Matches : SetMatch(fields)
             \/ \E l \in {"list", "copy"} : SetFirstList(l) \/ SetSecondList(l)
             \/ \E data \in Packets : SetData(data)
    BY <2>3, SetStep
  <2>4. CASE \E o \in {"msg", "copy"}, w \in Windows : Bind(o, w)
    BY <2>4, BindStep
  <2>5. CASE \E w \in Windows, e \in Elements : AppendTo(w, e)
    BY <2>5, AppendStep
  <2>6. CASE \E o \in Objects : Dup(o) \/ Delete(o) \/ Steal(o)
    BY <2>6, DupStep, DeleteStep, StealStep
  <2>7. CASE Receive
    BY <2>7, ReceiveStep
  <2>8. CASE \E r \in {"msg", "copy"} : NewFromMessage(r) \/ NewPreallocated(r) \/ FreeBytes(r)
    <3>1. {"msg", "copy"} \subseteq Roots
      BY Distinct
    <3>2. QED
      BY <2>8, <3>1, NewFromMessageStep, NewPreallocatedStep, FreeBytesStep
  <2>9. CASE DropStorage
    BY <2>9, DropStorageStep
  <2>10. CASE UNCHANGED vars
    BY <2>10 DEF vars, OwnerInv
  <2>11. QED
    BY <2>1, <2>2, <2>3, <2>4, <2>5, <2>6, <2>7, <2>8, <2>9, <2>10 DEF Next
<1>3. OwnerInv => OneOwner
  BY OwnersCounted
<1>4. QED
  BY <1>1, <1>2, <1>3, PTL DEF Spec
=============================================================================

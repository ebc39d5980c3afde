-------------------------- MODULE LociObjectProofs --------------------------
(***************************************************************************)
(* The wire buffer under the windows of LOCI is the message that the       *)
(* program means to build, for any number of windows, all lengths of       *)
(* messages, elements and actions, and any size of the buffer.             *)
(*                                                                         *)
(* The buffer is described by where its elements begin and how many        *)
(* actions each of them has.  A window on an element or an action is at    *)
(* one of these places; lists may lag behind, each by what was appended    *)
(* through other windows.  The assertion of of_object_parent_length_update *)
(* that the message is as long as its buffer is what makes an append       *)
(* through a window that lags impossible.                                  *)
(***************************************************************************)
EXTENDS LociObject, SequenceLemmas

(* Cells and places.                                                        *)

Contents == Values \cup {NoValue}
Cell == [f : {"zero", "msg", "elt", "act", "val"}, v : Nat, x : Contents]

\* The cells of c actions, of an element with c actions, and where action j of
\* an element is that begins at cell p.
Times(c) == c * ActLen
Size(c) == EltLen + Times(c)
ActAt(p, j) == p + EltLen + Times(j - 1)

\* One action after the other.
LEMMA TimesProperties ==
    /\ Times(0) = 0
    /\ \A c \in Nat : Times(c) \in Nat /\ Times(c + 1) = Times(c) + ActLen
    /\ \A c, d \in Nat : c < d => Times(c) + ActLen <= Times(d)
<1>0. ActLen \in Nat
  BY LociAssumption
<1>1. Times(0) = 0
  BY <1>0 DEF Times
<1>2. ASSUME NEW c \in Nat
      PROVE  Times(c) \in Nat /\ Times(c + 1) = Times(c) + ActLen
  BY <1>0 DEF Times
<1>3. ASSUME NEW c \in Nat, NEW d \in Nat, c < d
      PROVE  Times(c) + ActLen <= Times(d)
  <2>1. PICK n \in Nat : d = c + 1 + n
    <3>1. d - c - 1 \in Nat /\ d = c + 1 + (d - c - 1)
      BY <1>3
    <3>2. QED
      BY <3>1
  <2>2. d * ActLen = c * ActLen + ActLen + n * ActLen
    BY <1>0, <2>1
  <2>3. n * ActLen \in Nat /\ c * ActLen \in Nat
    BY <1>0
  <2>4. QED
    BY <1>0, <2>2, <2>3 DEF Times
<1>4. QED
  BY <1>1, <1>2, <1>3

\* An element with n actions has the cells of each.
LEMMA SizeProperties ==
    /\ Size(0) = EltLen
    /\ \A n \in Nat : Size(n) \in Nat /\ Size(n) >= EltLen /\ Size(n + 1) = Size(n) + ActLen
    /\ \A p, n \in Nat : ActAt(p, n + 1) = p + Size(n)
    /\ \A p, n \in Nat : \A j \in 1..n :
          /\ ActAt(p, j) \in Nat /\ ActAt(p, j) >= p + EltLen
          /\ ActAt(p, j) + ActLen <= p + Size(n)
          /\ \A m \in 1..n : j < m => ActAt(p, j) + ActLen <= ActAt(p, m)
<1>0. EltLen \in Nat /\ ActLen \in Nat
  BY LociAssumption
<1>1. Size(0) = EltLen
  BY <1>0, TimesProperties DEF Size
<1>2. ASSUME NEW n \in Nat
      PROVE  Size(n) \in Nat /\ Size(n) >= EltLen /\ Size(n + 1) = Size(n) + ActLen
  <2>1. Times(n) \in Nat /\ Times(n + 1) = Times(n) + ActLen
    BY TimesProperties
  <2>2. QED
    BY <1>0, <2>1 DEF Size
<1>3. ASSUME NEW p \in Nat, NEW n \in Nat, NEW j \in 1..n
      PROVE  /\ ActAt(p, j) \in Nat /\ ActAt(p, j) >= p + EltLen
             /\ ActAt(p, j) + ActLen <= p + Size(n)
             /\ \A m \in 1..n : j < m => ActAt(p, j) + ActLen <= ActAt(p, m)
  <2>1. j \in Nat /\ j - 1 \in Nat /\ j - 1 < n
    OBVIOUS
  <2>2. Times(j - 1) \in Nat /\ Times(j - 1) + ActLen <= Times(n) /\ Times(n) \in Nat
    BY <2>1, TimesProperties
  <2>3. ASSUME NEW m \in 1..n, j < m
        PROVE  ActAt(p, j) + ActLen <= ActAt(p, m)
    <3>1. m - 1 \in Nat /\ j - 1 < m - 1
      BY <2>1, <2>3
    <3>2. Times(j - 1) + ActLen <= Times(m - 1) /\ Times(m - 1) \in Nat
      BY <2>1, <3>1, TimesProperties
    <3>3. QED
      BY <1>0, <2>2, <3>2 DEF ActAt
  <2>4. QED
    BY <1>0, <2>1, <2>2, <2>3 DEF ActAt, Size
<1>4. ASSUME NEW p \in Nat, NEW n \in Nat
      PROVE  ActAt(p, n + 1) = p + Size(n)
  <2>1. (n + 1) - 1 = n /\ Times(n) \in Nat
    BY TimesProperties
  <2>2. ActAt(p, n + 1) = p + EltLen + Times(n)
    BY <2>1 DEF ActAt
  <2>3. QED
    BY <1>0, <2>1, <2>2 DEF Size
<1>5. QED
  BY <1>1, <1>2, <1>3, <1>4

\* A sequence of zeroed cells; none at all if n is negative.
LEMMA Zeroed ==
    ASSUME NEW n \in Int
    PROVE  LET z == [i \in 1..n |-> Zero]
           IN  /\ z \in Seq(Cell) /\ Len(z) = (IF n > 0 THEN n ELSE 0)
               /\ \A i \in 1..Len(z) : z[i] = Zero
<1> DEFINE z == [i \in 1..n |-> Zero]
<1>1. Zero \in Cell
  BY DEF Zero, Cell, Contents
<1>2. CASE n > 0
  <2>1. n \in Nat /\ z \in Seq(Cell) /\ Len(z) = n
    BY <1>1, <1>2
  <2>2. QED
    BY <1>2, <2>1
<1>3. CASE ~(n > 0)
  <2>1. 1..n = 1..0
    BY <1>3
  <2>2. z = [i \in 1..0 |-> Zero]
    BY <2>1
  <2>3. [i \in 1..0 |-> Zero] \in Seq(Cell) /\ Len([i \in 1..0 |-> Zero]) = 0
    BY <1>1
  <2> HIDE DEF z
  <2>4. z \in Seq(Cell) /\ Len(z) = 0
    BY <2>2, <2>3
  <2>5. \A i \in 1..Len(z) : z[i] = Zero
    BY <2>4
  <2>6. QED
    BY <1>3, <2>4, <2>5 DEF z
<1>4. QED
  BY <1>2, <1>3

\* of_wire_buffer_grow() leaves what is there and adds zeroed cells.
LEMMA Grown ==
    ASSUME NEW b \in Seq(Cell), NEW n \in Nat
    PROVE  /\ Grow(b, n) \in Seq(Cell)
           /\ Len(Grow(b, n)) = (IF n > Len(b) THEN n ELSE Len(b))
           /\ \A i \in 1..Len(Grow(b, n)) : Grow(b, n)[i] = IF i <= Len(b) THEN b[i] ELSE Zero
<1> DEFINE z == [i \in 1..(n - Len(b)) |-> Zero]
<1>1. Len(b) \in Nat /\ n - Len(b) \in Int
  OBVIOUS
<1>2. /\ z \in Seq(Cell) /\ Len(z) = (IF n - Len(b) > 0 THEN n - Len(b) ELSE 0)
      /\ \A i \in 1..Len(z) : z[i] = Zero
  BY <1>1, Zeroed
<1>3. Grow(b, n) = b \o z
  BY DEF Grow
<1> HIDE DEF z
<1>4. /\ b \o z \in Seq(Cell) /\ Len(b \o z) = Len(b) + Len(z)
      /\ \A i \in 1..Len(b) + Len(z) : (b \o z)[i] = IF i <= Len(b) THEN b[i] ELSE z[i - Len(b)]
  BY <1>2, ConcatProperties
<1>5. Len(b \o z) = (IF n > Len(b) THEN n ELSE Len(b))
  BY <1>1, <1>2, <1>4
<1>6. ASSUME NEW i \in 1..Len(b \o z)
      PROVE  (b \o z)[i] = IF i <= Len(b) THEN b[i] ELSE Zero
  <2>1. i > Len(b) => i - Len(b) \in 1..Len(z)
    BY <1>1, <1>2, <1>4
  <2>2. QED
    BY <1>2, <1>4, <2>1
<1>7. QED
  BY <1>3, <1>4, <1>5, <1>6

Written(b, p, n, cells) == Copy(Grow(b, n), p, cells)

\* What an append writes behind cell p of a buffer of n cells or more.
LEMMA WrittenCells ==
    ASSUME NEW b \in Seq(Cell), NEW p \in Nat, p <= Len(b), NEW n \in Nat,
           NEW cells \in Seq(Cell), p + Len(cells) <= n
    PROVE  /\ Written(b, p, n, cells) \in Seq(Cell)
           /\ Len(Written(b, p, n, cells)) = (IF n > Len(b) THEN n ELSE Len(b))
           /\ \A i \in 1..Len(Written(b, p, n, cells)) :
                 Written(b, p, n, cells)[i] =
                     IF i \in p + 1..p + Len(cells) THEN cells[i - p]
                     ELSE IF i <= Len(b) THEN b[i] ELSE Zero
<1> DEFINE g == Grow(b, n)
<1>1. /\ g \in Seq(Cell) /\ Len(g) = (IF n > Len(b) THEN n ELSE Len(b))
      /\ \A i \in 1..Len(g) : g[i] = IF i <= Len(b) THEN b[i] ELSE Zero
  BY Grown
<1> HIDE DEF g
<1> DEFINE w == [i \in 1..Len(g) |-> IF i \in p + 1..p + Len(cells) THEN cells[i - p] ELSE g[i]]
<1>2. DOMAIN g = 1..Len(g) /\ Len(g) \in Nat /\ Len(cells) \in Nat
  BY <1>1
<1>3. Written(b, p, n, cells) = w
  BY <1>2 DEF Written, Copy, g
<1>4. ASSUME NEW i \in 1..Len(g)
      PROVE  (IF i \in p + 1..p + Len(cells) THEN cells[i - p] ELSE g[i]) \in Cell
  <2>1. i \in p + 1..p + Len(cells) => i - p \in 1..Len(cells)
    BY <1>2
  <2>2. \A j \in 1..Len(cells) : cells[j] \in Cell
    BY ElementOfSeq
  <2>3. g[i] \in Cell
    BY <1>1, ElementOfSeq
  <2>4. QED
    BY <2>1, <2>2, <2>3
<1>5. w \in Seq(Cell) /\ Len(w) = Len(g)
  BY <1>2, <1>4
<1>6. QED
  BY <1>1, <1>2, <1>3, <1>5
-----------------------------------------------------------------------------
(* The layout of the message.                                               *)

\* T[i][j] is the value of action j of element i, and at[i] the cell that the
\* element begins at; at[Len(T) + 1] is where the next one would.
Laid(b, T, at) ==
    /\ b \in Seq(Cell) /\ b[1].f = "msg" /\ b[1].v = Len(b)
    /\ T \in Seq(Seq(Contents)) /\ at \in [1..Len(T) + 1 -> Nat]
    /\ at[1] = MsgLen + 1 /\ at[Len(T) + 1] = Len(b) + 1
    /\ \A i \in 1..Len(T) : at[i + 1] = at[i] + Size(Len(T[i]))
    /\ \A i \in 1..Len(T), j \in 1..Len(T) + 1 : i < j => at[i] + Size(Len(T[i])) <= at[j]
    /\ \A i \in 1..Len(T) :
          /\ b[at[i]].f = "elt" /\ b[at[i]].v = Size(Len(T[i]))
          /\ \A j \in 1..Len(T[i]) :
                /\ b[ActAt(at[i], j)].f = "act" /\ b[ActAt(at[i], j)].v = ActLen
                /\ b[ActAt(at[i], j) + 1].x = T[i][j]

\* Where the parts of a message are: an element is longer than its header,
\* and its actions are inside it, one behind the other.
LEMMA Where ==
    ASSUME NEW b, NEW T, NEW at, Laid(b, T, at)
    PROVE  /\ Len(b) \in Nat /\ Len(T) \in Nat /\ Len(b) >= MsgLen
           /\ \A i \in 1..Len(T) :
                 /\ T[i] \in Seq(Contents) /\ Len(T[i]) \in Nat /\ at[i] \in Nat
                 /\ Size(Len(T[i])) \in Nat /\ Size(Len(T[i])) >= EltLen
                 /\ at[i] > MsgLen /\ at[i] + Size(Len(T[i])) <= Len(b) + 1
                 /\ \A j \in 1..Len(T[i]) :
                       /\ ActAt(at[i], j) \in Nat /\ ActAt(at[i], j) >= at[i] + EltLen
                       /\ ActAt(at[i], j) + ActLen <= at[i] + Size(Len(T[i]))
<1>0. /\ EltLen \in Nat \ {0} /\ ActLen \in Nat \ {0, 1} /\ MsgLen \in Nat \ {0}
      /\ b \in Seq(Cell) /\ T \in Seq(Seq(Contents)) /\ at \in [1..Len(T) + 1 -> Nat]
  BY LociAssumption DEF Laid
<1>1. Len(b) \in Nat /\ Len(T) \in Nat
  BY <1>0, LenProperties
<1>2. at[1] = MsgLen + 1 /\ at[Len(T) + 1] = Len(b) + 1
  BY DEF Laid
<1>3. ASSUME NEW i \in 1..Len(T)
      PROVE  T[i] \in Seq(Contents) /\ Len(T[i]) \in Nat /\ at[i] \in Nat
  <2>1. T[i] \in Seq(Contents)
    BY <1>0, ElementOfSeq
  <2>2. i \in 1..Len(T) + 1
    BY <1>1
  <2>3. QED
    BY <1>0, <2>1, <2>2, LenProperties
<1>4. ASSUME NEW i \in 1..Len(T)
      PROVE  Size(Len(T[i])) \in Nat /\ Size(Len(T[i])) >= EltLen
  BY <1>3, SizeProperties
<1>5. ASSUME NEW i \in 1..Len(T)
      PROVE  at[i] > MsgLen /\ at[i] + Size(Len(T[i])) <= Len(b) + 1
  <2>1. Len(T) + 1 \in 1..Len(T) + 1 /\ i < Len(T) + 1
    BY <1>1
  <2>2. at[i] + Size(Len(T[i])) <= at[Len(T) + 1]
    BY <2>1 DEF Laid
  <2>3. CASE i = 1
    BY <1>0, <1>2, <2>2, <2>3
  <2>4. CASE i # 1
    <3>1. 1 \in 1..Len(T) /\ 1 < i /\ i \in 1..Len(T) + 1
      BY <1>1, <2>4
    <3>2. at[1] + Size(Len(T[1])) <= at[i]
      BY <3>1 DEF Laid
    <3>3. QED
      BY <1>0, <1>2, <1>3, <1>4, <2>2, <3>1, <3>2
  <2>5. QED
    BY <2>3, <2>4
<1>6. ASSUME NEW i \in 1..Len(T), NEW j \in 1..Len(T[i])
      PROVE  /\ ActAt(at[i], j) \in Nat /\ ActAt(at[i], j) >= at[i] + EltLen
             /\ ActAt(at[i], j) + ActLen <= at[i] + Size(Len(T[i]))
  BY <1>3, SizeProperties
<1>7. Len(b) >= MsgLen
  <2>1. CASE Len(T) = 0
    BY <1>0, <1>1, <1>2, <2>1
  <2>2. CASE Len(T) # 0
    <3>1. 1 \in 1..Len(T)
      BY <1>1, <2>2
    <3>2. at[1] + Size(Len(T[1])) <= Len(b) + 1 /\ Size(Len(T[1])) \in Nat
      BY <1>4, <1>5, <3>1
    <3>3. QED
      BY <1>0, <1>1, <1>2, <3>2
  <2>3. QED
    BY <2>1, <2>2
<1>8. QED
  BY <1>1, <1>3, <1>4, <1>5, <1>6, <1>7

\* Two actions are apart: cell ActAt(at[i], j) + 1 holds the value of one
\* action only, and it is no header.
LEMMA Apart ==
    ASSUME NEW b, NEW T, NEW at, Laid(b, T, at),
           NEW i \in 1..Len(T), NEW j \in 1..Len(T[i]), NEW k \in 1..Len(T)
    PROVE  /\ ActAt(at[i], j) + 1 # at[k] /\ ActAt(at[i], j) + 1 # 1
           /\ \A m \in 1..Len(T[k]) :
                 /\ ActAt(at[i], j) + 1 # ActAt(at[k], m)
                 /\ ActAt(at[i], j) + 1 = ActAt(at[k], m) + 1 => i = k /\ j = m
<1> DEFINE p == at[i]
           q == at[k]
           s == Size(Len(T[i]))
           t == Size(Len(T[k]))
           a == ActAt(at[i], j)
<1>0. EltLen \in Nat \ {0} /\ ActLen \in Nat \ {0, 1} /\ MsgLen \in Nat \ {0}
  BY LociAssumption
<1>1. /\ Len(T) \in Nat /\ i \in Nat /\ k \in Nat /\ Len(T[i]) \in Nat
      /\ p \in Nat /\ s \in Nat /\ p > MsgLen
      /\ a \in Nat /\ a >= p + EltLen /\ a + ActLen <= p + s
  BY Where
<1>2. Len(T[k]) \in Nat /\ q \in Nat /\ t \in Nat /\ t >= EltLen
  BY Where
<1>3. i < k => p + s <= q
  BY <1>1 DEF Laid
<1>4. k < i => q + t <= p
  BY <1>1 DEF Laid
<1>5. ASSUME NEW m \in 1..Len(T[k])
      PROVE  /\ ActAt(q, m) \in Nat /\ ActAt(q, m) >= q + EltLen
             /\ ActAt(q, m) + ActLen <= q + t
  BY Where
<1>6. i = k => p = q
  OBVIOUS
<1>7. ASSUME NEW m \in 1..Len(T[k]), i = k
      PROVE  a + 1 # ActAt(q, m) /\ (a + 1 = ActAt(q, m) + 1 => j = m)
  <2>1. j \in Nat /\ m \in Nat /\ j \in 1..Len(T[i]) /\ m \in 1..Len(T[i])
    BY <1>1, <1>2, <1>7
  <2>2. /\ j < m => ActAt(p, j) + ActLen <= ActAt(p, m)
        /\ m < j => ActAt(p, m) + ActLen <= ActAt(p, j)
    BY <1>1, <2>1, SizeProperties
  <2>3. ActAt(p, j) = a /\ ActAt(p, m) = ActAt(q, m) /\ ActAt(q, m) \in Nat
    BY <1>5, <1>7
  <2> HIDE DEF p, q, s, t, a
  <2>4. QED
    BY <1>0, <1>1, <2>1, <2>2, <2>3
<1> HIDE DEF p, q, s, t, a
<1>8. a + 1 # q /\ a + 1 # 1
  BY <1>0, <1>1, <1>2, <1>3, <1>4, <1>6
<1>9. ASSUME NEW m \in 1..Len(T[k]), i # k
      PROVE  ~(a + 1 = ActAt(q, m)) /\ ~(a + 1 = ActAt(q, m) + 1)
  <2>1. i < k \/ k < i
    BY <1>1, <1>9
  <2>2. QED
    BY <1>0, <1>1, <1>2, <1>3, <1>4, <1>5, <2>1
<1>10. QED
  BY <1>7, <1>8, <1>9 DEF p, q, a

\* The empty message.
LEMMA LaidEmpty ==
    ASSUME NEW b \in Seq(Cell), b[1].f = "msg", b[1].v = Len(b), Len(b) = MsgLen
    PROVE  Laid(b, <<>>, [i \in 1..1 |-> MsgLen + 1])
<1> DEFINE at == [i \in 1..1 |-> MsgLen + 1]
           T == <<>>
<1>0. MsgLen \in Nat \ {0}
  BY LociAssumption
<1>1. T \in Seq(Seq(Contents)) /\ Len(T) = 0
  BY EmptySeq
<1>2. at \in [1..0 + 1 -> Nat] /\ at[1] = MsgLen + 1 /\ at[0 + 1] = Len(b) + 1
  BY <1>0
<1> HIDE DEF at, T
<1>3. 1..Len(T) = {}
  BY <1>1
<1>4. Laid(b, T, at)
  BY <1>1, <1>2, <1>3 DEF Laid
<1>5. QED
  BY <1>4 DEF T, at

\* b2 is b with an element behind it that has the actions acts.
ElementBehind(b2, b, acts) ==
    /\ Len(b2) = Len(b) + Size(Len(acts))
    /\ b2[1].f = "msg" /\ b2[1].v = Len(b2)
    /\ \A i \in 2..Len(b) : b2[i] = b[i]
    /\ b2[Len(b) + 1].f = "elt" /\ b2[Len(b) + 1].v = Size(Len(acts))
    /\ \A j \in 1..Len(acts) :
          /\ b2[ActAt(Len(b) + 1, j)].f = "act" /\ b2[ActAt(Len(b) + 1, j)].v = ActLen
          /\ b2[ActAt(Len(b) + 1, j) + 1].x = acts[j]

\* Where the elements are then, and where the next one would be.
OneMore(at, T, b2) ==
    [i \in 1..Len(T) + 2 |-> IF i = Len(T) + 2 THEN Len(b2) + 1 ELSE at[i]]

\* An element with the actions acts behind the others.
LEMMA LaidElement ==
    ASSUME NEW b, NEW T, NEW at, Laid(b, T, at),
           NEW acts \in Seq(Contents), NEW b2 \in Seq(Cell), ElementBehind(b2, b, acts)
    PROVE  Laid(b2, Append(T, acts), OneMore(at, T, b2))
<1> DEFINE n == Len(T)
           lb == Len(b)
           lb2 == Len(b2)
           sz == Size(Len(acts))
           U == Append(T, acts)
           at2 == [i \in 1..n + 2 |-> IF i = n + 2 THEN lb2 + 1 ELSE at[i]]
<1>0. EltLen \in Nat \ {0} /\ ActLen \in Nat \ {0, 1} /\ MsgLen \in Nat \ {0}
  BY LociAssumption
<1>1. /\ n \in Nat /\ lb \in Nat /\ lb >= MsgLen /\ sz \in Nat /\ sz >= EltLen
      /\ lb2 = lb + sz /\ lb2 \in Nat
  <2>1. Len(acts) \in Nat
    BY LenProperties
  <2>2. sz \in Nat /\ sz >= EltLen
    BY <2>1, SizeProperties
  <2>3. n \in Nat /\ lb \in Nat /\ lb >= MsgLen /\ lb2 \in Nat
    BY Where, LenProperties
  <2>4. lb2 = lb + sz
    BY DEF ElementBehind
  <2>5. QED
    BY <2>2, <2>3, <2>4
<1>2. /\ T \in Seq(Seq(Contents)) /\ at \in [1..n + 1 -> Nat]
      /\ at[1] = MsgLen + 1 /\ at[n + 1] = lb + 1
  BY DEF Laid
<1>3. /\ U \in Seq(Seq(Contents)) /\ Len(U) = n + 1 /\ U[n + 1] = acts
      /\ \A i \in 1..n : U[i] = T[i]
  BY <1>2, AppendProperties
<1>4. ASSUME NEW i \in 1..n
      PROVE  at[i + 1] = at[i] + Size(Len(T[i])) /\ i \in Nat
  BY <1>1 DEF Laid
<1>5. ASSUME NEW i \in 1..n, NEW j \in 1..n + 1, i < j
      PROVE  at[i] + Size(Len(T[i])) <= at[j]
  BY <1>5 DEF Laid
<1>6. ASSUME NEW i \in 1..n
      PROVE  /\ at[i] \in Nat /\ Size(Len(T[i])) \in Nat /\ Size(Len(T[i])) >= EltLen
             /\ at[i] > MsgLen /\ at[i] + Size(Len(T[i])) <= lb + 1
  BY Where
<1>7. ASSUME NEW i \in 1..n, NEW j \in 1..Len(T[i])
      PROVE  /\ ActAt(at[i], j) \in Nat /\ ActAt(at[i], j) >= at[i] + EltLen
             /\ ActAt(at[i], j) + ActLen <= at[i] + Size(Len(T[i]))
  BY Where
<1>8. ASSUME NEW i \in 1..n
      PROVE  /\ b[at[i]].f = "elt" /\ b[at[i]].v = Size(Len(T[i]))
             /\ \A j \in 1..Len(T[i]) :
                   /\ b[ActAt(at[i], j)].f = "act" /\ b[ActAt(at[i], j)].v = ActLen
                   /\ b[ActAt(at[i], j) + 1].x = T[i][j]
  BY DEF Laid
<1>9. /\ \A i \in 2..lb : b2[i] = b[i]
      /\ b2[lb + 1].f = "elt" /\ b2[lb + 1].v = sz
      /\ \A j \in 1..Len(acts) :
            /\ b2[ActAt(lb + 1, j)].f = "act" /\ b2[ActAt(lb + 1, j)].v = ActLen
            /\ b2[ActAt(lb + 1, j) + 1].x = acts[j]
      /\ Size(Len(acts)) = sz
  BY DEF ElementBehind
<1> HIDE DEF n, lb, lb2, sz, U
<1>10. /\ at2 \in [1..(n + 1) + 1 -> Nat] /\ at2[(n + 1) + 1] = lb2 + 1
       /\ \A i \in 1..n + 1 : at2[i] = at[i]
  <2>1. ASSUME NEW i \in 1..n + 2
        PROVE  (IF i = n + 2 THEN lb2 + 1 ELSE at[i]) \in Nat
    <3>1. i # n + 2 => i \in 1..n + 1
      BY <1>1
    <3>2. i # n + 2 => at[i] \in Nat
      BY <1>2, <3>1
    <3>3. QED
      BY <1>1, <3>2
  <2>2. (n + 1) + 1 = n + 2 /\ n + 2 \in 1..n + 2
    BY <1>1
  <2>3. at2 \in [1..n + 2 -> Nat] /\ at2[n + 2] = lb2 + 1
    BY <2>1, <2>2
  <2>4. \A i \in 1..n + 1 : i \in 1..n + 2 /\ i # n + 2
    BY <1>1
  <2>5. QED
    BY <2>2, <2>3, <2>4
<1> HIDE DEF at2
<1>11. \A i \in 1..n + 1 : i # n + 1 => i \in 1..n /\ i + 1 \in 1..n + 1
  BY <1>1
<1>12. at2[1] = MsgLen + 1
  <2>1. 1 \in 1..n + 1
    BY <1>1
  <2>2. QED
    BY <1>2, <1>10, <2>1
<1>13. n + 1 \in 1..n + 1 /\ at2[n + 1] = lb + 1 /\ Size(Len(U[n + 1])) = sz
  BY <1>1, <1>2, <1>3, <1>9, <1>10
<1>14. ASSUME NEW i \in 1..n + 1
       PROVE  at2[i + 1] = at2[i] + Size(Len(U[i]))
  <2>1. CASE i = n + 1
    BY <1>1, <1>10, <1>13, <2>1
  <2>2. CASE i # n + 1
    BY <1>3, <1>4, <1>10, <1>11, <2>2
  <2>3. QED
    BY <2>1, <2>2
<1>15. ASSUME NEW i \in 1..n + 1, NEW j \in 1..(n + 1) + 1, i < j
       PROVE  at2[i] + Size(Len(U[i])) <= at2[j]
  <2>1. CASE i = n + 1
    <3>1. j = (n + 1) + 1
      BY <1>1, <1>15, <2>1
    <3>2. QED
      BY <1>1, <1>10, <1>13, <2>1, <3>1
  <2>2. CASE i # n + 1 /\ j = (n + 1) + 1
    <3>1. at2[i] = at[i] /\ U[i] = T[i] /\ at2[j] = lb2 + 1 /\ i \in 1..n
      BY <1>3, <1>10, <1>11, <2>2
    <3> DEFINE p == at[i]
               s == Size(Len(T[i]))
    <3>2. p \in Nat /\ s \in Nat /\ p + s <= lb + 1
      BY <1>6, <3>1
    <3> HIDE DEF p, s
    <3>3. p + s <= lb2 + 1
      BY <1>1, <3>2
    <3>4. QED
      BY <3>1, <3>3 DEF p, s
  <2>3. CASE i # n + 1 /\ j # (n + 1) + 1
    <3>1. i \in 1..n /\ j \in 1..n + 1
      BY <1>1, <1>11, <2>3
    <3>2. QED
      BY <1>3, <1>5, <1>10, <1>15, <3>1
  <2>4. QED
    BY <2>1, <2>2, <2>3
<1>16. ASSUME NEW i \in 1..n + 1
       PROVE  /\ b2[at2[i]].f = "elt" /\ b2[at2[i]].v = Size(Len(U[i]))
              /\ \A j \in 1..Len(U[i]) :
                    /\ b2[ActAt(at2[i], j)].f = "act" /\ b2[ActAt(at2[i], j)].v = ActLen
                    /\ b2[ActAt(at2[i], j) + 1].x = U[i][j]
  <2>1. CASE i = n + 1
    BY <1>3, <1>9, <1>13, <2>1
  <2>2. CASE i # n + 1
    <3>1. i \in 1..n /\ at2[i] = at[i] /\ U[i] = T[i]
      BY <1>3, <1>10, <1>11, <2>2
    <3> DEFINE p == at[i]
               s == Size(Len(T[i]))
    <3>2. p \in Nat /\ s \in Nat /\ s >= EltLen /\ p > MsgLen /\ p + s <= lb + 1
      BY <1>6, <3>1
    <3>3. ASSUME NEW j \in 1..Len(T[i])
          PROVE  ActAt(p, j) \in 2..lb /\ ActAt(p, j) + 1 \in 2..lb
      <4> DEFINE a == ActAt(p, j)
      <4>1. a \in Nat /\ a >= p + EltLen /\ a + ActLen <= p + s
        BY <1>7, <3>1
      <4> HIDE DEF p, s, a
      <4>2. a \in 2..lb /\ a + 1 \in 2..lb
        BY <1>0, <1>1, <3>2, <4>1
      <4>3. QED
        BY <4>2 DEF a
    <3> HIDE DEF p, s
    <3>4. p \in 2..lb
      BY <1>0, <1>1, <3>2
    <3>5. b2[p] = b[p] /\ p = at[i]
      BY <1>9, <3>4 DEF p
    <3>6. \A j \in 1..Len(T[i]) : /\ b2[ActAt(p, j)] = b[ActAt(p, j)]
                                  /\ b2[ActAt(p, j) + 1] = b[ActAt(p, j) + 1]
      BY <1>9, <3>3
    <3>7. /\ b[p].f = "elt" /\ b[p].v = Size(Len(T[i]))
          /\ \A j \in 1..Len(T[i]) :
                /\ b[ActAt(p, j)].f = "act" /\ b[ActAt(p, j)].v = ActLen
                /\ b[ActAt(p, j) + 1].x = T[i][j]
      BY <1>8, <3>1 DEF p
    <3>8. b2[p].f = "elt" /\ b2[p].v = Size(Len(T[i]))
      BY <3>5, <3>7
    <3>9. \A j \in 1..Len(T[i]) :
             /\ b2[ActAt(p, j)].f = "act" /\ b2[ActAt(p, j)].v = ActLen
             /\ b2[ActAt(p, j) + 1].x = T[i][j]
      BY <3>6, <3>7
    <3>10. p = at2[i] /\ T[i] = U[i]
      BY <3>1, <3>5
    <3>11. QED
      BY <3>8, <3>9, <3>10
  <2>3. QED
    BY <2>1, <2>2
<1>17. b2[1].f = "msg" /\ b2[1].v = Len(b2) /\ Len(b2) = lb2
  BY DEF lb2, ElementBehind
<1>18. Laid(b2, U, at2)
  BY <1>3, <1>10, <1>12, <1>14, <1>15, <1>16, <1>17 DEF Laid
<1>19. QED
  BY <1>18 DEF U, at2, n, lb2, OneMore

\* b2 is b with an action behind it that belongs to its last element.
ActionBehind(b2, b, T, at, x) ==
    /\ Len(b2) = Len(b) + ActLen
    /\ b2[1].f = "msg" /\ b2[1].v = Len(b2)
    /\ \A i \in 2..Len(b) : i # at[Len(T)] => b2[i] = b[i]
    /\ b2[at[Len(T)]].f = "elt" /\ b2[at[Len(T)]].v = Size(Len(T[Len(T)])) + ActLen
    /\ b2[Len(b) + 1].f = "act" /\ b2[Len(b) + 1].v = ActLen /\ b2[Len(b) + 2].x = x

\* The tree, and where the elements are then.
OneAction(T, x) == [T EXCEPT ![Len(T)] = Append(@, x)]
Longer(at, T, b2) ==
    [i \in 1..Len(T) + 1 |-> IF i = Len(T) + 1 THEN Len(b2) + 1 ELSE at[i]]

\* One more action behind the last of the last element.
LEMMA LaidAction ==
    ASSUME NEW b, NEW T, NEW at, Laid(b, T, at), T # <<>>,
           NEW x \in Contents, NEW b2 \in Seq(Cell), ActionBehind(b2, b, T, at, x)
    PROVE  Laid(b2, OneAction(T, x), Longer(at, T, b2))
<1> DEFINE n == Len(T)
           lb == Len(b)
           lb2 == Len(b2)
           last == T[n]
           c == Len(last)
           more == Append(last, x)
           U == [T EXCEPT ![n] = Append(@, x)]
           at2 == [i \in 1..n + 1 |-> IF i = n + 1 THEN lb2 + 1 ELSE at[i]]
<1>0. EltLen \in Nat \ {0} /\ ActLen \in Nat \ {0, 1} /\ MsgLen \in Nat \ {0}
  BY LociAssumption
<1>1. n \in Nat \ {0} /\ lb \in Nat /\ lb >= MsgLen /\ lb2 = lb + ActLen /\ lb2 \in Nat
  <2>1. n \in Nat /\ lb \in Nat /\ lb >= MsgLen /\ lb2 \in Nat
    BY Where, LenProperties
  <2>2. T \in Seq(Seq(Contents))
    BY DEF Laid
  <2>3. n # 0
    BY <2>2, EmptySeq
  <2>4. lb2 = lb + ActLen
    BY DEF ActionBehind
  <2>5. QED
    BY <2>1, <2>3, <2>4
<1>2. /\ T \in Seq(Seq(Contents)) /\ at \in [1..n + 1 -> Nat]
      /\ at[1] = MsgLen + 1 /\ at[n + 1] = lb + 1
  BY DEF Laid
<1>3. ASSUME NEW i \in 1..n
      PROVE  T[i] \in Seq(Contents)
  BY <1>2, ElementOfSeq
<1>4. n \in 1..n /\ last \in Seq(Contents) /\ c \in Nat
  <2>1. n \in 1..n
    BY <1>1
  <2>2. QED
    BY <1>3, <2>1, LenProperties
<1>5. /\ more \in Seq(Contents) /\ Len(more) = c + 1 /\ more[c + 1] = x
      /\ \A j \in 1..c : more[j] = last[j]
  BY <1>4, AppendProperties
<1>6. Size(c) \in Nat /\ Size(c) >= EltLen /\ Size(c + 1) = Size(c) + ActLen
  BY <1>4, SizeProperties
<1>7. DOMAIN T = 1..n
  BY <1>2, LenProperties
<1>8. /\ DOMAIN U = 1..n /\ U[n] = more
      /\ \A i \in 1..n : i # n => U[i] = T[i]
  BY <1>4, <1>7
<1>9. U \in Seq(Seq(Contents)) /\ Len(U) = n
  <2> HIDE DEF n, more
  <2>1. U = [i \in 1..n |-> IF i = n THEN more ELSE T[i]]
    BY <1>7 DEF more
  <2> HIDE DEF U
  <2>2. \A i \in 1..n : (IF i = n THEN more ELSE T[i]) \in Seq(Contents)
    BY <1>3, <1>5
  <2>3. U \in [1..n -> Seq(Contents)]
    BY <2>1, <2>2
  <2>4. QED
    BY <1>1, <2>3
<1>10. ASSUME NEW i \in 1..n
       PROVE  at[i + 1] = at[i] + Size(Len(T[i])) /\ i \in Nat
  BY <1>1 DEF Laid
<1>11. ASSUME NEW i \in 1..n, NEW j \in 1..n + 1, i < j
       PROVE  at[i] + Size(Len(T[i])) <= at[j]
  BY <1>11 DEF Laid
<1>12. ASSUME NEW i \in 1..n
       PROVE  /\ at[i] \in Nat /\ Size(Len(T[i])) \in Nat /\ Size(Len(T[i])) >= EltLen
              /\ at[i] > MsgLen /\ at[i] + Size(Len(T[i])) <= lb + 1
  BY Where
<1>13. ASSUME NEW i \in 1..n, NEW j \in 1..Len(T[i])
       PROVE  /\ ActAt(at[i], j) \in Nat /\ ActAt(at[i], j) >= at[i] + EltLen
              /\ ActAt(at[i], j) + ActLen <= at[i] + Size(Len(T[i]))
  BY Where
<1>14. ASSUME NEW i \in 1..n
       PROVE  /\ b[at[i]].f = "elt" /\ b[at[i]].v = Size(Len(T[i]))
              /\ \A j \in 1..Len(T[i]) :
                    /\ b[ActAt(at[i], j)].f = "act" /\ b[ActAt(at[i], j)].v = ActLen
                    /\ b[ActAt(at[i], j) + 1].x = T[i][j]
  BY DEF Laid
<1>15. /\ \A i \in 2..lb : i # at[n] => b2[i] = b[i]
       /\ b2[at[n]].f = "elt" /\ b2[at[n]].v = Size(c) + ActLen
       /\ b2[lb + 1].f = "act" /\ b2[lb + 1].v = ActLen /\ b2[lb + 2].x = x
  BY DEF ActionBehind
<1>16. at[n] \in Nat /\ at[n] + Size(c) = lb + 1
  BY <1>2, <1>4, <1>10, <1>12
<1>17. ActAt(at[n], c + 1) = lb + 1
  <2>1. ActAt(at[n], c + 1) = at[n] + Size(c)
    BY <1>4, <1>16, SizeProperties
  <2>2. QED
    BY <1>16, <2>1
<1> HIDE DEF n, lb, lb2, last, c, more, U
<1>18. /\ at2 \in [1..n + 1 -> Nat] /\ at2[n + 1] = lb2 + 1
       /\ \A i \in 1..n : at2[i] = at[i]
  <2>1. ASSUME NEW i \in 1..n + 1
        PROVE  (IF i = n + 1 THEN lb2 + 1 ELSE at[i]) \in Nat
    BY <1>1, <1>2
  <2>2. n + 1 \in 1..n + 1
    BY <1>1
  <2>3. at2 \in [1..n + 1 -> Nat] /\ at2[n + 1] = lb2 + 1
    BY <2>1, <2>2
  <2>4. \A i \in 1..n : i \in 1..n + 1 /\ i # n + 1
    BY <1>1
  <2>5. QED
    BY <2>3, <2>4
<1> HIDE DEF at2
<1>19. at2[1] = MsgLen + 1
  <2>1. 1 \in 1..n
    BY <1>1
  <2>2. QED
    BY <1>2, <1>18, <2>1
<1>20. at2[n] = at[n] /\ Len(U[n]) = c + 1 /\ at2[n] + Size(c + 1) = lb2 + 1
  <2>1. at2[n] = at[n]
    BY <1>4, <1>18
  <2>2. Len(U[n]) = c + 1
    BY <1>5, <1>8
  <2> DEFINE q == at[n]
             s == Size(c)
             t == Size(c + 1)
  <2>3. q \in Nat /\ q + s = lb + 1 /\ s \in Nat /\ t = s + ActLen
    BY <1>6, <1>16
  <2> HIDE DEF q, s, t
  <2>4. q + t = lb2 + 1
    BY <1>0, <1>1, <2>3
  <2>5. QED
    BY <2>1, <2>2, <2>4 DEF q, t
<1>21. \A i \in 1..n : i # n => i + 1 \in 1..n
  BY <1>1
<1>22. ASSUME NEW i \in 1..n
       PROVE  at2[i + 1] = at2[i] + Size(Len(U[i]))
  <2>1. CASE i = n
    BY <1>18, <1>20, <2>1
  <2>2. CASE i # n
    BY <1>8, <1>10, <1>18, <1>21, <2>2
  <2>3. QED
    BY <2>1, <2>2
<1>23. ASSUME NEW i \in 1..n, NEW j \in 1..n + 1, i < j
       PROVE  at2[i] + Size(Len(U[i])) <= at2[j]
  <2>1. CASE i = n
    <3>1. j = n + 1
      BY <1>1, <1>23, <2>1
    <3>2. QED
      BY <1>1, <1>18, <1>20, <2>1, <3>1
  <2>2. CASE i # n /\ j = n + 1
    <3>1. at2[i] = at[i] /\ U[i] = T[i] /\ at2[j] = lb2 + 1
      BY <1>8, <1>18, <2>2
    <3> DEFINE p == at[i]
               s == Size(Len(T[i]))
    <3>2. p \in Nat /\ s \in Nat /\ p + s <= lb + 1
      BY <1>12
    <3> HIDE DEF p, s
    <3>3. p + s <= lb2 + 1
      BY <1>0, <1>1, <3>2
    <3>4. QED
      BY <3>1, <3>3 DEF p, s
  <2>3. CASE i # n /\ j # n + 1
    <3>1. j \in 1..n
      BY <1>1, <2>3
    <3>2. QED
      BY <1>8, <1>11, <1>18, <1>23, <2>3, <3>1
  <2>4. QED
    BY <2>1, <2>2, <2>3
<1>24. ASSUME NEW i \in 1..n, NEW j \in 1..Len(T[i])
       PROVE  /\ ActAt(at[i], j) \in 2..lb /\ ActAt(at[i], j) + 1 \in 2..lb
              /\ ActAt(at[i], j) # at[n] /\ ActAt(at[i], j) + 1 # at[n]
  <2> DEFINE p == at[i]
             q == at[n]
             s == Size(Len(T[i]))
             a == ActAt(p, j)
  <2>1. a \in Nat /\ a >= p + EltLen /\ a + ActLen <= p + s
    BY <1>13
  <2>2. p \in Nat /\ s \in Nat /\ p > MsgLen /\ p + s <= lb + 1
    BY <1>12
  <2>3. i < n => p + s <= q
    BY <1>4, <1>11, <1>1
  <2>4. i = n => p = q
    OBVIOUS
  <2>5. i \in Nat /\ i <= n /\ q \in Nat
    BY <1>1, <1>16
  <2> HIDE DEF p, q, s, a
  <2>6. a \in 2..lb /\ a + 1 \in 2..lb
    BY <1>0, <1>1, <2>1, <2>2
  <2>7. a # q /\ a + 1 # q
    BY <1>0, <1>1, <2>1, <2>2, <2>3, <2>4, <2>5
  <2>8. QED
    BY <2>6, <2>7 DEF p, q, a
<1>25. ASSUME NEW i \in 1..n
       PROVE  b2[at2[i]].f = "elt" /\ b2[at2[i]].v = Size(Len(U[i]))
  <2>1. CASE i = n
    BY <1>6, <1>15, <1>20, <2>1
  <2>2. CASE i # n
    <3> DEFINE p == at[i]
               q == at[n]
               s == Size(Len(T[i]))
    <3>1. p \in Nat /\ s \in Nat /\ s >= EltLen /\ p > MsgLen /\ p + s <= lb + 1
      BY <1>12
    <3>2. i < n /\ n \in 1..n + 1
      BY <1>1, <2>2
    <3>3. p + s <= q /\ q \in Nat
      BY <1>11, <1>16, <3>2
    <3>4. b[p].f = "elt" /\ b[p].v = s /\ (\A k \in 2..lb : k # q => b2[k] = b[k])
      BY <1>14, <1>15
    <3>5. p = at2[i] /\ s = Size(Len(U[i]))
      BY <1>8, <1>18, <2>2
    <3> HIDE DEF p, q, s
    <3>6. p \in 2..lb /\ p # q
      BY <1>0, <1>1, <3>1, <3>3
    <3>7. b2[p] = b[p]
      BY <3>4, <3>6
    <3>8. QED
      BY <3>4, <3>5, <3>7
  <2>3. QED
    BY <2>1, <2>2
<1>26. ASSUME NEW i \in 1..n, NEW j \in 1..Len(T[i])
       PROVE  /\ b2[ActAt(at[i], j)].f = "act" /\ b2[ActAt(at[i], j)].v = ActLen
              /\ b2[ActAt(at[i], j) + 1].x = T[i][j]
  <2>1. b2[ActAt(at[i], j)] = b[ActAt(at[i], j)] /\ b2[ActAt(at[i], j) + 1] = b[ActAt(at[i], j) + 1]
    BY <1>15, <1>24
  <2>2. QED
    BY <1>14, <2>1
<1>27. ASSUME NEW i \in 1..n, NEW j \in 1..Len(U[i])
       PROVE  /\ b2[ActAt(at2[i], j)].f = "act" /\ b2[ActAt(at2[i], j)].v = ActLen
              /\ b2[ActAt(at2[i], j) + 1].x = U[i][j]
  <2>1. CASE i = n /\ j = c + 1
    <3>1. ActAt(at2[i], j) = lb + 1 /\ (lb + 1) + 1 = lb + 2 /\ U[i][j] = x
      BY <1>1, <1>5, <1>8, <1>17, <1>20, <2>1
    <3>2. QED
      BY <1>15, <3>1
  <2>2. CASE i = n /\ j # c + 1
    <3>1. j \in 1..c
      BY <1>4, <1>20, <2>2
    <3>2. j \in 1..Len(T[i]) /\ U[i][j] = T[i][j] /\ at2[i] = at[i]
      BY <1>5, <1>8, <1>20, <2>2, <3>1 DEF c, last
    <3>3. QED
      BY <1>26, <3>2
  <2>3. CASE i # n
    <3>1. U[i] = T[i] /\ at2[i] = at[i]
      BY <1>8, <1>18, <2>3
    <3>2. QED
      BY <1>26, <3>1
  <2>4. QED
    BY <2>1, <2>2, <2>3
<1>28. b2[1].f = "msg" /\ b2[1].v = Len(b2) /\ Len(b2) = lb2
  BY DEF lb2, ActionBehind
<1>29. Laid(b2, U, at2)
  BY <1>9, <1>18, <1>19, <1>22, <1>23, <1>25, <1>27, <1>28 DEF Laid
<1>30. QED
  BY <1>29 DEF U, at2, n, lb2, OneAction, Longer

\* Another value for an action.
LEMMA LaidValue ==
    ASSUME NEW b, NEW T, NEW at, Laid(b, T, at),
           NEW i \in 1..Len(T), NEW j \in 1..Len(T[i]), NEW x \in Contents,
           NEW b2 \in Seq(Cell), Len(b2) = Len(b),
           \A k \in 1..Len(b) : k # ActAt(at[i], j) + 1 => b2[k] = b[k],
           b2[ActAt(at[i], j) + 1].x = x
    PROVE  Laid(b2, [T EXCEPT ![i][j] = x], at)
<1> DEFINE n == Len(T)
           lb == Len(b)
           q == ActAt(at[i], j) + 1
           acts == T[i]
           new == [acts EXCEPT ![j] = x]
           U == [T EXCEPT ![i][j] = x]
<1>0. EltLen \in Nat \ {0} /\ ActLen \in Nat \ {0, 1} /\ MsgLen \in Nat \ {0}
  BY LociAssumption
<1>1. n \in Nat /\ lb \in Nat /\ lb >= MsgLen
  BY Where
<1>2. T \in Seq(Seq(Contents)) /\ acts \in Seq(Contents)
  BY ElementOfSeq DEF Laid
<1>3. DOMAIN T = 1..n /\ DOMAIN acts = 1..Len(acts) /\ Len(acts) \in Nat
  BY <1>2, LenProperties
<1>4. /\ new \in Seq(Contents) /\ Len(new) = Len(acts) /\ new[j] = x
      /\ \A k \in 1..Len(acts) : k # j => new[k] = acts[k]
  BY <1>2, <1>3, ExceptSeq
<1>5. U = [T EXCEPT ![i] = new]
  OBVIOUS
<1> HIDE DEF new, U
<1>6. /\ U \in Seq(Seq(Contents)) /\ Len(U) = n /\ U[i] = new
      /\ \A k \in 1..n : k # i => U[k] = T[k]
  BY <1>2, <1>4, <1>5, ExceptSeq
<1>7. \A k \in 1..n : Len(U[k]) = Len(T[k])
  BY <1>4, <1>6
<1>8. /\ at \in [1..n + 1 -> Nat] /\ at[1] = MsgLen + 1 /\ at[n + 1] = lb + 1
      /\ \A k \in 1..n : at[k + 1] = at[k] + Size(Len(T[k]))
      /\ \A k \in 1..n, m \in 1..n + 1 : k < m => at[k] + Size(Len(T[k])) <= at[m]
      /\ b[1].f = "msg" /\ b[1].v = lb
  BY DEF Laid
<1>9. ASSUME NEW k \in 1..n
      PROVE  /\ b[at[k]].f = "elt" /\ b[at[k]].v = Size(Len(T[k]))
             /\ \A m \in 1..Len(T[k]) :
                   /\ b[ActAt(at[k], m)].f = "act" /\ b[ActAt(at[k], m)].v = ActLen
                   /\ b[ActAt(at[k], m) + 1].x = T[k][m]
  BY DEF Laid
<1>10. ASSUME NEW k \in 1..n
       PROVE  at[k] \in 1..lb /\ at[k] # q
  <2> DEFINE p == at[k]
             s == Size(Len(T[k]))
  <2>1. p \in Nat /\ s \in Nat /\ s >= EltLen /\ p > MsgLen /\ p + s <= lb + 1
    BY Where
  <2>2. p # q
    BY Apart
  <2> HIDE DEF p, s, q
  <2>3. p \in 1..lb
    BY <1>0, <1>1, <2>1
  <2>4. QED
    BY <2>2, <2>3 DEF p
<1>11. ASSUME NEW k \in 1..n, NEW m \in 1..Len(T[k])
       PROVE  /\ ActAt(at[k], m) \in 1..lb /\ ActAt(at[k], m) + 1 \in 1..lb
              /\ ActAt(at[k], m) # q /\ (ActAt(at[k], m) + 1 = q => k = i /\ m = j)
  <2> DEFINE p == at[k]
             s == Size(Len(T[k]))
             a == ActAt(p, m)
  <2>1. /\ p \in Nat /\ s \in Nat /\ p > MsgLen /\ p + s <= lb + 1
        /\ a \in Nat /\ a >= p + EltLen /\ a + ActLen <= p + s
    BY Where
  <2>2. a # q /\ (a + 1 = q => k = i /\ m = j)
    BY Apart
  <2> HIDE DEF p, s, a, q
  <2>3. a \in 1..lb /\ a + 1 \in 1..lb
    BY <1>0, <1>1, <2>1
  <2>4. QED
    BY <2>2, <2>3 DEF p, a
<1>12. \A k \in 1..lb : k # q => b2[k] = b[k]
  OBVIOUS
<1>13. b2[q].x = x
  OBVIOUS
<1>14. 1 \in 1..lb /\ 1 # q
  <2>1. 1 # q
    BY Apart
  <2>2. QED
    BY <1>0, <1>1, <2>1
<1>15. Len(b2) = lb
  OBVIOUS
<1> HIDE DEF n, lb, q
<1>16. b2[1].f = "msg" /\ b2[1].v = Len(b2)
  BY <1>8, <1>12, <1>14, <1>15
<1>17. ASSUME NEW k \in 1..n
       PROVE  b2[at[k]].f = "elt" /\ b2[at[k]].v = Size(Len(U[k]))
  <2>1. b2[at[k]] = b[at[k]]
    BY <1>10, <1>12
  <2>2. QED
    BY <1>7, <1>9, <2>1
<1>18. ASSUME NEW k \in 1..n, NEW m \in 1..Len(U[k])
       PROVE  /\ b2[ActAt(at[k], m)].f = "act" /\ b2[ActAt(at[k], m)].v = ActLen
              /\ b2[ActAt(at[k], m) + 1].x = U[k][m]
  <2>1. m \in 1..Len(T[k])
    BY <1>7
  <2>2. b2[ActAt(at[k], m)] = b[ActAt(at[k], m)]
    BY <1>11, <1>12, <2>1
  <2>3. b2[ActAt(at[k], m)].f = "act" /\ b2[ActAt(at[k], m)].v = ActLen
    BY <1>9, <2>1, <2>2
  <2>4. CASE ActAt(at[k], m) + 1 = q
    <3>1. k = i /\ m = j
      BY <1>11, <2>1, <2>4
    <3>2. U[k][m] = x
      BY <1>4, <1>6, <3>1
    <3>3. QED
      BY <1>13, <2>3, <2>4, <3>2
  <2>5. CASE ActAt(at[k], m) + 1 # q
    <3>1. b2[ActAt(at[k], m) + 1] = b[ActAt(at[k], m) + 1]
      BY <1>11, <1>12, <2>1, <2>5
    <3>2. ~(k = i /\ m = j)
      BY <2>5 DEF q
    <3>3. U[k][m] = T[k][m]
      BY <1>4, <1>6, <2>1, <3>2
    <3>4. b[ActAt(at[k], m) + 1].x = T[k][m]
      BY <1>9, <2>1
    <3>5. QED
      BY <2>3, <3>1, <3>3, <3>4
  <2>6. QED
    BY <2>4, <2>5
<1>19. \A k \in 1..n : at[k + 1] = at[k] + Size(Len(U[k]))
  BY <1>7, <1>8
<1>20. \A k \in 1..n, m \in 1..n + 1 : k < m => at[k] + Size(Len(U[k])) <= at[m]
  BY <1>7, <1>8
<1>21. at \in [1..n + 1 -> Nat] /\ at[1] = MsgLen + 1 /\ at[n + 1] = Len(b2) + 1
  BY <1>8, <1>15
<1>22. Laid(b2, U, at)
  BY <1>6, <1>16, <1>17, <1>18, <1>19, <1>20, <1>21 DEF Laid
<1>23. QED
  BY <1>22 DEF U
-----------------------------------------------------------------------------
(* Windows and what they were bound from.                                   *)

Window == [parent : Objects \cup {NoObject}, off : Nat, len : Nat]

\* A window is bound from one of the kind above, which is itself bound.
Chain(objs) ==
    /\ objs \in [Objects -> Window]
    /\ objs[Msg].parent = NoObject
    /\ \A l \in Lists : objs[l].parent \in {NoObject, Msg}
    /\ \A e \in Elements : objs[e].parent # NoObject =>
          objs[e].parent \in Lists /\ objs[objs[e].parent].parent # NoObject
    /\ \A l \in ALists : objs[l].parent # NoObject =>
          objs[l].parent \in Elements /\ objs[objs[l].parent].parent # NoObject
    /\ \A a \in Actions : objs[a].parent # NoObject =>
          objs[a].parent \in ALists /\ objs[objs[a].parent].parent # NoObject

\* What the objects of S were bound from.
Parents(objs, S) == {objs[p].parent : p \in S} \ {NoObject}

\* Of a single object.
LEMMA ParentsOfOne ==
    ASSUME NEW objs
    PROVE  /\ Parents(objs, {}) = {}
           /\ \A o : Parents(objs, {o}) = IF objs[o].parent = NoObject THEN {} ELSE {objs[o].parent}
BY DEF Parents

\* The objects that a window is a part of.
LEMMA Lineages ==
    ASSUME NEW objs, Chain(objs)
    PROVE  /\ \A o \in Objects : objs[o].parent = NoObject => Lineage(objs, o) = {o}
           /\ Lineage(objs, Msg) = {Msg}
           /\ \A l \in Lists : objs[l].parent # NoObject => Lineage(objs, l) = {l, Msg}
           /\ \A e \in Elements : objs[e].parent # NoObject =>
                 Lineage(objs, e) = {e, objs[e].parent, Msg}
           /\ \A l \in ALists : objs[l].parent # NoObject =>
                 Lineage(objs, l) = {l, objs[l].parent, objs[objs[l].parent].parent, Msg}
           /\ \A a \in Actions : objs[a].parent # NoObject =>
                 LET l == objs[a].parent
                 IN  Lineage(objs, a) = {a, l, objs[l].parent, objs[objs[l].parent].parent, Msg}
<1>0. NoObject \notin Objects /\ Msg \in Objects
  BY LociAssumption DEF Objects
<1>1. ASSUME NEW o, NEW A, NEW B, NEW C, NEW D,
             Parents(objs, {o}) = A, Parents(objs, A) = B, Parents(objs, B) = C,
             Parents(objs, C) = D
      PROVE  Lineage(objs, o) = {o} \cup A \cup B \cup C \cup D
  BY <1>1 DEF Lineage, Parents
<1>2. ASSUME NEW o, objs[o].parent = NoObject
      PROVE  Lineage(objs, o) = {o}
  <2>1. Parents(objs, {o}) = {} /\ Parents(objs, {}) = {}
    BY <1>2, ParentsOfOne
  <2>2. Lineage(objs, o) = {o} \cup {} \cup {} \cup {} \cup {}
    BY <1>1, <2>1
  <2>3. QED
    BY <2>2
<1>3. Lineage(objs, Msg) = {Msg}
  BY <1>2 DEF Chain
<1>4. objs[Msg].parent = NoObject /\ Msg # NoObject
  BY <1>0 DEF Chain
<1>5. ASSUME NEW l \in Lists, objs[l].parent # NoObject
      PROVE  Lineage(objs, l) = {l, Msg}
  <2>1. objs[l].parent = Msg
    BY <1>5 DEF Chain
  <2>2. /\ Parents(objs, {l}) = {Msg} /\ Parents(objs, {Msg}) = {}
        /\ Parents(objs, {}) = {}
    BY <1>4, <2>1, ParentsOfOne
  <2>3. Lineage(objs, l) = {l} \cup {Msg} \cup {} \cup {} \cup {}
    BY <1>1, <2>2
  <2>4. QED
    BY <2>3
<1>6. ASSUME NEW e \in Elements, objs[e].parent # NoObject
      PROVE  Lineage(objs, e) = {e, objs[e].parent, Msg}
  <2> DEFINE l == objs[e].parent
  <2>1. l \in Lists /\ objs[l].parent = Msg
    BY <1>6 DEF Chain
  <2>2. /\ Parents(objs, {e}) = {l} /\ Parents(objs, {l}) = {Msg} /\ Parents(objs, {Msg}) = {}
        /\ Parents(objs, {}) = {}
    BY <1>4, <1>6, <2>1, ParentsOfOne
  <2> HIDE DEF l
  <2>3. Lineage(objs, e) = {e} \cup {l} \cup {Msg} \cup {} \cup {}
    BY <1>1, <2>2
  <2>4. QED
    BY <2>3 DEF l
<1>7. ASSUME NEW l \in ALists, objs[l].parent # NoObject
      PROVE  Lineage(objs, l) = {l, objs[l].parent, objs[objs[l].parent].parent, Msg}
  <2> DEFINE e == objs[l].parent
             k == objs[e].parent
  <2>1. e \in Elements /\ k # NoObject
    BY <1>7 DEF Chain
  <2>2. k \in Lists /\ objs[k].parent = Msg
    BY <2>1 DEF Chain
  <2>3. /\ Parents(objs, {l}) = {e} /\ Parents(objs, {e}) = {k}
        /\ Parents(objs, {k}) = {Msg} /\ Parents(objs, {Msg}) = {}
    BY <1>4, <1>7, <2>1, <2>2, ParentsOfOne
  <2> HIDE DEF e, k
  <2>4. Lineage(objs, l) = {l} \cup {e} \cup {k} \cup {Msg} \cup {}
    BY <1>1, <2>3
  <2>5. QED
    BY <2>4 DEF e, k
<1>8. ASSUME NEW a \in Actions, objs[a].parent # NoObject
      PROVE  LET l == objs[a].parent
             IN  Lineage(objs, a) = {a, l, objs[l].parent, objs[objs[l].parent].parent, Msg}
  <2> DEFINE l == objs[a].parent
             e == objs[l].parent
             k == objs[e].parent
  <2>1. l \in ALists /\ e # NoObject
    BY <1>8 DEF Chain
  <2>2. e \in Elements /\ k # NoObject
    BY <2>1 DEF Chain
  <2>3. k \in Lists /\ objs[k].parent = Msg
    BY <2>2 DEF Chain
  <2>4. /\ Parents(objs, {a}) = {l} /\ Parents(objs, {l}) = {e} /\ Parents(objs, {e}) = {k}
        /\ Parents(objs, {k}) = {Msg}
    BY <1>4, <1>8, <2>1, <2>2, <2>3, ParentsOfOne
  <2> HIDE DEF l, e, k
  <2>5. Lineage(objs, a) = {a} \cup {l} \cup {e} \cup {k} \cup {Msg}
    <3> DEFINE A == {l}
               B == {e}
               C == {k}
               D == {Msg}
    <3>1. /\ Parents(objs, {a}) = A /\ Parents(objs, A) = B /\ Parents(objs, B) = C
          /\ Parents(objs, C) = D
      BY <2>4
    <3> HIDE DEF A, B, C, D
    <3>2. Lineage(objs, a) = {a} \cup A \cup B \cup C \cup D
      BY <1>1, <3>1
    <3>3. QED
      BY <3>2 DEF A, B, C, D
  <2>6. QED
    BY <2>5 DEF l, e, k
<1>9. QED
  BY <1>2, <1>3, <1>5, <1>6, <1>7, <1>8

\* The kinds of objects are apart.
LEMMA Kinds ==
    /\ NoObject \notin Objects /\ Msg \in Objects
    /\ Lists \subseteq Objects /\ Elements \subseteq Objects
    /\ ALists \subseteq Objects /\ Actions \subseteq Objects
    /\ HasWireLength(Msg) /\ Kind(Msg) = "msg"
    /\ \A l \in Lists : ~HasWireLength(l) /\ l \notin Elements /\ l \notin ALists /\ l \notin Actions /\ l # Msg
    /\ \A e \in Elements : Kind(e) = "elt" /\ HasWireLength(e) /\ e \notin ALists /\ e \notin Actions
                            /\ e # Msg /\ e \notin Lists
    /\ \A l \in ALists : ~HasWireLength(l) /\ l \notin Actions /\ l # Msg /\ l \notin Elements /\ l \notin Lists
    /\ \A a \in Actions : Kind(a) = "act" /\ HasWireLength(a) /\ a # Msg
                           /\ a \notin Lists /\ a \notin Elements /\ a \notin ALists
<1>1. \A o : o # Msg /\ o \notin Elements /\ o \notin Actions => Kind(o) = "list"
  BY DEF Kind
<1>2. Kind(Msg) = "msg"
  BY LociAssumption DEF Kind
<1>3. \A o \in Elements : Kind(o) = "elt"
  BY LociAssumption DEF Kind
<1>4. \A o \in Actions : Kind(o) = "act"
  BY LociAssumption DEF Kind
<1>5. QED
  BY <1>1, <1>2, <1>3, <1>4, LociAssumption DEF HasWireLength, Objects

\* What an object is a part of, the object it was bound from is a part of.
LEMMA LineageAbove ==
    ASSUME NEW objs, Chain(objs), NEW o \in Objects, objs[o].parent # NoObject
    PROVE  /\ objs[o].parent \in Objects /\ objs[o].parent \in Lineage(objs, o)
           /\ Lineage(objs, objs[o].parent) \subseteq Lineage(objs, o)
<1>1. CASE o = Msg
  BY <1>1 DEF Chain
<1>2. CASE o \in Lists
  <2>1. objs[o].parent = Msg
    BY <1>2 DEF Chain
  <2>2. QED
    BY <1>2, <2>1, Kinds, Lineages
<1>3. CASE o \in Elements
  <2>1. objs[o].parent \in Lists /\ objs[objs[o].parent].parent # NoObject
    BY <1>3 DEF Chain
  <2>2. QED
    BY <1>3, <2>1, Kinds, Lineages
<1>4. CASE o \in ALists
  <2>1. objs[o].parent \in Elements /\ objs[objs[o].parent].parent # NoObject
    BY <1>4 DEF Chain
  <2>2. QED
    BY <1>4, <2>1, Kinds, Lineages
<1>5. CASE o \in Actions
  <2>1. objs[o].parent \in ALists /\ objs[objs[o].parent].parent # NoObject
    BY <1>5 DEF Chain
  <2>2. QED
    BY <1>5, <2>1, Kinds, Lineages
<1>6. QED
  BY <1>1, <1>2, <1>3, <1>4, <1>5 DEF Objects

\* The kinds of a parent and of what is bound from it.
Holds(p, c) ==
    \/ p = Msg /\ c \in Lists
    \/ p \in Lists /\ c \in Elements
    \/ p \in Elements /\ c \in ALists
    \/ p \in ALists /\ c \in Actions

\* Binding a window anew: those below it are dropped, no other is touched.
LEMMA AttachedKeeps ==
    ASSUME Chain(ob), NEW p \in Objects, NEW c \in Objects, Holds(p, c),
           p = Msg \/ ob[p].parent # NoObject,
           NEW off, ob[p].off + off \in Nat, NEW len \in Nat,
           NEW new, new = Attached(p, c, off, len)
    PROVE  /\ Chain(new) /\ c \notin Lineage(ob, p)
           /\ new[c].parent = p /\ new[c].off = ob[p].off + off /\ new[c].len = len
           /\ \A o \in Objects \ {c} : new[o].parent # NoObject =>
                 /\ new[o] = ob[o] /\ ob[o].parent # c /\ ob[o].parent \in Objects
                 /\ new[ob[o].parent] = ob[ob[o].parent]
           /\ \A o \in Lineage(ob, p) : o \in Objects /\ new[o] = ob[o]
           /\ new[Msg] = ob[Msg] /\ Lineage(new, p) = Lineage(ob, p)
<1>0. /\ NoObject \notin Objects /\ c # Msg /\ p # c /\ Msg \in Objects
  BY Kinds DEF Holds
<1>1. /\ Unbound \in Window /\ Unbound.parent = NoObject
  BY DEF Unbound, Window
<1>2. [parent |-> p, off |-> ob[p].off + off, len |-> len] \in Window
  BY DEF Window
<1>3. \A o \in Objects :
         new[o] = IF o = c THEN [parent |-> p, off |-> ob[p].off + off, len |-> len]
                  ELSE IF o \in Below(c) THEN Unbound ELSE ob[o]
  BY DEF Attached
<1>4. new \in [Objects -> Window]
  <2>1. ob \in [Objects -> Window]
    BY DEF Chain
  <2>2. QED
    BY <1>1, <1>2, <2>1 DEF Attached
<1>5. \A o \in Objects : o # c => (o \in Below(c) <=> c \in Lineage(ob, o))
  BY DEF Below
<1>6. new[c] = [parent |-> p, off |-> ob[p].off + off, len |-> len]
  BY <1>3
<1>7. ASSUME NEW o \in Objects \ {c}, new[o].parent # NoObject
      PROVE  /\ new[o] = ob[o] /\ ob[o].parent # c /\ ob[o].parent \in Objects
             /\ new[ob[o].parent] = ob[ob[o].parent]
  <2>1. o \notin Below(c)
    BY <1>1, <1>3, <1>7
  <2>2. new[o] = ob[o] /\ ob[o].parent # NoObject
    BY <1>3, <1>7, <2>1
  <2>3. c \notin Lineage(ob, o)
    BY <1>5, <2>1
  <2>4. /\ ob[o].parent \in Objects /\ ob[o].parent \in Lineage(ob, o)
        /\ Lineage(ob, ob[o].parent) \subseteq Lineage(ob, o)
    BY <2>2, LineageAbove
  <2>5. ob[o].parent # c /\ c \notin Lineage(ob, ob[o].parent)
    BY <2>3, <2>4
  <2>6. QED
    BY <1>3, <1>5, <2>2, <2>4, <2>5
<1>8. c \notin Lineage(ob, p) /\ (\A o \in Lineage(ob, p) : o \in Objects /\ c \notin Lineage(ob, o))
  <2>1. CASE p = Msg /\ c \in Lists
    BY <1>0, <2>1, Lineages
  <2>2. CASE p \in Lists /\ c \in Elements
    <3>1. Lineage(ob, p) = {p, Msg} /\ Lineage(ob, Msg) = {Msg}
      BY <2>2, Kinds, Lineages
    <3>2. QED
      BY <1>0, <3>1
  <2>3. CASE p \in Elements /\ c \in ALists
    <3>0. ob[p].parent # NoObject
      BY <2>3, Kinds
    <3>1. ob[p].parent \in Lists /\ ob[ob[p].parent].parent # NoObject
      BY <3>0, <2>3 DEF Chain
    <3>2. /\ Lineage(ob, p) = {p, ob[p].parent, Msg} /\ Lineage(ob, Msg) = {Msg}
          /\ Lineage(ob, ob[p].parent) = {ob[p].parent, Msg}
      BY <2>3, <3>0, <3>1, Lineages
    <3>3. QED
      BY <1>0, <2>3, <3>1, <3>2, Kinds
  <2>4. CASE p \in ALists /\ c \in Actions
    <3> DEFINE e == ob[p].parent
               l == ob[e].parent
    <3>0. ob[p].parent # NoObject
      BY <2>4, Kinds
    <3>1. e \in Elements /\ ob[e].parent # NoObject
      BY <3>0, <2>4 DEF Chain
    <3>2. l \in Lists /\ ob[l].parent # NoObject
      BY <3>1 DEF Chain
    <3>3. /\ Lineage(ob, p) = {p, e, l, Msg} /\ Lineage(ob, Msg) = {Msg}
          /\ Lineage(ob, e) = {e, l, Msg} /\ Lineage(ob, l) = {l, Msg}
      BY <2>4, <3>0, <3>1, <3>2, Lineages
    <3> HIDE DEF e, l
    <3>4. QED
      BY <1>0, <2>4, <3>1, <3>2, <3>3, Kinds
  <2>5. QED
    BY <2>1, <2>2, <2>3, <2>4 DEF Holds
<1>9. \A o \in Lineage(ob, p) : o \in Objects /\ new[o] = ob[o]
  BY <1>3, <1>5, <1>8
<1>10. p \in Lineage(ob, p) /\ new[p] = ob[p]
  <2>1. p \in Lineage(ob, p)
    BY DEF Lineage
  <2>2. QED
    BY <1>9, <2>1
<1>11. new[Msg] = ob[Msg]
  <2>1. Lineage(ob, Msg) = {Msg}
    BY Lineages
  <2>2. QED
    BY <1>0, <1>3, <1>5, <2>1
<1>12. new[c].parent = p /\ p # NoObject
  BY <1>0, <1>6
<1>13. ASSUME NEW o \in Objects \ {c}, new[o].parent # NoObject
       PROVE  /\ new[o].parent = ob[o].parent /\ ob[o].parent # NoObject
              /\ new[ob[o].parent] = ob[ob[o].parent]
  BY <1>7, <1>13
<1>14. Chain(new)
  <2>1. new[Msg].parent = NoObject
    BY <1>11 DEF Chain
  <2>2. ASSUME NEW l \in Lists
        PROVE  new[l].parent \in {NoObject, Msg}
    <3>1. CASE l = c
      BY <1>12, <3>1, Kinds DEF Holds
    <3>2. CASE l # c
      <4>1. l \in Objects \ {c}
        BY <3>2, Kinds
      <4>2. ob[l].parent \in {NoObject, Msg}
        BY DEF Chain
      <4>3. QED
        BY <1>13, <4>1, <4>2
    <3>3. QED
      BY <3>1, <3>2
  <2>3. ASSUME NEW e \in Elements, new[e].parent # NoObject
        PROVE  new[e].parent \in Lists /\ new[new[e].parent].parent # NoObject
    <3>1. CASE e = c
      <4>1. p \in Lists
        BY <3>1, Kinds DEF Holds
      <4>2. ob[p].parent # NoObject
        BY <4>1, Kinds
      <4>3. QED
        BY <1>10, <1>12, <3>1, <4>1, <4>2
    <3>2. CASE e # c
      <4>1. e \in Objects \ {c}
        BY <3>2, Kinds
      <4>2. /\ new[e].parent = ob[e].parent /\ ob[e].parent # NoObject
            /\ new[ob[e].parent] = ob[ob[e].parent]
        BY <1>13, <2>3, <4>1
      <4>3. ob[e].parent \in Lists /\ ob[ob[e].parent].parent # NoObject
        BY <4>2 DEF Chain
      <4>4. QED
        BY <4>2, <4>3
    <3>3. QED
      BY <3>1, <3>2
  <2>4. ASSUME NEW l \in ALists, new[l].parent # NoObject
        PROVE  new[l].parent \in Elements /\ new[new[l].parent].parent # NoObject
    <3>1. CASE l = c
      <4>1. p \in Elements
        BY <3>1, Kinds DEF Holds
      <4>2. ob[p].parent # NoObject
        BY <4>1, Kinds
      <4>3. QED
        BY <1>10, <1>12, <3>1, <4>1, <4>2
    <3>2. CASE l # c
      <4>1. l \in Objects \ {c}
        BY <3>2, Kinds
      <4>2. /\ new[l].parent = ob[l].parent /\ ob[l].parent # NoObject
            /\ new[ob[l].parent] = ob[ob[l].parent]
        BY <1>13, <2>4, <4>1
      <4>3. ob[l].parent \in Elements /\ ob[ob[l].parent].parent # NoObject
        BY <4>2 DEF Chain
      <4>4. QED
        BY <4>2, <4>3
    <3>3. QED
      BY <3>1, <3>2
  <2>5. ASSUME NEW a \in Actions, new[a].parent # NoObject
        PROVE  new[a].parent \in ALists /\ new[new[a].parent].parent # NoObject
    <3>1. CASE a = c
      <4>1. p \in ALists
        BY <3>1, Kinds DEF Holds
      <4>2. ob[p].parent # NoObject
        BY <4>1, Kinds
      <4>3. QED
        BY <1>10, <1>12, <3>1, <4>1, <4>2
    <3>2. CASE a # c
      <4>1. a \in Objects \ {c}
        BY <3>2, Kinds
      <4>2. /\ new[a].parent = ob[a].parent /\ ob[a].parent # NoObject
            /\ new[ob[a].parent] = ob[ob[a].parent]
        BY <1>13, <2>5, <4>1
      <4>3. ob[a].parent \in ALists /\ ob[ob[a].parent].parent # NoObject
        BY <4>2 DEF Chain
      <4>4. QED
        BY <4>2, <4>3
    <3>3. QED
      BY <3>1, <3>2
  <2>6. QED
    BY <1>4, <2>1, <2>2, <2>3, <2>4, <2>5 DEF Chain
<1>15. Lineage(new, p) = Lineage(ob, p)
  <2>1. CASE p = Msg
    BY <1>14, <2>1, Lineages
  <2>2. CASE p \in Lists
    <3>1. ob[p].parent # NoObject
      BY <2>2, Kinds
    <3>2. Lineage(ob, p) = {p, Msg}
      BY <2>2, <3>1, Lineages
    <3>3. Lineage(new, p) = {p, Msg}
      BY <1>10, <1>14, <2>2, <3>1, Lineages
    <3>4. QED
      BY <3>2, <3>3
  <2>3. CASE p \in Elements
    <3>1. ob[p].parent # NoObject
      BY <2>3, Kinds
    <3>2. Lineage(ob, p) = {p, ob[p].parent, Msg}
      BY <2>3, <3>1, Lineages
    <3>3. Lineage(new, p) = {p, new[p].parent, Msg}
      BY <1>10, <1>14, <2>3, <3>1, Lineages
    <3>4. QED
      BY <1>10, <3>2, <3>3
  <2>4. CASE p \in ALists
    <3>1. ob[p].parent # NoObject
      BY <2>4, Kinds
    <3>2. Lineage(ob, p) = {p, ob[p].parent, ob[ob[p].parent].parent, Msg}
      BY <2>4, <3>1, Lineages
    <3>3. Lineage(new, p) = {p, new[p].parent, new[new[p].parent].parent, Msg}
      BY <1>10, <1>14, <2>4, <3>1, Lineages
    <3>4. ob[p].parent \in Lineage(ob, p)
      BY <3>2
    <3>5. new[ob[p].parent] = ob[ob[p].parent]
      BY <1>9, <3>4
    <3>6. QED
      BY <1>10, <3>2, <3>3, <3>5
  <2>5. QED
    BY <2>1, <2>2, <2>3, <2>4 DEF Holds
<1>16. new[c].off = ob[p].off + off /\ new[c].len = len
  BY <1>6
<1>17. QED
  BY <1>7, <1>8, <1>9, <1>11, <1>12, <1>14, <1>15, <1>16

\* Lengths play no part in what a window is a part of.
LEMMA SameLineage ==
    ASSUME NEW objs, Chain(objs), NEW new, Chain(new),
           \A p \in Objects : new[p].parent = objs[p].parent,
           NEW o \in Objects
    PROVE  Lineage(new, o) = Lineage(objs, o)
<1>1. CASE objs[o].parent = NoObject
  <2>1. Lineage(objs, o) = {o}
    BY <1>1, Lineages
  <2>2. Lineage(new, o) = {o}
    BY <1>1, Lineages
  <2>3. QED
    BY <2>1, <2>2
<1>2. CASE o \in Lists /\ objs[o].parent # NoObject
  <2>1. Lineage(objs, o) = {o, Msg}
    BY <1>2, Lineages
  <2>2. Lineage(new, o) = {o, Msg}
    BY <1>2, Lineages
  <2>3. QED
    BY <2>1, <2>2
<1>3. CASE o \in Elements /\ objs[o].parent # NoObject
  <2>1. Lineage(objs, o) = {o, objs[o].parent, Msg}
    BY <1>3, Lineages
  <2>2. Lineage(new, o) = {o, new[o].parent, Msg}
    BY <1>3, Lineages
  <2>3. QED
    BY <2>1, <2>2
<1>4. CASE o \in ALists /\ objs[o].parent # NoObject
  <2>1. Lineage(objs, o) = {o, objs[o].parent, objs[objs[o].parent].parent, Msg}
    BY <1>4, Lineages
  <2>2. Lineage(new, o) = {o, new[o].parent, new[new[o].parent].parent, Msg}
    BY <1>4, Lineages
  <2>3. objs[o].parent \in Objects
    BY <1>4, LineageAbove
  <2>4. QED
    BY <2>1, <2>2, <2>3
<1>5. CASE o \in Actions /\ objs[o].parent # NoObject
  <2> DEFINE l == objs[o].parent
             e == objs[l].parent
  <2>1. l \in ALists /\ e # NoObject
    BY <1>5 DEF Chain
  <2>2. e \in Elements
    BY <2>1 DEF Chain
  <2>3. Lineage(objs, o) = {o, l, e, objs[e].parent, Msg}
    BY <1>5, Lineages
  <2>4. new[o].parent = l /\ new[l].parent = e /\ new[e].parent = objs[e].parent
    BY <2>1, <2>2, Kinds
  <2>5. Lineage(new, o) = {o, l, e, objs[e].parent, Msg}
    <3> DEFINE k == new[o].parent
    <3>1. Lineage(new, o) = {o, k, new[k].parent, new[new[k].parent].parent, Msg}
      BY <1>5, Lineages
    <3>2. k = l
      BY <2>4
    <3> HIDE DEF k, l, e
    <3>3. QED
      BY <2>4, <3>1, <3>2
  <2>6. QED
    BY <2>3, <2>5
<1>6. QED
  <2>1. objs[Msg].parent = NoObject
    BY DEF Chain
  <2>2. QED
    BY <1>1, <1>2, <1>3, <1>4, <1>5, <2>1 DEF Objects

\* The windows new are the windows objs but for the length of o and of what
\* it is a part of.
OnlyLonger(new, objs, o, delta) ==
    /\ Chain(new)
    /\ \A p \in Objects :
          /\ new[p].parent = objs[p].parent /\ new[p].off = objs[p].off
          /\ new[p].len = IF p \in Lineage(objs, o) THEN objs[p].len + delta ELSE objs[p].len
          /\ Lineage(new, p) = Lineage(objs, p)

\* of_object_parent_length_update() changes the lengths of an object and of
\* what it is a part of, and nothing else of any window.
LEMMA LengthenedKeeps ==
    ASSUME NEW objs, Chain(objs), NEW o \in Objects, NEW delta \in Int,
           \A p \in Lineage(objs, o) : p \in Objects => objs[p].len + delta \in Nat
    PROVE  OnlyLonger(Lengthened(objs, o, delta), objs, o, delta)
<1> DEFINE new == Lengthened(objs, o, delta)
<1>1. objs \in [Objects -> Window]
  BY DEF Chain
<1>2. \A p \in Objects :
         new[p] = IF p \in Lineage(objs, o) THEN [objs[p] EXCEPT !.len = @ + delta] ELSE objs[p]
  BY DEF Lengthened
<1>2a. new = [p \in Objects |-> new[p]]
  BY DEF Lengthened
<1> HIDE DEF new
<1>3. ASSUME NEW p \in Objects
      PROVE  /\ new[p].parent = objs[p].parent /\ new[p].off = objs[p].off
             /\ new[p].len = IF p \in Lineage(objs, o) THEN objs[p].len + delta ELSE objs[p].len
             /\ new[p] \in Window
  <2>1. objs[p] \in Window
    BY <1>1
  <2>2. CASE p \in Lineage(objs, o)
    <3>1. objs[p].len + delta \in Nat
      BY <2>2
    <3>2. QED
      BY <1>2, <2>1, <2>2, <3>1 DEF Window
  <2>3. CASE p \notin Lineage(objs, o)
    BY <1>2, <2>1, <2>3
  <2>4. QED
    BY <2>2, <2>3
<1>4. new \in [Objects -> Window]
  BY <1>2a, <1>3
<1>5. \A p \in Objects : objs[p].parent # NoObject => objs[p].parent \in Objects
  BY LineageAbove
<1>6. Chain(new)
  <2>1. new[Msg].parent = NoObject
    BY <1>3, Kinds DEF Chain
  <2>2. \A l \in Lists : new[l].parent \in {NoObject, Msg}
    BY <1>3, Kinds DEF Chain
  <2>3. \A p \in Objects : new[p].parent # NoObject =>
           new[new[p].parent].parent = objs[objs[p].parent].parent
    BY <1>3, <1>5
  <2>4. \A e \in Elements : new[e].parent # NoObject =>
           new[e].parent \in Lists /\ new[new[e].parent].parent # NoObject
    BY <1>3, <2>3, Kinds DEF Chain
  <2>5. \A l \in ALists : new[l].parent # NoObject =>
           new[l].parent \in Elements /\ new[new[l].parent].parent # NoObject
    BY <1>3, <2>3, Kinds DEF Chain
  <2>6. \A a \in Actions : new[a].parent # NoObject =>
           new[a].parent \in ALists /\ new[new[a].parent].parent # NoObject
    BY <1>3, <2>3, Kinds DEF Chain
  <2>7. QED
    BY <1>4, <2>1, <2>2, <2>4, <2>5, <2>6 DEF Chain
<1>7. \A p \in Objects : Lineage(new, p) = Lineage(objs, p)
  BY <1>3, <1>6, SameLineage
<1>8. QED
  BY <1>3, <1>6, <1>7 DEF OnlyLonger, new
-----------------------------------------------------------------------------
(* Windows on the message.                                                  *)

\* A window on element i, which has the length of the element if it is fresh.
OnElement(w, fresh, i, T, at) ==
    /\ w.off + 1 = at[i] /\ w.len >= EltLen /\ w.len <= Size(Len(T[i]))
    /\ fresh => w.len = Size(Len(T[i]))

OnAction(w, i, j, at) == w.off + 1 = ActAt(at[i], j) /\ w.len = ActLen

\* The windows on a buffer of n cells; those of it are fresh.
Placed(objs, it, n, T, at) ==
    /\ Chain(objs) /\ objs[Msg].off = 0
    /\ \A l \in Lists : objs[l].parent # NoObject =>
          objs[l].off = MsgLen /\ objs[l].off + objs[l].len <= n
    /\ \A e \in Elements : objs[e].parent # NoObject =>
          \E i \in 1..Len(T) : OnElement(objs[e], e \in it, i, T, at)
    /\ \A l \in ALists : objs[l].parent # NoObject =>
          LET e == objs[l].parent
          IN  /\ objs[l].off = objs[e].off + EltLen
              /\ objs[l].off + objs[l].len <= objs[e].off + objs[e].len
    /\ \A a \in Actions : objs[a].parent # NoObject =>
          \E i \in 1..Len(T) : \E j \in 1..Len(T[i]) : OnAction(objs[a], i, j, at)

\* Windows stay where they are while the message grows behind them.
LEMMA PlacedGrown ==
    ASSUME NEW objs, NEW it, NEW n \in Nat, NEW T, NEW at, Placed(objs, it, n, T, at),
           NEW m \in Nat, n <= m, NEW U, NEW at2, Len(T) \in Nat, Len(U) \in Nat,
           Len(T) <= Len(U),
           \A i \in 1..Len(T) : /\ at2[i] = at[i] /\ Len(T[i]) \in Nat /\ Len(U[i]) \in Nat
                                 /\ Len(T[i]) <= Len(U[i])
                                 /\ Size(Len(T[i])) \in Nat /\ Size(Len(U[i])) \in Nat
                                 /\ Size(Len(T[i])) <= Size(Len(U[i]))
    PROVE  Placed(objs, {}, m, U, at2)
<1>1. objs \in [Objects -> Window] /\ Chain(objs)
  BY DEF Placed, Chain
<1>2. \A i \in 1..Len(T) : i \in 1..Len(U)
  OBVIOUS
<1>3. ASSUME NEW l \in Lists, objs[l].parent # NoObject
      PROVE  objs[l].off = MsgLen /\ objs[l].off + objs[l].len <= m
  <2>1. objs[l] \in Window
    BY <1>1, Kinds
  <2>2. objs[l].off = MsgLen /\ objs[l].off + objs[l].len <= n
    BY <1>3 DEF Placed
  <2>3. objs[l].off \in Nat /\ objs[l].len \in Nat
    BY <2>1 DEF Window
  <2>4. QED
    BY <2>2, <2>3
<1>4. ASSUME NEW e \in Elements, objs[e].parent # NoObject
      PROVE  \E i \in 1..Len(U) : OnElement(objs[e], e \in {}, i, U, at2)
  <2>1. PICK i \in 1..Len(T) : OnElement(objs[e], e \in it, i, T, at)
    BY <1>4 DEF Placed
  <2> DEFINE w == objs[e]
             s == Size(Len(T[i]))
             t == Size(Len(U[i]))
  <2>2. w \in Window
    BY <1>1, Kinds
  <2>3. w.len \in Nat
    BY <2>2 DEF Window
  <2>4. s \in Nat /\ t \in Nat /\ s <= t
    OBVIOUS
  <2>5. w.off + 1 = at2[i] /\ w.len >= EltLen /\ w.len <= s
    BY <2>1 DEF OnElement
  <2> HIDE DEF w, s, t
  <2>6. w.len <= t
    BY <2>3, <2>4, <2>5
  <2>7. OnElement(w, e \in {}, i, U, at2)
    BY <2>5, <2>6 DEF OnElement, t
  <2>8. QED
    BY <1>2, <2>7 DEF w
<1>5. ASSUME NEW a \in Actions, objs[a].parent # NoObject
      PROVE  \E i \in 1..Len(U) : \E j \in 1..Len(U[i]) : OnAction(objs[a], i, j, at2)
  <2>1. PICK i \in 1..Len(T) : \E j \in 1..Len(T[i]) : OnAction(objs[a], i, j, at)
    BY <1>5 DEF Placed
  <2>2. PICK j \in 1..Len(T[i]) : OnAction(objs[a], i, j, at)
    BY <2>1
  <2>3. j \in 1..Len(U[i])
    <3>1. Len(T[i]) \in Nat /\ Len(U[i]) \in Nat /\ Len(T[i]) <= Len(U[i])
      OBVIOUS
    <3>2. QED
      BY <3>1
  <2>4. OnAction(objs[a], i, j, at2)
    BY <2>2 DEF OnAction
  <2>5. QED
    BY <1>2, <2>3, <2>4
<1>6. QED
  BY <1>1, <1>3, <1>4, <1>5 DEF Placed

\* A window that is bound anew, at a place of its kind.
LEMMA PlacedAttached ==
    ASSUME NEW it, NEW n, NEW T, NEW at, Placed(ob, it, n, T, at),
           NEW p \in Objects, NEW c \in Objects, Holds(p, c),
           p = Msg \/ ob[p].parent # NoObject,
           NEW off, ob[p].off + off \in Nat, NEW len \in Nat,
           NEW new, new = Attached(p, c, off, len), NEW it2, it2 \ {c} \subseteq it,
           c \in Lists => ob[p].off + off = MsgLen /\ ob[p].off + off + len <= n,
           c \in Elements =>
              \E i \in 1..Len(T) : OnElement([off |-> ob[p].off + off, len |-> len], c \in it2, i, T, at),
           c \in ALists => off = EltLen /\ off + len <= ob[p].len,
           c \in Actions =>
              \E i \in 1..Len(T) : \E j \in 1..Len(T[i]) :
                 OnAction([off |-> ob[p].off + off, len |-> len], i, j, at)
    PROVE  Placed(new, it2, n, T, at)
<1>0. Chain(ob) /\ ob \in [Objects -> Window]
  BY DEF Placed, Chain
<1>1. /\ Chain(new)
      /\ new[c].parent = p /\ new[c].off = ob[p].off + off /\ new[c].len = len
      /\ \A o \in Objects \ {c} : new[o].parent # NoObject =>
            /\ new[o] = ob[o] /\ ob[o].parent # c /\ ob[o].parent \in Objects
            /\ new[ob[o].parent] = ob[ob[o].parent]
      /\ new[Msg] = ob[Msg]
      /\ p \in Lineage(ob, p) /\ (\A o \in Lineage(ob, p) : o \in Objects /\ new[o] = ob[o])
  <2>1. p \in Lineage(ob, p)
    BY DEF Lineage
  <2>2. QED
    BY <1>0, <2>1, AttachedKeeps
<1>2. new[p] = ob[p]
  BY <1>1
<1>3. new[Msg].off = 0
  BY <1>1 DEF Placed
<1>4. ASSUME NEW l \in Lists, new[l].parent # NoObject
      PROVE  new[l].off = MsgLen /\ new[l].off + new[l].len <= n
  <2>1. CASE l = c
    BY <1>1, <2>1
  <2>2. CASE l # c
    <3>1. new[l] = ob[l]
      BY <1>1, <1>4, <2>2, Kinds
    <3>2. QED
      BY <1>4, <3>1 DEF Placed
  <2>3. QED
    BY <2>1, <2>2
<1>5. ASSUME NEW e \in Elements, new[e].parent # NoObject
      PROVE  \E i \in 1..Len(T) : OnElement(new[e], e \in it2, i, T, at)
  <2>1. CASE e = c
    <3>1. PICK i \in 1..Len(T) :
             OnElement([off |-> ob[p].off + off, len |-> len], c \in it2, i, T, at)
      BY <2>1
    <3>2. OnElement(new[e], e \in it2, i, T, at)
      BY <1>1, <2>1, <3>1 DEF OnElement
    <3>3. QED
      BY <3>2
  <2>2. CASE e # c
    <3>1. new[e] = ob[e]
      BY <1>1, <1>5, <2>2, Kinds
    <3>2. PICK i \in 1..Len(T) : OnElement(ob[e], e \in it, i, T, at)
      BY <1>5, <3>1 DEF Placed
    <3>3. e \in it2 => e \in it
      BY <2>2
    <3>4. OnElement(new[e], e \in it2, i, T, at)
      BY <3>1, <3>2, <3>3 DEF OnElement
    <3>5. QED
      BY <3>4
  <2>3. QED
    BY <2>1, <2>2
<1>6. ASSUME NEW l \in ALists, new[l].parent # NoObject
      PROVE  LET e == new[l].parent
             IN  /\ new[l].off = new[e].off + EltLen
                 /\ new[l].off + new[l].len <= new[e].off + new[e].len
  <2>1. CASE l = c
    <3>1. ob[p] \in Window
      BY <1>0
    <3>2. ob[p].off \in Nat /\ ob[p].len \in Nat
      BY <3>1 DEF Window
    <3>3. off = EltLen /\ off + len <= ob[p].len /\ EltLen \in Nat
      BY <2>1, LociAssumption
    <3>4. ob[p].off + off + len <= ob[p].off + ob[p].len
      BY <3>2, <3>3
    <3>5. QED
      BY <1>1, <1>2, <2>1, <3>3, <3>4
  <2>2. CASE l # c
    <3>1. new[l] = ob[l] /\ new[ob[l].parent] = ob[ob[l].parent]
      BY <1>1, <1>6, <2>2, Kinds
    <3>2. LET e == ob[l].parent
          IN  /\ ob[l].off = ob[e].off + EltLen
              /\ ob[l].off + ob[l].len <= ob[e].off + ob[e].len
      BY <1>6, <3>1 DEF Placed
    <3>3. QED
      BY <3>1, <3>2
  <2>3. QED
    BY <2>1, <2>2
<1>7. ASSUME NEW a \in Actions, new[a].parent # NoObject
      PROVE  \E i \in 1..Len(T) : \E j \in 1..Len(T[i]) : OnAction(new[a], i, j, at)
  <2>1. CASE a = c
    <3>1. PICK i \in 1..Len(T) : \E j \in 1..Len(T[i]) :
             OnAction([off |-> ob[p].off + off, len |-> len], i, j, at)
      BY <2>1
    <3>2. PICK j \in 1..Len(T[i]) : OnAction([off |-> ob[p].off + off, len |-> len], i, j, at)
      BY <3>1
    <3>3. OnAction(new[a], i, j, at)
      BY <1>1, <2>1, <3>2 DEF OnAction
    <3>4. QED
      BY <3>3
  <2>2. CASE a # c
    <3>1. new[a] = ob[a]
      BY <1>1, <1>7, <2>2, Kinds
    <3>2. QED
      BY <1>7, <3>1 DEF Placed
  <2>3. QED
    BY <2>1, <2>2
<1>8. QED
  BY <1>1, <1>3, <1>4, <1>5, <1>6, <1>7 DEF Placed

\* A list that grows, with all that it is a part of.
LEMMA PlacedLengthened ==
    ASSUME NEW objs, NEW n, NEW T, NEW at, Placed(objs, {}, n, T, at),
           NEW o \in {Msg} \cup Lists \cup ALists, o = Msg \/ objs[o].parent # NoObject,
           NEW delta \in Nat, NEW new, new = Lengthened(objs, o, delta),
           \A l \in Lists : l \in Lineage(objs, o) => objs[l].off + objs[l].len + delta <= n,
           \A e \in Elements : e \in Lineage(objs, o) =>
              \E i \in 1..Len(T) :
                 /\ objs[e].off + 1 = at[i] /\ objs[e].len >= EltLen
                 /\ objs[e].len + delta <= Size(Len(T[i]))
    PROVE  /\ Placed(new, {}, n, T, at) /\ new[Msg].len = objs[Msg].len + delta
           /\ \A p \in Objects : new[p].parent = objs[p].parent /\ new[p].off = objs[p].off
                                /\ Lineage(new, p) = Lineage(objs, p)
<1>0. Chain(objs) /\ objs \in [Objects -> Window] /\ o \in Objects /\ EltLen \in Nat
  BY Kinds, LociAssumption DEF Placed, Chain
<1>1. \A p \in Objects : objs[p].off \in Nat /\ objs[p].len \in Nat /\ objs[p] \in Window
  BY <1>0 DEF Window
<1>2. \A p \in Lineage(objs, o) : p \in Objects => objs[p].len + delta \in Nat
  BY <1>1
<1>3. /\ Chain(new)
      /\ \A p \in Objects :
            /\ new[p].parent = objs[p].parent /\ new[p].off = objs[p].off
            /\ new[p].len = IF p \in Lineage(objs, o) THEN objs[p].len + delta ELSE objs[p].len
            /\ Lineage(new, p) = Lineage(objs, p)
  <2>1. delta \in Int
    OBVIOUS
  <2>2. OnlyLonger(new, objs, o, delta)
    BY <1>0, <1>2, <2>1, LengthenedKeeps
  <2>3. QED
    BY <2>2 DEF OnlyLonger
<1>4. /\ Msg \in Lineage(objs, o)
      /\ \A q \in ALists : q \in Lineage(objs, o) =>
            q = o /\ objs[q].parent \in Lineage(objs, o)
      /\ \A a \in Actions : a \notin Lineage(objs, o)
  <2>1. CASE o = Msg
    BY <1>0, <2>1, Lineages, Kinds
  <2>2. CASE o \in Lists
    <3>1. Lineage(objs, o) = {o, Msg}
      BY <1>0, <2>2, Lineages, Kinds
    <3>2. QED
      BY <2>2, <3>1, Kinds
  <2>3. CASE o \in ALists
    <3> DEFINE e == objs[o].parent
               l == objs[e].parent
    <3>1. objs[o].parent # NoObject
      BY <2>3, Kinds
    <3>2. e \in Elements /\ e # NoObject /\ l # NoObject
      BY <1>0, <2>3, <3>1 DEF Chain
    <3>3. l \in Lists
      BY <1>0, <3>2 DEF Chain
    <3>4. Lineage(objs, o) = {o, e, l, Msg}
      BY <1>0, <2>3, <3>1, Lineages
    <3>5. objs[o].parent = e
      OBVIOUS
    <3> HIDE DEF e, l
    <3>6. QED
      BY <2>3, <3>2, <3>3, <3>4, <3>5, Kinds
  <2>4. QED
    BY <2>1, <2>2, <2>3
<1>5. new[Msg].off = 0 /\ new[Msg].len = objs[Msg].len + delta
  BY <1>3, <1>4, Kinds DEF Placed
<1>6. ASSUME NEW l \in Lists, new[l].parent # NoObject
      PROVE  new[l].off = MsgLen /\ new[l].off + new[l].len <= n
  <2>1. l \in Objects /\ objs[l].parent # NoObject
    BY <1>3, <1>6, Kinds
  <2>2. objs[l].off = MsgLen /\ objs[l].off + objs[l].len <= n
    BY <2>1 DEF Placed
  <2>3. CASE l \in Lineage(objs, o)
    <3>1. objs[l].off + objs[l].len + delta <= n
      BY <2>3
    <3>2. new[l].off = objs[l].off /\ new[l].len = objs[l].len + delta
      BY <1>3, <2>1, <2>3
    <3>3. objs[l].off \in Nat /\ objs[l].len \in Nat
      BY <1>1, <2>1
    <3>4. objs[l].off + (objs[l].len + delta) = objs[l].off + objs[l].len + delta
      BY <3>3
    <3>5. QED
      BY <2>2, <3>1, <3>2, <3>4
  <2>4. CASE l \notin Lineage(objs, o)
    BY <1>3, <2>1, <2>2, <2>4
  <2>5. QED
    BY <2>3, <2>4
<1>7. ASSUME NEW e \in Elements, new[e].parent # NoObject
      PROVE  \E i \in 1..Len(T) : OnElement(new[e], e \in {}, i, T, at)
  <2>1. e \in Objects /\ objs[e].parent # NoObject
    BY <1>3, <1>7, Kinds
  <2>2. CASE e \in Lineage(objs, o)
    <3>1. PICK i \in 1..Len(T) :
             /\ objs[e].off + 1 = at[i] /\ objs[e].len >= EltLen
             /\ objs[e].len + delta <= Size(Len(T[i]))
      BY <2>2
    <3>2. new[e].off = objs[e].off /\ new[e].len = objs[e].len + delta
      BY <1>3, <2>1, <2>2
    <3>3. objs[e].len \in Nat /\ objs[e].len + delta >= EltLen
      BY <1>0, <1>1, <2>1, <3>1
    <3>4. OnElement(new[e], e \in {}, i, T, at)
      BY <3>1, <3>2, <3>3 DEF OnElement
    <3>5. QED
      BY <3>4
  <2>3. CASE e \notin Lineage(objs, o)
    <3>1. PICK i \in 1..Len(T) : OnElement(objs[e], e \in {}, i, T, at)
      BY <2>1 DEF Placed
    <3>2. new[e].off = objs[e].off /\ new[e].len = objs[e].len
      BY <1>3, <2>1, <2>3
    <3>3. OnElement(new[e], e \in {}, i, T, at)
      BY <3>1, <3>2 DEF OnElement
    <3>4. QED
      BY <3>3
  <2>4. QED
    BY <2>2, <2>3
<1>8. ASSUME NEW l \in ALists, new[l].parent # NoObject
      PROVE  LET e == new[l].parent
             IN  /\ new[l].off = new[e].off + EltLen
                 /\ new[l].off + new[l].len <= new[e].off + new[e].len
  <2> DEFINE e == objs[l].parent
  <2>1. l \in Objects /\ objs[l].parent # NoObject /\ new[l].parent = e
    BY <1>3, <1>8, Kinds
  <2>2. e \in Elements
    BY <1>0, <2>1 DEF Chain
  <2>3. e \in Objects
    BY <2>2, Kinds
  <2>4. /\ objs[l].off = objs[e].off + EltLen
        /\ objs[l].off + objs[l].len <= objs[e].off + objs[e].len
    BY <2>1 DEF Placed
  <2>5. l \in Lineage(objs, o) => e \in Lineage(objs, o)
    BY <1>4
  <2>6. /\ objs[l].off \in Nat /\ objs[l].len \in Nat /\ objs[e].off \in Nat /\ objs[e].len \in Nat
    BY <1>1, <2>1, <2>3
  <2>7. /\ new[l].off = objs[l].off /\ new[e].off = objs[e].off
        /\ new[l].len = IF l \in Lineage(objs, o) THEN objs[l].len + delta ELSE objs[l].len
        /\ new[e].len = IF e \in Lineage(objs, o) THEN objs[e].len + delta ELSE objs[e].len
    BY <1>3, <2>1, <2>3
  <2> HIDE DEF e
  <2>8. new[l].off + new[l].len <= new[e].off + new[e].len
    <3>1. \A p, q, r, s, d \in Nat : p + q <= r + s => p + (q + d) <= r + (s + d) /\ p + q <= r + (s + d)
      OBVIOUS
    <3>2. CASE l \in Lineage(objs, o)
      <4>1. new[l].len = objs[l].len + delta /\ new[e].len = objs[e].len + delta
        BY <2>5, <2>7, <3>2
      <4>2. objs[l].off + (objs[l].len + delta) <= objs[e].off + (objs[e].len + delta)
        BY <2>4, <2>6, <3>1
      <4>3. QED
        BY <2>7, <4>1, <4>2
    <3>3. CASE l \notin Lineage(objs, o)
      BY <2>4, <2>6, <2>7, <3>3
    <3>4. QED
      BY <3>2, <3>3
  <2>9. QED
    BY <2>1, <2>4, <2>7, <2>8
<1>9. ASSUME NEW a \in Actions, new[a].parent # NoObject
      PROVE  \E i \in 1..Len(T) : \E j \in 1..Len(T[i]) : OnAction(new[a], i, j, at)
  <2>1. /\ new[a].off = objs[a].off /\ new[a].len = objs[a].len /\ objs[a].parent # NoObject
    BY <1>3, <1>4, <1>9, Kinds
  <2>2. PICK i \in 1..Len(T) : \E j \in 1..Len(T[i]) : OnAction(objs[a], i, j, at)
    BY <2>1 DEF Placed
  <2>3. PICK j \in 1..Len(T[i]) : OnAction(objs[a], i, j, at)
    BY <2>2
  <2>4. OnAction(new[a], i, j, at)
    BY <2>1, <2>3 DEF OnAction
  <2>5. QED
    BY <2>4
<1>10. QED
  BY <1>3, <1>5, <1>6, <1>7, <1>8, <1>9 DEF Placed

\* No window but the message.
LEMMA PlacedNone ==
    ASSUME NEW objs \in [Objects -> Window], NEW n, NEW T, NEW at,
           \A o \in Objects : objs[o].parent = NoObject, objs[Msg].off = 0
    PROVE  Placed(objs, {}, n, T, at)
<1>1. Chain(objs)
  BY Kinds DEF Chain
<1>2. QED
  BY <1>1, Kinds DEF Placed

\* The windows of S have a length each to write.
CanWrite(objs, S) ==
    /\ \A o \in S : HasWireLength(o) => objs[o].off \in Nat /\ objs[o].len \in 0..Alloc
    /\ \A o, p \in S : HasWireLength(o) /\ HasWireLength(p) /\ objs[o].off = objs[p].off =>
                         objs[o].len = objs[p].len

\* r is w but for the lengths of the windows of S.
Relengthened(r, objs, w, S) ==
    /\ r \in Seq(Cell) /\ Len(r) = Len(w)
    /\ \A i \in 1..Len(w) : r[i].f = w[i].f /\ r[i].x = w[i].x
    /\ \A i \in 1..Len(w) :
          (\A o \in S : HasWireLength(o) => i # objs[o].off + 1) => r[i] = w[i]
    /\ \A o \in S : HasWireLength(o) /\ objs[o].off + 1 <= Len(w) =>
          r[objs[o].off + 1].v = objs[o].len

\* Only the lengths in the headers of the objects are written.
LEMMA LengthsWritten ==
    ASSUME NEW objs, NEW w \in Seq(Cell), NEW S, CanWrite(objs, S)
    PROVE  Relengthened(WriteLengths(objs, w, S), objs, w, S)
<1> DEFINE r == WriteLengths(objs, w, S)
           at == {<<objs[o].off + 1, objs[o].len>> : o \in {p \in S : HasWireLength(p)}}
           length(i) == CHOOSE n \in 0..Alloc : <<i, n>> \in at
           cell(i) == IF \E n \in 0..Alloc : <<i, n>> \in at
                      THEN [w[i] EXCEPT !.v = length(i)] ELSE w[i]
<1>0. Alloc \in Nat /\ Len(w) \in Nat /\ DOMAIN w = 1..Len(w)
  BY LociAssumption, LenProperties
<1>1. r = [i \in 1..Len(w) |-> cell(i)]
  BY <1>0 DEF WriteLengths
<1>1a. /\ \A o \in S : HasWireLength(o) => objs[o].off \in Nat /\ objs[o].len \in 0..Alloc
       /\ \A o, p \in S : HasWireLength(o) /\ HasWireLength(p) /\ objs[o].off = objs[p].off =>
                            objs[o].len = objs[p].len
  BY DEF CanWrite
<1>2. \A i \in 1..Len(w) : w[i] \in Cell
  BY ElementOfSeq
<1>3. ASSUME NEW i, NEW n
      PROVE  <<i, n>> \in at <=>
                \E o \in S : HasWireLength(o) /\ i = objs[o].off + 1 /\ n = objs[o].len
  OBVIOUS
<1>4. ASSUME NEW i, \E n \in 0..Alloc : <<i, n>> \in at
      PROVE  length(i) \in 0..Alloc /\ <<i, length(i)>> \in at
  BY <1>4
<1> HIDE DEF at, length, r
<1>5. ASSUME NEW i \in 1..Len(w)
      PROVE  cell(i) \in Cell /\ cell(i).f = w[i].f /\ cell(i).x = w[i].x
  <2>1. w[i] \in Cell
    BY <1>2
  <2>2. CASE \E n \in 0..Alloc : <<i, n>> \in at
    <3>0. length(i) \in 0..Alloc
      BY <1>4, <2>2
    <3>1. length(i) \in Nat
      BY <1>0, <3>0
    <3>2. QED
      BY <2>1, <2>2, <3>1 DEF Cell
  <2>3. CASE ~\E n \in 0..Alloc : <<i, n>> \in at
    BY <2>1, <2>3
  <2>4. QED
    BY <2>2, <2>3
<1>6. ASSUME NEW i \in 1..Len(w), \A o \in S : HasWireLength(o) => i # objs[o].off + 1
      PROVE  cell(i) = w[i]
  BY <1>3, <1>6
<1>7. ASSUME NEW o \in S, HasWireLength(o), objs[o].off + 1 <= Len(w)
      PROVE  objs[o].off + 1 \in 1..Len(w) /\ cell(objs[o].off + 1).v = objs[o].len
  <2> DEFINE i == objs[o].off + 1
  <2>1. objs[o].off \in Nat /\ objs[o].len \in 0..Alloc
    BY <1>1a, <1>7
  <2>2. i \in 1..Len(w)
    BY <1>0, <1>7, <2>1
  <2>3. <<i, objs[o].len>> \in at
    BY <1>3, <1>7
  <2>4. length(i) \in 0..Alloc /\ <<i, length(i)>> \in at
    BY <1>4, <2>1, <2>3
  <2>5. PICK p \in S : HasWireLength(p) /\ i = objs[p].off + 1 /\ length(i) = objs[p].len
    BY <1>3, <2>4
  <2>6. objs[p].off = objs[o].off
    <3>1. objs[p].off \in Nat
      BY <1>1a, <2>5
    <3>2. QED
      BY <2>1, <2>5, <3>1
  <2>7. length(i) = objs[o].len
    BY <1>1a, <1>7, <2>5, <2>6
  <2>8. w[i] \in Cell
    BY <1>2, <2>2
  <2> HIDE DEF i
  <2>9. cell(i).v = length(i)
    BY <2>1, <2>3, <2>8 DEF Cell
  <2>10. QED
    BY <2>2, <2>7, <2>9 DEF i
<1> HIDE DEF cell
<1>8. r \in [1..Len(w) -> Cell] /\ (\A i \in 1..Len(w) : r[i] = cell(i))
  BY <1>1, <1>5
<1>9. r \in Seq(Cell) /\ Len(r) = Len(w)
  <2>1. r \in Seq(Cell)
    BY <1>0, <1>8
  <2>2. DOMAIN r = 1..Len(w) /\ DOMAIN r = 1..Len(r) /\ Len(r) \in Nat
    BY <1>8, <2>1, LenProperties
  <2>3. QED
    BY <1>0, <2>1, <2>2
<1>10. QED
  BY <1>5, <1>6, <1>7, <1>8, <1>9 DEF Relengthened, r
-----------------------------------------------------------------------------
(* The inductive invariant.                                                 *)

\* Buffer b is the message T, and the windows objs are on it; if the use of
\* window ab failed an assertion, that or one it is a part of lagged behind.
Sound(b, objs, it, ab, T, at) ==
    /\ Laid(b, T, at) /\ Placed(objs, it, Len(b), T, at)
    /\ objs[Msg].len = Len(b) /\ Len(b) <= Alloc /\ it \subseteq Elements
    /\ ab \in Objects \cup {NoObject}
    /\ ab # NoObject => \E p \in Lineage(objs, ab) : objs[p].off + objs[p].len # Len(b)

\* The assertions hold only for windows that end where the buffer does, and
\* fail only if one of them ends elsewhere.
LEMMA AppendAgrees ==
    ASSUME NEW T, NEW at, Sound(buf, ob, iter, aborted, T, at),
           NEW l \in Objects, Msg \in Lineage(ob, l), Lineage(ob, l) \subseteq Objects,
           NEW sz \in Nat \ {0}, NEW objs, Chain(objs), Lineage(objs, l) = Lineage(ob, l),
           \A p \in Lineage(ob, l) : objs[p] = ob[p],
           NEW w \in Seq(Cell),
           Len(w) = IF ob[l].off + ob[l].len + sz > Len(buf) THEN ob[l].off + ob[l].len + sz
                    ELSE Len(buf),
           NEW new, new = Lengthened(objs, l, sz)
    PROVE  /\ LengthsAgree(new, w, l) => ob[l].off + ob[l].len = Len(buf) /\ Len(w) = Len(buf) + sz
           /\ ~LengthsAgree(new, w, l) =>
                 \E p \in Lineage(ob, l) : ob[p].off + ob[p].len # Len(buf)
<1>1. ob \in [Objects -> Window] /\ ob[Msg].off = 0 /\ ob[Msg].len = Len(buf) /\ Len(buf) \in Nat
  <2>1. Len(buf) \in Nat
    BY LenProperties DEF Sound, Laid
  <2>2. QED
    BY <2>1 DEF Sound, Placed, Chain
<1>2. \A p \in Objects : ob[p].off \in Nat /\ ob[p].len \in Nat
  <2>1. \A p \in Objects : ob[p] \in Window
    BY <1>1
  <2>2. QED
    BY <2>1 DEF Window
<1>3. \A p \in Lineage(objs, l) : p \in Objects => objs[p].len + sz \in Nat
  BY <1>2
<1>4. \A p \in Objects :
         /\ new[p].off = objs[p].off /\ Lineage(new, p) = Lineage(objs, p)
         /\ p \in Lineage(objs, l) => new[p].len = objs[p].len + sz
  <2>1. sz \in Int
    OBVIOUS
  <2>2. OnlyLonger(new, objs, l, sz)
    BY <1>3, <2>1, LengthenedKeeps
  <2>3. QED
    BY <2>2 DEF OnlyLonger
<1>5. /\ Lineage(new, l) = Lineage(ob, l)
      /\ \A p \in Lineage(ob, l) : p \in Objects /\ new[p].off = ob[p].off /\ new[p].len = ob[p].len + sz
  BY <1>4
<1>6. l \in Lineage(ob, l)
  BY DEF Lineage
<1> DEFINE n == Len(buf)
           m == Len(w)
           end == ob[l].off + ob[l].len
<1>7. n \in Nat /\ end \in Nat /\ m = IF end + sz > n THEN end + sz ELSE n
  BY <1>1, <1>2
<1>8. ASSUME LengthsAgree(new, w, l)
      PROVE  end = n /\ m = n + sz
  <2>1. new[Msg].len = m
    BY <1>5, <1>8 DEF LengthsAgree
  <2>2. m = n + sz
    BY <1>1, <1>5, <2>1
  <2> HIDE DEF n, m, end
  <2>3. QED
    BY <1>7, <2>2
<1>9. ASSUME \A p \in Lineage(ob, l) : ob[p].off + ob[p].len = n
      PROVE  LengthsAgree(new, w, l)
  <2>1. end = n /\ m = n + sz
    <3>1. end = n
      BY <1>6, <1>9
    <3> HIDE DEF n, m, end
    <3>2. QED
      BY <1>7, <3>1
  <2>2. ASSUME NEW p \in Lineage(ob, l)
        PROVE  /\ new[p].off + 1 <= Len(w)
               /\ new[p].off + new[p].len <= Len(w)
               /\ p = Msg => new[p].len = Len(w)
    <3>1. new[p].off = ob[p].off /\ new[p].len = ob[p].len + sz /\ p \in Objects
      BY <1>5
    <3>2. ob[p].off + ob[p].len = n /\ ob[p].off \in Nat /\ ob[p].len \in Nat
      BY <1>2, <1>9, <3>1
    <3>3. ob[p].off + 1 <= m /\ ob[p].off + (ob[p].len + sz) = m
      <4>1. \A x, y, z \in Nat : x + y = z => x + 1 <= z + sz /\ x + (y + sz) = z + sz
        OBVIOUS
      <4> DEFINE x == ob[p].off
                 y == ob[p].len
      <4>2. x \in Nat /\ y \in Nat /\ x + y = n /\ n \in Nat
        BY <1>7, <3>2
      <4> HIDE DEF n, m, end, x, y
      <4>3. x + 1 <= n + sz /\ x + (y + sz) = n + sz
        BY <4>1, <4>2
      <4>4. QED
        BY <2>1, <4>3 DEF x, y
    <3>4. p = Msg => ob[p].len + sz = m
      BY <1>1, <2>1
    <3>5. QED
      BY <3>1, <3>3, <3>4
  <2>3. QED
    BY <1>5, <2>2 DEF LengthsAgree
<1>10. QED
  BY <1>8, <1>9

-----------------------------------------------------------------------------
(* Appending.                                                               *)

\* The object of sz cells that an append writes, the ones after cells zeroed.
At(cells, i) == IF i <= Len(cells) THEN cells[i] ELSE Zero

IsElement(cells, acts) ==
    /\ Len(cells) <= Size(Len(acts))
    /\ At(cells, 1).f = "elt" /\ At(cells, 1).v = Size(Len(acts))
    /\ \A j \in 1..Len(acts) :
          /\ At(cells, ActAt(1, j)).f = "act" /\ At(cells, ActAt(1, j)).v = ActLen
          /\ At(cells, ActAt(1, j) + 1).x = acts[j]

IsAction(cells, x) ==
    /\ Len(cells) <= ActLen
    /\ At(cells, 1).f = "act" /\ At(cells, 1).v = ActLen /\ At(cells, 2).x = x

\* w is b with the object that cells begins behind it.
Behind(w, b, cells, sz) ==
    /\ w \in Seq(Cell) /\ Len(w) = Len(b) + sz
    /\ \A i \in 1..Len(b) : w[i] = b[i]
    /\ \A i \in 1..sz : w[Len(b) + i] = At(cells, i)

\* What is at the end of the buffer when it has been written.
LEMMA WrittenBehind ==
    ASSUME NEW b \in Seq(Cell), NEW cells \in Seq(Cell), NEW sz \in Nat, Len(cells) <= sz
    PROVE  Behind(Written(b, Len(b), Len(b) + sz, cells), b, cells, sz)
<1> DEFINE w == Written(b, Len(b), Len(b) + sz, cells)
           n == Len(b)
           k == Len(cells)
<1>1. n \in Nat /\ k \in Nat /\ k <= sz /\ n <= n /\ n + sz \in Nat /\ n + k <= n + sz
  <2>1. n \in Nat /\ k \in Nat /\ k <= sz
    BY LenProperties
  <2> HIDE DEF n, k
  <2>2. QED
    BY <2>1
<1>2. /\ w \in Seq(Cell) /\ Len(w) = IF n + sz > n THEN n + sz ELSE n
      /\ \A i \in 1..Len(w) : w[i] = IF i \in n + 1..n + k THEN cells[i - n]
                                     ELSE IF i <= n THEN b[i] ELSE Zero
  BY <1>1, WrittenCells
<1> HIDE DEF n, k, w
<1>3. Len(w) = n + sz
  BY <1>1, <1>2
<1>4. ASSUME NEW i \in 1..n
      PROVE  w[i] = b[i]
  <2>1. i \in 1..Len(w) /\ i \notin n + 1..n + k /\ i <= n
    BY <1>1, <1>3
  <2>2. QED
    BY <1>2, <2>1
<1>5. ASSUME NEW i \in 1..sz
      PROVE  w[n + i] = At(cells, i)
  <2>1. /\ n + i \in 1..Len(w) /\ (n + i \in n + 1..n + k <=> i <= k) /\ ~(n + i <= n)
        /\ (n + i) - n = i
    BY <1>1, <1>3
  <2>2. QED
    BY <1>2, <2>1 DEF At, k
<1>6. QED
  BY <1>2, <1>3, <1>4, <1>5 DEF n, w, Behind

\* Where the end of the buffer is in the message.
LEMMA SoundFacts ==
    ASSUME NEW b, NEW objs, NEW it, NEW ab, NEW T, NEW at, Sound(b, objs, it, ab, T, at)
    PROVE  /\ Laid(b, T, at) /\ Placed(objs, it, Len(b), T, at) /\ Chain(objs)
           /\ b \in Seq(Cell) /\ Len(b) \in Nat /\ Len(b) >= MsgLen /\ Len(b) <= Alloc
           /\ objs \in [Objects -> Window] /\ objs[Msg].off = 0 /\ objs[Msg].len = Len(b)
           /\ \A o \in Objects : objs[o].off \in Nat /\ objs[o].len \in Nat
           /\ T \in Seq(Seq(Contents)) /\ Len(T) \in Nat
           /\ it \subseteq Elements /\ ab \in Objects \cup {NoObject}
<1>1. Laid(b, T, at) /\ Placed(objs, it, Len(b), T, at) /\ objs[Msg].len = Len(b) /\ Len(b) <= Alloc
  BY DEF Sound
<1>2. Chain(objs) /\ objs[Msg].off = 0 /\ objs \in [Objects -> Window]
  BY <1>1 DEF Placed, Chain
<1>3. \A o \in Objects : objs[o].off \in Nat /\ objs[o].len \in Nat
  <2>1. \A o \in Objects : objs[o] \in Window
    BY <1>2
  <2>2. QED
    BY <2>1 DEF Window
<1>4. Len(b) \in Nat /\ Len(b) >= MsgLen /\ Len(T) \in Nat
  BY <1>1, Where
<1>5. QED
  BY <1>1, <1>2, <1>3, <1>4 DEF Sound, Laid

\* The abort of an append through a window that lags.
LEMMA AppendAborts ==
    ASSUME NEW T, NEW at, Sound(buf, ob, iter, aborted, T, at), NEW l \in Objects,
           \E p \in Lineage(ob, l) : ob[p].off + ob[p].len # Len(buf),
           aborted' = l, UNCHANGED <<ob, buf, iter>>
    PROVE  Sound(buf', ob', iter', aborted', T, at)
<1>1. buf' = buf /\ ob' = ob /\ iter' = iter
  OBVIOUS
<1>2. l # NoObject
  BY Kinds
<1>3. Sound(buf, ob, iter, l, T, at)
  BY DEF Sound
<1>4. QED
  BY <1>1, <1>3

\* of_list_append() and of_list_append_bind() of an element with the actions
\* acts: they are at the end of the message, or an assertion fails.
LEMMA AppendElement ==
    ASSUME NEW T, NEW at, Sound(buf, ob, iter, aborted, T, at), aborted = NoObject,
           NEW l \in Lists, ob[l].parent # NoObject,
           NEW cells \in Seq(Cell), NEW acts \in Seq(Contents), IsElement(cells, acts),
           CanGrow(l, ob[l].len + Size(Len(acts))),
           NEW objs, objs = ob \/ (/\ acts = <<>>
                                  /\ \E e \in Elements : objs = Attached(l, e, ob[l].len, EltLen)),
           UpdateLengths(objs, Written(buf, ob[l].off + ob[l].len,
                                       ob[l].off + (ob[l].len + Size(Len(acts))), cells),
                         l, Size(Len(acts)))
    PROVE  \/ Sound(buf', ob', iter', aborted', T, at)
           \/ \E at2 : Sound(buf', ob', iter', aborted', Append(T, acts), at2)
<1> DEFINE sz == Size(Len(acts))
           n == Len(buf)
           end == ob[l].off + ob[l].len
           w == Written(buf, end, ob[l].off + (ob[l].len + sz), cells)
           new == Lengthened(objs, l, sz)
           r == WriteLengths(new, w, Lineage(new, l))
           U == Append(T, acts)
           at2 == OneMore(at, T, r)
<1>1. /\ Laid(buf, T, at) /\ Placed(ob, iter, n, T, at) /\ Chain(ob)
      /\ buf \in Seq(Cell) /\ n \in Nat /\ n >= MsgLen /\ n <= Alloc
      /\ ob[Msg].off = 0 /\ ob[Msg].len = n /\ ob[Msg].parent = NoObject
      /\ \A o \in Objects : ob[o].off \in Nat /\ ob[o].len \in Nat
      /\ T \in Seq(Seq(Contents)) /\ Len(T) \in Nat
  BY SoundFacts DEF Chain
<1>2. l \in Objects /\ Msg \in Objects /\ l # Msg /\ ~HasWireLength(l) /\ HasWireLength(Msg)
      /\ MsgLen \in Nat \ {0} /\ EltLen \in Nat \ {0} /\ Alloc \in Nat
  BY Kinds, LociAssumption
<1>3. Lineage(ob, l) = {l, Msg}
  BY <1>1, Lineages
<1>4. Len(acts) \in Nat /\ sz \in Nat \ {0} /\ sz >= EltLen
  <2>1. Len(acts) \in Nat
    BY LenProperties
  <2>2. sz \in Nat /\ sz >= EltLen
    BY <2>1, SizeProperties
  <2> HIDE DEF sz
  <2>3. QED
    BY <1>2, <2>1, <2>2
<1>5. ob[l].off \in Nat /\ ob[l].len \in Nat /\ end <= n /\ end \in Nat /\ ob[l].off = MsgLen
  BY <1>1, <1>2 DEF Placed
<1>5a. ob[l].off + (ob[l].len + sz) = end + sz
  <2>1. \A x, y, z \in Nat : x + (y + z) = (x + y) + z
    OBVIOUS
  <2> HIDE DEF sz
  <2>2. QED
    BY <1>4, <1>5, <2>1
<1>6. ASSUME NEW e \in Elements, objs = Attached(l, e, ob[l].len, EltLen)
      PROVE  /\ Chain(objs) /\ Lineage(objs, l) = Lineage(ob, l)
             /\ \A p \in Lineage(ob, l) : objs[p] = ob[p]
  <2>1. l \in Objects /\ e \in Objects /\ Holds(l, e) /\ ob[l].off + ob[l].len \in Nat /\ EltLen \in Nat
    BY <1>2, <1>5, Kinds DEF Holds
  <2>2. QED
    BY <1>1, <1>6, <2>1, AttachedKeeps
<1>7. /\ Chain(objs) /\ Lineage(objs, l) = Lineage(ob, l)
      /\ \A p \in Lineage(ob, l) : objs[p] = ob[p]
  BY <1>1, <1>6
<1>8. /\ w \in Seq(Cell)
      /\ Len(w) = IF end + sz > n THEN end + sz ELSE n
  <2> DEFINE k == Len(cells)
             m == ob[l].off + (ob[l].len + sz)
  <2>1. k \in Nat /\ k <= sz
    BY LenProperties DEF IsElement
  <2>2. m = end + sz
    BY <1>5a
  <2>3. end + k <= m /\ m \in Nat
    <3> HIDE DEF end, sz, k, m
    <3>1. QED
      BY <1>4, <1>5, <2>1, <2>2
  <2>4. w \in Seq(Cell) /\ Len(w) = IF m > n THEN m ELSE n
    BY <1>1, <1>5, <2>3, WrittenCells
  <2>5. QED
    BY <2>2, <2>4
<1>9. /\ LengthsAgree(new, w, l) => end = n /\ Len(w) = n + sz
      /\ ~LengthsAgree(new, w, l) => \E p \in Lineage(ob, l) : ob[p].off + ob[p].len # n
  <2>1. Msg \in Lineage(ob, l) /\ Lineage(ob, l) \subseteq Objects
    BY <1>2, <1>3
  <2>2. Len(w) = IF ob[l].off + ob[l].len + sz > Len(buf) THEN ob[l].off + ob[l].len + sz
                 ELSE Len(buf)
    BY <1>8
  <2> HIDE DEF w, new, sz
  <2>3. QED
    BY <1>2, <1>4, <1>7, <1>8, <2>1, <2>2, AppendAgrees DEF new
<1>10. CASE ~LengthsAgree(new, w, l)
  <2>1. aborted' = l /\ UNCHANGED <<ob, buf, iter>>
    BY <1>10 DEF UpdateLengths
  <2>2. QED
    BY <1>2, <1>9, <1>10, <2>1, AppendAborts
<1>11. CASE LengthsAgree(new, w, l)
  <2>1. ob' = new /\ buf' = r /\ iter' = {} /\ aborted' = aborted
    BY <1>11 DEF UpdateLengths
  <2>2. end = n /\ Len(w) = n + sz
    BY <1>9, <1>11
  <2>3. /\ \A i \in 1..n : w[i] = buf[i]
        /\ \A i \in 1..sz : w[n + i] = At(cells, i)
    <3>0. buf \in Seq(Cell)
      BY <1>1
    <3>1. w = Written(buf, n, n + sz, cells)
      BY <1>5a, <2>2
    <3>2. Len(cells) <= sz /\ sz \in Nat
      BY <1>4 DEF IsElement
    <3>3. w = Written(buf, Len(buf), Len(buf) + sz, cells)
      BY <3>1
    <3> HIDE DEF w, sz, n
    <3>4. Behind(w, buf, cells, sz)
      BY <3>0, <3>2, <3>3, WrittenBehind
    <3>5. QED
      BY <3>4 DEF n, Behind
  <2>4. n + sz <= Alloc
    <3>1. ob[l].off + (ob[l].len + sz) <= Alloc
      BY DEF CanGrow
    <3>2. QED
      BY <1>5a, <2>2, <3>1
  <2>5. /\ \A p \in Objects : new[p].off = objs[p].off /\ Lineage(new, p) = Lineage(objs, p)
        /\ \A p \in Lineage(objs, l) : p \in Objects => new[p].len = objs[p].len + sz
        /\ new[Msg].off = 0 /\ new[Msg].len = n + sz /\ Lineage(new, l) = {l, Msg}
    <3>1. \A p \in Lineage(objs, l) : p \in Objects => objs[p].len + sz \in Nat
      <4>1. \A p \in Lineage(objs, l) : p \in Objects => objs[p].len \in Nat
        BY <1>1, <1>7
      <4> HIDE DEF sz
      <4>2. QED
        BY <1>4, <4>1
    <3>2. sz \in Int
      BY <1>4
    <3> HIDE DEF sz
    <3>2a. OnlyLonger(new, objs, l, sz)
      BY <1>2, <1>7, <3>1, <3>2, LengthenedKeeps
    <3> HIDE DEF new
    <3>3. \A p \in Objects :
             /\ new[p].parent = objs[p].parent /\ new[p].off = objs[p].off
             /\ new[p].len = IF p \in Lineage(objs, l) THEN objs[p].len + sz ELSE objs[p].len
             /\ Lineage(new, p) = Lineage(objs, p)
      BY <3>2a DEF OnlyLonger
    <3>4. Msg \in Lineage(objs, l) /\ objs[Msg] = ob[Msg]
      BY <1>3, <1>7
    <3>5. QED
      BY <1>1, <1>2, <1>3, <1>7, <3>3, <3>4
  <2>6. /\ r \in Seq(Cell) /\ Len(r) = n + sz
        /\ r[1].f = w[1].f /\ r[1].v = n + sz
        /\ \A i \in 1..n + sz : i # 1 => r[i] = w[i]
    <3> DEFINE S == {l, Msg}
    <3>1. \A o \in S : HasWireLength(o) => o = Msg
      BY <1>2
    <3>2. \A o \in S : HasWireLength(o) => new[o].off \in Nat /\ new[o].len \in 0..Alloc
      <4> HIDE DEF sz, n, new
      <4>1. n + sz \in 0..Alloc
        BY <1>1, <1>2, <1>4, <2>4
      <4>2. QED
        BY <2>5, <3>1, <4>1
    <3>3. \A o, p \in S : HasWireLength(o) /\ HasWireLength(p) /\ new[o].off = new[p].off =>
                            new[o].len = new[p].len
      BY <3>1
    <3>3a. CanWrite(new, S)
      BY <3>2, <3>3 DEF CanWrite
    <3>4. r = WriteLengths(new, w, S)
      BY <2>5
    <3> HIDE DEF S, r, w, new, sz, n
    <3>5. /\ r \in Seq(Cell) /\ Len(r) = Len(w)
          /\ \A i \in 1..Len(w) : r[i].f = w[i].f /\ r[i].x = w[i].x
          /\ \A i \in 1..Len(w) :
                (\A o \in S : HasWireLength(o) => i # new[o].off + 1) => r[i] = w[i]
          /\ \A o \in S : HasWireLength(o) /\ new[o].off + 1 <= Len(w) =>
                r[new[o].off + 1].v = new[o].len
      <4>1. Relengthened(r, new, w, S)
        BY <1>8, <3>3a, <3>4, LengthsWritten
      <4>2. QED
        BY <4>1 DEF Relengthened
    <3>6. Msg \in S /\ new[Msg].off + 1 = 1 /\ 1 \in 1..Len(w) /\ 1 <= Len(w)
      BY <1>1, <1>2, <1>4, <2>2, <2>5 DEF S
    <3>7. r[1].v = n + sz
      BY <1>2, <2>5, <3>5, <3>6
    <3>8. \A i \in 1..Len(w) : i # 1 => r[i] = w[i]
      BY <3>1, <3>5, <3>6
    <3>9. QED
      BY <2>2, <3>5, <3>6, <3>7, <3>8
  <2>7. Laid(r, U, at2)
    <3>1. 1 \in 1..n /\ buf[1].f = "msg"
      BY <1>1, <1>2 DEF Laid
    <3>2. r[1].f = "msg" /\ r[1].v = Len(r)
      BY <2>3, <2>6, <3>1
    <3>3. \A i \in 2..n : r[i] = buf[i]
      <4>1. \A i \in 2..n : i \in 1..n /\ i \in 1..n + sz /\ i # 1
        <5> HIDE DEF n, sz
        <5>1. QED
          BY <1>1, <1>4
      <4> HIDE DEF r, w, n, sz
      <4>2. QED
        BY <2>3, <2>6, <4>1
    <3>4. ASSUME NEW i \in 1..sz
          PROVE  r[n + i] = At(cells, i)
      <4>1. n + i \in 1..n + sz /\ n + i # 1
        <5> HIDE DEF n, sz
        <5>1. QED
          BY <1>1, <1>2, <1>4
      <4>2. QED
        BY <2>3, <2>6, <4>1
    <3>5. 1 \in 1..sz
      <4> HIDE DEF sz
      <4>1. QED
        BY <1>4
    <3>6. r[n + 1].f = "elt" /\ r[n + 1].v = sz
      BY <3>4, <3>5 DEF IsElement
    <3>7. ASSUME NEW j \in 1..Len(acts)
          PROVE  /\ r[ActAt(n + 1, j)].f = "act" /\ r[ActAt(n + 1, j)].v = ActLen
                 /\ r[ActAt(n + 1, j) + 1].x = acts[j]
      <4> DEFINE a == ActAt(1, j)
      <4>1. a \in Nat /\ a >= 1 + EltLen /\ a + ActLen <= 1 + sz
        BY <1>4, SizeProperties
      <4>2. ActAt(n + 1, j) = n + a
        <5>1. j - 1 \in Nat
          BY <1>4
        <5>2. Times(j - 1) \in Nat
          BY <5>1, TimesProperties
        <5>3. QED
          BY <1>1, <1>2, <5>2 DEF ActAt
      <4>3. At(cells, a).f = "act" /\ At(cells, a).v = ActLen /\ At(cells, a + 1).x = acts[j]
        BY DEF IsElement
      <4>4. ActLen \in Nat \ {0, 1}
        BY LociAssumption
      <4> HIDE DEF a, n, sz
      <4>5. a \in 1..sz /\ a + 1 \in 1..sz /\ (n + a) + 1 = n + (a + 1)
        BY <1>1, <1>2, <1>4, <4>1, <4>4
      <4>6. r[n + a] = At(cells, a) /\ r[n + (a + 1)] = At(cells, a + 1)
        BY <3>4, <4>5
      <4>7. QED
        BY <4>2, <4>3, <4>5, <4>6
    <3> HIDE DEF r
    <3>8. ElementBehind(r, buf, acts)
      BY <2>6, <3>2, <3>3, <3>6, <3>7 DEF ElementBehind
    <3>9. QED
      BY <1>1, <2>6, <3>8, LaidElement
  <2>8. Placed(ob, {}, n + sz, U, at2)
    <3>1. /\ Len(U) = Len(T) + 1
          /\ \A i \in 1..Len(T) : U[i] = T[i]
      BY <1>1, AppendProperties
    <3>2. ASSUME NEW i \in 1..Len(T)
          PROVE  /\ at2[i] = at[i] /\ Len(T[i]) \in Nat /\ Len(U[i]) \in Nat
                 /\ Len(T[i]) <= Len(U[i])
                 /\ Size(Len(T[i])) \in Nat /\ Size(Len(U[i])) \in Nat
                 /\ Size(Len(T[i])) <= Size(Len(U[i]))
      <4>1. Len(T[i]) \in Nat /\ Size(Len(T[i])) \in Nat
        BY <1>1, Where
      <4>2. i \in 1..Len(T) + 2 /\ i # Len(T) + 2
        BY <1>1
      <4>3. at2[i] = at[i]
        BY <4>2 DEF OneMore
      <4>4. U[i] = T[i]
        BY <3>1
      <4> HIDE DEF U, at2
      <4>5. QED
        BY <4>1, <4>3, <4>4
    <3>3. Len(U) \in Nat /\ Len(T) <= Len(U)
      BY <1>1, <3>1
    <3>4. n + sz \in Nat /\ n <= n + sz
      <4> HIDE DEF n, sz
      <4>1. QED
        BY <1>1, <1>4
    <3> HIDE DEF U, at2, n, sz
    <3>5. QED
      BY <1>1, <3>2, <3>3, <3>4, PlacedGrown
  <2>9. Placed(objs, {}, n + sz, U, at2)
    <3>1. CASE objs = ob
      BY <2>8, <3>1
    <3>2. CASE acts = <<>> /\ \E e \in Elements : objs = Attached(l, e, ob[l].len, EltLen)
      <4>1. PICK e \in Elements : objs = Attached(l, e, ob[l].len, EltLen)
        BY <3>2
      <4>2. /\ l \in Objects /\ e \in Objects /\ Holds(l, e)
            /\ ob[l].off + ob[l].len \in Nat /\ EltLen \in Nat
        BY <1>2, <1>5, Kinds DEF Holds
      <4>3. Len(U) = Len(T) + 1 /\ U[Len(T) + 1] = acts /\ Len(T) + 1 \in 1..Len(U)
        BY <1>1, AppendProperties
      <4>4. at2[Len(T) + 1] = n + 1
        <5>1. Len(T) + 1 \in 1..Len(T) + 2 /\ Len(T) + 1 # Len(T) + 2
          BY <1>1
        <5>2. at[Len(T) + 1] = n + 1
          BY <1>1 DEF Laid
        <5>3. QED
          BY <5>1, <5>2 DEF OneMore
      <4>5. Size(Len(acts)) = EltLen
        BY <3>2, SizeProperties, EmptySeq
      <4>6. OnElement([off |-> ob[l].off + ob[l].len, len |-> EltLen], e \in {}, Len(T) + 1, U, at2)
        <5>1. EltLen <= EltLen
          BY <1>2
        <5> HIDE DEF U, at2, n
        <5>2. QED
          BY <2>2, <4>3, <4>4, <4>5, <5>1 DEF OnElement
      <4>7. \E i \in 1..Len(U) :
               OnElement([off |-> ob[l].off + ob[l].len, len |-> EltLen], e \in {}, i, U, at2)
        BY <4>3, <4>6
      <4>8. e \notin Lists /\ e \notin ALists /\ e \notin Actions
        BY Kinds
      <4>9. {} \ {e} \subseteq {}
        OBVIOUS
      <4> HIDE DEF U, at2, n, sz
      <4>10. QED
        BY <2>8, <4>1, <4>2, <4>7, <4>8, <4>9, PlacedAttached
    <3>3. QED
      BY <3>1, <3>2
  <2>10. Placed(new, {}, n + sz, U, at2)
    <3>1. objs[l] = ob[l] /\ l \in {Msg} \cup Lists \cup ALists /\ sz \in Nat
      BY <1>3, <1>4, <1>7
    <3>2. \A k \in Lists : k \in Lineage(objs, l) => k = l
      BY <1>2, <1>3, <1>7, Kinds
    <3>3. \A e \in Elements : e \notin Lineage(objs, l)
      BY <1>3, <1>7, Kinds
    <3>4. objs[l].off + objs[l].len + sz <= n + sz
      <4>1. objs[l].off + objs[l].len + sz = n + sz
        BY <2>2, <3>1
      <4> HIDE DEF n, sz
      <4>2. QED
        BY <1>1, <1>4, <4>1
    <3>5. \A k \in Lists : k \in Lineage(objs, l) => objs[k].off + objs[k].len + sz <= n + sz
      BY <3>2, <3>4
    <3> HIDE DEF U, at2, n, sz
    <3>6. QED
      BY <2>9, <3>1, <3>3, <3>5, PlacedLengthened
  <2>11. Sound(r, new, {}, NoObject, U, at2)
    BY <2>4, <2>5, <2>6, <2>7, <2>10 DEF Sound
  <2>12. QED
    BY <2>1, <2>11
<1>12. QED
  BY <1>10, <1>11

\* An action list that ends where the buffer does belongs to the last element,
\* and the window on that element has its length.
LEMMA LastElement ==
    ASSUME NEW T, NEW at, Sound(buf, ob, iter, aborted, T, at),
           NEW l \in ALists, ob[l].parent # NoObject, ob[l].off + ob[l].len = Len(buf)
    PROVE  LET e == ob[l].parent
           IN  /\ Len(T) \in Nat \ {0} /\ ob[e].off + 1 = at[Len(T)]
               /\ ob[e].len = Size(Len(T[Len(T)]))
               /\ at[Len(T)] + Size(Len(T[Len(T)])) = Len(buf) + 1
               /\ at[Len(T)] # 1 /\ at[Len(T)] \in 1..Len(buf)
<1> DEFINE e == ob[l].parent
           n == Len(buf)
<1>1. /\ Laid(buf, T, at) /\ Placed(ob, iter, n, T, at) /\ Chain(ob)
      /\ n \in Nat /\ Len(T) \in Nat
      /\ \A o \in Objects : ob[o].off \in Nat /\ ob[o].len \in Nat
  BY SoundFacts
<1>2. l \in Objects /\ e \in Elements /\ e \in Objects /\ e # NoObject /\ ob[e].parent # NoObject
      /\ EltLen \in Nat \ {0} /\ MsgLen \in Nat \ {0}
  <2>1. l \in Objects
    BY Kinds
  <2>2. e \in Elements /\ ob[e].parent # NoObject
    BY <1>1 DEF Chain
  <2>3. QED
    BY <2>1, <2>2, Kinds, LociAssumption
<1>3. ob[l].off + ob[l].len <= ob[e].off + ob[e].len
  BY <1>1 DEF Placed
<1>4. PICK i \in 1..Len(T) : OnElement(ob[e], e \in iter, i, T, at)
  BY <1>1, <1>2 DEF Placed
<1> DEFINE p == at[i]
           s == Size(Len(T[i]))
           off == ob[e].off
           len == ob[e].len
<1>5. off + 1 = p /\ len <= s /\ off \in Nat /\ len \in Nat
  BY <1>1, <1>2, <1>4 DEF OnElement
<1>6. p \in Nat /\ s \in Nat /\ s >= EltLen /\ p > MsgLen /\ p + s <= n + 1
  BY <1>1, Where
<1>7. n <= off + len
  BY <1>3
<1>8. i # Len(T) => p + s < n + 1
  <2>1. SUFFICES ASSUME i # Len(T)
                 PROVE  p + s < n + 1
    OBVIOUS
  <2>2. i + 1 \in 1..Len(T) /\ i \in Nat
    BY <1>1, <2>1
  <2> DEFINE q == at[i + 1]
             t == Size(Len(T[i + 1]))
  <2>3. q = p + s
    BY <1>1 DEF Laid
  <2>4. q \in Nat /\ t \in Nat /\ t >= EltLen /\ q + t <= n + 1
    BY <1>1, <2>2, Where
  <2> HIDE DEF p, s, q, t, n
  <2>5. QED
    BY <1>1, <1>2, <2>3, <2>4
<1> HIDE DEF p, s, off, len, n
<1>9. p + s = n + 1 /\ len = s
  BY <1>1, <1>5, <1>6, <1>7
<1>10. i = Len(T)
  BY <1>1, <1>6, <1>8, <1>9
<1>11. p # 1 /\ p \in 1..n
  BY <1>1, <1>2, <1>6
<1>12. Len(T) # 0
  BY <1>1, <1>10
<1>13. QED
  BY <1>1, <1>5, <1>9, <1>10, <1>11, <1>12 DEF p, s, off, len, n, e

\* of_list_append() and of_list_append_bind() of an action with the value x:
\* it is the last of the message, or an assertion fails.
LEMMA AppendAction ==
    ASSUME NEW T, NEW at, Sound(buf, ob, iter, aborted, T, at), aborted = NoObject,
           NEW l \in ALists, ob[l].parent # NoObject,
           NEW cells \in Seq(Cell), NEW x \in Contents, IsAction(cells, x),
           CanGrow(l, ob[l].len + ActLen),
           NEW objs, objs = ob \/ (/\ x = NoValue
                                  /\ \E a \in Actions : objs = Attached(l, a, ob[l].len, ActLen)),
           UpdateLengths(objs, Written(buf, ob[l].off + ob[l].len,
                                       ob[l].off + (ob[l].len + ActLen), cells),
                         l, ActLen)
    PROVE  \/ Sound(buf', ob', iter', aborted', T, at)
           \/ /\ T # <<>>
              /\ \E at2 : Sound(buf', ob', iter', aborted', OneAction(T, x), at2)
<1> DEFINE n == Len(buf)
           end == ob[l].off + ob[l].len
           w == Written(buf, end, ob[l].off + (ob[l].len + ActLen), cells)
           new == Lengthened(objs, l, ActLen)
           r == WriteLengths(new, w, Lineage(new, l))
           e == ob[l].parent
           k == ob[e].parent
           U == OneAction(T, x)
           at2 == Longer(at, T, r)
<1>0. MsgLen \in Nat \ {0} /\ EltLen \in Nat \ {0} /\ ActLen \in Nat \ {0, 1} /\ Alloc \in Nat
  BY LociAssumption
<1>1. /\ Laid(buf, T, at) /\ Placed(ob, iter, n, T, at) /\ Chain(ob)
      /\ buf \in Seq(Cell) /\ n \in Nat /\ n >= MsgLen /\ n <= Alloc
      /\ ob[Msg].off = 0 /\ ob[Msg].len = n /\ ob[Msg].parent = NoObject
      /\ \A o \in Objects : ob[o].off \in Nat /\ ob[o].len \in Nat
      /\ T \in Seq(Seq(Contents)) /\ Len(T) \in Nat
  BY SoundFacts DEF Chain
<1>2. /\ l \in Objects /\ Msg \in Objects /\ e \in Elements /\ e \in Objects
      /\ k \in Lists /\ k \in Objects /\ ob[e].parent # NoObject /\ ob[k].parent # NoObject
      /\ ~HasWireLength(l) /\ ~HasWireLength(k) /\ HasWireLength(Msg) /\ HasWireLength(e)
      /\ e # Msg
  <2>1. e \in Elements /\ ob[e].parent # NoObject
    BY <1>1 DEF Chain
  <2>2. k \in Lists /\ ob[k].parent # NoObject
    BY <1>1, <2>1 DEF Chain
  <2>3. QED
    BY <2>1, <2>2, Kinds
<1>3. Lineage(ob, l) = {l, e, k, Msg}
  BY <1>1, Lineages
<1>4. ob[l].off \in Nat /\ ob[l].len \in Nat /\ end \in Nat /\ end <= n
  <2>1. ob[l].off \in Nat /\ ob[l].len \in Nat
    BY <1>1, <1>2
  <2>2. end <= ob[e].off + ob[e].len
    BY <1>1 DEF Placed
  <2>3. PICK i \in 1..Len(T) : OnElement(ob[e], e \in iter, i, T, at)
    BY <1>1, <1>2 DEF Placed
  <2> DEFINE p == at[i]
             s == Size(Len(T[i]))
             off == ob[e].off
             len == ob[e].len
  <2>4. off + 1 = p /\ len <= s /\ off \in Nat /\ len \in Nat
    BY <1>1, <1>2, <2>3 DEF OnElement
  <2>5. p \in Nat /\ s \in Nat /\ p + s <= n + 1
    BY <1>1, Where
  <2>6. end <= off + len /\ end \in Nat
    BY <2>1, <2>2
  <2> HIDE DEF p, s, off, len, n, end
  <2>7. QED
    BY <1>1, <2>1, <2>4, <2>5, <2>6
<1>5. ob[l].off + (ob[l].len + ActLen) = end + ActLen
  <2>1. \A c, d, f \in Nat : c + (d + f) = (c + d) + f
    OBVIOUS
  <2>2. QED
    BY <1>0, <1>4, <2>1
<1>6. ASSUME NEW a \in Actions, objs = Attached(l, a, ob[l].len, ActLen)
      PROVE  /\ Chain(objs) /\ Lineage(objs, l) = Lineage(ob, l)
             /\ \A p \in Lineage(ob, l) : objs[p] = ob[p]
  <2>1. l \in Objects /\ a \in Objects /\ Holds(l, a) /\ ob[l].off + ob[l].len \in Nat /\ ActLen \in Nat
    BY <1>0, <1>2, <1>4, Kinds DEF Holds
  <2>2. QED
    BY <1>1, <1>6, <2>1, AttachedKeeps
<1>7. /\ Chain(objs) /\ Lineage(objs, l) = Lineage(ob, l)
      /\ \A p \in Lineage(ob, l) : objs[p] = ob[p]
  BY <1>1, <1>6
<1>8. /\ w \in Seq(Cell)
      /\ Len(w) = IF end + ActLen > n THEN end + ActLen ELSE n
  <2> DEFINE c == Len(cells)
             m == ob[l].off + (ob[l].len + ActLen)
  <2>1. c \in Nat /\ c <= ActLen
    BY LenProperties DEF IsAction
  <2>2. m = end + ActLen
    BY <1>5
  <2>3. end + c <= m /\ m \in Nat
    <3> HIDE DEF end, c, m
    <3>1. QED
      BY <1>0, <1>4, <2>1, <2>2
  <2>4. w \in Seq(Cell) /\ Len(w) = IF m > n THEN m ELSE n
    BY <1>1, <1>4, <2>3, WrittenCells
  <2>5. QED
    BY <2>2, <2>4
<1>9. /\ LengthsAgree(new, w, l) => end = n /\ Len(w) = n + ActLen
      /\ ~LengthsAgree(new, w, l) => \E p \in Lineage(ob, l) : ob[p].off + ob[p].len # n
  <2>1. Msg \in Lineage(ob, l) /\ Lineage(ob, l) \subseteq Objects
    BY <1>2, <1>3
  <2>2. Len(w) = IF ob[l].off + ob[l].len + ActLen > Len(buf) THEN ob[l].off + ob[l].len + ActLen
                 ELSE Len(buf)
    BY <1>8
  <2>3. ActLen \in Nat \ {0}
    BY <1>0
  <2> HIDE DEF w, new
  <2>4. QED
    BY <1>2, <1>7, <1>8, <2>1, <2>2, <2>3, AppendAgrees DEF new
<1>10. CASE ~LengthsAgree(new, w, l)
  <2>1. aborted' = l /\ UNCHANGED <<ob, buf, iter>>
    BY <1>10 DEF UpdateLengths
  <2>2. QED
    BY <1>2, <1>9, <1>10, <2>1, AppendAborts
<1>11. CASE LengthsAgree(new, w, l)
  <2>1. ob' = new /\ buf' = r /\ iter' = {} /\ aborted' = aborted
    BY <1>11 DEF UpdateLengths
  <2>2. end = n /\ Len(w) = n + ActLen
    BY <1>9, <1>11
  <2>3. /\ \A i \in 1..n : w[i] = buf[i]
        /\ \A i \in 1..ActLen : w[n + i] = At(cells, i)
    <3>0. buf \in Seq(Cell)
      BY <1>1
    <3>1. w = Written(buf, Len(buf), Len(buf) + ActLen, cells)
      BY <1>5, <2>2
    <3>2. Len(cells) <= ActLen /\ ActLen \in Nat
      BY <1>0 DEF IsAction
    <3> HIDE DEF w, n
    <3>3. Behind(w, buf, cells, ActLen)
      BY <3>0, <3>1, <3>2, WrittenBehind
    <3>4. QED
      BY <3>3 DEF n, Behind
  <2>4. n + ActLen <= Alloc
    <3>1. ob[l].off + (ob[l].len + ActLen) <= Alloc
      BY DEF CanGrow
    <3>2. QED
      BY <1>5, <2>2, <3>1
  <2> DEFINE last == Len(T)
             q == at[last]
             c == Len(T[last])
             s == Size(c)
  <2>5. /\ last \in Nat \ {0} /\ ob[e].off + 1 = q /\ ob[e].len = s
        /\ q + s = n + 1 /\ q # 1 /\ q \in 1..n
    BY <2>2, LastElement
  <2>6. /\ T[last] \in Seq(Contents) /\ c \in Nat /\ s \in Nat /\ s >= EltLen
        /\ last \in 1..last /\ T # <<>>
    <3>1. last \in 1..Len(T)
      BY <2>5
    <3>2. T[last] \in Seq(Contents)
      BY <1>1, <3>1, ElementOfSeq
    <3>3. T # <<>>
      BY <2>5, EmptySeq
    <3>4. c \in Nat
      BY <3>2, LenProperties
    <3>5. QED
      BY <3>1, <3>2, <3>3, <3>4, SizeProperties
  <2>7. /\ \A p \in Objects : new[p].off = objs[p].off /\ Lineage(new, p) = Lineage(objs, p)
        /\ \A p \in Lineage(objs, l) : p \in Objects => new[p].len = objs[p].len + ActLen
        /\ new[Msg].off = 0 /\ new[Msg].len = n + ActLen /\ Lineage(new, l) = {l, e, k, Msg}
        /\ new[e].off + 1 = q /\ new[e].len = s + ActLen /\ new[e].off \in Nat
    <3>1. \A p \in Lineage(objs, l) : p \in Objects => objs[p].len + ActLen \in Nat
      BY <1>0, <1>1, <1>7
    <3>2. ActLen \in Int
      BY <1>0
    <3>3. OnlyLonger(new, objs, l, ActLen)
      BY <1>2, <1>7, <3>1, <3>2, LengthenedKeeps
    <3> HIDE DEF new, e, k, n, q, s
    <3>4. \A p \in Objects :
             /\ new[p].parent = objs[p].parent /\ new[p].off = objs[p].off
             /\ new[p].len = IF p \in Lineage(objs, l) THEN objs[p].len + ActLen ELSE objs[p].len
             /\ Lineage(new, p) = Lineage(objs, p)
      BY <3>3 DEF OnlyLonger
    <3>5. Msg \in Lineage(objs, l) /\ objs[Msg] = ob[Msg] /\ e \in Lineage(objs, l) /\ objs[e] = ob[e]
      BY <1>3, <1>7
    <3>6. ob[e].off \in Nat
      BY <1>1, <1>2
    <3>7. QED
      BY <1>1, <1>2, <1>3, <1>7, <2>5, <3>4, <3>5, <3>6
  <2>8. /\ r \in Seq(Cell) /\ Len(r) = n + ActLen
        /\ \A i \in 1..n + ActLen : r[i].f = w[i].f
        /\ r[1].v = n + ActLen /\ r[q].v = s + ActLen
        /\ \A i \in 1..n + ActLen : i # 1 /\ i # q => r[i] = w[i]
    <3> DEFINE S == {l, e, k, Msg}
    <3>1. \A o \in S : HasWireLength(o) => o = Msg \/ o = e
      BY <1>2
    <3>2. n + ActLen \in 0..Alloc /\ s + ActLen \in 0..Alloc
      <4> HIDE DEF n, q, s
      <4>1. s <= n
        BY <1>1, <2>5, <2>6
      <4>2. QED
        BY <1>0, <1>1, <2>4, <2>6, <4>1
    <3>3. \A o \in S : HasWireLength(o) => new[o].off \in Nat /\ new[o].len \in 0..Alloc
      <4> HIDE DEF n, new, s, q, e, k
      <4>1. new[Msg].off \in Nat
        BY <2>7
      <4>2. QED
        BY <2>7, <3>1, <3>2, <4>1
    <3>4. new[Msg].off # new[e].off
      <4> HIDE DEF n, new, s, q, e, k
      <4>1. QED
        BY <2>5, <2>7
    <3>5. \A o, p \in S : HasWireLength(o) /\ HasWireLength(p) /\ new[o].off = new[p].off =>
                            new[o].len = new[p].len
      BY <3>1, <3>4
    <3>6. CanWrite(new, S)
      BY <3>3, <3>5 DEF CanWrite
    <3>7. r = WriteLengths(new, w, S)
      BY <2>7
    <3>8. Msg \in S /\ e \in S
      OBVIOUS
    <3> HIDE DEF S, r, w, new, n, q, s, e, k
    <3>9. Relengthened(r, new, w, S)
      BY <1>8, <3>6, <3>7, LengthsWritten
    <3>10. /\ r \in Seq(Cell) /\ Len(r) = Len(w)
           /\ \A i \in 1..Len(w) : r[i].f = w[i].f /\ r[i].x = w[i].x
           /\ \A i \in 1..Len(w) :
                 (\A o \in S : HasWireLength(o) => i # new[o].off + 1) => r[i] = w[i]
           /\ \A o \in S : HasWireLength(o) /\ new[o].off + 1 <= Len(w) =>
                 r[new[o].off + 1].v = new[o].len
      BY <3>9 DEF Relengthened
    <3>11. new[Msg].off + 1 = 1 /\ 1 <= Len(w) /\ new[e].off + 1 = q /\ q <= Len(w)
      BY <1>0, <1>1, <2>2, <2>5, <2>7
    <3>12. r[1].v = n + ActLen
      BY <1>2, <2>7, <3>8, <3>10, <3>11
    <3>13. r[q].v = s + ActLen
      BY <1>2, <2>7, <3>8, <3>10, <3>11
    <3>14. \A i \in 1..Len(w) : i # 1 /\ i # q => r[i] = w[i]
      BY <3>1, <3>10, <3>11
    <3>15. QED
      BY <2>2, <3>10, <3>12, <3>13, <3>14
  <2>9. Laid(r, U, at2)
    <3>1. 1 \in 1..n /\ buf[1].f = "msg" /\ buf[q].f = "elt"
      <4>1. 1 \in 1..n
        <5> HIDE DEF n
        <5>1. QED
          BY <1>0, <1>1
      <4>2. buf[1].f = "msg"
        BY <1>1 DEF Laid
      <4>3. last \in 1..Len(T)
        BY <2>5
      <4>4. \A i \in 1..Len(T) : buf[at[i]].f = "elt"
        BY <1>1 DEF Laid
      <4> HIDE DEF n
      <4>5. QED
        BY <4>1, <4>2, <4>3, <4>4
    <3>2. r[1].f = "msg" /\ r[1].v = Len(r) /\ r[q].f = "elt" /\ r[q].v = s + ActLen
      <4>1. 1 \in 1..n + ActLen /\ q \in 1..n + ActLen /\ q \in 1..n
        <5> HIDE DEF n, q
        <5>1. QED
          BY <1>0, <1>1, <2>5
      <4> HIDE DEF r, w, n, q, s
      <4>2. QED
        BY <2>3, <2>8, <3>1, <4>1
    <3>3. \A i \in 2..n : i # q => r[i] = buf[i]
      <4>1. \A i \in 2..n : i \in 1..n /\ i \in 1..n + ActLen /\ i # 1
        <5> HIDE DEF n
        <5>1. QED
          BY <1>0, <1>1
      <4> HIDE DEF r, w, n, q
      <4>2. QED
        BY <2>3, <2>8, <4>1
    <3>4. ASSUME NEW i \in 1..ActLen
          PROVE  r[n + i] = At(cells, i)
      <4>1. n + i \in 1..n + ActLen /\ n + i # 1 /\ n + i # q
        <5> HIDE DEF n, q
        <5>1. QED
          BY <1>0, <1>1, <2>5
      <4>2. QED
        BY <2>3, <2>8, <4>1
    <3>5. 1 \in 1..ActLen /\ 2 \in 1..ActLen
      BY <1>0
    <3>6. r[n + 1].f = "act" /\ r[n + 1].v = ActLen /\ r[n + 2].x = x
      BY <3>4, <3>5 DEF IsAction
    <3> HIDE DEF r
    <3>7. ActionBehind(r, buf, T, at, x)
      BY <2>8, <3>2, <3>3, <3>6 DEF ActionBehind
    <3>8. QED
      BY <1>1, <2>6, <2>8, <3>7, LaidAction
  <2>10. Len(U) = last /\ Len(U[last]) = c + 1 /\ (\A i \in 1..last : i # last => U[i] = T[i])
    <3> DEFINE more == Append(T[last], x)
    <3>1. Len(more) = c + 1 /\ more \in Seq(Contents)
      BY <2>6, AppendProperties
    <3>2. U = [T EXCEPT ![last] = more]
      BY DEF OneAction
    <3> HIDE DEF more, U
    <3>3. last \in 1..Len(T)
      BY <2>5
    <3>4. Len([T EXCEPT ![last] = more]) = Len(T)
          /\ \A j \in 1..Len(T) : [T EXCEPT ![last] = more][j] = IF j = last THEN more ELSE T[j]
      BY <1>1, <3>1, <3>3, ExceptSeq
    <3>5. QED
      BY <3>1, <3>2, <3>3, <3>4
  <2>11. /\ \A i \in 1..last : at2[i] = at[i]
         /\ at2[last] = q
    <3>1. \A i \in 1..last : i \in 1..last + 1 /\ i # last + 1
      BY <2>5
    <3>2. \A i \in 1..last : at2[i] = at[i]
      BY <3>1 DEF Longer
    <3> HIDE DEF at2
    <3>3. QED
      BY <2>6, <3>2
  <2>12. Placed(ob, {}, n + ActLen, U, at2)
    <3>1. ASSUME NEW i \in 1..Len(T)
          PROVE  /\ at2[i] = at[i] /\ Len(T[i]) \in Nat /\ Len(U[i]) \in Nat
                 /\ Len(T[i]) <= Len(U[i])
                 /\ Size(Len(T[i])) \in Nat /\ Size(Len(U[i])) \in Nat
                 /\ Size(Len(T[i])) <= Size(Len(U[i]))
      <4>1. Len(T[i]) \in Nat /\ Size(Len(T[i])) \in Nat /\ at2[i] = at[i]
        BY <1>1, <2>11, Where
      <4>2. CASE i = last
        <5>1. s \in Nat /\ Size(c + 1) = s + ActLen /\ c <= c + 1 /\ c + 1 \in Nat
          <6>1. s \in Nat /\ Size(c + 1) = s + ActLen
            BY <2>6, SizeProperties
          <6>2. c \in Nat
            BY <2>6
          <6> HIDE DEF c
          <6>3. c <= c + 1 /\ c + 1 \in Nat
            BY <6>2
          <6>4. QED
            BY <6>1, <6>3
        <5>2. Len(T[i]) = c /\ Len(U[i]) = c + 1
          BY <2>10, <4>2
        <5>3. s <= s + ActLen /\ s + ActLen \in Nat
          <6> HIDE DEF s
          <6>1. QED
            BY <1>0, <5>1
        <5> HIDE DEF U, at2, c
        <5>4. QED
          BY <4>1, <5>1, <5>2, <5>3
      <4>3. CASE i # last
        <5>1. U[i] = T[i]
          BY <2>10, <4>3
        <5> HIDE DEF U, at2
        <5>2. QED
          BY <4>1, <5>1
      <4>4. QED
        BY <4>2, <4>3
    <3>2. Len(U) \in Nat /\ Len(T) <= Len(U) /\ Len(T) \in Nat
      <4> HIDE DEF U
      <4>1. QED
        BY <1>1, <2>10
    <3>3. n + ActLen \in Nat /\ n <= n + ActLen
      <4> HIDE DEF n
      <4>1. QED
        BY <1>0, <1>1
    <3> HIDE DEF U, at2, n
    <3>4. QED
      BY <1>1, <3>1, <3>2, <3>3, PlacedGrown
  <2>13. Placed(objs, {}, n + ActLen, U, at2)
    <3>1. CASE objs = ob
      BY <2>12, <3>1
    <3>2. CASE x = NoValue /\ \E a \in Actions : objs = Attached(l, a, ob[l].len, ActLen)
      <4>1. PICK a \in Actions : objs = Attached(l, a, ob[l].len, ActLen)
        BY <3>2
      <4>2. /\ l \in Objects /\ a \in Objects /\ Holds(l, a)
            /\ ob[l].off + ob[l].len \in Nat /\ ActLen \in Nat
        BY <1>0, <1>2, <1>4, Kinds DEF Holds
      <4>3. last \in 1..Len(U) /\ c + 1 \in 1..Len(U[last])
        <5> HIDE DEF U, c
        <5>1. QED
          BY <2>5, <2>6, <2>10
      <4>4. ActAt(at2[last], c + 1) = n + 1
        <5>1. q \in Nat /\ c \in Nat
          <6> HIDE DEF q, n, c
          <6>1. QED
            BY <1>1, <2>5, <2>6
        <5>2. ActAt(q, c + 1) = q + s
          <6> HIDE DEF q, c
          <6>1. QED
            BY <5>1, SizeProperties
        <5> HIDE DEF at2
        <5>3. QED
          BY <2>5, <2>11, <5>2
      <4>5. OnAction([off |-> ob[l].off + ob[l].len, len |-> ActLen], last, c + 1, at2)
        <5> HIDE DEF at2, c, last, n
        <5>1. QED
          BY <2>2, <4>4 DEF OnAction
      <4>6. \E i \in 1..Len(U) : \E j \in 1..Len(U[i]) :
               OnAction([off |-> ob[l].off + ob[l].len, len |-> ActLen], i, j, at2)
        BY <4>3, <4>5
      <4>7. a \notin Lists /\ a \notin ALists /\ a \notin Elements
        BY Kinds
      <4>8. {} \ {a} \subseteq {}
        OBVIOUS
      <4> HIDE DEF U, at2, n
      <4>9. QED
        BY <2>12, <4>1, <4>2, <4>6, <4>7, <4>8, PlacedAttached
    <3>3. QED
      BY <3>1, <3>2
  <2>14. Placed(new, {}, n + ActLen, U, at2)
    <3>1. objs[l] = ob[l] /\ l \in {Msg} \cup Lists \cup ALists /\ ActLen \in Nat
      BY <1>0, <1>3, <1>7
    <3>2. ASSUME NEW m \in Lists, m \in Lineage(objs, l)
          PROVE  objs[m].off + objs[m].len + ActLen <= n + ActLen
      <4>1. objs[m] = ob[m] /\ m = k /\ m \in Objects
        BY <1>2, <1>3, <1>7, <3>2, Kinds
      <4>2. ob[m].off + ob[m].len <= n /\ ob[m].off \in Nat /\ ob[m].len \in Nat
        BY <1>1, <1>2, <4>1 DEF Placed
      <4>3. \A i, j, d \in Nat : i + j <= d => i + j + ActLen <= d + ActLen
        BY <1>0
      <4>4. n \in Nat
        BY <1>1
      <4> HIDE DEF n
      <4>5. QED
        BY <4>1, <4>2, <4>3, <4>4
    <3>3. ASSUME NEW d \in Elements, d \in Lineage(objs, l)
          PROVE  \E i \in 1..Len(U) :
                    /\ objs[d].off + 1 = at2[i] /\ objs[d].len >= EltLen
                    /\ objs[d].len + ActLen <= Size(Len(U[i]))
      <4>1. d = e /\ objs[d] = ob[d]
        BY <1>2, <1>3, <1>7, <3>3, Kinds
      <4>2. ob[d].off + 1 = at2[last] /\ ob[d].len >= EltLen
        BY <2>5, <2>6, <2>11, <4>1
      <4>3. Size(c + 1) = s + ActLen
        BY <2>6, SizeProperties
      <4>4. ob[d].len + ActLen <= Size(Len(U[last]))
        <5>1. ob[d].len + ActLen = Size(Len(U[last]))
          BY <2>5, <2>10, <4>1, <4>3
        <5>2. s + ActLen <= s + ActLen
          <6> HIDE DEF s
          <6>1. QED
            BY <1>0, <2>6
        <5>3. QED
          BY <2>10, <4>3, <5>1, <5>2
      <4>5. last \in 1..Len(U)
        <5> HIDE DEF U
        <5>1. QED
          BY <2>5, <2>10
      <4>6. QED
        BY <4>1, <4>2, <4>4, <4>5
    <3> HIDE DEF U, at2, n
    <3>4. QED
      BY <2>13, <3>1, <3>2, <3>3, PlacedLengthened
  <2>15. Sound(r, new, {}, NoObject, U, at2)
    BY <2>4, <2>7, <2>8, <2>9, <2>14 DEF Sound
  <2>16. QED
    BY <2>1, <2>6, <2>15
<1>12. QED
  BY <1>10, <1>11
-----------------------------------------------------------------------------
(* What an operation writes, and what it does to the message.               *)

\* A cell of each kind.
LEMMA Cells ==
    /\ Zero \in Cell
    /\ \A k \in {"msg", "elt", "act"}, n \in Nat : Header(k, n) \in Cell
    /\ \A k, n : Header(k, n).f = k /\ Header(k, n).v = n /\ Header(k, n).x = NoValue
    /\ \A x \in Contents : Val(x) \in Cell /\ Val(x).x = x /\ Val(x).f = "val"
BY DEF Zero, Header, Val, Cell, Contents

\* What of_<class>_new() makes.
LEMMA FixedCells ==
    ASSUME NEW kind \in {"msg", "elt", "act"}, NEW len \in Nat \ {0}
    PROVE  /\ Fixed(kind, len) \in Seq(Cell) /\ Len(Fixed(kind, len)) = len
           /\ Fixed(kind, len)[1].f = kind /\ Fixed(kind, len)[1].v = len
           /\ Fixed(kind, len)[1].x = NoValue
<1> DEFINE cell(i) == IF i = 1 THEN Header(kind, len) ELSE Zero
           s == [i \in 1..len |-> cell(i)]
<1>1. \A i \in 1..len : cell(i) \in Cell
  BY Cells
<1>2. s \in Seq(Cell) /\ Len(s) = len
  <2> HIDE DEF cell
  <2>1. s \in [1..len -> Cell]
    BY <1>1
  <2>2. s \in Seq(Cell)
    BY <2>1, SeqDef
  <2>3. QED
    BY <2>1, <2>2
<1>3. s[1] = Header(kind, len)
  <2>1. 1 \in 1..len
    OBVIOUS
  <2>2. QED
    BY <2>1
<1>4. Fixed(kind, len) = s
  BY DEF Fixed
<1> HIDE DEF s, cell
<1>5. QED
  BY <1>2, <1>3, <1>4, Cells

\* An action by itself.
LEMMA ActionCells ==
    ASSUME NEW x \in Contents
    PROVE  /\ ActCells(x) \in Seq(Cell) /\ Len(ActCells(x)) = ActLen
           /\ ActCells(x)[1].f = "act" /\ ActCells(x)[1].v = ActLen /\ ActCells(x)[2].x = x
<1> DEFINE h == <<Header("act", ActLen), Val(x)>>
           z == [i \in 1..(ActLen - 2) |-> Zero]
<1>0. ActLen \in Nat \ {0, 1}
  BY LociAssumption
<1>1. h \in Seq(Cell) /\ Len(h) = 2 /\ h[1] = Header("act", ActLen) /\ h[2] = Val(x)
  <2>1. Header("act", ActLen) \in Cell /\ Val(x) \in Cell
    BY <1>0, Cells
  <2>2. QED
    BY <2>1
<1>2. z \in Seq(Cell) /\ Len(z) = ActLen - 2
  <2>1. ActLen - 2 \in Nat
    BY <1>0
  <2>2. z \in Seq(Cell) /\ Len(z) = IF ActLen - 2 > 0 THEN ActLen - 2 ELSE 0
    BY <2>1, Zeroed
  <2>3. QED
    BY <2>1, <2>2
<1>3. ActCells(x) = h \o z
  BY DEF ActCells
<1> HIDE DEF h, z
<1>4. /\ h \o z \in Seq(Cell) /\ Len(h \o z) = Len(h) + Len(z)
      /\ \A i \in 1..Len(h) + Len(z) : (h \o z)[i] = IF i <= Len(h) THEN h[i] ELSE z[i - Len(h)]
  BY <1>1, <1>2, ConcatProperties
<1>5. Len(h \o z) = ActLen
  BY <1>0, <1>1, <1>2, <1>4
<1>6. (h \o z)[1] = h[1] /\ (h \o z)[2] = h[2]
  <2>1. 1 \in 1..Len(h) + Len(z) /\ 2 \in 1..Len(h) + Len(z) /\ 1 <= Len(h) /\ 2 <= Len(h)
    BY <1>0, <1>1, <1>2
  <2>2. QED
    BY <1>4, <2>1
<1>7. QED
  BY <1>1, <1>3, <1>4, <1>5, <1>6, Cells

\* Cells that are an action are one with its value.
LEMMA ActionIsAction ==
    ASSUME NEW x \in Contents
    PROVE  ActCells(x) \in Seq(Cell) /\ IsAction(ActCells(x), x) /\ Len(ActCells(x)) = ActLen
<1>0. ActLen \in Nat \ {0, 1}
  BY LociAssumption
<1>1. 1 <= ActLen /\ 2 <= ActLen /\ ActLen <= ActLen
  BY <1>0
<1>2. QED
  BY <1>1, ActionCells DEF IsAction, At

\* An element with no action, or with one.
LEMMA ElementIsElement ==
    ASSUME NEW acts \in SmallActs
    PROVE  /\ acts \in Seq(Contents) /\ EltCells(acts) \in Seq(Cell) /\ EltCells(acts) # <<>>
           /\ IsElement(EltCells(acts), acts) /\ Len(EltCells(acts)) = Size(Len(acts))
<1>0. EltLen \in Nat \ {0} /\ ActLen \in Nat \ {0, 1}
  BY LociAssumption
<1> DEFINE f == Fixed("elt", EltLen)
<1>1. f \in Seq(Cell) /\ Len(f) = EltLen /\ f[1].f = "elt" /\ f[1].v = EltLen /\ f[1].x = NoValue
  BY <1>0, FixedCells
<1>2. 1 \in 1..EltLen /\ EltLen <= EltLen /\ 1 <= EltLen
  BY <1>0
<1>3. CASE acts = <<>>
  <2>1. acts \in Seq(Contents) /\ Len(acts) = 0 /\ Size(0) = EltLen
    BY <1>3, EmptySeq, SizeProperties
  <2>2. EltCells(acts) = f
    BY <1>3 DEF EltCells
  <2> HIDE DEF f
  <2>3. 1..Len(acts) = {}
    BY <2>1
  <2>4. f # <<>>
    <3>1. Len(f) # 0
      BY <1>0, <1>1
    <3>2. QED
      BY <3>1, EmptySeq
  <2>5. QED
    BY <1>1, <1>2, <2>1, <2>2, <2>3, <2>4 DEF IsElement, At
<1>4. ASSUME NEW x \in Values, acts = <<x>>
      PROVE  /\ acts \in Seq(Contents) /\ EltCells(acts) \in Seq(Cell) /\ EltCells(acts) # <<>>
             /\ IsElement(EltCells(acts), acts) /\ Len(EltCells(acts)) = Size(Len(acts))
  <2>1. x \in Contents /\ acts \in Seq(Contents) /\ Len(acts) = 1 /\ acts[1] = x /\ acts # <<>>
    BY <1>4 DEF Contents
  <2>2. Size(1) = EltLen + ActLen
    <3>1. Size(0 + 1) = Size(0) + ActLen /\ Size(0) = EltLen
      BY SizeProperties
    <3>2. QED
      BY <3>1
  <2>3. ActAt(1, 1) = 1 + EltLen
    <3>1. ActAt(1, 0 + 1) = 1 + Size(0) /\ Size(0) = EltLen
      BY SizeProperties
    <3>2. QED
      BY <3>1
  <2> DEFINE g == [f EXCEPT ![1].v = EltLen + ActLen]
             a == ActCells(x)
  <2>4. EltCells(acts) = g \o a
    BY <2>1 DEF EltCells
  <2>5. a \in Seq(Cell) /\ Len(a) = ActLen /\ a[1].f = "act" /\ a[1].v = ActLen /\ a[2].x = x
    BY <2>1, ActionCells
  <2> HIDE DEF f, a
  <2>6. DOMAIN f = 1..EltLen
    BY <1>1
  <2>7. f[1] \in Cell
    BY <1>1, <1>2, ElementOfSeq
  <2> DEFINE h == [f[1] EXCEPT !.v = EltLen + ActLen]
  <2>8. h \in Cell /\ h.f = "elt" /\ h.v = EltLen + ActLen
    BY <1>0, <1>1, <2>7 DEF Cell
  <2>9. g = [f EXCEPT ![1] = h]
    OBVIOUS
  <2> HIDE DEF g, h
  <2>10. g \in Seq(Cell) /\ Len(g) = EltLen /\ g[1] = h
    BY <1>1, <1>2, <2>8, <2>9, ExceptSeq
  <2> DEFINE c == g \o a
  <2>11. /\ c \in Seq(Cell) /\ Len(c) = EltLen + ActLen
         /\ \A i \in 1..EltLen + ActLen : c[i] = IF i <= EltLen THEN g[i] ELSE a[i - EltLen]
    <3>1. /\ g \o a \in Seq(Cell) /\ Len(g \o a) = Len(g) + Len(a)
          /\ \A i \in 1..Len(g) + Len(a) :
                (g \o a)[i] = IF i <= Len(g) THEN g[i] ELSE a[i - Len(g)]
      BY <2>5, <2>10, ConcatProperties
    <3>2. QED
      BY <2>5, <2>10, <3>1
  <2>12. /\ 1 \in 1..EltLen + ActLen /\ 1 + EltLen \in 1..EltLen + ActLen
         /\ (1 + EltLen) + 1 \in 1..EltLen + ActLen /\ ~(1 + EltLen <= EltLen)
         /\ ~((1 + EltLen) + 1 <= EltLen) /\ (1 + EltLen) - EltLen = 1
         /\ ((1 + EltLen) + 1) - EltLen = 2
         /\ 1 + EltLen <= EltLen + ActLen /\ (1 + EltLen) + 1 <= EltLen + ActLen
         /\ 1 <= EltLen + ActLen /\ EltLen + ActLen <= EltLen + ActLen /\ EltLen + ActLen # 0
    BY <1>0
  <2> HIDE DEF c
  <2>13. c[1] = h /\ c[1 + EltLen] = a[1] /\ c[(1 + EltLen) + 1] = a[2]
    BY <1>2, <2>10, <2>11, <2>12
  <2>14. At(c, 1) = h /\ At(c, 1 + EltLen) = a[1] /\ At(c, (1 + EltLen) + 1) = a[2]
    BY <2>11, <2>12, <2>13 DEF At
  <2>15. c # <<>>
    BY <2>11, <2>12, EmptySeq
  <2>16. 1..Len(acts) = {1}
    BY <2>1
  <2>17. IsElement(c, acts)
    BY <2>1, <2>2, <2>3, <2>5, <2>8, <2>11, <2>12, <2>14, <2>16 DEF IsElement
  <2>18. QED
    BY <2>1, <2>2, <2>4, <2>11, <2>15, <2>17 DEF c
<1>5. QED
  BY <1>3, <1>4 DEF SmallActs

\* The header that of_list_append_bind() writes.
LEMMA HeaderCells ==
    /\ \A e \in Elements : 
          /\ <<[f |-> Kind(e), v |-> EltLen, x |-> NoValue]>> \in Seq(Cell)
          /\ IsElement(<<[f |-> Kind(e), v |-> EltLen, x |-> NoValue]>>, <<>>)
    /\ \A a \in Actions :
          /\ <<[f |-> Kind(a), v |-> ActLen, x |-> NoValue]>> \in Seq(Cell)
          /\ IsAction(<<[f |-> Kind(a), v |-> ActLen, x |-> NoValue]>>, NoValue)
<1>0. EltLen \in Nat \ {0} /\ ActLen \in Nat \ {0, 1}
  BY LociAssumption
<1>1. ASSUME NEW e \in Elements
      PROVE  /\ <<[f |-> Kind(e), v |-> EltLen, x |-> NoValue]>> \in Seq(Cell)
             /\ IsElement(<<[f |-> Kind(e), v |-> EltLen, x |-> NoValue]>>, <<>>)
  <2> DEFINE h == [f |-> "elt", v |-> EltLen, x |-> NoValue]
  <2>1. Kind(e) = "elt"
    BY Kinds
  <2>2. h \in Cell /\ h.f = "elt" /\ h.v = EltLen
    BY <1>0 DEF Cell, Contents
  <2> HIDE DEF h
  <2>3. <<h>> \in Seq(Cell) /\ Len(<<h>>) = 1 /\ <<h>>[1] = h
    BY <2>2
  <2>4. Size(0) = EltLen /\ Len(<<>>) = 0 /\ 1..0 = {}
    BY SizeProperties, EmptySeq
  <2>5. 1 <= EltLen /\ 1 <= 1
    BY <1>0
  <2>6. IsElement(<<h>>, <<>>)
    BY <2>2, <2>3, <2>4, <2>5 DEF IsElement, At
  <2>7. QED
    BY <2>1, <2>3, <2>6 DEF h
<1>2. ASSUME NEW a \in Actions
      PROVE  /\ <<[f |-> Kind(a), v |-> ActLen, x |-> NoValue]>> \in Seq(Cell)
             /\ IsAction(<<[f |-> Kind(a), v |-> ActLen, x |-> NoValue]>>, NoValue)
  <2> DEFINE h == [f |-> "act", v |-> ActLen, x |-> NoValue]
  <2>1. Kind(a) = "act"
    BY Kinds
  <2>2. h \in Cell /\ h.f = "act" /\ h.v = ActLen
    BY <1>0 DEF Cell, Contents
  <2> HIDE DEF h
  <2>3. <<h>> \in Seq(Cell) /\ Len(<<h>>) = 1 /\ <<h>>[1] = h
    BY <2>2
  <2>4. 1 <= ActLen /\ 1 <= 1 /\ ~(2 <= 1)
    BY <1>0
  <2>5. At(<<h>>, 1) = h /\ At(<<h>>, 2) = Zero /\ Zero.x = NoValue
    BY <2>3, <2>4 DEF At, Zero
  <2>6. IsAction(<<h>>, NoValue)
    BY <2>2, <2>3, <2>4, <2>5 DEF IsAction
  <2>7. QED
    BY <2>1, <2>3, <2>6 DEF h
<1>3. QED
  BY <1>1, <1>2

\* Binding a window where an object of its kind is.
LEMMA SoundAttached ==
    ASSUME NEW T, NEW at, Sound(buf, ob, iter, aborted, T, at), aborted = NoObject,
           NEW p \in Objects, NEW c \in Objects, Holds(p, c),
           p = Msg \/ ob[p].parent # NoObject,
           NEW off, ob[p].off + off \in Nat, NEW len \in Nat,
           NEW it2 \in SUBSET Elements, it2 \ {c} \subseteq iter,
           c \in Lists => ob[p].off + off = MsgLen /\ ob[p].off + off + len <= Len(buf),
           c \in Elements =>
              \E i \in 1..Len(T) : OnElement([off |-> ob[p].off + off, len |-> len], c \in it2, i, T, at),
           c \in ALists => off = EltLen /\ off + len <= ob[p].len,
           c \notin Actions,
           buf' = buf, ob' = Attached(p, c, off, len), iter' = it2, aborted' = aborted
    PROVE  Sound(buf', ob', iter', aborted', T, at)
<1> DEFINE new == Attached(p, c, off, len)
           n == Len(buf)
<1>1. Placed(ob, iter, n, T, at) /\ Laid(buf, T, at) /\ ob[Msg].len = n /\ n <= Alloc /\ Chain(ob)
  BY SoundFacts
<1>2. new[Msg] = ob[Msg]
  BY <1>1, AttachedKeeps
<1>3. Placed(new, it2, n, T, at)
  <2> HIDE DEF new
  <2>1. new = Attached(p, c, off, len) /\ Placed(ob, iter, Len(buf), T, at)
    BY <1>1 DEF new
  <2>2. QED
    BY <2>1, PlacedAttached
<1> HIDE DEF new
<1>4. Sound(buf, new, it2, NoObject, T, at)
  BY <1>1, <1>2, <1>3 DEF Sound
<1>5. QED
  BY <1>4 DEF new

\* of_<msg>_<list>_bind(), of_<elt>_<list>_bind()
LEMMA BindListStep ==
    ASSUME NEW T, NEW at, Sound(buf, ob, iter, aborted, T, at),
           NEW o, NEW l, BindList(o, l)
    PROVE  Sound(buf', ob', iter', aborted', T, at)
<1>0. MsgLen \in Nat \ {0} /\ EltLen \in Nat \ {0}
  BY LociAssumption
<1>1. /\ Placed(ob, iter, Len(buf), T, at) /\ ob[Msg].off = 0 /\ ob[Msg].len = Len(buf)
      /\ Len(buf) \in Nat /\ Len(buf) >= MsgLen /\ iter \subseteq Elements
      /\ \A p \in Objects : ob[p].off \in Nat /\ ob[p].len \in Nat
  BY SoundFacts
<1>2. aborted = NoObject /\ o \in Bound /\ buf' = buf /\ iter' = iter /\ aborted' = aborted
  BY DEF BindList, Usable
<1>3. CASE o = Msg /\ l \in Lists
  <2> DEFINE len == ob[Msg].len - MsgLen
  <2>1. ob' = Attached(Msg, l, MsgLen, len)
    BY <1>3 DEF BindList
  <2>2. len \in Nat /\ ob[Msg].off + MsgLen = MsgLen /\ MsgLen + len <= Len(buf) /\ MsgLen \in Nat
    BY <1>0, <1>1
  <2>3. /\ l \notin Elements /\ l \notin ALists /\ l \notin Actions /\ l \in Objects /\ Msg \in Objects
        /\ Holds(Msg, l)
    BY <1>3, Kinds DEF Holds
  <2>4. iter \in SUBSET Elements /\ iter \ {l} \subseteq iter
    BY <1>1
  <2> HIDE DEF len
  <2>5. QED
    BY <1>2, <2>1, <2>2, <2>3, <2>4, SoundAttached
<1>4. CASE o \in Elements /\ l \in ALists
  <2> DEFINE len == ob[o].len - EltLen
  <2>1. ob' = Attached(o, l, EltLen, len)
    BY <1>4, Kinds DEF BindList
  <2>2. ob[o].parent # NoObject /\ o \in Objects
    BY <1>2, <1>4, Kinds DEF Bound
  <2>3. ob[o].len >= EltLen
    BY <1>1, <1>4, <2>2 DEF Placed, OnElement
  <2>4. /\ len \in Nat /\ ob[o].off + EltLen \in Nat /\ EltLen + len <= ob[o].len
    <3>1. ob[o].len \in Nat /\ ob[o].off \in Nat
      BY <1>1, <2>2
    <3>2. QED
      BY <1>0, <2>3, <3>1
  <2>5. /\ l \notin Elements /\ l \notin Lists /\ l \notin Actions /\ l \in Objects /\ Holds(o, l)
    BY <1>4, Kinds DEF Holds
  <2>6. iter \in SUBSET Elements /\ iter \ {l} \subseteq iter
    BY <1>1
  <2> HIDE DEF len
  <2>7. QED
    BY <1>2, <2>1, <2>2, <2>4, <2>5, <2>6, SoundAttached
<1>5. QED
  BY <1>3, <1>4 DEF BindList

\* of_<list>_first()
LEMMA ListFirstStep ==
    ASSUME NEW T, NEW at, Sound(buf, ob, iter, aborted, T, at),
           NEW l \in Lists, NEW e \in Elements, ListFirst(l, e)
    PROVE  Sound(buf', ob', iter', aborted', T, at)
<1>0. MsgLen \in Nat \ {0} /\ EltLen \in Nat \ {0}
  BY LociAssumption
<1>1. /\ Placed(ob, iter, Len(buf), T, at) /\ Laid(buf, T, at)
      /\ Len(buf) \in Nat /\ Len(T) \in Nat /\ iter \subseteq Elements
      /\ \A p \in Objects : ob[p].off \in Nat /\ ob[p].len \in Nat
  BY SoundFacts
<1>2. /\ aborted = NoObject /\ l \in Bound /\ buf' = buf /\ aborted' = aborted
      /\ ob' = Attached(l, e, 0, buf[ob[l].off + 1].v) /\ iter' = iter \cup {e} /\ ob[l].len > 0
  BY DEF ListFirst, Usable
<1>3. l \in Objects /\ e \in Objects /\ ob[l].parent # NoObject /\ Holds(l, e)
      /\ e \notin Lists /\ e \notin ALists /\ e \notin Actions
  BY <1>2, Kinds DEF Bound, Holds
<1>4. ob[l].off = MsgLen /\ ob[l].off + ob[l].len <= Len(buf)
  BY <1>1, <1>3 DEF Placed
<1>5. Len(buf) > MsgLen
  <2>1. ob[l].len \in Nat
    BY <1>1, <1>3
  <2>2. QED
    BY <1>0, <1>1, <1>2, <1>4, <2>1
<1>6. Len(T) # 0
  <2> SUFFICES ASSUME Len(T) = 0
               PROVE  FALSE
    OBVIOUS
  <2>1. at[1] = MsgLen + 1 /\ at[Len(T) + 1] = Len(buf) + 1
    BY <1>1 DEF Laid
  <2>2. Len(T) + 1 = 1
    OBVIOUS
  <2>3. MsgLen + 1 = Len(buf) + 1
    BY <2>1, <2>2
  <2>4. QED
    BY <1>0, <1>1, <1>5, <2>3
<1>7. 1 \in 1..Len(T)
  BY <1>1, <1>6
<1> DEFINE s == Size(Len(T[1]))
<1>8. at[1] = MsgLen + 1 /\ buf[at[1]].v = s /\ s \in Nat /\ s >= EltLen
  <2>1. at[1] = MsgLen + 1
    BY <1>1 DEF Laid
  <2>2. \A i \in 1..Len(T) : buf[at[i]].v = Size(Len(T[i]))
    BY <1>1 DEF Laid
  <2>3. \A i \in 1..Len(T) : Size(Len(T[i])) \in Nat /\ Size(Len(T[i])) >= EltLen
    BY <1>1, Where
  <2>4. QED
    BY <1>7, <2>1, <2>2, <2>3
<1>9. buf[ob[l].off + 1].v = s /\ ob[l].off + 0 = MsgLen /\ MsgLen \in Nat
  BY <1>0, <1>4, <1>8
<1>10. OnElement([off |-> ob[l].off + 0, len |-> s], TRUE, 1, T, at)
  <2>1. s <= s /\ (ob[l].off + 0) + 1 = at[1]
    BY <1>8, <1>9
  <2>2. QED
    BY <1>8, <2>1 DEF OnElement
<1>11. /\ iter \cup {e} \in SUBSET Elements /\ (iter \cup {e}) \ {e} \subseteq iter
       /\ e \in iter \cup {e} /\ (e \in iter \cup {e}) = TRUE
  BY <1>1
<1>12. \E i \in 1..Len(T) : OnElement([off |-> ob[l].off + 0, len |-> s], e \in iter \cup {e}, i, T, at)
  <2>1. OnElement([off |-> ob[l].off + 0, len |-> s], e \in iter \cup {e}, 1, T, at)
    BY <1>10 DEF OnElement
  <2>2. QED
    BY <1>7, <2>1
<1>13. ob[l].off + 0 \in Nat /\ s \in Nat /\ ob' = Attached(l, e, 0, s)
  BY <1>2, <1>8, <1>9
<1> HIDE DEF s
<1>14. QED
  BY <1>2, <1>3, <1>11, <1>12, <1>13, SoundAttached

\* of_<list>_next()
LEMMA ListNextStep ==
    ASSUME NEW T, NEW at, Sound(buf, ob, iter, aborted, T, at),
           NEW l \in Lists, NEW e \in Elements, ListNext(l, e)
    PROVE  Sound(buf', ob', iter', aborted', T, at)
<1>0. MsgLen \in Nat \ {0} /\ EltLen \in Nat \ {0}
  BY LociAssumption
<1>1. /\ Placed(ob, iter, Len(buf), T, at) /\ Laid(buf, T, at)
      /\ Len(buf) \in Nat /\ Len(T) \in Nat /\ iter \subseteq Elements
      /\ \A p \in Objects : ob[p].off \in Nat /\ ob[p].len \in Nat
  BY SoundFacts
<1> DEFINE to == ob[e].off - ob[l].off + ob[e].len
           a == ob[e].off
           b == ob[e].len
           c == ob[l].off
           d == ob[l].len
           n == Len(buf)
<1>2. /\ aborted = NoObject /\ l \in Bound /\ e \in Bound /\ e \in iter
      /\ buf' = buf /\ aborted' = aborted /\ iter' = iter
      /\ ob' = Attached(l, e, to, buf[ob[l].off + to + 1].v) /\ a + b < c + d
  BY DEF ListNext, Usable
<1>3. l \in Objects /\ e \in Objects /\ ob[l].parent # NoObject /\ ob[e].parent # NoObject
      /\ Holds(l, e) /\ e \notin Lists /\ e \notin ALists /\ e \notin Actions
  BY <1>2, Kinds DEF Bound, Holds
<1>4. c + d <= n
  BY <1>1, <1>3 DEF Placed
<1>5. a \in Nat /\ b \in Nat /\ c \in Nat /\ d \in Nat /\ n \in Nat
  BY <1>1, <1>3
<1>6. PICK i \in 1..Len(T) : OnElement(ob[e], e \in iter, i, T, at)
  BY <1>1, <1>3 DEF Placed
<1>7. a + 1 = at[i] /\ b = Size(Len(T[i]))
  BY <1>2, <1>6 DEF OnElement
<1>8. at[i + 1] = a + 1 + b /\ at[Len(T) + 1] = n + 1
  <2>1. \A j \in 1..Len(T) : at[j + 1] = at[j] + Size(Len(T[j]))
    BY <1>1 DEF Laid
  <2>2. at[Len(T) + 1] = n + 1
    BY <1>1 DEF Laid
  <2>3. QED
    BY <1>6, <1>7, <2>1, <2>2
<1>9. c + to = a + b /\ a + b + 1 = a + 1 + b /\ a + b < n /\ a + b \in Nat
  <2> HIDE DEF a, b, c, d, n
  <2>1. to = a - c + b
    BY DEF a, b, c
  <2> HIDE DEF to
  <2>2. QED
    BY <1>2, <1>4, <1>5, <2>1
<1>10. i + 1 \in 1..Len(T)
  <2>1. at[i + 1] # at[Len(T) + 1]
    <3> HIDE DEF a, b, n
    <3>1. a + 1 + b # n + 1
      BY <1>5, <1>9
    <3>2. QED
      BY <1>8, <3>1
  <2>2. i \in Nat /\ i >= 1 /\ i <= Len(T) /\ i + 1 # Len(T) + 1
    BY <1>1, <1>6, <2>1
  <2>3. QED
    BY <1>1, <2>2
<1> DEFINE s == Size(Len(T[i + 1]))
<1>11. buf[at[i + 1]].v = s /\ s \in Nat /\ s >= EltLen
  <2>1. \A j \in 1..Len(T) : buf[at[j]].v = Size(Len(T[j]))
    BY <1>1 DEF Laid
  <2>2. \A j \in 1..Len(T) : Size(Len(T[j])) \in Nat /\ Size(Len(T[j])) >= EltLen
    BY <1>1, Where
  <2>3. QED
    BY <1>10, <2>1, <2>2
<1>12. buf[ob[l].off + to + 1].v = s /\ (c + to) + 1 = at[i + 1] /\ c + to \in Nat
  <2>1. ob[l].off + to + 1 = (c + to) + 1
    OBVIOUS
  <2> HIDE DEF a, b, c, to
  <2>2. (c + to) + 1 = at[i + 1]
    BY <1>8, <1>9
  <2>3. QED
    BY <1>9, <1>11, <2>1, <2>2
<1>13. OnElement([off |-> ob[l].off + to, len |-> s], e \in iter, i + 1, T, at)
  <2>1. s <= s
    BY <1>11
  <2> HIDE DEF to, s
  <2>2. QED
    BY <1>11, <1>12, <2>1 DEF OnElement, s, c
<1>14. \E j \in 1..Len(T) : OnElement([off |-> ob[l].off + to, len |-> s], e \in iter, j, T, at)
  BY <1>10, <1>13
<1>15. ob[l].off + to \in Nat /\ s \in Nat /\ ob' = Attached(l, e, to, s)
  BY <1>2, <1>11, <1>12
<1>16. iter \in SUBSET Elements /\ iter \ {e} \subseteq iter
  BY <1>1
<1> HIDE DEF s, to
<1>17. QED
  BY <1>2, <1>3, <1>14, <1>15, <1>16, SoundAttached

\* What an operation does to the message: the steps of MessageTree.
TreeStep(T, U) ==
    \/ \E acts \in SmallActs : U = Append(T, acts)
    \/ T # <<>> /\ \E x \in Contents : U = OneAction(T, x)
    \/ \E i \in 1..Len(T) : \E j \in 1..Len(T[i]) : \E x \in Values : U = [T EXCEPT ![i][j] = x]
    \/ U \in {<<>>, << <<>> >>} \cup {<< <<x>> >> : x \in Values}

Follows(T, U) == U = T \/ TreeStep(T, U)

\* of_list_append() of an element.
LEMMA AppendElementCopyStep ==
    ASSUME NEW T, NEW at, Sound(buf, ob, iter, aborted, T, at),
           NEW l \in Lists, NEW acts \in SmallActs, AppendCopy(l, EltCells(acts))
    PROVE  \E U, at2 : Sound(buf', ob', iter', aborted', U, at2) /\ Follows(T, U)
<1> DEFINE cells == EltCells(acts)
<1>1. /\ acts \in Seq(Contents) /\ cells \in Seq(Cell) /\ IsElement(cells, acts)
      /\ Len(cells) = Size(Len(acts))
  BY ElementIsElement
<1>2. aborted = NoObject /\ ob[l].parent # NoObject
  BY Kinds DEF AppendCopy, Usable, Bound
<1>3. /\ CanGrow(l, ob[l].len + Len(cells))
      /\ UpdateLengths(ob, Written(buf, ob[l].off + ob[l].len,
                                   ob[l].off + (ob[l].len + Len(cells)), cells), l, Len(cells))
  BY DEF AppendCopy, Written
<1> HIDE DEF cells
<1>4. /\ CanGrow(l, ob[l].len + Size(Len(acts)))
      /\ UpdateLengths(ob, Written(buf, ob[l].off + ob[l].len,
                                   ob[l].off + (ob[l].len + Size(Len(acts))), cells),
                       l, Size(Len(acts)))
  BY <1>1, <1>3
<1>5. \/ Sound(buf', ob', iter', aborted', T, at)
      \/ \E at2 : Sound(buf', ob', iter', aborted', Append(T, acts), at2)
  BY <1>1, <1>2, <1>4, AppendElement
<1>6. Follows(T, T) /\ Follows(T, Append(T, acts))
  BY DEF Follows, TreeStep
<1>7. QED
  BY <1>5, <1>6

\* of_list_append() of an action.
LEMMA AppendActionCopyStep ==
    ASSUME NEW T, NEW at, Sound(buf, ob, iter, aborted, T, at),
           NEW l \in ALists, NEW x \in Values, AppendCopy(l, ActCells(x))
    PROVE  \E U, at2 : Sound(buf', ob', iter', aborted', U, at2) /\ Follows(T, U)
<1> DEFINE cells == ActCells(x)
<1>1. x \in Contents
  BY DEF Contents
<1>2. cells \in Seq(Cell) /\ IsAction(cells, x) /\ Len(cells) = ActLen
  BY <1>1, ActionIsAction
<1>3. aborted = NoObject /\ ob[l].parent # NoObject
  BY Kinds DEF AppendCopy, Usable, Bound
<1>4. /\ CanGrow(l, ob[l].len + Len(cells))
      /\ UpdateLengths(ob, Written(buf, ob[l].off + ob[l].len,
                                   ob[l].off + (ob[l].len + Len(cells)), cells), l, Len(cells))
  BY DEF AppendCopy, Written
<1> HIDE DEF cells
<1>5. /\ CanGrow(l, ob[l].len + ActLen)
      /\ UpdateLengths(ob, Written(buf, ob[l].off + ob[l].len,
                                   ob[l].off + (ob[l].len + ActLen), cells), l, ActLen)
  BY <1>2, <1>4
<1>6. \/ Sound(buf', ob', iter', aborted', T, at)
      \/ /\ T # <<>>
         /\ \E at2 : Sound(buf', ob', iter', aborted', OneAction(T, x), at2)
  BY <1>1, <1>2, <1>3, <1>5, AppendAction
<1>7. Follows(T, T) /\ (T # <<>> => Follows(T, OneAction(T, x)))
  BY <1>1 DEF Follows, TreeStep
<1>8. QED
  BY <1>6, <1>7

\* of_list_append_bind() of an element.
LEMMA AppendElementBindStep ==
    ASSUME NEW T, NEW at, Sound(buf, ob, iter, aborted, T, at),
           NEW l \in Lists, NEW e \in Elements, AppendBind(l, e, EltLen)
    PROVE  \E U, at2 : Sound(buf', ob', iter', aborted', U, at2) /\ Follows(T, U)
<1> DEFINE cells == <<[f |-> Kind(e), v |-> EltLen, x |-> NoValue]>>
           objs == Attached(l, e, ob[l].len, EltLen)
           acts == <<>>
<1>1. /\ acts \in Seq(Contents) /\ cells \in Seq(Cell) /\ IsElement(cells, acts)
      /\ Size(Len(acts)) = EltLen
  BY HeaderCells, SizeProperties, EmptySeq
<1>2. aborted = NoObject /\ ob[l].parent # NoObject
  BY Kinds DEF AppendBind, Usable, Bound
<1>3. /\ CanGrow(l, ob[l].len + EltLen)
      /\ UpdateLengths(objs, Written(buf, ob[l].off + ob[l].len,
                                   ob[l].off + (ob[l].len + EltLen), cells), l, EltLen)
  BY DEF AppendBind, Written
<1>4. /\ acts = <<>> /\ acts \in SmallActs
      /\ \E d \in Elements : objs = Attached(l, d, ob[l].len, EltLen)
  BY DEF SmallActs
<1> HIDE DEF cells, objs, acts
<1>5. /\ CanGrow(l, ob[l].len + Size(Len(acts)))
      /\ UpdateLengths(objs, Written(buf, ob[l].off + ob[l].len,
                                   ob[l].off + (ob[l].len + Size(Len(acts))), cells),
                       l, Size(Len(acts)))
  BY <1>1, <1>3
<1>6. \/ Sound(buf', ob', iter', aborted', T, at)
      \/ \E at2 : Sound(buf', ob', iter', aborted', Append(T, acts), at2)
  BY <1>1, <1>2, <1>4, <1>5, AppendElement
<1>7. Follows(T, T) /\ Follows(T, Append(T, acts))
  BY <1>4 DEF Follows, TreeStep
<1>8. QED
  BY <1>6, <1>7

\* of_list_append_bind() of an action.
LEMMA AppendActionBindStep ==
    ASSUME NEW T, NEW at, Sound(buf, ob, iter, aborted, T, at),
           NEW l \in ALists, NEW a \in Actions, AppendBind(l, a, ActLen)
    PROVE  \E U, at2 : Sound(buf', ob', iter', aborted', U, at2) /\ Follows(T, U)
<1> DEFINE cells == <<[f |-> Kind(a), v |-> ActLen, x |-> NoValue]>>
           objs == Attached(l, a, ob[l].len, ActLen)
           x == NoValue
<1>1. cells \in Seq(Cell) /\ IsAction(cells, x) /\ x \in Contents
  BY HeaderCells DEF Contents
<1>2. aborted = NoObject /\ ob[l].parent # NoObject
  BY Kinds DEF AppendBind, Usable, Bound
<1>3. /\ CanGrow(l, ob[l].len + ActLen)
      /\ UpdateLengths(objs, Written(buf, ob[l].off + ob[l].len,
                                   ob[l].off + (ob[l].len + ActLen), cells), l, ActLen)
  BY DEF AppendBind, Written
<1>4. x = NoValue /\ \E d \in Actions : objs = Attached(l, d, ob[l].len, ActLen)
  OBVIOUS
<1> HIDE DEF cells, objs, x
<1>5. \/ Sound(buf', ob', iter', aborted', T, at)
      \/ /\ T # <<>>
         /\ \E at2 : Sound(buf', ob', iter', aborted', OneAction(T, x), at2)
  BY <1>1, <1>2, <1>3, <1>4, AppendAction
<1>6. Follows(T, T) /\ (T # <<>> => Follows(T, OneAction(T, x)))
  BY <1>1 DEF Follows, TreeStep
<1>7. QED
  BY <1>5, <1>6

\* The places of windows depend on how long the elements are, not on values.
LEMMA PlacedSame ==
    ASSUME NEW objs, NEW it, NEW n, NEW T, NEW at, Placed(objs, it, n, T, at),
           NEW U, Len(U) = Len(T), \A i \in 1..Len(T) : Len(U[i]) = Len(T[i])
    PROVE  Placed(objs, it, n, U, at)
<1>1. ASSUME NEW e \in Elements, objs[e].parent # NoObject
      PROVE  \E i \in 1..Len(U) : OnElement(objs[e], e \in it, i, U, at)
  <2>1. PICK i \in 1..Len(T) : OnElement(objs[e], e \in it, i, T, at)
    BY <1>1 DEF Placed
  <2>2. OnElement(objs[e], e \in it, i, U, at)
    BY <2>1 DEF OnElement
  <2>3. QED
    BY <2>2
<1>2. ASSUME NEW a \in Actions, objs[a].parent # NoObject
      PROVE  \E i \in 1..Len(U) : \E j \in 1..Len(U[i]) : OnAction(objs[a], i, j, at)
  <2>1. PICK i \in 1..Len(T) : \E j \in 1..Len(T[i]) : OnAction(objs[a], i, j, at)
    BY <1>2 DEF Placed
  <2>2. QED
    BY <2>1
<1>3. /\ Chain(objs) /\ objs[Msg].off = 0
      /\ \A l \in Lists : objs[l].parent # NoObject =>
            objs[l].off = MsgLen /\ objs[l].off + objs[l].len <= n
  BY DEF Placed
<1>4. \A l \in ALists : objs[l].parent # NoObject =>
          LET e == objs[l].parent
          IN  /\ objs[l].off = objs[e].off + EltLen
              /\ objs[l].off + objs[l].len <= objs[e].off + objs[e].len
  BY DEF Placed
<1>5. QED
  BY <1>1, <1>2, <1>3, <1>4 DEF Placed

\* A scalar set accessor.
LEMMA SetValueStep ==
    ASSUME NEW T, NEW at, Sound(buf, ob, iter, aborted, T, at),
           NEW a \in Actions, NEW x \in Values, SetValue(a, x)
    PROVE  \E U, at2 : Sound(buf', ob', iter', aborted', U, at2) /\ Follows(T, U)
<1>0. ActLen \in Nat \ {0, 1} /\ EltLen \in Nat \ {0} /\ MsgLen \in Nat \ {0}
  BY LociAssumption
<1>1. /\ Placed(ob, iter, Len(buf), T, at) /\ Laid(buf, T, at) /\ buf \in Seq(Cell)
      /\ Len(buf) \in Nat /\ Len(T) \in Nat /\ iter \subseteq Elements
      /\ ob[Msg].len = Len(buf) /\ Len(buf) <= Alloc /\ T \in Seq(Seq(Contents))
      /\ \A p \in Objects : ob[p].off \in Nat /\ ob[p].len \in Nat
  BY SoundFacts
<1>2. /\ aborted = NoObject /\ a \in Bound /\ ob' = ob /\ iter' = iter /\ aborted' = aborted
      /\ buf' = [buf EXCEPT ![ob[a].off + 2] = Val(x)]
  BY DEF SetValue, Usable
<1>3. a \in Objects /\ ob[a].parent # NoObject
  BY <1>2, Kinds DEF Bound
<1>4. PICK i \in 1..Len(T) : \E j \in 1..Len(T[i]) : OnAction(ob[a], i, j, at)
  BY <1>1, <1>3 DEF Placed
<1>5. PICK j \in 1..Len(T[i]) : OnAction(ob[a], i, j, at)
  BY <1>4
<1> DEFINE q == ActAt(at[i], j)
           U == [T EXCEPT ![i][j] = x]
           new == [T[i] EXCEPT ![j] = x]
<1>6. /\ q \in Nat /\ q + ActLen <= Len(buf) + 1 /\ q >= 1
  <2> DEFINE p == at[i]
             s == Size(Len(T[i]))
  <2>1. /\ p \in Nat /\ s \in Nat /\ p + s <= Len(buf) + 1 /\ q \in Nat /\ q >= p + EltLen
        /\ q + ActLen <= p + s
    BY <1>1, Where
  <2> HIDE DEF p, s, q
  <2>2. QED
    BY <1>0, <1>1, <2>1
<1>7. ob[a].off + 2 = q + 1 /\ q + 1 \in 1..Len(buf)
  <2>1. ob[a].off + 1 = q /\ ob[a].off \in Nat
    BY <1>1, <1>3, <1>5 DEF OnAction
  <2> DEFINE off == ob[a].off
             n == Len(buf)
  <2>2. off + 1 = q /\ off \in Nat /\ n \in Nat /\ q + ActLen <= n + 1
    BY <1>1, <1>6, <2>1
  <2> HIDE DEF q, off, n
  <2>3. off + 2 = q + 1 /\ q + 1 \in 1..n
    BY <1>0, <1>6, <2>2
  <2>4. QED
    BY <2>3 DEF off, n
<1>8. x \in Contents /\ Val(x) \in Cell /\ Val(x).x = x
  BY Cells DEF Contents
<1> DEFINE b2 == [buf EXCEPT ![q + 1] = Val(x)]
<1>9. /\ b2 \in Seq(Cell) /\ Len(b2) = Len(buf)
      /\ \A k \in 1..Len(buf) : b2[k] = IF k = q + 1 THEN Val(x) ELSE buf[k]
  BY <1>1, <1>7, <1>8, ExceptSeq
<1>10. buf' = b2
  BY <1>2, <1>7
<1>11. Laid(b2, U, at)
  <2>1. \A k \in 1..Len(buf) : k # q + 1 => b2[k] = buf[k]
    BY <1>9
  <2>2. b2[q + 1].x = x
    BY <1>7, <1>8, <1>9
  <2> HIDE DEF b2
  <2>3. QED
    BY <1>1, <1>8, <1>9, <2>1, <2>2, LaidValue
<1>12. Len(U) = Len(T) /\ \A k \in 1..Len(T) : Len(U[k]) = Len(T[k])
  <2>1. T[i] \in Seq(Contents)
    BY <1>1, ElementOfSeq
  <2>2. new \in Seq(Contents) /\ Len(new) = Len(T[i])
    BY <1>8, <2>1, ExceptSeq
  <2>3. U = [T EXCEPT ![i] = new]
    OBVIOUS
  <2> HIDE DEF new, U
  <2>4. Len([T EXCEPT ![i] = new]) = Len(T)
        /\ \A k \in 1..Len(T) : [T EXCEPT ![i] = new][k] = IF k = i THEN new ELSE T[k]
    BY <1>1, <2>2, ExceptSeq
  <2>5. QED
    BY <2>2, <2>3, <2>4
<1>13. Placed(ob, iter, Len(buf), U, at)
  <2> HIDE DEF U
  <2>1. QED
    BY <1>1, <1>12, PlacedSame
<1>14. Follows(T, U)
  BY DEF Follows, TreeStep
<1> HIDE DEF U, b2
<1>15. Sound(b2, ob, iter, NoObject, U, at)
  BY <1>1, <1>9, <1>11, <1>13 DEF Sound
<1>16. QED
  BY <1>2, <1>10, <1>14, <1>15

\* A buffer with nothing behind its header but the cells of an element.
LEMMA LaidOne ==
    ASSUME NEW r \in Seq(Cell), r[1].f = "msg", r[1].v = Len(r),
           NEW cells \in Seq(Cell), NEW acts \in Seq(Contents), IsElement(cells, acts),
           Len(cells) = Size(Len(acts)), Len(r) = MsgLen + Len(cells),
           \A i \in 1..Len(cells) : r[MsgLen + i] = cells[i]
    PROVE  \E at : Laid(r, <<acts>>, at)
<1> DEFINE cell(i) == IF i = 1 THEN Header("msg", MsgLen) ELSE r[i]
           b == [i \in 1..MsgLen |-> cell(i)]
           at == [i \in 1..1 |-> MsgLen + 1]
           sz == Size(Len(acts))
           none == <<>>
<1>0. MsgLen \in Nat \ {0} /\ EltLen \in Nat \ {0} /\ ActLen \in Nat \ {0, 1}
  BY LociAssumption
<1>1. Len(acts) \in Nat /\ sz \in Nat /\ sz >= EltLen
  BY SizeProperties
<1>2. \A i \in 1..MsgLen : cell(i) \in Cell
  <2>1. ASSUME NEW i \in 1..MsgLen
        PROVE  r[i] \in Cell
    <3>1. i \in 1..Len(r)
      <4>1. \A c, d \in Nat : \A k \in 1..c : k \in 1..c + d
        OBVIOUS
      <4> HIDE DEF sz
      <4>2. QED
        BY <1>0, <1>1, <4>1 DEF sz
    <3>2. QED
      BY <3>1, ElementOfSeq
  <2>2. Header("msg", MsgLen) \in Cell
    BY <1>0, Cells
  <2>3. QED
    BY <2>1, <2>2
<1>3. b \in Seq(Cell) /\ Len(b) = MsgLen
  <2> HIDE DEF cell
  <2>1. b \in [1..MsgLen -> Cell]
    BY <1>2
  <2>2. b \in Seq(Cell)
    BY <1>0, <2>1, SeqDef
  <2>3. QED
    BY <1>0, <2>1, <2>2
<1>4. b[1] = Header("msg", MsgLen) /\ \A i \in 2..MsgLen : b[i] = r[i]
  <2>1. 1 \in 1..MsgLen /\ \A i \in 2..MsgLen : i \in 1..MsgLen /\ i # 1
    BY <1>0
  <2>2. QED
    BY <2>1
<1> HIDE DEF b, cell
<1>5. Laid(b, none, at)
  <2>1. b[1].f = "msg" /\ b[1].v = Len(b)
    BY <1>3, <1>4, Cells
  <2>2. QED
    BY <1>3, <2>1, LaidEmpty
<1>6. \A i \in 1..sz : r[MsgLen + i] = At(cells, i)
  <2>1. ASSUME NEW i \in 1..sz
        PROVE  r[MsgLen + i] = At(cells, i)
    <3>1. i \in 1..Len(cells) /\ i <= Len(cells)
      BY <1>1
    <3>2. QED
      BY <3>1 DEF At
  <2>2. QED
    BY <2>1
<1>7. r[MsgLen + 1].f = "elt" /\ r[MsgLen + 1].v = sz
  <2>1. 1 \in 1..sz
    <3> HIDE DEF sz
    <3>1. QED
      BY <1>0, <1>1
  <2>2. QED
    BY <1>6, <2>1 DEF IsElement
<1>8. ASSUME NEW j \in 1..Len(acts)
      PROVE  /\ r[ActAt(MsgLen + 1, j)].f = "act" /\ r[ActAt(MsgLen + 1, j)].v = ActLen
             /\ r[ActAt(MsgLen + 1, j) + 1].x = acts[j]
  <2> DEFINE a == ActAt(1, j)
  <2>1. a \in Nat /\ a >= 1 + EltLen /\ a + ActLen <= 1 + sz
    BY <1>1, SizeProperties
  <2>2. ActAt(MsgLen + 1, j) = MsgLen + a
    <3>1. j - 1 \in Nat
      BY <1>1
    <3>2. Times(j - 1) \in Nat
      BY <3>1, TimesProperties
    <3>3. QED
      BY <1>0, <3>2 DEF ActAt
  <2>3. At(cells, a).f = "act" /\ At(cells, a).v = ActLen /\ At(cells, a + 1).x = acts[j]
    BY DEF IsElement
  <2> HIDE DEF a, sz
  <2>4. a \in 1..sz /\ a + 1 \in 1..sz /\ (MsgLen + a) + 1 = MsgLen + (a + 1)
    BY <1>0, <1>1, <2>1
  <2>5. r[MsgLen + a] = At(cells, a) /\ r[MsgLen + (a + 1)] = At(cells, a + 1)
    BY <1>6, <2>4
  <2>6. QED
    BY <2>2, <2>3, <2>4, <2>5
<1>9. ElementBehind(r, b, acts)
  BY <1>3, <1>4, <1>7, <1>8 DEF ElementBehind
<1>10. Append(none, acts) = <<acts>>
  OBVIOUS
<1> HIDE DEF none, at
<1>11. Laid(r, Append(none, acts), OneMore(at, none, r))
  BY <1>5, <1>9, LaidElement
<1>12. QED
  BY <1>10, <1>11

\* The message keeps its binding alone.
LEMMA OnlyMsgBound ==
    ASSUME NEW len \in Nat
    PROVE  /\ OnlyMsg(len) \in [Objects -> Window]
           /\ \A o \in Objects : OnlyMsg(len)[o].parent = NoObject
           /\ OnlyMsg(len)[Msg].off = 0 /\ OnlyMsg(len)[Msg].len = len
           /\ Chain(OnlyMsg(len)) /\ Lineage(OnlyMsg(len), Msg) = {Msg}
<1> DEFINE new == OnlyMsg(len)
<1>1. /\ [Unbound EXCEPT !.len = len] \in Window /\ Unbound \in Window
      /\ [Unbound EXCEPT !.len = len].parent = NoObject /\ Unbound.parent = NoObject
      /\ [Unbound EXCEPT !.len = len].off = 0 /\ [Unbound EXCEPT !.len = len].len = len
  BY DEF Unbound, Window
<1>2. /\ new \in [Objects -> Window]
      /\ \A o \in Objects : new[o].parent = NoObject
      /\ new[Msg].off = 0 /\ new[Msg].len = len
  <2>1. Msg \in Objects
    BY Kinds
  <2>2. QED
    BY <1>1, <2>1 DEF OnlyMsg
<1> HIDE DEF new
<1>3. Chain(new)
  BY <1>2, Kinds DEF Chain
<1>4. Lineage(new, Msg) = {Msg}
  BY <1>3, Lineages
<1>5. QED
  BY <1>2, <1>3, <1>4 DEF new

\* A message with the tree T and no other window.
LEMMA SoundOnlyMsg ==
    ASSUME NEW r, NEW T, NEW at, Laid(r, T, at), Len(r) <= Alloc,
           NEW objs \in [Objects -> Window], \A o \in Objects : objs[o].parent = NoObject,
           objs[Msg].off = 0, objs[Msg].len = Len(r)
    PROVE  Sound(r, objs, {}, NoObject, T, at)
<1>1. Placed(objs, {}, Len(r), T, at)
  BY PlacedNone
<1>2. QED
  BY <1>1 DEF Sound

\* of_object_truncate()
LEMMA TruncateStep ==
    ASSUME NEW T, NEW at, Sound(buf, ob, iter, aborted, T, at), Truncate
    PROVE  \E U, at2 : Sound(buf', ob', iter', aborted', U, at2) /\ Follows(T, U)
<1> DEFINE h == SubSeq(buf, 1, MsgLen)
           r == [h EXCEPT ![1].v = MsgLen]
           none == <<>>
           at2 == [i \in 1..1 |-> MsgLen + 1]
<1>0. MsgLen \in Nat \ {0} /\ Alloc \in Nat /\ MsgLen <= Alloc
  BY LociAssumption
<1>1. /\ Laid(buf, T, at) /\ buf \in Seq(Cell) /\ Len(buf) \in Nat /\ Len(buf) >= MsgLen
  BY SoundFacts
<1>2. buf' = r /\ ob' = OnlyMsg(MsgLen) /\ iter' = {} /\ aborted' = NoObject
  BY DEF Truncate, Usable
<1>3. /\ h \in Seq(Cell) /\ Len(h) = MsgLen /\ \A i \in 1..MsgLen : h[i] = buf[i]
  <2>1. MsgLen \in 0..Len(buf)
    BY <1>0, <1>1
  <2>2. QED
    BY <1>1, <2>1, Kept
<1>4. 1 \in 1..MsgLen /\ h[1] \in Cell /\ h[1].f = "msg"
  <2>1. 1 \in 1..MsgLen
    BY <1>0
  <2>2. h[1] \in Cell
    BY <1>3, <2>1, ElementOfSeq
  <2>3. buf[1].f = "msg"
    BY <1>1 DEF Laid
  <2>4. QED
    BY <1>3, <2>1, <2>2, <2>3
<1> HIDE DEF h
<1> DEFINE c == [h[1] EXCEPT !.v = MsgLen]
<1>5. c \in Cell /\ c.f = "msg" /\ c.v = MsgLen
  BY <1>0, <1>4 DEF Cell
<1>6. r = [h EXCEPT ![1] = c]
  OBVIOUS
<1> HIDE DEF r, c
<1>7. r \in Seq(Cell) /\ Len(r) = MsgLen /\ r[1] = c
  BY <1>3, <1>4, <1>5, <1>6, ExceptSeq
<1>8. Laid(r, none, at2)
  BY <1>5, <1>7, LaidEmpty
<1> HIDE DEF none, at2
<1>9. Sound(r, OnlyMsg(MsgLen), {}, NoObject, none, at2)
  BY <1>0, <1>7, <1>8, OnlyMsgBound, SoundOnlyMsg
<1>10. Follows(T, none)
  BY DEF Follows, TreeStep, none
<1>11. QED
  BY <1>2, <1>9, <1>10

\* of_<msg>_<list>_set(): the list given is all that is behind the header.
LEMMA SetListStep ==
    ASSUME NEW T, NEW at, Sound(buf, ob, iter, aborted, T, at),
           NEW cells \in {<<>>} \cup {EltCells(acts) : acts \in SmallActs}, SetList(cells)
    PROVE  \E U, at2 : Sound(buf', ob', iter', aborted', U, at2) /\ Follows(T, U)
<1> DEFINE n == Len(buf)
           h == SubSeq(buf, 1, MsgLen)
           b == h \o cells
           k == Len(cells)
           objs == OnlyMsg(n)
           delta == k - (n - MsgLen)
           new == Lengthened(objs, Msg, delta)
           r == WriteLengths(new, b, Lineage(new, Msg))
<1>0. MsgLen \in Nat \ {0} /\ Alloc \in Nat /\ MsgLen <= Alloc /\ Msg \in Objects
  BY LociAssumption, Kinds
<1>1. /\ Laid(buf, T, at) /\ buf \in Seq(Cell) /\ n \in Nat /\ n >= MsgLen /\ ob[Msg].len = n
  BY SoundFacts
<1>2. cells \in Seq(Cell) /\ k \in Nat
  <2>1. CASE cells = <<>>
    BY <2>1, EmptySeq, LenProperties
  <2>2. CASE \E acts \in SmallActs : cells = EltCells(acts)
    BY <2>2, ElementIsElement, LenProperties
  <2>3. QED
    BY <2>1, <2>2
<1>3. aborted = NoObject /\ MsgLen + k <= Alloc
  BY DEF SetList, Usable
<1>4. /\ h \in Seq(Cell) /\ Len(h) = MsgLen /\ \A i \in 1..MsgLen : h[i] = buf[i]
  <2>1. MsgLen \in 0..Len(buf)
    BY <1>0, <1>1
  <2>2. QED
    BY <1>1, <2>1, Kept
<1>5. ReplaceData(buf, MsgLen, n - MsgLen, cells) = b
  <2>1. MsgLen + (n - MsgLen) + 1 = n + 1
    <3> HIDE DEF n
    <3>1. QED
      BY <1>0, <1>1
  <2>2. SubSeq(buf, n + 1, n) = <<>>
    BY <1>1, Nothing
  <2>3. ReplaceData(buf, MsgLen, n - MsgLen, cells) = h \o cells \o <<>>
    BY <2>1, <2>2 DEF ReplaceData
  <2>4. b \in Seq(Cell)
    BY <1>2, <1>4, ConcatProperties
  <2>5. b \o <<>> = b
    BY <2>4, ConcatEmptySeq
  <2>6. QED
    BY <2>3, <2>5
<1>6. /\ b \in Seq(Cell) /\ Len(b) = MsgLen + k
      /\ \A i \in 1..MsgLen + k : b[i] = IF i <= MsgLen THEN h[i] ELSE cells[i - MsgLen]
  BY <1>2, <1>4, ConcatProperties
<1>7. UpdateLengths(objs, b, Msg, delta)
  <2>1. UpdateLengths(OnlyMsg(ob[Msg].len), ReplaceData(buf, MsgLen, ob[Msg].len - MsgLen, cells),
                      Msg, Len(cells) - (ob[Msg].len - MsgLen))
    BY DEF SetList
  <2>2. UpdateLengths(OnlyMsg(n), ReplaceData(buf, MsgLen, n - MsgLen, cells), Msg, k - (n - MsgLen))
    BY <1>1, <2>1
  <2> HIDE DEF b, n, k
  <2>3. QED
    BY <1>5, <2>2
<1> HIDE DEF h, b
<1>8. delta \in Int /\ n + delta = MsgLen + k /\ MsgLen + k \in Nat
  <2> HIDE DEF n, k
  <2>1. QED
    BY <1>0, <1>1, <1>2
<1>9. /\ Chain(objs) /\ Lineage(objs, Msg) = {Msg} /\ objs[Msg].off = 0 /\ objs[Msg].len = n
      /\ \A o \in Objects : objs[o].parent = NoObject
  <2> HIDE DEF n
  <2>1. QED
    BY <1>1, OnlyMsgBound
<1> HIDE DEF objs, delta
<1>10. /\ Chain(new) /\ new[Msg].off = 0 /\ new[Msg].len = MsgLen + k /\ Lineage(new, Msg) = {Msg}
       /\ \A o \in Objects : new[o].parent = NoObject
  <2>1. \A p \in Lineage(objs, Msg) : p \in Objects => objs[p].len + delta \in Nat
    BY <1>8, <1>9
  <2>2. OnlyLonger(new, objs, Msg, delta)
    BY <1>0, <1>8, <1>9, <2>1, LengthenedKeeps
  <2> HIDE DEF new, n, k
  <2>3. QED
    BY <1>0, <1>8, <1>9, <2>2 DEF OnlyLonger
<1>11. LengthsAgree(new, b, Msg)
  <2> HIDE DEF new, k
  <2>1. 0 + 1 <= MsgLen + k /\ 0 + (MsgLen + k) <= MsgLen + k
    BY <1>0, <1>2
  <2>2. QED
    BY <1>6, <1>10, <2>1 DEF LengthsAgree
<1>12. buf' = r /\ ob' = new /\ iter' = {} /\ aborted' = NoObject
  BY <1>3, <1>7, <1>11 DEF UpdateLengths
<1>13. /\ r \in Seq(Cell) /\ Len(r) = MsgLen + k /\ r[1].f = "msg" /\ r[1].v = MsgLen + k
       /\ \A i \in 1..k : r[MsgLen + i] = cells[i]
  <2> HIDE DEF new
  <2>1. CanWrite(new, {Msg})
    <3> HIDE DEF k
    <3>1. MsgLen + k \in 0..Alloc
      BY <1>0, <1>2, <1>3
    <3>2. QED
      BY <1>10, <3>1 DEF CanWrite
  <2>2. Relengthened(r, new, b, {Msg})
    BY <1>6, <1>10, <2>1, LengthsWritten
  <2> HIDE DEF r, k
  <2>3. 1 \in 1..MsgLen /\ 1 \in 1..MsgLen + k /\ 1 <= MsgLen /\ 0 + 1 = 1 /\ 1 <= MsgLen + k
    BY <1>0, <1>2
  <2>4. r[1].f = "msg"
    <3>1. buf[1].f = "msg"
      BY <1>1 DEF Laid
    <3>2. b[1] = buf[1]
      BY <1>4, <1>6, <2>3
    <3>3. QED
      BY <1>6, <2>2, <2>3, <3>1, <3>2 DEF Relengthened
  <2>5. r[1].v = MsgLen + k
    BY <1>6, <1>10, <2>2, <2>3, Kinds DEF Relengthened
  <2>6. ASSUME NEW i \in 1..k
        PROVE  r[MsgLen + i] = cells[i]
    <3>1. /\ MsgLen + i \in 1..MsgLen + k /\ MsgLen + i # 0 + 1 /\ ~(MsgLen + i <= MsgLen)
          /\ (MsgLen + i) - MsgLen = i
      BY <1>0, <1>2
    <3>2. r[MsgLen + i] = b[MsgLen + i]
      BY <1>6, <1>10, <2>2, <3>1 DEF Relengthened
    <3>3. QED
      BY <1>6, <3>1, <3>2
  <2>7. QED
    BY <1>6, <2>2, <2>4, <2>5, <2>6 DEF Relengthened
<1>14. new \in [Objects -> Window]
  BY <1>10 DEF Chain
<1> HIDE DEF r, new
<1>15. ASSUME NEW U, NEW at2, Laid(r, U, at2)
       PROVE  Sound(buf', ob', iter', aborted', U, at2)
  BY <1>3, <1>10, <1>12, <1>13, <1>14, <1>15, SoundOnlyMsg
<1>16. CASE cells = <<>>
  <2>1. k = 0
    BY <1>16, EmptySeq
  <2>2. Len(r) = MsgLen /\ r[1].v = Len(r)
    <3> HIDE DEF k
    <3>1. QED
      BY <1>0, <1>13, <2>1
  <2> DEFINE at2 == [i \in 1..1 |-> MsgLen + 1]
             none == <<>>
  <2>3. Laid(r, none, at2)
    BY <1>13, <2>2, LaidEmpty
  <2>4. Follows(T, none)
    BY DEF Follows, TreeStep
  <2> HIDE DEF at2, none
  <2>5. QED
    BY <1>15, <2>3, <2>4
<1>17. ASSUME NEW acts \in SmallActs, cells = EltCells(acts)
       PROVE  \E U, at2 : Sound(buf', ob', iter', aborted', U, at2) /\ Follows(T, U)
  <2>1. acts \in Seq(Contents) /\ IsElement(cells, acts) /\ Len(cells) = Size(Len(acts))
    BY <1>17, ElementIsElement
  <2>2. PICK at2 : Laid(r, <<acts>>, at2)
    BY <1>2, <1>13, <2>1, LaidOne
  <2>3. Follows(T, <<acts>>)
    BY DEF Follows, TreeStep, SmallActs
  <2>4. QED
    BY <1>15, <2>2, <2>3
<1>18. QED
  BY <1>16, <1>17
-----------------------------------------------------------------------------
(* The specification.                                                       *)

\* The inductive invariant: the buffer is some message, and the windows are on it.
Inv == \E T, at : Sound(buf, ob, iter, aborted, T, at)

\* of_<msg>_new(): an empty list.
LEMMA InitSound ==
    ASSUME Init
    PROVE  \E at : Sound(buf, ob, iter, aborted, <<>>, at)
<1> DEFINE at == [i \in 1..1 |-> MsgLen + 1]
           none == <<>>
<1>0. MsgLen \in Nat \ {0} /\ Alloc \in Nat /\ MsgLen <= Alloc
  BY LociAssumption
<1>1. buf \in Seq(Cell) /\ Len(buf) = MsgLen /\ buf[1].f = "msg" /\ buf[1].v = MsgLen
  BY <1>0, FixedCells DEF Init
<1>2. Laid(buf, none, at)
  BY <1>1, LaidEmpty
<1>3. ob = OnlyMsg(MsgLen)
  BY DEF Init, OnlyMsg
<1> HIDE DEF at, none
<1>4. Sound(buf, OnlyMsg(MsgLen), {}, NoObject, none, at)
  BY <1>0, <1>1, <1>2, OnlyMsgBound, SoundOnlyMsg
<1>5. QED
  BY <1>3, <1>4 DEF Init, none

\* A step leaves a message that the tree of the program follows.
LEMMA NextSound ==
    ASSUME NEW T, NEW at, Sound(buf, ob, iter, aborted, T, at), [Next]_vars
    PROVE  \E U, at2 : Sound(buf', ob', iter', aborted', U, at2) /\ Follows(T, U)
<1>0. Follows(T, T)
  BY DEF Follows
<1>1. CASE \E l \in Lists : BindList(Msg, l)
  BY <1>0, <1>1, BindListStep
<1>2. CASE \E l \in Lists, e \in Elements : ListFirst(l, e)
  BY <1>0, <1>2, ListFirstStep
<1>3. CASE \E l \in Lists, e \in Elements : ListNext(l, e)
  BY <1>0, <1>3, ListNextStep
<1>4. CASE \E l \in Lists, e \in Elements : AppendBind(l, e, EltLen)
  BY <1>4, AppendElementBindStep
<1>5. CASE \E l \in Lists, acts \in SmallActs : AppendCopy(l, EltCells(acts))
  BY <1>5, AppendElementCopyStep
<1>6. CASE \E l \in ALists, e \in Elements : BindList(e, l)
  BY <1>0, <1>6, BindListStep
<1>7. CASE \E l \in ALists, a \in Actions : AppendBind(l, a, ActLen)
  BY <1>7, AppendActionBindStep
<1>8. CASE \E l \in ALists, x \in Values : AppendCopy(l, ActCells(x))
  BY <1>8, AppendActionCopyStep
<1>9. CASE \E a \in Actions, x \in Values : SetValue(a, x)
  BY <1>9, SetValueStep
<1>10. CASE \E cells \in {<<>>} \cup {EltCells(acts) : acts \in SmallActs} : SetList(cells)
  BY <1>10, SetListStep
<1>11. CASE Truncate
  BY <1>11, TruncateStep
<1>12. CASE UNCHANGED vars
  <2>1. buf' = buf /\ ob' = ob /\ iter' = iter /\ aborted' = aborted
    BY <1>12 DEF vars
  <2>2. QED
    BY <1>0, <2>1
<1>13. QED
  BY <1>1, <1>2, <1>3, <1>4, <1>5, <1>6, <1>7, <1>8, <1>9, <1>10, <1>11, <1>12 DEF Next

\* The invariant is inductive.
LEMMA InvHolds == Spec => []Inv
<1>1. Init => Inv
  BY InitSound DEF Inv
<1>2. Inv /\ [Next]_vars => Inv'
  <2> SUFFICES ASSUME Inv, [Next]_vars
               PROVE  Inv'
    OBVIOUS
  <2>1. PICK T, at : Sound(buf, ob, iter, aborted, T, at)
    BY DEF Inv
  <2>2. PICK U, at2 : Sound(buf', ob', iter', aborted', U, at2)
    BY <2>1, NextSound
  <2>3. QED
    BY <2>2 DEF Inv
<1>3. QED
  BY <1>1, <1>2, PTL DEF Spec

\* Windows that are where their objects are claim no more than there is.
LEMMA SoundWindows == Inv => WindowsSound
<1> SUFFICES ASSUME NEW T, NEW at, Sound(buf, ob, iter, aborted, T, at)
             PROVE  WindowsSound
  BY DEF Inv
<1> DEFINE n == Len(buf)
<1>0. MsgLen \in Nat \ {0} /\ EltLen \in Nat \ {0} /\ ActLen \in Nat \ {0, 1}
  BY LociAssumption
<1>1. /\ Laid(buf, T, at) /\ Placed(ob, iter, n, T, at) /\ Chain(ob)
      /\ n \in Nat /\ n >= MsgLen /\ ob[Msg].off = 0 /\ ob[Msg].len = n
      /\ \A o \in Objects : ob[o].off \in Nat /\ ob[o].len \in Nat
  BY SoundFacts
<1>2. buf[1].v = n /\ buf[1].f = "msg"
  BY <1>1 DEF Laid
<1> DEFINE Fits(o) == ob[o].off + ob[o].len <= n
           Sits(o) == /\ ob[o].off < n
                      /\ buf[ob[o].off + 1].f = Kind(o)
                      /\ ob[o].len <= buf[ob[o].off + 1].v
<1>3. Fits(Msg) /\ Sits(Msg)
  <2>1. 0 + n <= n /\ 0 < n /\ n <= n
    <3> HIDE DEF n
    <3>1. QED
      BY <1>0, <1>1
  <2> HIDE DEF n
  <2>2. QED
    BY <1>1, <1>2, <2>1, Kinds
<1>4. ASSUME NEW e \in Elements, ob[e].parent # NoObject
      PROVE  Fits(e) /\ Sits(e)
  <2>1. PICK i \in 1..Len(T) : OnElement(ob[e], e \in iter, i, T, at)
    BY <1>1, <1>4 DEF Placed
  <2> DEFINE off == ob[e].off
             len == ob[e].len
             s == Size(Len(T[i]))
             p == at[i]
  <2>2. off + 1 = p /\ len <= s /\ off \in Nat /\ len \in Nat
    BY <1>1, <2>1, Kinds DEF OnElement
  <2>3. p \in Nat /\ s \in Nat /\ p + s <= n + 1 /\ s >= EltLen
    BY <1>1, Where
  <2>4. \A j \in 1..Len(T) : buf[at[j]].f = "elt" /\ buf[at[j]].v = Size(Len(T[j]))
    BY <1>1 DEF Laid
  <2>5. buf[p].f = "elt" /\ buf[p].v = s
    BY <2>4
  <2>6. off + len <= n /\ off < n
    <3> HIDE DEF off, len, s, p, n
    <3>1. QED
      BY <1>0, <1>1, <2>2, <2>3
  <2>7. QED
    BY <2>2, <2>5, <2>6, Kinds
<1>5. ASSUME NEW a \in Actions, ob[a].parent # NoObject
      PROVE  Fits(a) /\ Sits(a)
  <2>1. PICK i \in 1..Len(T) : \E j \in 1..Len(T[i]) : OnAction(ob[a], i, j, at)
    BY <1>1, <1>5 DEF Placed
  <2>2. PICK j \in 1..Len(T[i]) : OnAction(ob[a], i, j, at)
    BY <2>1
  <2> DEFINE off == ob[a].off
             len == ob[a].len
             s == Size(Len(T[i]))
             p == at[i]
             q == ActAt(at[i], j)
  <2>3. off + 1 = q /\ len = ActLen /\ off \in Nat
    BY <1>1, <2>2, Kinds DEF OnAction
  <2>4. p \in Nat /\ s \in Nat /\ p + s <= n + 1 /\ q \in Nat /\ q + ActLen <= p + s
    BY <1>1, Where
  <2>5. \A k \in 1..Len(T) : \A m \in 1..Len(T[k]) :
           buf[ActAt(at[k], m)].f = "act" /\ buf[ActAt(at[k], m)].v = ActLen
    BY <1>1 DEF Laid
  <2>6. buf[q].f = "act" /\ buf[q].v = ActLen
    BY <2>5
  <2>7. off + len <= n /\ off < n /\ ActLen <= ActLen
    <3> HIDE DEF off, len, s, p, q, n
    <3>1. QED
      BY <1>0, <1>1, <2>3, <2>4
  <2>8. QED
    BY <2>3, <2>6, <2>7, Kinds
<1>6. ASSUME NEW l \in Lists, ob[l].parent # NoObject
      PROVE  Fits(l)
  BY <1>1, <1>6 DEF Placed
<1>7. ASSUME NEW l \in ALists, ob[l].parent # NoObject
      PROVE  Fits(l)
  <2> DEFINE e == ob[l].parent
             a == ob[l].off
             b == ob[l].len
             c == ob[e].off
             d == ob[e].len
  <2>1. e \in Elements /\ ob[e].parent # NoObject /\ e \in Objects /\ l \in Objects
    BY <1>1, <1>7, Kinds DEF Chain
  <2>2. a + b <= c + d
    BY <1>1, <1>7 DEF Placed
  <2>3. c + d <= n
    <3> HIDE DEF e
    <3>1. QED
      BY <1>4, <2>1
  <2>4. a \in Nat /\ b \in Nat /\ c \in Nat /\ d \in Nat
    BY <1>1, <2>1
  <2> HIDE DEF c, d, e
  <2>5. a + b <= n
    <3> HIDE DEF a, b, n
    <3>1. QED
      BY <1>1, <2>2, <2>3, <2>4
  <2>6. QED
    BY <2>5
<1>8. ASSUME NEW o \in Bound
      PROVE  Fits(o) /\ (HasWireLength(o) => Sits(o))
  <2>1. o \in Objects /\ (o = Msg \/ ob[o].parent # NoObject)
    BY DEF Bound
  <2>2. QED
    BY <1>3, <1>4, <1>5, <1>6, <1>7, <2>1, Kinds DEF Objects
<1>9. QED
  BY <1>1, <1>2, <1>8 DEF WindowsSound

\* The length of the message, that on the wire and the used part of the
\* buffer are one number, and a window is on the start of an object of its
\* kind and within it, after any operations on any number of windows.
THEOREM WindowsAreSound == Spec => []WindowsSound
BY InvHolds, SoundWindows, PTL

\* LOCI_ASSERT stops only a program that appends through a window that lags
\* behind the buffer, or one bound from such a window.
THEOREM AbortsNameMisuse == Spec => []AbortsAreMisuse
<1>1. Inv => AbortsAreMisuse
  BY DEF Inv, Sound, AbortsAreMisuse
<1>2. QED
  BY <1>1, InvHolds, PTL
-----------------------------------------------------------------------------
(* What another program parses.                                             *)

\* The step of ParseActs() at cell i, when g is what the cells behind it give.
ActsStep(g, to, i) ==
    IF i = to + 1 THEN [ok |-> TRUE, acts |-> <<>>]
    ELSE IF buf[i].f # "act" \/ buf[i].v # ActLen \/ i + ActLen - 1 > to
    THEN [ok |-> FALSE, acts |-> <<>>]
    ELSE [g[i + ActLen] EXCEPT !.acts = <<buf[i + 1].x>> \o @]

ActsParsed(g, from, to) == g = [i \in from..to + 1 |-> ActsStep(g, to, i)]

\* The function that ParseActs() defines exists.
LEMMA ActsParsedExists ==
    ASSUME NEW to \in Nat
    PROVE  \A n \in Nat : \E g : ActsParsed(g, (to + 1) - n, to)
<1> DEFINE S == {n \in Nat : \E g : ActsParsed(g, (to + 1) - n, to)}
<1>0. ActLen \in Nat \ {0, 1}
  BY LociAssumption
<1>1. 0 \in S
  <2> DEFINE g == [i \in {to + 1} |-> [ok |-> TRUE, acts |-> <<>>]]
  <2>1. ((to + 1) - 0)..to + 1 = {to + 1}
    OBVIOUS
  <2>2. \A i \in {to + 1} : ActsStep(g, to, i) = [ok |-> TRUE, acts |-> <<>>]
    BY DEF ActsStep
  <2>3. g = [i \in {to + 1} |-> ActsStep(g, to, i)]
    BY <2>2
  <2> HIDE DEF g
  <2>4. ActsParsed(g, (to + 1) - 0, to)
    BY <2>1, <2>3 DEF ActsParsed
  <2>5. QED
    BY <2>4
<1>2. ASSUME NEW n \in Nat, n \in S
      PROVE  n + 1 \in S
  <2> DEFINE a == (to + 1) - n
  <2>1. PICK f : ActsParsed(f, a, to)
    BY <1>2
  <2>2. a \in Int /\ a - 1 \in Int /\ (to + 1) - (n + 1) = a - 1 /\ a <= to + 1
    OBVIOUS
  <2> HIDE DEF a
  <2> DEFINE g == [i \in (a - 1)..to + 1 |-> IF i = a - 1 THEN ActsStep(f, to, i) ELSE f[i]]
  <2>3. ASSUME NEW i \in (a - 1)..to + 1
        PROVE  g[i] = ActsStep(g, to, i)
    <3>1. i \in Int /\ (i # a - 1 => i \in a..to + 1)
      BY <2>2
    <3>2. f = [j \in a..to + 1 |-> ActsStep(f, to, j)]
      BY <2>1 DEF ActsParsed
    <3>3. g[i] = ActsStep(f, to, i)
      BY <3>1, <3>2
    <3>4. ~(i + ActLen - 1 > to) => g[i + ActLen] = f[i + ActLen]
      <4>1. ~(i + ActLen - 1 > to) => i + ActLen \in (a - 1)..to + 1 /\ i + ActLen # a - 1
        BY <1>0, <2>2, <3>1
      <4>2. QED
        BY <4>1
    <3> HIDE DEF g
    <3>5. ActsStep(f, to, i) = ActsStep(g, to, i)
      BY <3>4 DEF ActsStep
    <3>6. QED
      BY <3>3, <3>5
  <2>4. g = [i \in (a - 1)..to + 1 |-> g[i]]
    OBVIOUS
  <2> HIDE DEF g
  <2>5. ActsParsed(g, a - 1, to)
    BY <2>3, <2>4 DEF ActsParsed
  <2>6. QED
    BY <2>2, <2>5
<1>3. QED
  <2> HIDE DEF S
  <2>1. \A n \in Nat : n \in S
    BY <1>1, <1>2, SetInduction
  <2>2. QED
    BY <2>1 DEF S

\* ParseActs() is such a function at its first cell.
LEMMA ParseActsParsed ==
    ASSUME NEW to \in Nat, NEW from \in Nat, from <= to + 1
    PROVE  \E g : ActsParsed(g, from, to) /\ ParseActs(from, to) = g[from]
<1> DEFINE g == CHOOSE h : h = [i \in from..to + 1 |->
                   IF i = to + 1 THEN [ok |-> TRUE, acts |-> <<>>]
                   ELSE IF buf[i].f # "act" \/ buf[i].v # ActLen \/ i + ActLen - 1 > to
                   THEN [ok |-> FALSE, acts |-> <<>>]
                   ELSE [h[i + ActLen] EXCEPT !.acts = <<buf[i + 1].x>> \o @]]
<1>1. \E h : ActsParsed(h, from, to)
  <2>1. (to + 1) - from \in Nat /\ (to + 1) - ((to + 1) - from) = from
    OBVIOUS
  <2>2. QED
    BY <2>1, ActsParsedExists
<1>2. ActsParsed(g, from, to)
  BY <1>1 DEF ActsParsed, ActsStep
<1>3. ParseActs(from, to) = g[from]
  BY DEF ParseActs
<1> HIDE DEF g
<1>4. QED
  BY <1>2, <1>3

\* The actions of an element are parsed to their values.
LEMMA ActionsParsed ==
    ASSUME NEW p \in Nat, p >= 1, NEW acts \in Seq(Contents),
           \A j \in 1..Len(acts) : /\ buf[ActAt(p, j)].f = "act" /\ buf[ActAt(p, j)].v = ActLen
                                   /\ buf[ActAt(p, j) + 1].x = acts[j]
    PROVE  LET r == ParseActs(p + EltLen, p + Size(Len(acts)) - 1)
           IN  r.ok = TRUE /\ r.acts = acts
<1> DEFINE c == Len(acts)
           from == p + EltLen
           to == p + Size(c) - 1
           Good(r, j) == /\ r \in [ok : BOOLEAN, acts : Seq(Contents)] /\ r.ok = TRUE
                         /\ r.acts = SubSeq(acts, j, c)
<1>0. EltLen \in Nat \ {0} /\ ActLen \in Nat \ {0, 1}
  BY LociAssumption
<1>1. c \in Nat /\ Size(c) \in Nat /\ Size(c) >= EltLen /\ ActAt(p, c + 1) = p + Size(c)
  <2>1. c \in Nat
    BY LenProperties
  <2> HIDE DEF c
  <2>2. QED
    BY <2>1, SizeProperties
<1>2. ActAt(p, 1) = from
  <2>1. ActAt(p, 0 + 1) = p + Size(0) /\ Size(0) = EltLen
    BY SizeProperties
  <2>2. QED
    BY <2>1
<1>3. to \in Nat /\ from \in Nat /\ from <= to + 1 /\ to + 1 = p + Size(c)
  <2> HIDE DEF c
  <2>1. QED
    BY <1>0, <1>1
<1>4. PICK g : ActsParsed(g, from, to) /\ ParseActs(from, to) = g[from]
  <2> HIDE DEF from, to
  <2>1. QED
    BY <1>3, ParseActsParsed
<1>5. \A i \in from..to + 1 : g[i] = ActsStep(g, to, i)
  BY <1>4 DEF ActsParsed
<1>6. Good(g[ActAt(p, c + 1)], c + 1)
  <2>1. to + 1 \in from..to + 1
    <3> HIDE DEF from, to
    <3>1. QED
      BY <1>3
  <2>2. g[to + 1] = [ok |-> TRUE, acts |-> <<>>]
    BY <1>5, <2>1 DEF ActsStep
  <2>3. SubSeq(acts, c + 1, c) = <<>>
    BY Nothing
  <2>4. <<>> \in Seq(Contents)
    BY EmptySeq
  <2> DEFINE r == [ok |-> TRUE, acts |-> <<>>]
  <2>5. r \in [ok : BOOLEAN, acts : Seq(Contents)] /\ r.ok = TRUE /\ r.acts = <<>>
    BY <2>4
  <2> HIDE DEF c, to, r
  <2>6. g[ActAt(p, c + 1)] = r
    BY <1>1, <1>3, <2>2 DEF r
  <2>7. QED
    BY <2>3, <2>5, <2>6
<1>7. ASSUME NEW j \in 1..c, Good(g[ActAt(p, j + 1)], j + 1)
      PROVE  Good(g[ActAt(p, j)], j)
  <2> DEFINE i == ActAt(p, j)
             r == g[ActAt(p, j + 1)]
  <2>0. j \in Nat /\ j <= c
    <3> HIDE DEF c
    <3>1. QED
      BY <1>1
  <2>1. i \in Nat /\ i >= from /\ i + ActLen <= to + 1
    BY <1>1, <1>3, SizeProperties
  <2>2. ActAt(p, j + 1) = i + ActLen
    <3>1. ActAt(p, j) = p + Size(j - 1) /\ ActAt(p, j + 1) = p + Size(j)
          /\ Size(j) = Size(j - 1) + ActLen /\ Size(j - 1) \in Nat
      <4>1. j - 1 \in Nat /\ (j - 1) + 1 = j
        BY <2>0
      <4>2. /\ ActAt(p, (j - 1) + 1) = p + Size(j - 1) /\ ActAt(p, j + 1) = p + Size(j)
            /\ Size((j - 1) + 1) = Size(j - 1) + ActLen /\ Size(j - 1) \in Nat
        BY <2>0, <4>1, SizeProperties
      <4>3. QED
        BY <4>1, <4>2
    <3>2. QED
      BY <1>0, <3>1
  <2>3. buf[i].f = "act" /\ buf[i].v = ActLen /\ buf[i + 1].x = acts[j]
    OBVIOUS
  <2> HIDE DEF i
  <2>4. i \in from..to + 1 /\ i # to + 1 /\ ~(i + ActLen - 1 > to)
    <3> HIDE DEF from, to
    <3>1. QED
      BY <1>0, <1>3, <2>1
  <2>5. g[i] = [g[i + ActLen] EXCEPT !.acts = <<buf[i + 1].x>> \o @]
    BY <1>5, <2>3, <2>4 DEF ActsStep
  <2>6. g[i] = [r EXCEPT !.acts = <<acts[j]>> \o @]
    BY <2>2, <2>3, <2>5
  <2>7. /\ r \in [ok : BOOLEAN, acts : Seq(Contents)] /\ r.ok = TRUE
        /\ r.acts = SubSeq(acts, j + 1, c)
    BY <1>7
  <2>8. SubSeq(acts, j, c) = <<acts[j]>> \o SubSeq(acts, j + 1, c)
    <3>1. c \in j..Len(acts) /\ j \in 1..Len(acts)
      BY <1>1, <2>0
    <3>2. QED
      BY <3>1, SubSeqRecursiveFirst
  <2>9. <<acts[j]>> \o r.acts \in Seq(Contents)
    <3>1. acts[j] \in Contents
      BY ElementOfSeq
    <3> HIDE DEF r
    <3>2. <<acts[j]>> \in Seq(Contents) /\ r.acts \in Seq(Contents)
      BY <2>7, <3>1
    <3>3. QED
      BY <3>2, ConcatProperties
  <2> HIDE DEF r
  <2> DEFINE t == <<acts[j]>> \o r.acts
  <2>10. g[i] = [r EXCEPT !.acts = t]
    BY <2>6
  <2>11. t = SubSeq(acts, j, c)
    BY <2>7, <2>8
  <2> HIDE DEF t, c
  <2>12. /\ g[i] \in [ok : BOOLEAN, acts : Seq(Contents)] /\ g[i].ok = TRUE
         /\ g[i].acts = t
    BY <2>7, <2>9, <2>10 DEF t
  <2>13. QED
    BY <2>11, <2>12 DEF i
<1> DEFINE S == {n \in Nat : n <= c => Good(g[ActAt(p, (c + 1) - n)], (c + 1) - n)}
<1>8. 0 \in S
  <2>1. (c + 1) - 0 = c + 1
    BY <1>1
  <2> HIDE DEF Good, c
  <2>2. QED
    BY <1>6, <2>1
<1>9. ASSUME NEW n \in Nat, n \in S
      PROVE  n + 1 \in S
  <2> HIDE DEF Good
  <2>1. SUFFICES ASSUME n + 1 <= c
                 PROVE  Good(g[ActAt(p, (c + 1) - (n + 1))], (c + 1) - (n + 1))
    OBVIOUS
  <2> DEFINE j == (c + 1) - (n + 1)
  <2>2. j \in 1..c /\ j + 1 = (c + 1) - n /\ n <= c
    <3> HIDE DEF c
    <3>1. QED
      BY <1>1, <2>1
  <2>3. Good(g[ActAt(p, j + 1)], j + 1)
    BY <1>9, <2>2
  <2> HIDE DEF j, c
  <2>4. Good(g[ActAt(p, j)], j)
    BY <1>7, <2>2, <2>3
  <2>5. QED
    BY <2>4 DEF j
<1>10. Good(g[from], 1)
  <2> HIDE DEF S, Good
  <2>1. \A n \in Nat : n \in S
    BY <1>8, <1>9, SetInduction
  <2>2. c \in S
    BY <1>1, <2>1
  <2>3. c <= c /\ (c + 1) - c = 1
    <3> HIDE DEF c
    <3>1. QED
      BY <1>1
  <2>4. Good(g[ActAt(p, 1)], 1)
    BY <2>2, <2>3 DEF S
  <2>5. QED
    BY <1>2, <2>4
<1>11. SubSeq(acts, 1, c) = acts
  BY SubSeqFull
<1>12. QED
  BY <1>4, <1>10, <1>11

\* The step of ParsedElements at cell i.
EltsStep(g, i) ==
    IF i = Len(buf) + 1 THEN [ok |-> TRUE, elts |-> <<>>]
    ELSE LET end == i + buf[i].v - 1
             acts == ParseActs(i + EltLen, end)
             rest == g[end + 1]
         IN  IF buf[i].f # "elt" \/ buf[i].v < EltLen \/ end > Len(buf) \/ ~acts.ok
             THEN [ok |-> FALSE, elts |-> <<>>]
             ELSE [rest EXCEPT !.elts = <<acts.acts>> \o @]

EltsParsed(g, from) == g = [i \in from..Len(buf) + 1 |-> EltsStep(g, i)]

\* The step reads g behind cell i alone, and not behind the buffer.
LEMMA EltsStepSame ==
    ASSUME NEW f, NEW g, NEW i, i \in 1..Len(buf) + 1, buf \in Seq(Cell),
           \A j \in i + 1..Len(buf) + 1 : g[j] = f[j]
    PROVE  EltsStep(f, i) = EltsStep(g, i)
<1> DEFINE end == i + buf[i].v - 1
           n == Len(buf)
           bad == buf[i].f # "elt" \/ buf[i].v < EltLen \/ end > n
                  \/ ~ParseActs(i + EltLen, end).ok
<1>0. EltLen \in Nat \ {0} /\ n \in Nat
  BY LociAssumption, LenProperties
<1>1. CASE i = n + 1
  BY <1>1 DEF EltsStep
<1>2. CASE i # n + 1
  <2> DEFINE v == buf[i].v
  <2>1. i \in 1..n
    <3> HIDE DEF n
    <3>1. i \in 1..n + 1
      BY DEF n
    <3>2. QED
      BY <1>0, <1>2, <3>1
  <2>2. v \in Nat
    <3>1. buf[i] \in Cell
      BY <2>1, ElementOfSeq
    <3>2. QED
      BY <3>1 DEF Cell
  <2>3. ~bad => end + 1 \in i + 1..n + 1
    <3>1. i \in Nat
      <4> HIDE DEF n
      <4>1. QED
        BY <1>0, <2>1
    <3>2. ~bad => ~(v < EltLen) /\ ~(end > n)
      OBVIOUS
    <3>3. end = i + v - 1
      OBVIOUS
    <3> HIDE DEF n, v, bad, end
    <3>4. QED
      BY <1>0, <2>2, <3>1, <3>2, <3>3
  <2>4. ~bad => g[end + 1] = f[end + 1]
    BY <2>3
  <2>5. EltsStep(f, i) = IF bad THEN [ok |-> FALSE, elts |-> <<>>]
                         ELSE [f[end + 1] EXCEPT !.elts = <<ParseActs(i + EltLen, end).acts>> \o @]
    BY <1>2 DEF EltsStep
  <2>6. EltsStep(g, i) = IF bad THEN [ok |-> FALSE, elts |-> <<>>]
                         ELSE [g[end + 1] EXCEPT !.elts = <<ParseActs(i + EltLen, end).acts>> \o @]
    BY <1>2 DEF EltsStep
  <2> HIDE DEF bad, end
  <2>7. CASE bad
    BY <2>5, <2>6, <2>7
  <2>8. CASE ~bad
    BY <2>4, <2>5, <2>6, <2>8
  <2>9. QED
    BY <2>7, <2>8
<1>3. QED
  BY <1>1, <1>2

\* The function that ParsedElements defines exists.
LEMMA EltsParsedExists ==
    ASSUME buf \in Seq(Cell)
    PROVE  \E g : EltsParsed(g, 1)
<1> DEFINE m == Len(buf)
           S == {n \in Nat : n <= m => \E g : EltsParsed(g, (m + 1) - n)}
<1>0. m \in Nat
  BY LenProperties
<1>1. 0 \in S
  <2> DEFINE g == [i \in {m + 1} |-> [ok |-> TRUE, elts |-> <<>>]]
  <2>1. (m + 1) - 0 = m + 1 /\ (m + 1)..m + 1 = {m + 1}
    <3> HIDE DEF m
    <3>1. QED
      BY <1>0
  <2>2. \A i \in {m + 1} : EltsStep(g, i) = [ok |-> TRUE, elts |-> <<>>]
    BY DEF EltsStep
  <2>3. g = [i \in {m + 1} |-> EltsStep(g, i)]
    BY <2>2
  <2> HIDE DEF g
  <2>4. EltsParsed(g, (m + 1) - 0)
    BY <2>1, <2>3 DEF EltsParsed
  <2>5. QED
    BY <2>4
<1>2. ASSUME NEW n \in Nat, n \in S
      PROVE  n + 1 \in S
  <2>0. SUFFICES ASSUME n + 1 <= m
                 PROVE  \E g : EltsParsed(g, (m + 1) - (n + 1))
    OBVIOUS
  <2> DEFINE a == (m + 1) - n
  <2>1. n <= m
    <3> HIDE DEF m
    <3>1. QED
      BY <1>0, <2>0
  <2>2. PICK f : EltsParsed(f, a)
    BY <1>2, <2>1
  <2>3. a \in Nat /\ a >= 2 /\ a - 1 \in Nat /\ (m + 1) - (n + 1) = a - 1 /\ a <= m + 1
    <3> HIDE DEF m
    <3>1. QED
      BY <1>0, <2>0
  <2> HIDE DEF a
  <2> DEFINE g == [i \in (a - 1)..m + 1 |-> IF i = a - 1 THEN EltsStep(f, i) ELSE f[i]]
  <2>4. f = [j \in a..m + 1 |-> EltsStep(f, j)]
    BY <2>2 DEF EltsParsed
  <2>5. ASSUME NEW i \in (a - 1)..m + 1
        PROVE  g[i] = EltsStep(g, i)
    <3>1. i \in 1..m + 1 /\ (i # a - 1 => i \in a..m + 1)
      <4> HIDE DEF m
      <4>1. QED
        BY <1>0, <2>3
    <3>2. g[i] = EltsStep(f, i)
      <4> HIDE DEF m
      <4>1. QED
        BY <2>4, <3>1
    <3>3. \A j \in i + 1..m + 1 : g[j] = f[j]
      <4> HIDE DEF m
      <4>1. \A j \in i + 1..m + 1 : j \in (a - 1)..m + 1 /\ j # a - 1
        BY <1>0, <2>3
      <4>2. QED
        BY <4>1
    <3> HIDE DEF g
    <3>4. EltsStep(f, i) = EltsStep(g, i)
      BY <3>1, <3>3, EltsStepSame
    <3>5. QED
      BY <3>2, <3>4
  <2>6. g = [i \in (a - 1)..m + 1 |-> g[i]]
    OBVIOUS
  <2> HIDE DEF g
  <2>7. EltsParsed(g, a - 1)
    BY <2>5, <2>6 DEF EltsParsed
  <2>8. QED
    BY <2>3, <2>7
<1>3. \E g : EltsParsed(g, (m + 1) - m)
  <2> HIDE DEF S
  <2>1. \A n \in Nat : n \in S
    BY <1>1, <1>2, SetInduction
  <2>2. m \in S /\ m <= m
    <3> HIDE DEF m
    <3>1. QED
      BY <1>0, <2>1
  <2>3. QED
    BY <2>2 DEF S
<1>4. (m + 1) - m = 1
  <2> HIDE DEF m
  <2>1. QED
    BY <1>0
<1>5. QED
  BY <1>3, <1>4

\* ParsedElements is such a function behind the header.
LEMMA ElementsParsed ==
    ASSUME buf \in Seq(Cell)
    PROVE  \E g : EltsParsed(g, 1) /\ ParsedElements = g[MsgLen + 1]
<1> DEFINE g == CHOOSE h : EltsParsed(h, 1)
<1>1. EltsParsed(g, 1)
  BY EltsParsedExists
<1>2. ParsedElements = g[MsgLen + 1]
  BY DEF ParsedElements, EltsParsed, EltsStep
<1> HIDE DEF g
<1>3. QED
  BY <1>1, <1>2

\* A buffer that is the message T is parsed to T.
LEMMA ParsedTree ==
    \A T, at : Laid(buf, T, at) => ParsedElements.ok = TRUE /\ ParsedElements.elts = T
<1> SUFFICES ASSUME NEW T, NEW at, Laid(buf, T, at)
             PROVE  ParsedElements.ok = TRUE /\ ParsedElements.elts = T
  OBVIOUS
<1> DEFINE n == Len(buf)
           m == Len(T)
           Good(r, i) == /\ r \in [ok : BOOLEAN, elts : Seq(Seq(Contents))] /\ r.ok = TRUE
                         /\ r.elts = SubSeq(T, i, m)
<1>0. MsgLen \in Nat \ {0} /\ EltLen \in Nat \ {0} /\ ActLen \in Nat \ {0, 1}
  BY LociAssumption
<1>1. /\ buf \in Seq(Cell) /\ T \in Seq(Seq(Contents)) /\ n \in Nat /\ m \in Nat /\ n >= MsgLen
  <2>1. buf \in Seq(Cell) /\ T \in Seq(Seq(Contents))
    BY DEF Laid
  <2>2. n \in Nat /\ m \in Nat /\ n >= MsgLen
    BY Where
  <2>3. QED
    BY <2>1, <2>2
<1>2. at[1] = MsgLen + 1 /\ at[m + 1] = n + 1
  BY DEF Laid
<1>3. PICK g : EltsParsed(g, 1) /\ ParsedElements = g[MsgLen + 1]
  BY <1>1, ElementsParsed
<1>4. \A i \in 1..n + 1 : g[i] = EltsStep(g, i)
  BY <1>3 DEF EltsParsed
<1>5. Good(g[at[m + 1]], m + 1)
  <2> DEFINE r == [ok |-> TRUE, elts |-> <<>>]
  <2>1. n + 1 \in 1..n + 1
    <3> HIDE DEF n
    <3>1. QED
      BY <1>1
  <2>2. g[n + 1] = r
    BY <1>4, <2>1 DEF EltsStep
  <2>3. SubSeq(T, m + 1, m) = <<>>
    BY <1>1, Nothing
  <2>4. <<>> \in Seq(Seq(Contents))
    BY EmptySeq
  <2>5. r \in [ok : BOOLEAN, elts : Seq(Seq(Contents))] /\ r.ok = TRUE /\ r.elts = <<>>
    BY <2>4
  <2> HIDE DEF r, n, m
  <2>6. QED
    BY <1>2, <2>2, <2>3, <2>5
<1>6. ASSUME NEW i \in 1..m, Good(g[at[i + 1]], i + 1)
      PROVE  Good(g[at[i]], i)
  <2> DEFINE p == at[i]
             s == Size(Len(T[i]))
             r == g[at[i + 1]]
             a == ParseActs(p + EltLen, p + s - 1)
  <2>1. p \in Nat /\ s \in Nat /\ s >= EltLen /\ p > MsgLen /\ p + s <= n + 1 /\ T[i] \in Seq(Contents)
    BY Where
  <2>2. at[i + 1] = p + s
    BY DEF Laid
  <2>3. \A k \in 1..Len(T) :
           /\ buf[at[k]].f = "elt" /\ buf[at[k]].v = Size(Len(T[k]))
           /\ \A j \in 1..Len(T[k]) :
                 /\ buf[ActAt(at[k], j)].f = "act" /\ buf[ActAt(at[k], j)].v = ActLen
                 /\ buf[ActAt(at[k], j) + 1].x = T[k][j]
    BY DEF Laid
  <2>4. buf[p].f = "elt" /\ buf[p].v = s
    BY <2>3
  <2>5. \A j \in 1..Len(T[i]) :
           /\ buf[ActAt(p, j)].f = "act" /\ buf[ActAt(p, j)].v = ActLen
           /\ buf[ActAt(p, j) + 1].x = T[i][j]
    BY <2>3
  <2>6. a.ok = TRUE /\ a.acts = T[i]
    <3> DEFINE acts == T[i]
    <3>1. p >= 1
      <4> HIDE DEF p, s, n
      <4>1. QED
        BY <1>0, <2>1
    <3>2. acts \in Seq(Contents)
      BY <2>1
    <3>3. \A j \in 1..Len(acts) :
           /\ buf[ActAt(p, j)].f = "act" /\ buf[ActAt(p, j)].v = ActLen
           /\ buf[ActAt(p, j) + 1].x = acts[j]
      BY <2>5
    <3> HIDE DEF acts, p
    <3>4. LET q == ParseActs(p + EltLen, p + Size(Len(acts)) - 1)
          IN  q.ok = TRUE /\ q.acts = acts
      BY <2>1, <3>1, <3>2, <3>3, ActionsParsed
    <3>5. QED
      BY <3>4 DEF acts
  <2>7. /\ p \in 1..n + 1 /\ p # n + 1 /\ ~(s < EltLen) /\ ~(p + s - 1 > n) /\ p + s - 1 + 1 = p + s
    <3> HIDE DEF p, s, n
    <3>1. QED
      BY <1>0, <1>1, <2>1
  <2>8. g[p] = [r EXCEPT !.elts = <<T[i]>> \o @]
    <3> HIDE DEF p, s, n, r
    <3>1. g[p] = EltsStep(g, p)
      BY <1>4, <2>7
    <3>2. EltsStep(g, p) =
             LET acts == ParseActs(p + EltLen, p + s - 1)
             IN  IF buf[p].f # "elt" \/ s < EltLen \/ p + s - 1 > n \/ ~acts.ok
                 THEN [ok |-> FALSE, elts |-> <<>>]
                 ELSE [g[p + s - 1 + 1] EXCEPT !.elts = <<acts.acts>> \o @]
      BY <2>4, <2>7 DEF EltsStep, n
    <3>3. EltsStep(g, p) = [g[p + s - 1 + 1] EXCEPT !.elts = <<T[i]>> \o @]
      BY <2>4, <2>6, <2>7, <3>2
    <3>4. g[p + s - 1 + 1] = r
      BY <2>2, <2>7 DEF r
    <3>5. QED
      BY <3>1, <3>3, <3>4
  <2>9. /\ r \in [ok : BOOLEAN, elts : Seq(Seq(Contents))] /\ r.ok = TRUE
        /\ r.elts = SubSeq(T, i + 1, m)
    BY <1>6
  <2>10. SubSeq(T, i, m) = <<T[i]>> \o SubSeq(T, i + 1, m)
    <3>1. m \in i..Len(T) /\ i \in 1..Len(T)
      BY <1>1
    <3>2. QED
      BY <1>1, <3>1, SubSeqRecursiveFirst
  <2> HIDE DEF r
  <2>11. <<T[i]>> \o r.elts \in Seq(Seq(Contents))
    <3>1. \A u \in Seq(Contents) : <<u>> \in Seq(Seq(Contents))
      OBVIOUS
    <3>2. <<T[i]>> \in Seq(Seq(Contents))
      BY <2>1, <3>1
    <3>3. r.elts \in Seq(Seq(Contents))
      BY <2>9
    <3>4. QED
      BY <3>2, <3>3, ConcatProperties
  <2> DEFINE t == <<T[i]>> \o r.elts
  <2>12. g[p] = [r EXCEPT !.elts = t]
    BY <2>8
  <2>13. t = SubSeq(T, i, m)
    BY <2>9, <2>10
  <2> HIDE DEF t, m, p
  <2>14. /\ g[p] \in [ok : BOOLEAN, elts : Seq(Seq(Contents))] /\ g[p].ok = TRUE
         /\ g[p].elts = t
    BY <2>9, <2>11, <2>12 DEF t
  <2>15. QED
    BY <2>13, <2>14 DEF p
<1> DEFINE S == {k \in Nat : k <= m => Good(g[at[(m + 1) - k]], (m + 1) - k)}
<1>7. 0 \in S
  <2>1. (m + 1) - 0 = m + 1
    BY <1>1
  <2> HIDE DEF Good, m
  <2>2. QED
    BY <1>5, <2>1
<1>8. ASSUME NEW k \in Nat, k \in S
      PROVE  k + 1 \in S
  <2> HIDE DEF Good
  <2>1. SUFFICES ASSUME k + 1 <= m
                 PROVE  Good(g[at[(m + 1) - (k + 1)]], (m + 1) - (k + 1))
    OBVIOUS
  <2> DEFINE i == (m + 1) - (k + 1)
  <2>2. i \in 1..m /\ i + 1 = (m + 1) - k /\ k <= m
    <3> HIDE DEF m
    <3>1. QED
      BY <1>1, <2>1
  <2>3. Good(g[at[i + 1]], i + 1)
    BY <1>8, <2>2
  <2> HIDE DEF i, m
  <2>4. Good(g[at[i]], i)
    BY <1>6, <2>2, <2>3
  <2>5. QED
    BY <2>4 DEF i
<1>9. Good(g[at[1]], 1)
  <2> HIDE DEF S, Good
  <2>1. \A k \in Nat : k \in S
    BY <1>7, <1>8, SetInduction
  <2>2. m \in S
    BY <1>1, <2>1
  <2>3. m <= m /\ (m + 1) - m = 1
    <3> HIDE DEF m
    <3>1. QED
      BY <1>1
  <2>4. QED
    BY <2>2, <2>3 DEF S
<1>10. SubSeq(T, 1, m) = T
  BY <1>1, SubSeqFull
<1>11. QED
  BY <1>2, <1>3, <1>9, <1>10
-----------------------------------------------------------------------------
(* Refinement.                                                              *)

\* The tree that the wire stands for.
TreeOnWire == IF ParsedElements.ok THEN ParsedElements.elts ELSE << <<"malformed">> >>

\* It is the one that the buffer was laid out as, before and after a step.
LEMMA WireIsTree ==
    /\ \A T, at : Laid(buf, T, at) => TreeOnWire = T
    /\ \A T, at : Laid(buf', T, at) => TreeOnWire' = T
<1>1. \A T, at : Laid(buf, T, at) => TreeOnWire = T
  BY ParsedTree DEF TreeOnWire
<1>2. (\A T, at : Laid(buf, T, at) => TreeOnWire = T)'
  BY <1>1, PTL
<1>3. QED
  BY <1>1, <1>2

\* The changes of the message are those of MessageTree.
LEMMA StepIsTreeStep ==
    ASSUME Inv, [Next]_vars
    PROVE  [Tree!TreeNext]_TreeOnWire
<1>1. PICK T, at : Sound(buf, ob, iter, aborted, T, at)
  BY DEF Inv
<1>2. PICK U, at2 : Sound(buf', ob', iter', aborted', U, at2) /\ Follows(T, U)
  BY <1>1, NextSound
<1>3. Laid(buf, T, at) /\ Laid(buf', U, at2) /\ T \in Seq(Seq(Contents)) /\ Len(T) \in Nat
  <2>1. Laid(buf, T, at) /\ Laid(buf', U, at2)
    BY <1>1, <1>2 DEF Sound
  <2>2. T \in Seq(Seq(Contents))
    BY <2>1 DEF Laid
  <2>3. QED
    BY <2>1, <2>2, LenProperties
<1>4. TreeOnWire = T /\ TreeOnWire' = U
  BY <1>3, WireIsTree
<1>5. CASE U = T
  BY <1>4, <1>5
<1>6. CASE TreeStep(T, U)
  <2>1. DOMAIN T = 1..Len(T) /\ \A i \in 1..Len(T) : DOMAIN T[i] = 1..Len(T[i])
    <3>1. DOMAIN T = 1..Len(T)
      BY <1>3, LenProperties
    <3>2. ASSUME NEW i \in 1..Len(T)
          PROVE  DOMAIN T[i] = 1..Len(T[i])
      <4>1. T[i] \in Seq(Contents)
        BY <1>3, ElementOfSeq
      <4>2. QED
        BY <4>1, LenProperties
    <3>3. QED
      BY <3>1, <3>2
  <2>2. CASE \E acts \in SmallActs : U = Append(T, acts)
    <3>1. \E acts \in {<<>>} \cup {<<v>> : v \in Values} : Tree!AddElement(acts)
      BY <1>4, <2>2 DEF SmallActs, Tree!AddElement, TreeOnWire
    <3>2. QED
      BY <3>1 DEF Tree!TreeNext
  <2>3. CASE T # <<>> /\ \E x \in Contents : U = OneAction(T, x)
    <3>1. \E v \in Values \cup {NoValue} : Tree!AddAction(v)
      BY <1>4, <2>3 DEF Contents, OneAction, Tree!AddAction, TreeOnWire
    <3>2. QED
      BY <3>1 DEF Tree!TreeNext
  <2>4. CASE \E i \in 1..Len(T) : \E j \in 1..Len(T[i]) : \E x \in Values :
                U = [T EXCEPT ![i][j] = x]
    <3>1. PICK i \in 1..Len(T) : \E j \in 1..Len(T[i]) : \E x \in Values :
                U = [T EXCEPT ![i][j] = x]
      BY <2>4
    <3>2. PICK j \in 1..Len(T[i]) : \E x \in Values : U = [T EXCEPT ![i][j] = x]
      BY <3>1
    <3>3. PICK x \in Values : U = [T EXCEPT ![i][j] = x]
      BY <3>2
    <3>4. i \in DOMAIN T /\ j \in DOMAIN T[i]
      BY <2>1
    <3>5. Tree!SetAction(i, j, x)
      BY <1>4, <3>3, <3>4 DEF Tree!SetAction, TreeOnWire
    <3>6. \E d \in DOMAIN TreeOnWire : \E e \in DOMAIN TreeOnWire[d] : \E v \in Values :
             Tree!SetAction(d, e, v)
      BY <1>4, <3>4, <3>5
    <3>7. QED
      BY <3>6 DEF Tree!TreeNext, TreeOnWire
  <2>5. CASE U \in {<<>>, << <<>> >>} \cup {<< <<x>> >> : x \in Values}
    <3>1. Tree!Replace(U)
      BY <1>4 DEF Tree!Replace, TreeOnWire
    <3>2. QED
      BY <2>5, <3>1 DEF Tree!TreeNext
  <2>6. QED
    BY <1>6, <2>2, <2>3, <2>4, <2>5 DEF TreeStep
<1>7. QED
  BY <1>2, <1>5, <1>6 DEF Follows

\* Whatever windows the program uses, in any order and number, the buffer is
\* at any time the message of its operations, as another program parses it.
THEOREM ObjectsRefineTree == Spec => ImplementsTree
<1>1. Init => Inv /\ Tree!TreeInit
  <2> SUFFICES ASSUME Init
               PROVE  Inv /\ Tree!TreeInit
    OBVIOUS
  <2>1. PICK at : Sound(buf, ob, iter, aborted, <<>>, at)
    BY InitSound
  <2>2. TreeOnWire = <<>>
    BY <2>1, WireIsTree DEF Sound
  <2>3. QED
    BY <2>1, <2>2 DEF Inv, Tree!TreeInit, TreeOnWire
<1>2. Inv /\ [Next]_vars => [Tree!TreeNext]_TreeOnWire
  BY StepIsTreeStep
<1>3. QED
  BY <1>1, <1>2, InvHolds, PTL DEF Spec, ImplementsTree, Tree!TreeSpec, TreeOnWire
=============================================================================

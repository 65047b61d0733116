------------------------- MODULE LifoBuffersProofs -------------------------
(***************************************************************************)
(* The two buffers keep their elements and what was read from them, for    *)
(* every size of the memory and of the elements.  The inductive invariant  *)
(* adds to the three properties where the iterator is (ItInv) and where    *)
(* the bytes that a reader holds lie (HeldInv): in the space of F, or      *)
(* beyond it.                                                              *)
(***************************************************************************)
EXTENDS LifoBuffers, SequenceTheorems, TLAPS

\* An element takes at least one byte, and the buffers some room.
LEMMA Sizes ==
  ASSUME NEW b \in Bufs
  PROVE  S1[b] \in Nat \ {0} /\ S2[b] \in Nat /\ Elem(b) \in Nat \ {0} /\ Elem(b) = S1[b] + S2[b]
  BY LifoAssumption DEF Elem, Bufs

\* The first i of n elements take no more room than all of them.
LEMMA MulMono ==
  ASSUME NEW i \in Int, NEW n \in Int, NEW E \in Nat, i <= n
  PROVE  i * E <= n * E
<1>1. (n - i) * E >= 0
  OBVIOUS
<1>2. (n - i) * E = n * E - i * E
  OBVIOUS
<1> QED BY <1>1, <1>2

\* Dividing an address within an element gives the number of the element.
LEMMA DivSlot ==
  ASSUME NEW n \in Nat, NEW E \in Nat \ {0}, NEW j \in 0..E - 1
  PROVE  (n * E + j) \div E = n
  BY Z3

-----------------------------------------------------------------------------

TypeInv ==
  /\ DOMAIN mem = 0..Size - 1
  /\ start \in [Bufs -> Nat] /\ end \in [Bufs -> Nat] /\ pos \in [Bufs -> Nat]
  /\ stack \in [Bufs -> Seq(Values)]
  /\ gap \in {None} \cup [s : Nat, e : Nat]
  /\ it # None => it \in [buf : Bufs, pos : Nat]
  /\ held # None => held \in [buf : Bufs, val : Values, p1 : Nat, p2 : Nat]
  /\ left \in Nat

\* The iterator is above the elements that it has still to visit.
ItInv ==
  it # None =>
    /\ left <= Len(stack[it.buf])
    /\ it.pos = IF it.buf = "F" THEN start[it.buf] + left * Elem(it.buf)
                                ELSE end[it.buf] - left * Elem(it.buf)

\* The bytes a reader holds are an element, on its buffer's side of end["F"].
HeldInv ==
  held # None =>
    /\ held.p2 = held.p1 + S1[held.buf]
    /\ IF held.buf = "F" THEN held.p1 + Elem("F") <= end["F"]
                         ELSE end["F"] <= held.p1 /\ held.p1 + Elem("B") <= Size
    /\ \A j \in 0..Elem(held.buf) - 1 : mem[held.p1 + j] = Byte(held.buf, held.val, j)

IInv == TypeInv /\ Layout /\ Intact /\ ItInv /\ HeldInv

\* Where the elements of the two buffers lie.
LEMMA Bounds ==
  ASSUME IInv, NEW b \in Bufs, NEW i \in 1..Len(stack[b])
  PROVE  /\ Slot(b, i) \in Nat /\ Slot(b, i) + Elem(b) <= Size
         /\ b = "F" => Slot(b, i) + Elem(b) <= pos["F"]
         /\ b = "B" => pos["B"] <= Slot(b, i)
<1> DEFINE n == Len(stack[b])
           E == Elem(b)
           p == pos[b]
           s == start[b]
           e == end[b]
<1>1. n \in Nat /\ i \in Int /\ i >= 1 /\ i <= n /\ E \in Nat /\ Size \in Nat
  BY Sizes, LifoAssumption DEF IInv, TypeInv
<1>2. p \in Nat /\ s \in Nat /\ e \in Nat
  BY DEF IInv, TypeInv
<1>3. used_size(b) = n * E
  BY DEF IInv, Intact
<1>4. CASE b = "F"
  <2>1. Slot(b, i) = s + (i - 1) * E /\ p - s = n * E
    BY <1>4, <1>3 DEF Slot, used_size
  <2>2. s = 0 /\ p <= Size
    BY SMTT(30), <1>4, LifoAssumption DEF IInv, Layout, TypeInv, Bufs
  <2> HIDE DEF n, E, p, s, e
  <2>3. i * E <= n * E /\ (i - 1) * E >= 0 /\ (i - 1) * E + E = i * E
    BY <1>1, MulMono
  <2>4. Slot(b, i) \in Nat /\ Slot(b, i) + E <= p
    BY <1>1, <1>2, <2>1, <2>2, <2>3
  <2> QED BY <1>1, <1>2, <2>2, <2>4, <1>4 DEF p, E
<1>5. CASE b = "B"
  <2>1. Slot(b, i) = e - i * E /\ e - p = n * E
    BY <1>5, <1>3 DEF Slot, used_size
  <2>2. e = Size
    BY <1>5 DEF IInv, Layout
  <2> HIDE DEF n, E, p, s, e
  <2>3. i * E <= n * E /\ i * E >= E
    BY <1>1, MulMono
  <2>4. Slot(b, i) \in Nat /\ Slot(b, i) + E <= e /\ p <= Slot(b, i)
    BY <1>1, <1>2, <2>1, <2>3
  <2> QED BY <1>1, <1>2, <2>2, <2>4, <1>5 DEF p, E
<1> QED BY <1>4, <1>5 DEF Bufs

\* Two empty buffers at the two ends of the memory satisfy IInv.
LEMMA InitInv == Init => IInv
<1> SUFFICES ASSUME Init PROVE IInv
  OBVIOUS
<1>1. PICK x \in 0..Size :
        /\ start = [b \in Bufs |-> IF b = "F" THEN 0 ELSE x]
        /\ end = [b \in Bufs |-> IF b = "F" THEN x ELSE Size]
        /\ pos = [b \in Bufs |-> IF b = "F" THEN 0 ELSE Size]
        /\ mem = [k \in 0..Size - 1 |-> Trash]
        /\ stack = [b \in Bufs |-> <<>>]
        /\ gap = None /\ it = None /\ held = None /\ left = 0
  BY DEF Init
<1>2. x \in Nat /\ Size \in Nat
  BY LifoAssumption
<1>3. TypeInv
  BY <1>1, <1>2 DEF TypeInv
<1>4. Layout
  BY <1>1, <1>2 DEF Layout, Bufs
<1>5. Intact
  <2> SUFFICES ASSUME NEW b \in Bufs PROVE used_size(b) = 0 * Elem(b) /\ Len(stack[b]) = 0
    BY DEF Intact
  <2>1. Elem(b) \in Nat
    BY Sizes
  <2>2. 0 * Elem(b) = 0
    BY <2>1
  <2> QED BY <1>1, <1>2, <2>2 DEF used_size, Bufs
<1> QED BY <1>1, <1>3, <1>4, <1>5 DEF IInv, ItInv, HeldInv

\* write() on either buffer moves the position and fills one element.
LEMMA WriteInv ==
  ASSUME IInv, NEW b \in Bufs, NEW v \in Values, write(b, v)
  PROVE  IInv'
<1> DEFINE a == IF b = "F" THEN pos[b] ELSE pos[b] - Elem(b)
           E == Elem(b)
           n == Len(stack[b])
<1>1. /\ have_space_for(b, E)
      /\ mem' = Written(b, v, a)
      /\ pos' = [pos EXCEPT ![b] = IF b = "F" THEN @ + E ELSE a]
      /\ stack' = [stack EXCEPT ![b] = Append(@, v)]
      /\ Forget(b)
      /\ start' = start /\ end' = end /\ gap' = gap
  BY DEF write
<1>2. E \in Nat \ {0} /\ Size \in Nat /\ n \in Nat /\ stack[b] \in Seq(Values)
  BY Sizes, LifoAssumption DEF IInv, TypeInv
<1>3. /\ start["F"] \in Nat /\ end["F"] \in Nat /\ pos["F"] \in Nat
      /\ start["B"] \in Nat /\ end["B"] \in Nat /\ pos["B"] \in Nat
      /\ end["F"] <= start["B"]
  <2>1. gap # None => gap \in [s : Nat, e : Nat]
    BY DEF IInv, TypeInv
  <2> QED BY <2>1 DEF IInv, TypeInv, Layout, Bufs
<1>4. /\ a \in Nat /\ a + E <= Size
      /\ b = "F" => a = pos["F"] /\ a + E <= end["F"]
      /\ b = "B" => start["B"] <= a /\ a + E = pos["B"]
  <2>1. CASE b = "F"
    BY <2>1, <1>1, <1>2, <1>3 DEF have_space_for, IInv, Layout
  <2>2. CASE b = "B"
    BY SMTT(30), <2>2, <1>1, <1>2, <1>3 DEF have_space_for, IInv, Layout
  <2> QED BY <2>1, <2>2 DEF Bufs
<1> HIDE DEF a, E, n
<1>5. /\ \A k \in 0..Size - 1 : k < a \/ k >= a + E => mem'[k] = mem[k]
      /\ \A k \in 0..Size - 1 : k >= a /\ k < a + E => mem'[k] = Byte(b, v, k - a)
      /\ DOMAIN mem' = 0..Size - 1
  <2>1. DOMAIN mem = 0..Size - 1
    BY DEF IInv, TypeInv
  <2>2. mem' = [k \in 0..Size - 1 |-> IF k \in a..a + E - 1 THEN Byte(b, v, k - a) ELSE mem[k]]
    BY <1>1, <2>1 DEF Written, E
  <2> QED BY <2>2, <1>2, <1>4
<1>6. /\ stack' \in [Bufs -> Seq(Values)]
      /\ Len(stack'[b]) = n + 1
      /\ \A i \in 1..n : stack'[b][i] = stack[b][i]
      /\ stack'[b][n + 1] = v
      /\ \A c \in Bufs \ {b} : stack'[c] = stack[c]
  <2>1. stack \in [Bufs -> Seq(Values)]
    BY DEF IInv, TypeInv
  <2>2. stack'[b] = Append(stack[b], v)
    BY <1>1, <2>1
  <2> QED BY <1>1, <1>2, <2>1, <2>2 DEF n
<1>7. /\ pos' \in [Bufs -> Nat]
      /\ b = "F" => pos'["F"] = pos["F"] + E /\ pos'["B"] = pos["B"]
      /\ b = "B" => pos'["B"] = a /\ pos'["F"] = pos["F"]
  <2>1. pos \in [Bufs -> Nat]
    BY DEF IInv, TypeInv
  <2> QED BY SMTT(30), <2>1, <1>1, <1>2, <1>3, <1>4 DEF Bufs
<1>8. TypeInv'
  BY Zenon, <1>1, <1>5, <1>6, <1>7 DEF IInv, TypeInv, Forget
<1>9. Layout'
  <2>1. CASE b = "F"
    BY <2>1, <1>1, <1>2, <1>3, <1>4, <1>7 DEF IInv, Layout
  <2>2. CASE b = "B"
    BY <2>2, <1>1, <1>2, <1>3, <1>4, <1>7 DEF IInv, Layout
  <2> QED BY <2>1, <2>2 DEF Bufs
<1>10. Intact'
  <2>1. start["F"] = 0 /\ pos["F"] <= end["F"] /\ start["B"] <= pos["B"] /\ end["B"] = Size
    BY DEF IInv, Layout
  <2>2. ASSUME NEW c \in Bufs, NEW i \in 1..Len(stack[c]), NEW j \in 0..Elem(c) - 1
        PROVE  mem'[Slot(c, i) + j] = Byte(c, stack[c][i], j)
    <3>1. mem[Slot(c, i) + j] = Byte(c, stack[c][i], j)
      BY DEF IInv, Intact
    <3>2. /\ Slot(c, i) \in Nat /\ Slot(c, i) + Elem(c) <= Size /\ Elem(c) \in Nat
          /\ c = "F" => Slot(c, i) + Elem(c) <= pos["F"]
          /\ c = "B" => pos["B"] <= Slot(c, i)
      BY Bounds, Sizes
    <3> DEFINE k == Slot(c, i) + j
               s == Slot(c, i)
               e == Elem(c)
    <3>3. j \in Nat /\ j < e /\ s \in Nat /\ e \in Nat /\ k = s + j
      BY <3>2
    <3> HIDE DEF k, s, e
    <3>4. k \in 0..Size - 1
      BY <3>2, <3>3, <1>2 DEF s, e
    <3>5. k < a \/ k >= a + E
      <4>1. CASE c = "F" /\ b = "F"
        BY <4>1, <3>2, <3>3, <1>2, <1>3, <1>4 DEF s, e
      <4>2. CASE c = "F" /\ b = "B"
        <5>1. s + e <= pos["F"]
          BY <4>2, <3>2 DEF s, e
        <5>2. pos["F"] <= a
          BY <4>2, <1>3, <1>4, <2>1
        <5> QED BY <5>1, <5>2, <3>3, <1>3, <1>4
      <4>3. CASE c = "B" /\ b = "F"
        <5>1. pos["B"] <= s
          BY <4>3, <3>2 DEF s
        <5>2. a + E <= pos["B"]
          BY <4>3, <1>2, <1>3, <1>4, <2>1
        <5> QED BY <5>1, <5>2, <3>3, <1>2, <1>3, <1>4
      <4>4. CASE c = "B" /\ b = "B"
        BY <4>4, <3>2, <3>3, <1>2, <1>3, <1>4 DEF s, e
      <4> QED BY <4>1, <4>2, <4>3, <4>4 DEF Bufs
    <3>6. mem'[k] = mem[k]
      BY <3>4, <3>5, <1>5
    <3> QED BY <3>1, <3>6 DEF k
  <2>3. used_size(b) = n * E
    BY DEF IInv, Intact, n, E
  <2>4. (n + 1) * E = n * E + E /\ n * E \in Int
    BY <1>2
  <2>5. Slot(b, n + 1) = a
    <3>1. CASE b = "F"
      <4>1. Slot(b, n + 1) = start["F"] + ((n + 1) - 1) * E /\ pos["F"] - start["F"] = n * E
        BY <3>1, <2>3 DEF Slot, used_size, E
      <4>2. ((n + 1) - 1) * E = n * E
        BY <1>2
      <4> QED BY <4>1, <4>2, <2>4, <1>3, <1>4, <3>1
    <3>2. CASE b = "B"
      <4>1. Slot(b, n + 1) = end["B"] - (n + 1) * E /\ end["B"] - pos["B"] = n * E
        BY <3>2, <2>3 DEF Slot, used_size, E
      <4> QED BY SMTT(30), <4>1, <2>4, <1>2, <1>3, <1>4, <3>2
    <3> QED BY <3>1, <3>2 DEF Bufs
  <2>6. ASSUME NEW j \in 0..E - 1
        PROVE  mem'[a + j] = Byte(b, v, j)
    <3>1. a + j \in 0..Size - 1 /\ a + j >= a /\ a + j < a + E /\ (a + j) - a = j
      BY <1>2, <1>4
    <3> QED BY <3>1, <1>5
  <2>7. used_size(b)' = (n + 1) * E
    <3>1. CASE b = "F"
      <4>1. pos["F"] - start["F"] = n * E /\ used_size(b)' = pos'["F"] - start'["F"]
        BY <3>1, <2>3 DEF used_size
      <4>2. pos'["F"] = pos["F"] + E /\ start'["F"] = start["F"]
        BY <3>1, <1>1, <1>7
      <4>3. used_size(b)' = (pos["F"] + E) - start["F"]
        BY <4>1, <4>2
      <4>4. (pos["F"] + E) - start["F"] = (pos["F"] - start["F"]) + E
        BY <1>2, <1>3
      <4> QED BY <4>1, <4>3, <4>4, <2>4
    <3>2. CASE b = "B"
      <4>1. end["B"] - pos["B"] = n * E /\ used_size(b)' = end'["B"] - pos'["B"]
        BY <3>2, <2>3 DEF used_size
      <4>2. pos'["B"] = a /\ a + E = pos["B"] /\ end'["B"] = end["B"]
        BY <3>2, <1>1, <1>4, <1>7
      <4>3. used_size(b)' = end["B"] - a
        BY <4>1, <4>2
      <4>4. end["B"] - a = (end["B"] - pos["B"]) + E
        BY <4>2, <1>2, <1>3, <1>4
      <4> QED BY <4>1, <4>3, <4>4, <2>4
    <3> QED BY <3>1, <3>2 DEF Bufs
  <2>8. ASSUME NEW c \in Bufs \ {b}
        PROVE  used_size(c)' = used_size(c)
    BY <1>1, <1>7 DEF used_size, Bufs
  <2>9. ASSUME NEW c \in Bufs, NEW i
        PROVE  Slot(c, i)' = Slot(c, i)
    BY <1>1 DEF Slot
  <2>10. \A j \in 0..E - 1, i \in 1..n + 1 : mem'[Slot(b, i)' + j] = Byte(b, stack'[b][i], j)
    <3> SUFFICES ASSUME NEW j \in 0..E - 1, NEW i \in 1..n + 1
                 PROVE  mem'[Slot(b, i)' + j] = Byte(b, stack'[b][i], j)
      OBVIOUS
    <3>1. CASE i = n + 1
      BY <3>1, <2>5, <2>6, <2>9, <1>6
    <3>2. CASE i # n + 1
      <4>1. i \in 1..n
        BY <3>2, <1>2
      <4> QED BY <4>1, <2>2, <2>9, <1>6 DEF n, E
    <3> QED BY <3>1, <3>2
  <2>11. ASSUME NEW c \in Bufs
         PROVE  /\ used_size(c)' = Len(stack'[c]) * Elem(c)
                /\ \A i \in 1..Len(stack'[c]), j \in 0..Elem(c) - 1 :
                     mem'[Slot(c, i)' + j] = Byte(c, stack'[c][i], j)
    <3>1. CASE c = b
      BY <3>1, <2>7, <2>10, <1>6 DEF E
    <3>2. CASE c # b
      <4>1. stack'[c] = stack[c] /\ used_size(c)' = used_size(c)
        BY <3>2, <1>6, <2>8
      <4>2. used_size(c) = Len(stack[c]) * Elem(c)
        BY DEF IInv, Intact
      <4> QED BY <4>1, <4>2, <2>2, <2>9
    <3> QED BY <3>1, <3>2
  <2> QED BY <2>11 DEF Intact, Byte, Elem
<1>11. ItInv'
  <2> SUFFICES ASSUME it' # None PROVE ItInv'
    BY DEF ItInv
  <2>1. it' = it /\ left' = left /\ it # None /\ it.buf # b
    BY <1>1 DEF Forget
  <2>2. it.buf \in Bufs
    BY <2>1 DEF IInv, TypeInv
  <2>3. stack'[it.buf] = stack[it.buf]
    BY Zenon, <2>1, <2>2, <1>6
  <2> QED BY <2>1, <2>2, <2>3, <1>1 DEF IInv, ItInv, Elem
<1>12. HeldInv'
  <2> SUFFICES ASSUME held' # None PROVE HeldInv'
    BY DEF HeldInv
  <2>1. held' = held /\ held # None /\ held.buf # b
    BY <1>1 DEF Forget
  <2>2. held.buf \in Bufs /\ held.p1 \in Nat
    BY <2>1 DEF IInv, TypeInv
  <2>3. ASSUME NEW j \in 0..Elem(held.buf) - 1
        PROVE  mem'[held.p1 + j] = Byte(held.buf, held.val, j)
    <3> DEFINE h == held.p1
               e == Elem(held.buf)
    <3>1. e \in Nat /\ h \in Nat /\ j \in Nat /\ j < e
      BY <2>2, Sizes
    <3>2. IF held.buf = "F" THEN h + e <= end["F"] ELSE end["F"] <= h /\ h + e <= Size
      BY <2>1, <2>2 DEF IInv, HeldInv, Bufs
    <3>3. mem[h + j] = Byte(held.buf, held.val, j)
      BY <2>1 DEF IInv, HeldInv
    <3> HIDE DEF h, e
    <3>4. h + j \in 0..Size - 1 /\ (h + j < a \/ h + j >= a + E)
      <4>1. CASE held.buf = "F" /\ b = "B"
        <5>1. end["F"] <= Size /\ h + e <= end["F"]
          BY <4>1, <3>2, <1>2, <1>3, <1>4 DEF IInv, Layout
        <5> QED BY <4>1, <5>1, <3>1, <1>2, <1>3, <1>4
      <4>2. CASE held.buf = "B" /\ b = "F"
        <5>1. end["F"] <= h /\ h + e <= Size
          BY <4>2, <3>2
        <5> QED BY <4>2, <5>1, <3>1, <1>2, <1>3, <1>4
      <4> QED BY <4>1, <4>2, <2>1, <2>2 DEF Bufs
    <3>5. mem'[h + j] = mem[h + j]
      BY Zenon, <3>4, <1>5
    <3> QED BY <3>3, <3>5 DEF h
  <2> QED BY <2>1, <2>3, <1>1 DEF IInv, HeldInv, Elem, Byte
<1> QED BY <1>8, <1>9, <1>10, <1>11, <1>12 DEF IInv

\* The place above the lower m elements of b.
Above(b, m) == IF b = "F" THEN start[b] + m * Elem(b) ELSE end[b] - m * Elem(b)

\* A reader of b at p gets the pointers to the m-th element and moves on to
\* the place above the others.
GoodReading(b, m, p) ==
  /\ m > 0 /\ p \in Nat
  /\ past(b, p) = Above(b, m - 1) /\ past(b, p) \in Nat
  /\ LET r == Reading(b, p, stack[b][m])
     IN  /\ r \in [buf : Bufs, val : Values, p1 : Nat, p2 : Nat]
         /\ r.p2 = r.p1 + S1[b]
         /\ IF b = "F" THEN r.p1 + Elem("F") <= pos["F"]
                       ELSE pos["B"] <= r.p1 /\ r.p1 + Elem("B") <= Size
         /\ \A j \in 0..Elem(b) - 1 : mem[r.p1 + j] = Byte(b, stack[b][m], j)

\* Whoever stands above m elements and finds one reads the m-th.
LEMMA ReadingInv ==
  ASSUME IInv, NEW b \in Bufs, NEW m \in 0..Len(stack[b]), have_data(b, Above(b, m), Elem(b))
  PROVE  GoodReading(b, m, Above(b, m))
<1> DEFINE p == Above(b, m)
<1> DEFINE E == Elem(b)
           s == start[b]
           e == end[b]
           x == S1[b]
           y == S2[b]
<1>1. /\ E \in Nat \ {0} /\ x \in Nat /\ y \in Nat /\ E = x + y /\ m \in Nat
      /\ s \in Nat /\ e \in Nat /\ stack[b] \in Seq(Values) /\ Len(stack[b]) \in Nat
  BY Sizes DEF IInv, TypeInv
<1>2. /\ b = "F" => p = s + m * E /\ p - s >= E /\ Slot(b, m) = s + (m - 1) * E
      /\ b = "F" => ptr1(b, p) = p - y - x /\ ptr2(b, p) = p - y /\ past(b, p) = p - y - x
      /\ b = "F" => Above(b, m - 1) = s + (m - 1) * E
      /\ b = "B" => p = e - m * E /\ e - p >= E /\ Slot(b, m) = e - m * E
      /\ b = "B" => ptr1(b, p) = p /\ ptr2(b, p) = p + x /\ past(b, p) = p + x + y
      /\ b = "B" => Above(b, m - 1) = e - (m - 1) * E
  BY DEF Above, have_data, Slot, ptr1, ptr2, past
<1> HIDE DEF E, s, e, x, y, p
<1>3. m > 0
  <2> SUFFICES ASSUME m = 0 PROVE FALSE
    BY <1>1
  <2>1. m * E = 0
    BY <1>1
  <2>2. CASE b = "F"
    BY <2>1, <2>2, <1>1, <1>2
  <2>3. CASE b = "B"
    BY <2>1, <2>3, <1>1, <1>2
  <2> QED BY <2>2, <2>3 DEF Bufs
<1>4. m \in 1..Len(stack[b]) /\ m * E \in Int /\ (m - 1) * E = m * E - E
  BY <1>1, <1>3
<1>5. /\ Slot(b, m) \in Nat /\ Slot(b, m) + E <= Size
      /\ b = "F" => Slot(b, m) + E <= pos["F"]
      /\ b = "B" => pos["B"] <= Slot(b, m)
  BY <1>4, Bounds DEF E
<1>6. ptr1(b, p) = Slot(b, m) /\ ptr2(b, p) = Slot(b, m) + x /\ past(b, p) = Above(b, m - 1)
      /\ p \in Nat /\ past(b, p) \in Nat
  <2>1. CASE b = "F"
    <3>1. p = s + m * E /\ Slot(b, m) = s + (m - 1) * E /\ Above(b, m - 1) = s + (m - 1) * E
          /\ ptr1(b, p) = p - y - x /\ ptr2(b, p) = p - y /\ past(b, p) = p - y - x
      BY <2>1, <1>2
    <3>2. p = Slot(b, m) + E
      BY <3>1, <1>1, <1>4
    <3> QED BY <3>1, <3>2, <1>1, <1>5
  <2>2. CASE b = "B"
    <3>1. p = e - m * E /\ Slot(b, m) = e - m * E /\ Above(b, m - 1) = e - (m - 1) * E
          /\ ptr1(b, p) = p /\ ptr2(b, p) = p + x /\ past(b, p) = p + x + y
      BY <2>2, <1>2
    <3>2. p + E = Above(b, m - 1)
      BY <3>1, <1>1, <1>4
    <3> QED BY <3>1, <3>2, <1>1, <1>5
  <2> QED BY <2>1, <2>2 DEF Bufs
<1>7. stack[b][m] \in Values
  BY <1>1, <1>4
<1>8. \A j \in 0..Elem(b) - 1 : mem[Slot(b, m) + j] = Byte(b, stack[b][m], j)
  BY Zenon, <1>4 DEF IInv, Intact
<1> DEFINE r == Reading(b, p, stack[b][m])
<1>9. /\ r = [buf |-> b, val |-> stack[b][m], p1 |-> Slot(b, m), p2 |-> Slot(b, m) + x]
      /\ r.p1 = Slot(b, m) /\ r.p2 = Slot(b, m) + x
  BY Zenon, <1>6 DEF Reading
<1>10. r \in [buf : Bufs, val : Values, p1 : Nat, p2 : Nat]
  <2>1. Slot(b, m) + x \in Nat
    BY <1>1, <1>5
  <2> QED BY <1>5, <1>7, <1>9, <2>1
<1>11. IF b = "F" THEN r.p1 + Elem("F") <= pos["F"]
                  ELSE pos["B"] <= r.p1 /\ r.p1 + Elem("B") <= Size
  BY <1>5, <1>9 DEF E, Bufs
<1> QED BY Zenon, <1>3, <1>6, <1>8, <1>9, <1>10, <1>11 DEF x, p, GoodReading

\* The position of a buffer is above all of its elements.
LEMMA PosAbove ==
  ASSUME IInv, NEW b \in Bufs
  PROVE  Len(stack[b]) \in Nat /\ pos[b] = Above(b, Len(stack[b]))
<1> DEFINE t == Len(stack[b]) * Elem(b)
<1>1. Len(stack[b]) \in Nat /\ Elem(b) \in Nat /\ pos[b] \in Nat /\ start[b] \in Nat /\ end[b] \in Nat
  BY Sizes DEF IInv, TypeInv
<1>2. t \in Int
  BY <1>1
<1>3. used_size(b) = t
  BY DEF IInv, Intact
<1>4. Above(b, Len(stack[b])) = IF b = "F" THEN start[b] + t ELSE end[b] - t
  BY DEF Above
<1> HIDE DEF t
<1>5. CASE b = "F"
  <2>1. pos[b] - start[b] = t
    BY <1>5, <1>3 DEF used_size
  <2> QED BY <2>1, <1>1, <1>2, <1>4, <1>5
<1>6. CASE b = "B"
  <2>1. end[b] - pos[b] = t
    BY <1>6, <1>3 DEF used_size
  <2> QED BY <2>1, <1>1, <1>2, <1>4, <1>6
<1> QED BY <1>5, <1>6 DEF Bufs

\* A sequence without its last element.
LEMMA ButLast ==
  ASSUME NEW S, NEW q \in Seq(S), Len(q) > 0
  PROVE  /\ SubSeq(q, 1, Len(q) - 1) \in Seq(S)
         /\ Len(SubSeq(q, 1, Len(q) - 1)) = Len(q) - 1
         /\ \A i \in 1..Len(q) - 1 : SubSeq(q, 1, Len(q) - 1)[i] = q[i]
<1>1. Len(q) - 1 \in Nat /\ 1 \in Int /\ Len(q) - 1 \in Int
  OBVIOUS
<1>2. \A i \in 1..Len(q) - 1 : q[i] \in S
  OBVIOUS
<1>3. /\ SubSeq(q, 1, Len(q) - 1) \in Seq(S)
      /\ Len(SubSeq(q, 1, Len(q) - 1)) = IF 1 <= Len(q) - 1 THEN (Len(q) - 1) - 1 + 1 ELSE 0
  BY <1>1, <1>2, SubSeqProperties
<1>4. \A i \in 1..Len(q) - 1 : SubSeq(q, 1, Len(q) - 1)[i] = q[i]
  BY <1>1
<1> DEFINE l == Len(SubSeq(q, 1, Len(q) - 1))
           n == Len(q) - 1
<1>5. l = (IF 1 <= n THEN n - 1 + 1 ELSE 0) /\ n \in Nat
  BY <1>1, <1>3
<1> HIDE DEF l, n
<1>6. l = n
  BY <1>5
<1> QED BY <1>3, <1>4, <1>6 DEF l, n

\* read() on either buffer takes the element that was written last.
LEMMA ReadInv ==
  ASSUME IInv, NEW b \in Bufs, read(b)
  PROVE  IInv'
<1> DEFINE n == Len(stack[b])
           E == Elem(b)
<1>1. /\ have_data(b, pos[b], E)
      /\ pos' = [pos EXCEPT ![b] = past(b, @)]
      /\ held' = Reading(b, pos[b], stack[b][n])
      /\ stack' = [stack EXCEPT ![b] = SubSeq(@, 1, n - 1)]
      /\ it' = (IF it # None /\ it.buf = b THEN None ELSE it)
      /\ left' = (IF it # None /\ it.buf = b THEN 0 ELSE left)
      /\ mem' = mem /\ start' = start /\ end' = end /\ gap' = gap
  BY DEF read
<1>2. /\ E \in Nat \ {0} /\ Size \in Nat /\ n \in Nat
      /\ stack \in [Bufs -> Seq(Values)] /\ stack[b] \in Seq(Values) /\ pos \in [Bufs -> Nat]
      /\ start[b] \in Nat /\ end[b] \in Nat
  BY SMTT(30), Sizes, LifoAssumption DEF IInv, TypeInv
<1>3. /\ n > 0 /\ past(b, pos[b]) = Above(b, n - 1) /\ past(b, pos[b]) \in Nat
      /\ LET r == Reading(b, pos[b], stack[b][n])
         IN  /\ r \in [buf : Bufs, val : Values, p1 : Nat, p2 : Nat]
             /\ r.p2 = r.p1 + S1[b]
             /\ IF b = "F" THEN r.p1 + Elem("F") <= pos["F"]
                           ELSE pos["B"] <= r.p1 /\ r.p1 + Elem("B") <= Size
             /\ \A j \in 0..Elem(b) - 1 : mem[r.p1 + j] = Byte(b, stack[b][n], j)
  <2>1. n \in 0..n /\ pos[b] = Above(b, n)
    BY PosAbove, <1>2
  <2>2. GoodReading(b, n, Above(b, n))
    BY Zenon, <1>1, <2>1, ReadingInv
  <2> QED BY <2>1, <2>2 DEF GoodReading
<1>4. /\ stack' \in [Bufs -> Seq(Values)] /\ Len(stack'[b]) = n - 1
      /\ \A i \in 1..n - 1 : stack'[b][i] = stack[b][i]
      /\ \A c \in Bufs \ {b} : stack'[c] = stack[c]
  <2>1. stack'[b] = SubSeq(stack[b], 1, n - 1)
    BY Zenon, <1>1, <1>2
  <2>2. /\ stack'[b] \in Seq(Values) /\ Len(stack'[b]) = n - 1
        /\ \A i \in 1..n - 1 : stack'[b][i] = stack[b][i]
    <3>1. stack[b] \in Seq(Values) /\ Len(stack[b]) > 0
      BY <1>2, <1>3
    <3> QED BY <2>1, <3>1, ButLast
  <2> QED BY Zenon, <1>1, <1>2, <2>2
<1> HIDE DEF n, E
<1>5. /\ pos' \in [Bufs -> Nat] /\ pos'[b] = Above(b, n - 1)
      /\ \A c \in Bufs \ {b} : pos'[c] = pos[c]
  BY SMTT(30), <1>1, <1>2, <1>3
<1>6. TypeInv'
  <2>1. held' \in [buf : Bufs, val : Values, p1 : Nat, p2 : Nat]
    BY <1>1, <1>3
  <2> QED BY Zenon, <2>1, <1>1, <1>4, <1>5 DEF IInv, TypeInv
<1>7. pos'[b] = (IF b = "F" THEN start[b] + (n - 1) * E ELSE end[b] - (n - 1) * E)
  BY Zenon, <1>5 DEF Above, E
<1>8. (n - 1) * E \in Nat /\ (n - 1) * E <= n * E /\ n * E \in Nat
  BY <1>2, <1>3, MulMono
<1>9. pos[b] = (IF b = "F" THEN start[b] + n * E ELSE end[b] - n * E)
  BY PosAbove DEF Above, E, n
<1>10. Layout'
  <2>1. CASE b = "F"
    <3>1. start["F"] <= pos'["F"] /\ pos'["F"] <= pos["F"] /\ pos'["B"] = pos["B"]
      BY SMTT(30), <2>1, <1>2, <1>5, <1>7, <1>8, <1>9 DEF Bufs
    <3> QED BY <3>1, <1>1, <1>2, <1>5, <2>1 DEF IInv, Layout, TypeInv, Bufs
  <2>2. CASE b = "B"
    <3>1. pos["B"] <= pos'["B"] /\ pos'["B"] <= end["B"] /\ pos'["F"] = pos["F"]
      BY SMTT(30), <2>2, <1>2, <1>5, <1>7, <1>8, <1>9 DEF Bufs
    <3> QED BY <3>1, <1>1, <1>2, <1>5, <2>2 DEF IInv, Layout, TypeInv, Bufs
  <2> QED BY Zenon, <2>1, <2>2 DEF Bufs
<1>11. Intact'
  <2>1. ASSUME NEW c \in Bufs, NEW i
        PROVE  Slot(c, i)' = Slot(c, i)
    BY <1>1 DEF Slot
  <2>2. used_size(b)' = (n - 1) * E
    <3> DEFINE t == (n - 1) * E
    <3>1. used_size(b)' = (IF b = "F" THEN pos'[b] - start[b] ELSE end[b] - pos'[b])
      BY <1>1 DEF used_size
    <3>2. pos'[b] = (IF b = "F" THEN start[b] + t ELSE end[b] - t) /\ t \in Nat
      BY <1>7, <1>8
    <3> HIDE DEF t
    <3>3. used_size(b)' = t
      BY <3>1, <3>2, <1>2
    <3> QED BY <3>3 DEF t
  <2>3. ASSUME NEW c \in Bufs
        PROVE  /\ used_size(c)' = Len(stack'[c]) * Elem(c)
               /\ \A i \in 1..Len(stack'[c]), j \in 0..Elem(c) - 1 :
                    mem'[Slot(c, i)' + j] = Byte(c, stack'[c][i], j)
    <3>0. /\ used_size(c) = Len(stack[c]) * Elem(c)
          /\ \A i \in 1..Len(stack[c]), j \in 0..Elem(c) - 1 :
               mem[Slot(c, i) + j] = Byte(c, stack[c][i], j)
      BY Zenon DEF IInv, Intact
    <3>1. CASE c = b
      <4>1. \A i \in 1..n - 1 : i \in 1..Len(stack[b])
        BY <1>2 DEF n
      <4> QED BY <3>0, <3>1, <4>1, <2>1, <2>2, <1>1, <1>4 DEF E
    <3>2. CASE c # b
      <4>1. used_size(c)' = used_size(c)
        BY Zenon, <3>2, <1>1, <1>5 DEF used_size
      <4> QED BY <3>0, <3>2, <4>1, <2>1, <1>1, <1>4
    <3> QED BY <3>1, <3>2
  <2> QED BY <2>3 DEF Intact, Byte, Elem
<1>12. ItInv'
  <2> SUFFICES ASSUME it' # None PROVE ItInv'
    BY DEF ItInv
  <2>1. it' = it /\ left' = left /\ it # None /\ it.buf # b
    BY <1>1
  <2>2. it.buf \in Bufs
    BY <2>1 DEF IInv, TypeInv
  <2>3. stack'[it.buf] = stack[it.buf]
    BY Zenon, <2>1, <2>2, <1>4
  <2> QED BY <2>1, <2>2, <2>3, <1>1 DEF IInv, ItInv, Elem
<1>13. HeldInv'
  <2>1. /\ held'.buf = b /\ held'.val = stack[b][n] /\ held'.p1 \in Nat
        /\ held'.p2 = held'.p1 + S1[b]
        /\ IF b = "F" THEN held'.p1 + Elem("F") <= pos["F"]
                      ELSE pos["B"] <= held'.p1 /\ held'.p1 + Elem("B") <= Size
        /\ \A j \in 0..Elem(b) - 1 : mem[held'.p1 + j] = Byte(b, stack[b][n], j)
    BY Zenon, <1>1, <1>3 DEF Reading
  <2>2. IF b = "F" THEN held'.p1 + Elem("F") <= end["F"]
                   ELSE end["F"] <= held'.p1 /\ held'.p1 + Elem("B") <= Size
    <3>1. /\ pos["F"] <= end["F"] /\ end["F"] <= pos["B"]
          /\ pos["F"] \in Nat /\ pos["B"] \in Nat /\ end["F"] \in Nat
      <4>1. gap # None => gap \in [s : Nat, e : Nat]
        BY DEF IInv, TypeInv
      <4> QED BY <4>1 DEF IInv, TypeInv, Layout, Bufs
    <3>2. Elem("F") \in Nat /\ Elem("B") \in Nat
      BY Sizes DEF Bufs
    <3> QED BY <2>1, <3>1, <3>2
  <2> QED BY Zenon, <2>1, <2>2, <1>1 DEF HeldInv, Elem, Byte
<1> QED BY Zenon, <1>6, <1>10, <1>11, <1>12, <1>13 DEF IInv

\* The m-th element by address is, from the bottom of the stack, the
\* (m + 1)-th of F and the (n - m)-th of B.
LEMMA ChunkSlot ==
  ASSUME IInv, NEW b \in Bufs, NEW m \in 0..Len(stack[b]) - 1
  PROVE  /\ b = "F" => Chunk(b, m) = Slot(b, m + 1) /\ m + 1 \in 1..Len(stack[b])
         /\ b = "B" => Chunk(b, m) = Slot(b, Len(stack[b]) - m) /\ Len(stack[b]) - m \in 1..Len(stack[b])
<1> DEFINE E == Elem(b)
           n == Len(stack[b])
<1>1. E \in Nat /\ n \in Nat /\ start[b] \in Nat /\ end[b] \in Nat /\ pos[b] \in Nat /\ m \in Int /\ m <= n - 1 /\ 0 <= m
  BY Sizes DEF IInv, TypeInv
<1>2. pos[b] = (IF b = "F" THEN start[b] + n * E ELSE end[b] - n * E)
  BY PosAbove DEF Above
<1>3. CASE b = "F"
  <2>1. Chunk(b, m) = start[b] + m * E /\ Slot(b, m + 1) = start[b] + ((m + 1) - 1) * E
    BY <1>3 DEF Chunk, used_area, Slot
  <2> HIDE DEF E, n
  <2>2. ((m + 1) - 1) * E = m * E
    BY <1>1
  <2> QED BY <1>1, <1>3, <2>1, <2>2 DEF n
<1>4. CASE b = "B"
  <2>1. Chunk(b, m) = pos[b] + m * E /\ Slot(b, n - m) = end[b] - (n - m) * E /\ pos[b] = end[b] - n * E
    BY <1>4, <1>2 DEF Chunk, used_area, Slot
  <2> HIDE DEF E, n
  <2>2. (n - m) * E = n * E - m * E /\ n * E \in Int /\ m * E \in Int
    BY <1>1
  <2>3. Chunk(b, m) = Slot(b, n - m)
    BY <1>1, <2>1, <2>2
  <2>4. n - m \in 1..n
    BY <1>1
  <2> QED BY <1>4, <2>3, <2>4 DEF n
<1> QED BY <1>3, <1>4 DEF Bufs

\* sort() rearranges the elements of one buffer in place.
LEMMA SortInv ==
  ASSUME IInv, NEW b \in Bufs, sort(b)
  PROVE  IInv'
<1> DEFINE E == Elem(b)
           n == Len(stack[b])
           M == 0..n - 1
<1>1. E \in Nat \ {0} /\ n \in Nat /\ Size \in Nat /\ stack \in [Bufs -> Seq(Values)] /\ used_area(b) \in Nat
  BY Sizes, LifoAssumption DEF IInv, TypeInv, used_area
<1>2. n_elements(b) = n
  <2>1. used_size(b) = n * E + 0
    <3>1. used_size(b) = n * E
      BY DEF IInv, Intact
    <3> HIDE DEF n, E
    <3> QED BY <3>1, <1>1
  <2>2. 0 \in 0..E - 1
    BY <1>1
  <2>3. used_size(b) \div E = n
    BY Zenon, <1>1, <2>1, <2>2, DivSlot
  <2> QED BY <2>3 DEF n_elements
<1>3. PICK q \in [M -> M] : Rearranged(b, n, q)
  BY Zenon, <1>2 DEF sort
<1>4. Forget(b) /\ start' = start /\ end' = end /\ pos' = pos /\ gap' = gap
  BY DEF sort, fields
<1>5. q \in [M -> M]
  BY <1>3
<1>6. /\ stack' \in [Bufs -> Seq(Values)] /\ Len(stack'[b]) = n
      /\ \A c \in Bufs \ {b} : stack'[c] = stack[c]
      /\ b = "F" => \A i \in 1..n : stack'[b][i] = stack[b][q[i - 1] + 1]
      /\ b = "B" => \A i \in 1..n : stack'[b][i] = stack[b][n - q[n - i]]
  <2>1. \A i \in 1..n : i - 1 \in M /\ n - i \in M
    BY <1>1
  <2>2. ASSUME NEW i \in 1..n PROVE q[i - 1] + 1 \in 1..n /\ n - q[n - i] \in 1..n
    <3>1. q[i - 1] \in M /\ q[n - i] \in M
      BY Zenon, <1>5, <2>1
    <3> QED BY <3>1, <1>1
  <2>3. \A i \in 1..n : stack[b][i] \in Values
    BY <1>1
  <2> DEFINE f == [i \in 1..n |-> IF b = "F" THEN stack[b][q[i - 1] + 1] ELSE stack[b][n - q[n - i]]]
  <2>4. stack' = [stack EXCEPT ![b] = f]
    BY <1>3 DEF Rearranged
  <2>5. f \in [1..n -> Values]
    BY Zenon, <2>2, <2>3
  <2>6. f \in Seq(Values) /\ Len(f) = n
    <3> HIDE DEF n, f
    <3> QED BY <2>5, <1>1
  <2>7. /\ b = "F" => \A i \in 1..n : f[i] = stack[b][q[i - 1] + 1]
        /\ b = "B" => \A i \in 1..n : f[i] = stack[b][n - q[n - i]]
    BY Zenon
  <2> HIDE DEF f
  <2> QED BY <2>4, <2>6, <2>7, <1>1
<1>7. ASSUME NEW m \in M, NEW j \in 0..E - 1
      PROVE  /\ Chunk(b, m) + j \in 0..Size - 1
             /\ b = "F" => Chunk(b, m) + j < pos["F"]
             /\ b = "B" => Chunk(b, m) + j >= pos["B"]
             /\ mem'[Chunk(b, m) + j] = mem[Chunk(b, q[m]) + j]
  <2> DEFINE x == Chunk(b, m)
  <2>1. /\ x \in Nat /\ x + E <= Size
        /\ b = "F" => x + E <= pos["F"]
        /\ b = "B" => x >= pos["B"]
    <3>1. CASE b = "F"
      BY Zenon, <3>1, ChunkSlot, Bounds
    <3>2. CASE b = "B"
      BY <3>2, ChunkSlot, Bounds
    <3> QED BY <3>1, <3>2 DEF Bufs
  <2>2. x = used_area(b) + m * E
    BY DEF Chunk
  <2>3. j \in Nat /\ j < E /\ m \in Nat /\ m * E \in Nat
    BY <1>1
  <2> HIDE DEF x, E
  <2>4. x + j \in 0..Size - 1 /\ x + j \in x..x + E - 1 /\ (x + j) - x = j
    BY <1>1, <2>1, <2>3
  <2>5. ((x + j) - used_area(b)) \div E = m
    <3>1. (x + j) - used_area(b) = m * E + j
      BY SMTT(30), <1>1, <2>2, <2>3
    <3> QED BY <3>1, <1>1, <2>3, DivSlot
  <2>6. DOMAIN mem = 0..Size - 1
    BY DEF IInv, TypeInv
  <2>7. mem'[x + j] = mem[Chunk(b, q[m]) + ((x + j) - x)]
    <3>1. \E l \in M : x + j \in Chunk(b, l)..Chunk(b, l) + E - 1
      BY <2>4 DEF x
    <3>2. mem' = [k \in DOMAIN mem |->
               IF \E l \in M : k \in Chunk(b, l)..Chunk(b, l) + E - 1
               THEN mem[Chunk(b, q[(k - used_area(b)) \div E]) + (k - Chunk(b, (k - used_area(b)) \div E))]
               ELSE mem[k]]
      BY <1>3 DEF Rearranged, E
    <3> QED BY Zenon, <3>1, <3>2, <2>4, <2>5, <2>6 DEF x
  <2>8. /\ b = "F" => x + j < pos["F"]
        /\ b = "B" => x + j >= pos["B"]
    <3>1. pos["F"] \in Nat /\ pos["B"] \in Nat
      BY Zenon DEF IInv, TypeInv, Bufs
    <3> QED BY <2>1, <2>3, <3>1, <1>1
  <2> QED BY Zenon, <2>4, <2>7, <2>8 DEF x
<1>8. ASSUME NEW k \in 0..Size - 1, b = "F" => k >= pos["F"], b = "B" => k < pos["B"]
      PROVE  mem'[k] = mem[k]
  <2>1. ASSUME NEW m \in M, k \in Chunk(b, m)..Chunk(b, m) + E - 1
        PROVE  FALSE
    <3> DEFINE x == Chunk(b, m)
               j == k - x
    <3>1. x \in Nat
      <4>1. CASE b = "F"
        BY <4>1, ChunkSlot, Bounds
      <4>2. CASE b = "B"
        BY <4>2, ChunkSlot, Bounds
      <4> QED BY <4>1, <4>2 DEF Bufs
    <3> HIDE DEF x, E
    <3>2. j \in 0..E - 1 /\ x + j = k
      BY <3>1, <2>1, <1>1 DEF x
    <3>3. pos["F"] \in Nat /\ pos["B"] \in Nat
      BY DEF IInv, TypeInv, Bufs
    <3> HIDE DEF j
    <3>4. (b = "F" => x + j < pos["F"]) /\ (b = "B" => x + j >= pos["B"])
      BY Zenon, <3>2, <1>7 DEF x
    <3> QED BY <3>2, <3>3, <3>4, <1>8 DEF Bufs
  <2>2. DOMAIN mem = 0..Size - 1
    BY Zenon DEF IInv, TypeInv
  <2> QED BY <1>3, <2>1, <2>2 DEF Rearranged
<1>9. TypeInv'
  <2>1. DOMAIN mem' = DOMAIN mem
    BY <1>3 DEF Rearranged
  <2> QED BY Zenon, <2>1, <1>4, <1>6 DEF IInv, TypeInv, Forget
<1>10. Layout'
  BY Zenon, <1>4 DEF IInv, Layout
<1>11. /\ pos["F"] <= end["F"] /\ end["F"] <= start["B"] /\ start["B"] <= pos["B"]
       /\ pos["F"] \in Nat /\ pos["B"] \in Nat /\ end["F"] \in Nat /\ start["B"] \in Nat
  <2>1. gap # None => gap \in [s : Nat, e : Nat]
    BY Zenon DEF IInv, TypeInv
  <2> QED BY <2>1 DEF IInv, TypeInv, Layout, Bufs
<1>12. Intact'
  <2>1. ASSUME NEW c \in Bufs, NEW i
        PROVE  Slot(c, i)' = Slot(c, i)
    BY <1>4 DEF Slot
  <2>2. ASSUME NEW c \in Bufs
        PROVE  used_size(c)' = Len(stack'[c]) * Elem(c)
    <3>1. used_size(c)' = used_size(c) /\ used_size(c) = Len(stack[c]) * Elem(c)
      BY Zenon, <1>4 DEF used_size, IInv, Intact
    <3>2. Len(stack'[c]) = Len(stack[c])
      BY Zenon, <1>6
    <3> QED BY Zenon, <3>1, <3>2
  <2>3. ASSUME NEW c \in Bufs \ {b}, NEW i \in 1..Len(stack[c]), NEW j \in 0..Elem(c) - 1
        PROVE  mem'[Slot(c, i) + j] = Byte(c, stack[c][i], j)
    <3>1. mem[Slot(c, i) + j] = Byte(c, stack[c][i], j)
      BY Zenon DEF IInv, Intact
    <3> DEFINE x == Slot(c, i)
               e == Elem(c)
    <3>2. /\ x \in Nat /\ x + e <= Size /\ e \in Nat
          /\ c = "F" => x + e <= pos["F"]
          /\ c = "B" => pos["B"] <= x
      BY Bounds, Sizes
    <3>3. j \in Nat /\ j < e
      BY <3>2
    <3> HIDE DEF x, e
    <3>4. x + j \in 0..Size - 1
      BY <3>2, <3>3, <1>1
    <3>5. b = "F" => x + j >= pos["F"]
      BY SMTT(30), <3>2, <3>3, <1>11 DEF Bufs
    <3>6. b = "B" => x + j < pos["B"]
      BY <3>2, <3>3, <1>11 DEF Bufs
    <3> QED BY <3>1, <3>4, <3>5, <3>6, <1>8 DEF x
  <2>4. ASSUME NEW i \in 1..n, NEW j \in 0..E - 1
        PROVE  mem'[Slot(b, i) + j] = Byte(b, stack'[b][i], j)
    <3>1. i - 1 \in M /\ n - i \in M
      BY <1>1
    <3>2. q[i - 1] \in M /\ q[n - i] \in M
      BY Zenon, <3>1, <1>5
    <3>3. CASE b = "F"
      <4>1. Chunk(b, i - 1) = Slot(b, (i - 1) + 1) /\ (i - 1) + 1 = i
        BY <3>1, <3>3, <1>1, ChunkSlot
      <4>2. Chunk(b, q[i - 1]) = Slot(b, q[i - 1] + 1) /\ q[i - 1] + 1 \in 1..n
        BY Zenon, <3>2, <3>3, ChunkSlot
      <4>3. mem'[Chunk(b, i - 1) + j] = mem[Chunk(b, q[i - 1]) + j]
        BY <3>1, <1>7
      <4>4. mem[Slot(b, q[i - 1] + 1) + j] = Byte(b, stack[b][q[i - 1] + 1], j)
        BY Zenon, <4>2 DEF IInv, Intact
      <4>5. stack'[b][i] = stack[b][q[i - 1] + 1]
        BY <3>3, <1>6, Zenon
      <4>6. Chunk(b, i - 1) = Slot(b, i)
        BY <4>1
      <4> QED BY <4>2, <4>3, <4>4, <4>5, <4>6, Zenon
    <3>4. CASE b = "B"
      <4>1. Chunk(b, n - i) = Slot(b, n - (n - i)) /\ n - (n - i) = i
        BY <3>1, <3>4, <1>1, ChunkSlot
      <4>2. Chunk(b, q[n - i]) = Slot(b, n - q[n - i]) /\ n - q[n - i] \in 1..n
        BY Zenon, <3>2, <3>4, ChunkSlot
      <4>3. mem'[Chunk(b, n - i) + j] = mem[Chunk(b, q[n - i]) + j]
        BY Zenon, <3>1, <1>7
      <4>4. mem[Slot(b, n - q[n - i]) + j] = Byte(b, stack[b][n - q[n - i]], j)
        BY <4>2 DEF IInv, Intact
      <4>5. stack'[b][i] = stack[b][n - q[n - i]]
        BY <3>4, <1>6, Zenon
      <4>6. Chunk(b, n - i) = Slot(b, i)
        BY Zenon, <4>1
      <4> QED BY <4>2, <4>3, <4>4, <4>5, <4>6, Zenon
    <3> QED BY <3>3, <3>4 DEF Bufs
  <2>5. ASSUME NEW c \in Bufs
        PROVE  \A i \in 1..Len(stack'[c]), j \in 0..Elem(c) - 1 :
                 mem'[Slot(c, i)' + j] = Byte(c, stack'[c][i], j)
    <3>1. CASE c = b
      BY <3>1, <2>1, <2>4, <1>6
    <3>2. CASE c # b
      BY SMTT(30), <3>2, <2>1, <2>3, <1>6
    <3> QED BY Zenon, <3>1, <3>2
  <2> QED BY <2>2, <2>5 DEF Intact, Byte, Elem
<1>13. ItInv'
  <2> SUFFICES ASSUME it' # None PROVE ItInv'
    BY DEF ItInv
  <2>1. it' = it /\ left' = left /\ it # None /\ it.buf # b
    BY Zenon, <1>4 DEF Forget
  <2>2. it.buf \in Bufs
    BY Zenon, <2>1 DEF IInv, TypeInv
  <2>3. stack'[it.buf] = stack[it.buf]
    BY Zenon, <2>1, <2>2, <1>6
  <2> QED BY Zenon, <2>1, <2>2, <2>3, <1>4 DEF IInv, ItInv, Elem
<1>14. HeldInv'
  <2> SUFFICES ASSUME held' # None PROVE HeldInv'
    BY DEF HeldInv
  <2>1. held' = held /\ held # None /\ held.buf # b
    BY Zenon, <1>4 DEF Forget
  <2>2. held.buf \in Bufs /\ held.p1 \in Nat
    BY <2>1 DEF IInv, TypeInv
  <2>3. ASSUME NEW j \in 0..Elem(held.buf) - 1
        PROVE  mem'[held.p1 + j] = Byte(held.buf, held.val, j)
    <3> DEFINE h == held.p1
               e == Elem(held.buf)
    <3>1. e \in Nat /\ h \in Nat /\ j \in Nat /\ j < e
      BY <2>2, Sizes
    <3>2. IF held.buf = "F" THEN h + e <= end["F"] ELSE end["F"] <= h /\ h + e <= Size
      BY <2>1, <2>2 DEF IInv, HeldInv, Bufs
    <3>3. mem[h + j] = Byte(held.buf, held.val, j)
      BY <2>1 DEF IInv, HeldInv
    <3> HIDE DEF h, e
    <3>4. h + j \in 0..Size - 1
      <4>1. end["F"] <= Size
        <5>1. pos["B"] <= Size
          BY DEF IInv, Layout
        <5> QED BY <5>1, <1>1, <1>11
      <4> QED BY <4>1, <3>1, <3>2, <1>1, <1>11
    <3>5. b = "F" => h + j >= pos["F"]
      BY <2>1, <2>2, <3>1, <3>2, <1>11 DEF Bufs
    <3>6. b = "B" => h + j < pos["B"]
      BY SMTT(30), <2>1, <2>2, <3>1, <3>2, <1>11 DEF Bufs
    <3>7. mem'[h + j] = mem[h + j]
      BY <3>4, <3>5, <3>6, <1>8
    <3> QED BY <3>3, <3>7 DEF h
  <2> QED BY <2>1, <2>3, <1>4 DEF IInv, HeldInv, Elem, Byte
<1> QED BY Zenon, <1>9, <1>10, <1>12, <1>13, <1>14 DEF IInv

\* set_buffer_space() of both buffers shares out the memory anew and empties them.
LEMMA SetSpaceInv ==
  ASSUME NEW x \in 0..Size, SetSpace(x)
  PROVE  IInv'
<1>1. /\ start' = [b \in Bufs |-> IF b = "F" THEN 0 ELSE x]
      /\ end' = [b \in Bufs |-> IF b = "F" THEN x ELSE Size]
      /\ pos' = [b \in Bufs |-> IF b = "F" THEN start'[b] ELSE end'[b]]
      /\ mem' = [k \in 0..Size - 1 |-> Trash]
      /\ stack' = [b \in Bufs |-> <<>>]
      /\ gap' = None /\ it' = None /\ held' = None /\ left' = 0
  BY DEF SetSpace
<1>2. x \in Nat /\ Size \in Nat
  BY LifoAssumption
<1>3. pos' = [b \in Bufs |-> IF b = "F" THEN 0 ELSE Size]
  BY Zenon, <1>1
<1>4. TypeInv'
  BY <1>1, <1>2, <1>3 DEF TypeInv
<1>5. Layout'
  BY <1>1, <1>2, <1>3 DEF Layout, Bufs
<1>6. Intact'
  <2>1. ASSUME NEW b \in Bufs PROVE used_size(b)' = Len(stack'[b]) * Elem(b) /\ Len(stack'[b]) = 0
    <3>1. Elem(b) \in Nat
      BY Sizes
    <3>2. 0 * Elem(b) = 0
      BY <3>1
    <3> QED BY <1>1, <1>2, <1>3, <3>2 DEF used_size, Bufs
  <2> QED BY <2>1 DEF Intact, Elem
<1> QED BY <1>1, <1>4, <1>5, <1>6 DEF IInv, ItInv, HeldInv

\* remove_unused_space() takes the free part of B away from it.
LEMMA RemoveInv ==
  ASSUME IInv, remove_unused_space
  PROVE  IInv'
<1>1. /\ gap = None /\ gap' = [s |-> start["B"], e |-> pos["B"]]
      /\ start' = [start EXCEPT !["B"] = pos["B"]]
      /\ mem' = mem /\ end' = end /\ pos' = pos /\ it' = it /\ held' = held
      /\ stack' = stack /\ left' = left
  BY DEF remove_unused_space
<1>2. start \in [Bufs -> Nat] /\ pos \in [Bufs -> Nat] /\ "B" \in Bufs /\ "F" \in Bufs
  BY Zenon DEF IInv, TypeInv, Bufs
<1>3. start'["F"] = start["F"] /\ start'["B"] = pos["B"] /\ start' \in [Bufs -> Nat]
  BY Zenon, <1>1, <1>2
<1>4. gap' \in [s : Nat, e : Nat] /\ gap' # None /\ gap'.s = start["B"] /\ gap'.e = pos["B"]
  BY <1>1, <1>2, LifoAssumption
<1>5. TypeInv'
  BY Zenon, <1>1, <1>3, <1>4 DEF IInv, TypeInv
<1>6. Layout'
  BY <1>1, <1>2, <1>3, <1>4 DEF IInv, Layout
<1>7. \A b \in Bufs : used_size(b)' = used_size(b) /\ \A i : Slot(b, i)' = Slot(b, i)
  BY Zenon, <1>1, <1>3 DEF used_size, Slot, Bufs
<1>8. Intact'
  BY <1>1, <1>7 DEF IInv, Intact, Byte, Elem
<1>9. ItInv'
  <2> SUFFICES ASSUME it # None PROVE ItInv'
    BY <1>1 DEF ItInv
  <2>1. it.buf \in Bufs
    BY DEF IInv, TypeInv
  <2>2. it.buf = "F" => start'[it.buf] = start[it.buf]
    BY Zenon, <1>3
  <2> QED BY Zenon, <2>1, <2>2, <1>1 DEF IInv, ItInv, Elem
<1>10. HeldInv'
  BY Zenon, <1>1 DEF IInv, HeldInv, Elem, Byte
<1> QED BY Zenon, <1>5, <1>6, <1>8, <1>9, <1>10 DEF IInv

\* grow() gives F the space that B no longer has.
LEMMA GrowInv ==
  ASSUME IInv, grow
  PROVE  IInv'
<1>1. /\ gap # None /\ mem' = Trashed(gap.s, gap.e)
      /\ end' = [end EXCEPT !["F"] = gap.e] /\ gap' = None
      /\ held' = (IF held # None /\ held.buf = "B" THEN None ELSE held)
      /\ start' = start /\ pos' = pos /\ it' = it /\ stack' = stack /\ left' = left
  BY Zenon DEF grow
<1>2. /\ gap.s \in Nat /\ gap.e \in Nat /\ Size \in Nat
      /\ end \in [Bufs -> Nat] /\ pos \in [Bufs -> Nat] /\ start \in [Bufs -> Nat]
      /\ "B" \in Bufs /\ "F" \in Bufs /\ DOMAIN mem = 0..Size - 1
  BY Zenon, <1>1, LifoAssumption DEF IInv, TypeInv, Bufs
<1>3. /\ pos["F"] <= end["F"] /\ end["F"] = gap.s /\ gap.s <= gap.e /\ gap.e = start["B"]
      /\ start["B"] <= pos["B"] /\ pos["B"] <= Size /\ end["B"] = Size
  BY <1>1 DEF IInv, Layout
<1>4. end' \in [Bufs -> Nat] /\ end'["F"] = gap.e /\ end'["B"] = end["B"]
  BY Zenon, <1>1, <1>2
<1>5. ASSUME NEW k \in 0..Size - 1, k < gap.s \/ k >= gap.e
      PROVE  mem'[k] = mem[k]
  BY <1>1, <1>2, <1>5 DEF Trashed
<1>6. TypeInv'
  <2>1. DOMAIN mem' = 0..Size - 1
    BY <1>1, <1>2 DEF Trashed
  <2> QED BY Zenon, <2>1, <1>1, <1>4 DEF IInv, TypeInv
<1>7. Layout'
  <2>1. pos["F"] <= gap.e
    BY <1>2, <1>3
  <2> QED BY <2>1, <1>1, <1>3, <1>4 DEF IInv, Layout
<1>8. \A b \in Bufs : used_size(b)' = used_size(b) /\ \A i : Slot(b, i)' = Slot(b, i)
  BY Zenon, <1>1, <1>4 DEF used_size, Slot, Bufs
<1>9. Intact'
  <2>1. ASSUME NEW c \in Bufs, NEW i \in 1..Len(stack[c]), NEW j \in 0..Elem(c) - 1
        PROVE  mem'[Slot(c, i) + j] = Byte(c, stack[c][i], j)
    <3>1. mem[Slot(c, i) + j] = Byte(c, stack[c][i], j)
      BY DEF IInv, Intact
    <3> DEFINE x == Slot(c, i)
               e == Elem(c)
    <3>2. /\ x \in Nat /\ x + e <= Size /\ e \in Nat
          /\ c = "F" => x + e <= pos["F"]
          /\ c = "B" => pos["B"] <= x
      BY Bounds, Sizes
    <3>3. j \in Nat /\ j < e
      BY <3>2
    <3> HIDE DEF x, e
    <3>4. x + j \in 0..Size - 1
      BY <3>2, <3>3, <1>2
    <3>5. x + j < gap.s \/ x + j >= gap.e
      <4>1. CASE c = "F"
        BY <4>1, <3>2, <3>3, <1>2, <1>3
      <4>2. CASE c = "B"
        BY <4>2, <3>2, <3>3, <1>2, <1>3
      <4> QED BY <4>1, <4>2 DEF Bufs
    <3> QED BY Zenon, <3>1, <3>4, <3>5, <1>5 DEF x
  <2>2. \A c \in Bufs : used_size(c) = Len(stack[c]) * Elem(c)
    BY Zenon DEF IInv, Intact
  <2>3. ASSUME NEW c \in Bufs, NEW i \in 1..Len(stack'[c]), NEW j \in 0..Elem(c) - 1
        PROVE  mem'[Slot(c, i)' + j] = Byte(c, stack'[c][i], j)
    BY Zenon, <2>1, <1>1, <1>8
  <2>4. \A c \in Bufs : used_size(c)' = Len(stack'[c]) * Elem(c)
    BY Zenon, <2>2, <1>1, <1>8
  <2> QED BY Zenon, <2>3, <2>4 DEF Intact, Byte, Elem
<1>10. ItInv'
  <2> SUFFICES ASSUME it # None PROVE ItInv'
    BY <1>1 DEF ItInv
  <2>1. it.buf \in Bufs
    BY DEF IInv, TypeInv
  <2>2. it.buf # "F" => end'[it.buf] = end[it.buf]
    BY Zenon, <2>1, <1>4 DEF Bufs
  <2> QED BY Zenon, <2>1, <2>2, <1>1 DEF IInv, ItInv, Elem
<1>11. HeldInv'
  <2> SUFFICES ASSUME held' # None PROVE HeldInv'
    BY Zenon DEF HeldInv
  <2>1. held' = held /\ held # None /\ held.buf = "F" /\ held.p1 \in Nat
    BY Zenon, <1>1 DEF IInv, TypeInv, Bufs
  <2>2. /\ held.p2 = held.p1 + S1["F"] /\ held.p1 + Elem("F") <= gap.s /\ Elem("F") \in Nat
        /\ \A j \in 0..Elem("F") - 1 : mem[held.p1 + j] = Byte("F", held.val, j)
    <3>1. Elem("F") \in Nat
      BY Sizes DEF Bufs
    <3> QED BY <3>1, <2>1, <1>3 DEF IInv, HeldInv
  <2>3. held.p1 + Elem("F") <= gap.e
    BY <2>1, <2>2, <1>2, <1>3
  <2>4. ASSUME NEW j \in 0..Elem("F") - 1
        PROVE  mem'[held.p1 + j] = mem[held.p1 + j]
    <3> DEFINE h == held.p1
               e == Elem("F")
               g == gap.s
    <3>1. h \in Nat /\ e \in Nat /\ j \in Nat /\ j < e /\ h + e <= g /\ g \in Nat
      BY <2>1, <2>2, <1>2
    <3>2. g <= Size
      BY <1>2, <1>3
    <3> HIDE DEF h, e, g
    <3>3. h + j \in 0..Size - 1 /\ h + j < g
      BY <3>1, <3>2, <1>2
    <3> QED BY <3>3, <1>5 DEF h, g
  <2> QED BY Zenon, <2>1, <2>2, <2>3, <2>4, <1>4 DEF HeldInv, Elem, Byte
<1> QED BY <1>6, <1>7, <1>9, <1>10, <1>11 DEF IInv

\* The iterator begins where the buffer's position is.
LEMMA IterInitInv ==
  ASSUME IInv, NEW b \in Bufs, init(b)
  PROVE  IInv'
<1>1. /\ it' = [buf |-> b, pos |-> pos[b]] /\ left' = Len(stack[b])
      /\ mem' = mem /\ start' = start /\ end' = end /\ pos' = pos /\ gap' = gap
      /\ held' = held /\ stack' = stack
  BY Zenon DEF init, fields
<1>2. Len(stack[b]) \in Nat /\ pos[b] = Above(b, Len(stack[b])) /\ pos[b] \in Nat
  BY Zenon, PosAbove DEF IInv, TypeInv
<1>3. TypeInv'
  BY Zenon, <1>1, <1>2 DEF IInv, TypeInv
<1>4. Layout' /\ HeldInv'
  BY Zenon, <1>1 DEF IInv, Layout, HeldInv, Elem, Byte
<1>5. Intact'
  <2>1. \A c \in Bufs : \A i : used_size(c)' = used_size(c) /\ Slot(c, i)' = Slot(c, i)
    BY Zenon, <1>1 DEF used_size, Slot, Elem
  <2>2. ASSUME NEW c \in Bufs, NEW i \in 1..Len(stack'[c]), NEW j \in 0..Elem(c) - 1
        PROVE  mem'[Slot(c, i)' + j] = Byte(c, stack'[c][i], j)
    <3>1. i \in 1..Len(stack[c]) /\ Slot(c, i)' = Slot(c, i)
      BY Zenon, <2>1, <1>1
    <3>2. mem[Slot(c, i) + j] = Byte(c, stack[c][i], j)
      BY Zenon, <3>1 DEF IInv, Intact
    <3> QED BY Zenon, <1>1, <3>1, <3>2
  <2>3. \A c \in Bufs : used_size(c)' = Len(stack'[c]) * Elem(c)
    BY Zenon, <2>1, <1>1 DEF IInv, Intact
  <2> QED BY Zenon, <2>2, <2>3 DEF Intact, Byte, Elem
<1>6. ItInv'
  <2>1. it'.buf = b /\ it'.pos = pos[b] /\ left' <= Len(stack'[b])
    BY <1>1, <1>2
  <2> QED BY <2>1, <1>1, <1>2 DEF ItInv, Above, Elem
<1> QED BY Zenon, <1>3, <1>4, <1>5, <1>6 DEF IInv

\* The iterator reads the element below and leaves the buffer alone.
LEMMA IteratorReadInv ==
  ASSUME IInv, IteratorRead
  PROVE  IInv'
<1> DEFINE b == it.buf
<1>1. /\ it # None /\ have_data(b, it.pos, Elem(b))
      /\ held' = Reading(b, it.pos, stack[b][left])
      /\ it' = [it EXCEPT !.pos = past(b, @)] /\ left' = left - 1
      /\ mem' = mem /\ start' = start /\ end' = end /\ pos' = pos /\ gap' = gap /\ stack' = stack
  BY DEF IteratorRead, fields
<1>2. /\ it \in [buf : Bufs, pos : Nat] /\ b \in Bufs /\ left \in Nat /\ left <= Len(stack[b])
      /\ Len(stack[b]) \in Nat /\ it.pos = Above(b, left)
  <2>1. it \in [buf : Bufs, pos : Nat] /\ b \in Bufs /\ left \in Nat /\ stack[b] \in Seq(Values)
    BY <1>1 DEF IInv, TypeInv
  <2> QED BY <2>1, <1>1 DEF IInv, ItInv, Above
<1> HIDE DEF b
<1>3. /\ left > 0 /\ past(b, it.pos) = Above(b, left - 1) /\ past(b, it.pos) \in Nat
      /\ LET r == Reading(b, it.pos, stack[b][left])
         IN  /\ r \in [buf : Bufs, val : Values, p1 : Nat, p2 : Nat]
             /\ r.p2 = r.p1 + S1[b]
             /\ IF b = "F" THEN r.p1 + Elem("F") <= pos["F"]
                           ELSE pos["B"] <= r.p1 /\ r.p1 + Elem("B") <= Size
             /\ \A j \in 0..Elem(b) - 1 : mem[r.p1 + j] = Byte(b, stack[b][left], j)
  <2>1. left \in 0..Len(stack[b])
    BY <1>2
  <2>2. GoodReading(b, left, Above(b, left))
    BY Zenon, <1>1, <1>2, <2>1, ReadingInv
  <2> QED BY Zenon, <1>2, <2>2 DEF GoodReading
<1>4. it' = [buf |-> b, pos |-> Above(b, left - 1)] /\ left - 1 \in Nat /\ Above(b, left - 1) \in Nat
  BY SMTT(30), <1>1, <1>2, <1>3 DEF b
<1>5. TypeInv'
  <2>1. held' \in [buf : Bufs, val : Values, p1 : Nat, p2 : Nat]
    BY <1>1, <1>3
  <2>2. it' \in [buf : Bufs, pos : Nat] /\ left' \in Nat
    BY <1>1, <1>2, <1>4
  <2>3. mem' = mem /\ start' = start /\ end' = end /\ pos' = pos /\ gap' = gap /\ stack' = stack
    BY <1>1
  <2> QED BY Zenon, <2>1, <2>2, <2>3 DEF IInv, TypeInv
<1>6. Layout'
  BY <1>1 DEF IInv, Layout
<1>7. Intact'
  BY <1>1 DEF IInv, Intact, used_size, Slot, Elem, Byte
<1>8. ItInv'
  <2>1. it'.buf = b /\ it'.pos = Above(b, left - 1) /\ left' = left - 1 /\ left' <= Len(stack'[b])
    BY <1>1, <1>2, <1>4
  <2> QED BY <2>1, <1>1 DEF ItInv, Above, Elem
<1>9. HeldInv'
  <2>1. /\ held'.buf = b /\ held'.val = stack[b][left] /\ held'.p1 \in Nat
        /\ held'.p2 = held'.p1 + S1[b]
        /\ IF b = "F" THEN held'.p1 + Elem("F") <= pos["F"]
                      ELSE pos["B"] <= held'.p1 /\ held'.p1 + Elem("B") <= Size
        /\ \A j \in 0..Elem(b) - 1 : mem[held'.p1 + j] = Byte(b, stack[b][left], j)
    BY Zenon, <1>1, <1>3 DEF Reading
  <2>2. IF b = "F" THEN held'.p1 + Elem("F") <= end["F"]
                   ELSE end["F"] <= held'.p1 /\ held'.p1 + Elem("B") <= Size
    <3>1. /\ pos["F"] <= end["F"] /\ end["F"] <= pos["B"]
          /\ pos["F"] \in Nat /\ pos["B"] \in Nat /\ end["F"] \in Nat
      <4>1. gap # None => gap \in [s : Nat, e : Nat]
        BY DEF IInv, TypeInv
      <4> QED BY <4>1 DEF IInv, TypeInv, Layout, Bufs
    <3>2. Elem("F") \in Nat /\ Elem("B") \in Nat
      BY Sizes DEF Bufs
    <3> QED BY <2>1, <3>1, <3>2
  <2> QED BY <2>1, <2>2, <1>1 DEF HeldInv, Elem, Byte
<1> QED BY <1>5, <1>6, <1>7, <1>8, <1>9 DEF IInv

-----------------------------------------------------------------------------

\* IInv holds throughout: one lemma above for each action.
LEMMA Inductive == Spec => []IInv
<1>1. IInv /\ [Next]_vars => IInv'
  <2> SUFFICES ASSUME IInv, [Next]_vars PROVE IInv'
    OBVIOUS
  <2>1. ASSUME NEW x \in 0..Size, SetSpace(x) PROVE IInv'
    BY <2>1, SetSpaceInv
  <2>2. ASSUME NEW b \in Bufs, read(b) PROVE IInv'
    BY <2>2, ReadInv
  <2>3. ASSUME NEW b \in Bufs, sort(b) PROVE IInv'
    BY <2>3, SortInv
  <2>4. ASSUME NEW b \in Bufs, init(b) PROVE IInv'
    BY <2>4, IterInitInv
  <2>5. ASSUME NEW b \in Bufs, NEW v \in Values, write(b, v) PROVE IInv'
    BY <2>5, WriteInv
  <2>6. CASE remove_unused_space
    BY <2>6, RemoveInv
  <2>7. CASE grow
    BY <2>7, GrowInv
  <2>8. CASE IteratorRead
    BY <2>8, IteratorReadInv
  <2>9. CASE UNCHANGED vars
    <3>1. /\ mem' = mem /\ start' = start /\ end' = end /\ pos' = pos /\ gap' = gap
          /\ it' = it /\ held' = held /\ stack' = stack /\ left' = left
      BY Zenon, <2>9 DEF vars, fields
    <3>2. TypeInv' /\ Layout'
      BY Zenon, <3>1 DEF IInv, TypeInv, Layout
    <3>3. Intact'
      BY SMTT(30), <3>1 DEF IInv, Intact, used_size, Slot, Elem, Byte
    <3>4. ItInv' /\ HeldInv'
      BY <3>1 DEF IInv, ItInv, HeldInv, Elem, Byte
    <3> QED BY <3>2, <3>3, <3>4 DEF IInv
  <2> QED BY <2>1, <2>2, <2>3, <2>4, <2>5, <2>6, <2>7, <2>8, <2>9 DEF Next
<1> QED BY <1>1, InitInv, PTL DEF Spec

\* For every size of the memory and of the elements: the buffers never overlap,
\* and grow is called with the space that begins where F ends.
THEOREM LayoutTheorem == Spec => []Layout
<1>1. IInv => Layout
  BY DEF IInv
<1> QED BY <1>1, Inductive, PTL

\* Both buffers are last in, first out, whatever the other one and the caller
\* do with the space between them, and sort rearranges whole elements.
THEOREM IntactTheorem == Spec => []Intact
<1>1. IInv => Intact
  BY Zenon DEF IInv
<1> QED BY <1>1, Inductive, PTL

\* The pointers of a read or of an iterator stay good until the buffer itself
\* is written to or, for B, its free space is given away.
THEOREM HeldTheorem == Spec => []HeldIntact
<1>1. IInv => HeldIntact
  <2> SUFFICES ASSUME IInv, held # None PROVE HeldIntact
    BY Zenon DEF HeldIntact
  <2> DEFINE b == held.buf
             x == S1[b]
             y == S2[b]
             h == held.p1
  <2>1. b \in Bufs /\ h \in Nat /\ held.p2 = h + x
    BY Zenon DEF IInv, TypeInv, HeldInv
  <2>2. x \in Nat /\ y \in Nat /\ Elem(b) = x + y
    BY Zenon, <2>1, Sizes
  <2>3. \A j \in 0..(x + y) - 1 : mem[h + j] = Byte(b, held.val, j)
    BY <2>2 DEF IInv, HeldInv
  <2>4. \A j : Byte(b, held.val, j) = IF j < x THEN <<held.val, 1, j>> ELSE <<held.val, 2, j - x>>
    BY DEF Byte
  <2> HIDE DEF b, x, y, h
  <2>5. ASSUME NEW j \in 0..x - 1 PROVE mem[h + j] = <<held.val, 1, j>>
    <3>1. j \in 0..(x + y) - 1 /\ j < x
      BY <2>2
    <3> QED BY Zenon, <3>1, <2>3, <2>4
  <2>6. ASSUME NEW j \in 0..y - 1 PROVE mem[(h + x) + j] = <<held.val, 2, j>>
    <3>1. x + j \in 0..(x + y) - 1 /\ ~(x + j < x) /\ (x + j) - x = j /\ h + (x + j) = (h + x) + j
      BY <2>1, <2>2
    <3>2. mem[h + (x + j)] = <<held.val, 2, (x + j) - x>>
      BY Zenon, <3>1, <2>3, <2>4
    <3> QED BY <3>1, <3>2
  <2> QED BY Zenon, <2>1, <2>5, <2>6 DEF HeldIntact, b, x, y, h
<1> QED BY <1>1, Inductive, PTL

=============================================================================

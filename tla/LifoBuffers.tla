---------------------------- MODULE LifoBuffers ----------------------------
(***************************************************************************)
(* sql_lifo_buffer.h: a Forward_lifo_buffer ("F") and a                    *)
(* Backward_lifo_buffer ("B") that share one piece of memory, F before B,  *)
(* and a Lifo_buffer_iterator.  The space that B frees is handed to F.     *)
(* Addresses are 0..Size, and an element of a buffer is a value written as *)
(* S1[b] bytes followed by S2[b] bytes.                                    *)
(***************************************************************************)
EXTENDS Integers, Sequences

CONSTANTS
  Size,        \* of the memory shared by the buffers
  Values,      \* of elements; cmp_func compares them as integers
  S1, S2,      \* buffer -> size1, size2
  None

ASSUME LifoAssumption ==
  /\ Size \in Nat /\ Values \subseteq Int
  /\ S1 \in [{"F", "B"} -> Nat \ {0}] /\ S2 \in [{"F", "B"} -> Nat]
  /\ None \notin [s : Nat, e : Nat]

VARIABLES
  mem,         \* address -> byte: value, part and place in the part
  start, end, pos,  \* fields of the buffers
  gap,         \* space taken from B that the caller has not given to F yet
  it,          \* Lifo_buffer_iterator: buf and pos; None before init
  held,        \* history: what the last read returned, while it can be used
  stack,       \* history: buffer -> values written and not read
  left         \* history: number of elements the iterator has still to visit

fields == <<start, end, pos>>
vars == <<mem, fields, gap, it, held, stack, left>>

Bufs == {"F", "B"}
Elem(b) == S1[b] + S2[b]

Trash == None

\* Byte j of the element v of buffer b.
Byte(b, v, j) == IF j < S1[b] THEN <<v, 1, j>> ELSE <<v, 2, j - S1[b]>>

\* Memory with the element v of b at address a, and with trash from s to e.
Written(b, v, a) == [k \in DOMAIN mem |-> IF k \in a..a + Elem(b) - 1 THEN Byte(b, v, k - a) ELSE mem[k]]
Trashed(s, e) == [k \in DOMAIN mem |-> IF k \in s..e - 1 THEN Trash ELSE mem[k]]

used_size(b) == IF b = "F" THEN pos[b] - start[b] ELSE end[b] - pos[b]
used_area(b) == IF b = "F" THEN start[b] ELSE pos[b]

have_space_for(b, bytes) ==
  IF b = "F" THEN pos[b] + bytes < end[b] ELSE pos[b] - bytes >= start[b]

have_data(b, p, bytes) == (IF b = "F" THEN p - start[b] ELSE end[b] - p) >= bytes

ptr1Above(b, p) == IF b = "F" THEN p - S1[b] ELSE p

\* The two pointers that read sets, and where it leaves the position.
ptr1(b, p) == IF b = "F" THEN p - S2[b] - S1[b] ELSE p
ptr2(b, p) == IF b = "F" THEN p - S2[b] ELSE p + S1[b]
past(b, p) == IF b = "F" THEN p - S2[b] - S1[b] ELSE p + S1[b] + S2[b]

\* What a reader has in hand once it has read element v of b at position p.
Reading(b, p, v) == [buf |-> b, val |-> v, p1 |-> ptr1(b, p), p2 |-> ptr2(b, p)]

-----------------------------------------------------------------------------

\* set_buffer_space of the two buffers, that meet at x.
SetSpace(x) ==
  /\ start' = [b \in Bufs |-> IF b = "F" THEN 0 ELSE x]
  /\ end' = [b \in Bufs |-> IF b = "F" THEN x ELSE Size]
  /\ pos' = [b \in Bufs |-> IF b = "F" THEN start'[b] ELSE end'[b]]
  /\ mem' = [k \in 0..Size - 1 |-> Trash]
  /\ stack' = [b \in Bufs |-> <<>>]
  /\ gap' = None /\ it' = None /\ held' = None /\ left' = 0

Init ==
  \E x \in 0..Size :
    /\ start = [b \in Bufs |-> IF b = "F" THEN 0 ELSE x]
    /\ end = [b \in Bufs |-> IF b = "F" THEN x ELSE Size]
    /\ pos = [b \in Bufs |-> IF b = "F" THEN 0 ELSE Size]
    /\ mem = [k \in 0..Size - 1 |-> Trash]
    /\ stack = [b \in Bufs |-> <<>>]
    /\ gap = None /\ it = None /\ held = None /\ left = 0

\* An iterator and what was read are good until the buffer is written to.
Forget(b) ==
  /\ held' = IF held # None /\ held.buf = b THEN None ELSE held
  /\ it' = IF it # None /\ it.buf = b THEN None ELSE it
  /\ left' = IF it # None /\ it.buf = b THEN 0 ELSE left

\* Callers ask can_write before they write.
write(b, v) ==
  LET a == IF b = "F" THEN pos[b] ELSE pos[b] - Elem(b)
  IN  /\ have_space_for(b, Elem(b))
      /\ mem' = Written(b, v, a)
      /\ pos' = [pos EXCEPT ![b] = IF b = "F" THEN @ + Elem(b) ELSE a]
      /\ stack' = [stack EXCEPT ![b] = Append(@, v)]
      /\ Forget(b)
      /\ UNCHANGED <<start, end, gap>>

read(b) ==
  /\ have_data(b, pos[b], Elem(b))
  /\ pos' = [pos EXCEPT ![b] = past(b, @)]
  /\ held' = Reading(b, pos[b], stack[b][Len(stack[b])])
  /\ stack' = [stack EXCEPT ![b] = SubSeq(@, 1, Len(@) - 1)]
  /\ it' = IF it # None /\ it.buf = b THEN None ELSE it
  /\ left' = IF it # None /\ it.buf = b THEN 0 ELSE left
  /\ UNCHANGED <<mem, start, end, gap>>

\* The m-th element in the order of the addresses is at Chunk(b, m).
Chunk(b, m) == used_area(b) + m * Elem(b)

n_elements(b) == used_size(b) \div Elem(b)

\* The n elements of b exchange their places: q[m] comes to the place of m.
Rearranged(b, n, q) ==
  /\ mem' = [k \in DOMAIN mem |->
               IF \E m \in 0..n - 1 : k \in Chunk(b, m)..Chunk(b, m) + Elem(b) - 1
               THEN LET m == (k - used_area(b)) \div Elem(b)
                    IN  mem[Chunk(b, q[m]) + (k - Chunk(b, m))]
               ELSE mem[k]]
  /\ stack' = [stack EXCEPT ![b] = [i \in 1..Len(@) |->
                 IF b = "F" THEN @[q[i - 1] + 1] ELSE @[n - q[n - i]]]]

\* my_qsort2 puts the elements in ascending order of their addresses.
sort(b) ==
  /\ \E q \in [0..n_elements(b) - 1 -> 0..n_elements(b) - 1] :
       /\ \A i, j \in DOMAIN q : i # j => q[i] # q[j]
       /\ \A i, j \in DOMAIN q : i < j => mem[Chunk(b, q[i])][1] <= mem[Chunk(b, q[j])][1]
       /\ Rearranged(b, n_elements(b), q)
  /\ Forget(b)
  /\ UNCHANGED <<fields, gap>>

removeKeepsStart ==
  /\ gap = None
  /\ gap' = [s |-> start["B"], e |-> pos["B"]]
  /\ UNCHANGED <<mem, fields, it, held, stack, left>>

remove_unused_space ==
  /\ gap = None
  /\ gap' = [s |-> start["B"], e |-> pos["B"]]
  /\ start' = [start EXCEPT !["B"] = pos["B"]]
  /\ UNCHANGED <<mem, end, pos, it, held, stack, left>>

\* What was read from B may lie in the space that F takes over.
grow ==
  /\ gap # None
  /\ mem' = Trashed(gap.s, gap.e)
  /\ end' = [end EXCEPT !["F"] = gap.e]
  /\ gap' = None
  /\ held' = IF held # None /\ held.buf = "B" THEN None ELSE held
  /\ UNCHANGED <<start, pos, it, stack, left>>

\* Lifo_buffer_iterator
init(b) ==
  /\ it' = [buf |-> b, pos |-> pos[b]] /\ left' = Len(stack[b])
  /\ UNCHANGED <<mem, fields, gap, held, stack>>

IteratorRead ==
  /\ it # None /\ have_data(it.buf, it.pos, Elem(it.buf))
  /\ held' = Reading(it.buf, it.pos, stack[it.buf][left])
  /\ it' = [it EXCEPT !.pos = past(it.buf, @)] /\ left' = left - 1
  /\ UNCHANGED <<mem, fields, gap, stack>>

Next ==
  \/ \E x \in 0..Size : SetSpace(x)
  \/ \E b \in Bufs : read(b) \/ sort(b) \/ init(b) \/ \E v \in Values : write(b, v)
  \/ remove_unused_space \/ grow \/ IteratorRead

Spec == Init /\ [][Next]_vars

-----------------------------------------------------------------------------
(* Properties.                                                             *)

\* The addresses of the buffers are in order, what is between the buffers is
\* with the caller, and so the assertion of grow (end == unused_start) holds.
Layout ==
  /\ 0 = start["F"] /\ start["F"] <= pos["F"] /\ pos["F"] <= end["F"]
  /\ start["B"] <= pos["B"] /\ pos["B"] <= end["B"] /\ end["B"] = Size
  /\ \/ gap = None /\ end["F"] = start["B"]
     \/ gap # None /\ end["F"] = gap.s /\ gap.s <= gap.e /\ gap.e = start["B"]

\* The address of the i-th element of b, from the bottom of its stack.
Slot(b, i) == IF b = "F" THEN start[b] + (i - 1) * Elem(b) ELSE end[b] - i * Elem(b)

\* Last in, first out: whatever the other buffer and the hand-over of space did
\* meanwhile, the bytes of every element that was not read yet are those that
\* write put there, at the place where the read after those above it looks.
Intact ==
  \A b \in Bufs :
    /\ used_size(b) = Len(stack[b]) * Elem(b)
    /\ \A i \in 1..Len(stack[b]), j \in 0..Elem(b) - 1 :
         mem[Slot(b, i) + j] = Byte(b, stack[b][i], j)

\* The pointers that a read of a buffer or of an iterator returned lead to the
\* bytes of the element at the top, or the next one down, in its two parts, and
\* keep doing so until that buffer is written or its free space is given away:
\* the writes of the other buffer never run over them.
HeldIntact ==
  held # None =>
    /\ \A j \in 0..S1[held.buf] - 1 : mem[held.p1 + j] = <<held.val, 1, j>>
    /\ \A j \in 0..S2[held.buf] - 1 : mem[held.p2 + j] = <<held.val, 2, j>>

=============================================================================

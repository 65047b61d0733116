--------------------------- MODULE HashFiloProofs ---------------------------
(***************************************************************************)
(* Proofs about HashFilo.tla: the chain and the hash table agree, and      *)
(* hash_filo implements LruCache.tla, for any entries, keys and sizes.     *)
(* The inductive invariant names the order that the links describe.        *)
(***************************************************************************)
EXTENDS HashFilo, FiniteSetTheorems, SequenceTheorems, WellFoundedInduction, TLAPS

-----------------------------------------------------------------------------
(* Follow.                                                                 *)

\* The entries of o, in this order, are met from e on along a field.
Path(o, e, field) ==
  /\ o \in Seq(Entries)
  /\ e = IF Len(o) = 0 THEN NULL ELSE o[1]
  /\ \A i \in 1..Len(o) : field[o[i]] = IF i = Len(o) THEN NULL ELSE o[i + 1]

\* Every non-empty set of numbers has a least element.
LEMMA Least ==
  ASSUME NEW S \in SUBSET Nat, S # {}
  PROVE  \E m \in S : \A n \in S : m <= n
<1>1. PICK m \in S : \A n \in S : ~(<<n, m>> \in OpToRel(<, Nat))
  BY Zenon, NatLessThanWellFounded, WFMin
<1>2. \A n \in S : n \in Nat /\ ~(n < m)
  BY Zenon, <1>1 DEF OpToRel
<1> QED BY <1>2

\* One step along a field.
Step(e, field, f, i) ==
  IF i = 1 THEN e ELSE IF f[i - 1] = NULL THEN NULL ELSE field[f[i - 1]]

\* Along a path, the steps are the entries of the path and then NULL.
LEMMA StepsAre ==
  ASSUME NEW o, NEW e, NEW field, Path(o, e, field)
  PROVE  Steps(e, field) = [i \in 1..Cardinality(Entries) + 1 |-> IF i <= Len(o) THEN o[i] ELSE NULL]
<1>1. PICK N \in Nat : N = Cardinality(Entries) + 1
  BY HashFiloAssumption, FS_CardinalityType
<1> DEFINE at == Steps(e, field)
           g == [i \in 1..N |-> IF i <= Len(o) THEN o[i] ELSE NULL]
<1>2. at = CHOOSE f : f = [i \in 1..N |-> Step(e, field, f, i)]
  BY <1>1 DEF Steps, Step
<1>3. o \in Seq(Entries) /\ Len(o) \in Nat /\ \A i \in 1..Len(o) : o[i] \in Entries
  BY DEF Path
<1>4. ASSUME NEW i \in 1..N PROVE g[i] = Step(e, field, g, i)
  <2>1. CASE i = 1
    BY <1>3, <2>1 DEF Path, Step
  <2>2. CASE i # 1
    <3>1. i - 1 \in 1..N /\ g[i - 1] = IF i - 1 <= Len(o) THEN o[i - 1] ELSE NULL
      BY <2>2
    <3>2. g[i] = IF i <= Len(o) THEN o[i] ELSE NULL
      OBVIOUS
    <3> HIDE DEF g
    <3>3. CASE i - 1 <= Len(o)
      <4>1. i - 1 \in 1..Len(o) /\ (i - 1) + 1 = i
        BY <1>3, <2>2, <3>3
      <4>2. field[o[i - 1]] = IF i - 1 = Len(o) THEN NULL ELSE o[i]
        BY <4>1 DEF Path
      <4>3. g[i - 1] = o[i - 1] /\ o[i - 1] # NULL
        BY Zenon, <1>3, <3>1, <3>3, <4>1, HashFiloAssumption
      <4>4. i <= Len(o) <=> i - 1 # Len(o)
        BY <1>3, <4>1
      <4> QED BY Zenon, <2>2, <3>2, <4>2, <4>3, <4>4 DEF Step
    <3>4. CASE ~(i - 1 <= Len(o))
      <4>1. ~(i <= Len(o))
        BY <1>3, <3>4
      <4> QED BY Zenon, <2>2, <3>1, <3>2, <3>4, <4>1 DEF Step
    <3> QED BY <3>3, <3>4
  <2> QED BY <2>1, <2>2
<1>5. g = [i \in 1..N |-> Step(e, field, g, i)]
  <2>1. g = [i \in 1..N |-> g[i]]
    OBVIOUS
  <2> HIDE DEF g
  <2> QED BY <1>4, <2>1, Zenon
<1>6. at = [i \in 1..N |-> Step(e, field, at, i)]
  <2> HIDE DEF at, g
  <2>1. \E f : f = [i \in 1..N |-> Step(e, field, f, i)]
    BY <1>5
  <2> QED BY <1>2, <2>1, Zenon
<1>7. \A i \in 1..N : at[i] = g[i]
  <2> HIDE DEF at, g
  <2> DEFINE Bad == {i \in 1..N : at[i] # g[i]}
  <2> SUFFICES ASSUME Bad # {} PROVE FALSE
    OBVIOUS
  <2>1. PICK m \in Bad : \A n \in Bad : m <= n
    <3>1. Bad \in SUBSET Nat
      OBVIOUS
    <3> HIDE DEF Bad
    <3> QED BY <3>1, Least
  <2>2. at[m] = Step(e, field, at, m) /\ g[m] = Step(e, field, g, m)
    BY <1>4, <1>6, Zenon
  <2>3. m # 1
    BY <2>2 DEF Step
  <2>4. m - 1 \in 1..N /\ m - 1 \notin Bad
    BY <2>1, <2>3
  <2>5. at[m - 1] = g[m - 1]
    BY <2>4
  <2> QED BY <2>2, <2>3, <2>5 DEF Step
<1>8. at = g
  <2>1. DOMAIN at = 1..N
    <3> HIDE DEF at
    <3> QED BY <1>6, Zenon
  <2>2. at = [i \in 1..N |-> at[i]]
    <3> HIDE DEF at, g
    <3> QED BY <1>6, Zenon
  <2>3. g = [i \in 1..N |-> g[i]]
    OBVIOUS
  <2> HIDE DEF at, g
  <2> QED BY <1>7, <2>2, <2>3, Zenon
<1> QED BY <1>1, <1>8

\* Follow finds the path.
LEMMA FollowIs ==
  ASSUME NEW o, NEW e, NEW field, Path(o, e, field), Len(o) <= Cardinality(Entries)
  PROVE  Follow(e, field) = o
<1>1. PICK N \in Nat : N = Cardinality(Entries) + 1
  BY HashFiloAssumption, FS_CardinalityType
<1>2. PICK at : at = Steps(e, field)
  OBVIOUS
<1>3. at = [i \in 1..N |-> IF i <= Len(o) THEN o[i] ELSE NULL]
  BY <1>1, <1>2, StepsAre
<1>4. o \in Seq(Entries) /\ Len(o) \in Nat /\ Len(o) < N /\ \A i \in 1..Len(o) : o[i] \in Entries
  BY <1>1, HashFiloAssumption, FS_CardinalityType DEF Path
<1>5. {j \in DOMAIN at : at[j] # NULL} = 1..Len(o)
  <2>1. DOMAIN at = 1..N
    BY <1>3
  <2>2. ASSUME NEW j \in 1..N PROVE at[j] # NULL <=> j \in 1..Len(o)
    <3>1. at[j] = IF j <= Len(o) THEN o[j] ELSE NULL
      BY <1>3
    <3>2. j <= Len(o) <=> j \in 1..Len(o)
      BY <1>4
    <3> QED BY <1>4, <3>1, <3>2, HashFiloAssumption
  <2>3. 1..Len(o) \subseteq 1..N
    BY <1>4
  <2> QED BY <2>1, <2>2, <2>3, Zenon
<1>6. Cardinality(1..Len(o)) = Len(o)
  <2>1. PICK n \in Nat : n = Len(o)
    BY <1>4
  <2>2. 1 \in Int /\ n \in Int
    BY <2>1
  <2>3. Cardinality(1..n) = IF 1 > n THEN 0 ELSE n - 1 + 1
    BY <2>2, FS_Interval, Zenon
  <2> QED BY <2>1, <2>3
<1>7. Follow(e, field) = [i \in 1..Len(o) |-> at[i]]
  BY Zenon, <1>2, <1>5, <1>6 DEF Follow
<1>8. \A i \in 1..Len(o) : at[i] = o[i]
  BY <1>3, <1>4
<1> QED BY <1>4, <1>7, <1>8

-----------------------------------------------------------------------------
(* The order that the links describe.                                      *)

\* The entries of o are met in the opposite order from e on along a field.
Backwards(o, e, field) ==
  /\ e = IF Len(o) = 0 THEN NULL ELSE o[Len(o)]
  /\ \A i \in 1..Len(o) : field[o[i]] = IF i = 1 THEN NULL ELSE o[i - 1]

\* The entries of o are those of C, each once.
Holds(o, C) ==
  /\ \A i, j \in 1..Len(o) : o[i] = o[j] => i = j
  /\ \A x : x \in C <=> \E i \in 1..Len(o) : x = o[i]
  /\ Cardinality(C) = Len(o)

Linked(o, C, f, l, nx, pv) == Path(o, f, nx) /\ Backwards(o, l, pv) /\ Holds(o, C)

Fields == [Entries -> Links]

\* Backwards is a path for the reversed order.
LEMMA ReversePath ==
  ASSUME NEW o \in Seq(Entries), NEW e, NEW field, Backwards(o, e, field)
  PROVE  Path(Reversed(o), e, field) /\ Len(Reversed(o)) = Len(o)
<1>1. PICK n \in Nat : n = Len(o)
  OBVIOUS
<1>2. PICK r : r = Reversed(o)
  OBVIOUS
<1>3. r = [i \in 1..n |-> o[(n - i) + 1]]
  BY <1>1, <1>2 DEF Reversed
<1>4. r \in Seq(Entries) /\ Len(r) = n
  BY <1>1, <1>3
<1>5. \A i \in 1..n : (n - i) + 1 \in 1..n /\ r[i] = o[(n - i) + 1]
  BY <1>1, <1>3
<1>6. e = IF Len(r) = 0 THEN NULL ELSE r[1]
  <2>1. CASE n = 0
    BY <1>1, <1>4, <2>1 DEF Backwards
  <2>2. CASE n # 0
    <3>1. 1 \in 1..n /\ (n - 1) + 1 = n
      BY <2>2
    <3>2. r[1] = o[n]
      BY <1>5, <3>1
    <3> QED BY Zenon, <1>1, <1>4, <2>2, <3>2 DEF Backwards
  <2> QED BY <2>1, <2>2
<1>7. ASSUME NEW i \in 1..Len(r) PROVE field[r[i]] = IF i = Len(r) THEN NULL ELSE r[i + 1]
  <2>1. PICK j \in 1..n : j = (n - i) + 1 /\ r[i] = o[j]
    BY <1>4, <1>5
  <2>2. field[o[j]] = IF j = 1 THEN NULL ELSE o[j - 1]
    BY <1>1 DEF Backwards
  <2>3. j = 1 <=> i = n
    BY <1>4, <2>1
  <2>4. ASSUME i # n PROVE r[i + 1] = o[j - 1]
    <3>1. i + 1 \in 1..n /\ (n - (i + 1)) + 1 = j - 1
      BY <1>4, <2>1, <2>4
    <3> QED BY <1>5, <3>1
  <2> QED BY Zenon, <1>4, <2>1, <2>2, <2>3, <2>4
<1> QED BY Zenon, <1>1, <1>2, <1>4, <1>6, <1>7 DEF Path

\* What the entries of a linked order are.
LEMMA LinkedFacts ==
  ASSUME NEW o, NEW C, NEW f, NEW l, NEW nx, NEW pv, Linked(o, C, f, l, nx, pv)
  PROVE  /\ o \in Seq(Entries) /\ Len(o) \in Nat /\ C \subseteq Entries /\ IsFiniteSet(C)
         /\ Len(o) = Cardinality(C) /\ Len(o) <= Cardinality(Entries)
         /\ \A i \in 1..Len(o) : o[i] \in Entries /\ o[i] \in C /\ o[i] # NULL
         /\ \A i, j \in 1..Len(o) : o[i] = o[j] => i = j
<1>1. o \in Seq(Entries) /\ Len(o) \in Nat
  BY DEF Linked, Path
<1>2. C \subseteq Entries /\ \A i \in 1..Len(o) : o[i] \in Entries /\ o[i] \in C
  BY <1>1 DEF Linked, Holds
<1>3. IsFiniteSet(C) /\ Cardinality(C) <= Cardinality(Entries)
  <2>1. C \in SUBSET Entries
    BY <1>2
  <2> QED BY <2>1, HashFiloAssumption, FS_Subset, Zenon
<1>4. Len(o) = Cardinality(C) /\ \A i, j \in 1..Len(o) : o[i] = o[j] => i = j
  BY DEF Linked, Holds
<1> QED BY Zenon, <1>1, <1>2, <1>3, <1>4, HashFiloAssumption

\* No entries.
LEMMA LinkedEmpty == \A nx, pv : Linked(<<>>, {}, NULL, NULL, nx, pv)
<1>1. PICK o : o = <<>>
  OBVIOUS
<1>2. Len(o) = 0 /\ o \in Seq(Entries) /\ 1..Len(o) = {}
  BY <1>1
<1>3. Cardinality({}) = 0
  BY FS_EmptySet, Zenon
<1>4. ASSUME NEW nx, NEW pv PROVE Linked(o, {}, NULL, NULL, nx, pv)
  BY <1>2, <1>3 DEF Linked, Path, Backwards, Holds
<1> QED BY <1>1, <1>4

\* An empty sequence has no index.
LEMMA NoIndex == \A i \in 1..0 : FALSE
OBVIOUS

\* add takes the last entry off.
LEMMA TakeLast ==
  ASSUME NEW o, NEW C, NEW f, NEW l, NEW nx \in Fields, NEW pv, Linked(o, C, f, l, nx, pv), Len(o) # 0,
         NEW p, p = pv[l], NEW r, r = SubSeq(o, 1, Len(o) - 1)
  PROVE  Linked(r, C \ {l}, IF p = NULL THEN NULL ELSE f, p,
                IF p # NULL THEN [nx EXCEPT ![p] = NULL] ELSE nx, pv)
<1>1. /\ o \in Seq(Entries) /\ C \subseteq Entries /\ IsFiniteSet(C) /\ Len(o) = Cardinality(C)
      /\ \A i \in 1..Len(o) : o[i] \in Entries /\ o[i] \in C /\ o[i] # NULL
      /\ \A i, j \in 1..Len(o) : o[i] = o[j] => i = j
  BY Zenon, LinkedFacts
<1>2. PICK n \in Nat : n = Len(o) /\ n # 0
  BY <1>1
<1>3. r \in Seq(Entries) /\ Len(r) = n - 1 /\ \A i \in 1..n - 1 : r[i] = o[i]
  BY <1>1, <1>2
<1>4. l = o[n] /\ p = IF n = 1 THEN NULL ELSE o[n - 1]
  BY <1>1, <1>2 DEF Linked, Backwards
<1>5. p = NULL <=> n = 1
  BY <1>1, <1>2, <1>4
<1>6. Holds(r, C \ {l})
  <2>1. \A i, j \in 1..Len(r) : r[i] = r[j] => i = j
    BY <1>1, <1>2, <1>3
  <2>2. \A x : x \in C <=> \E i \in 1..Len(o) : x = o[i]
    BY DEF Linked, Holds
  <2>3. \A x : x \in C \ {l} <=> \E i \in 1..Len(r) : x = r[i]
    <3>1. \A i \in 1..n : i = n \/ i \in 1..n - 1
      BY <1>2
    <3>2. \A i \in 1..n - 1 : i \in 1..n /\ i # n
      BY <1>2
    <3>3. \A i \in 1..n - 1 : o[i] # l
      BY <1>1, <1>2, <1>4, <3>2
    <3>4. \A i \in 1..n : o[i] # l => \E j \in 1..n - 1 : o[i] = r[j]
      BY Zenon, <1>3, <1>4, <3>1
    <3>5. \A j \in 1..n - 1 : \E i \in 1..n : r[j] = o[i]
      BY Zenon, <1>3, <3>2
    <3>6. \A j \in 1..n - 1 : r[j] # l
      BY Zenon, <1>3, <3>3
    <3>7. Len(o) = n /\ Len(r) = n - 1
      BY Zenon, <1>2, <1>3
    <3>8. ASSUME NEW x, x \in C \ {l} PROVE \E j \in 1..Len(r) : x = r[j]
      <4>1. PICK i \in 1..n : x = o[i]
        BY Zenon, <2>2, <3>7, <3>8
      <4> QED BY Zenon, <3>4, <3>7, <3>8, <4>1
    <3>9. ASSUME NEW x, NEW j \in 1..Len(r), x = r[j] PROVE x \in C \ {l}
      <4>1. x # l /\ \E i \in 1..n : x = o[i]
        BY Zenon, <3>5, <3>6, <3>7, <3>9
      <4> QED BY Zenon, <2>2, <3>7, <4>1
    <3> QED BY Zenon, <3>8, <3>9
  <2>4. Cardinality(C \ {l}) = Len(r)
    <3>1. l \in C
      BY <1>1, <1>2, <1>4
    <3>2. Cardinality(C \ {l}) = Cardinality(C) - 1
      BY Zenon, <1>1, <3>1, FS_RemoveElement
    <3> QED BY Zenon, <1>1, <1>2, <1>3, <3>2
  <2> QED BY Zenon, <2>1, <2>3, <2>4 DEF Holds
<1>7. Backwards(r, p, pv)
  <2>1. p = IF Len(r) = 0 THEN NULL ELSE r[Len(r)]
    BY <1>2, <1>3, <1>4
  <2>2. ASSUME NEW i \in 1..Len(r) PROVE pv[r[i]] = IF i = 1 THEN NULL ELSE r[i - 1]
    <3>1. i \in 1..Len(o) /\ r[i] = o[i] /\ (i # 1 => r[i - 1] = o[i - 1])
      BY <1>2, <1>3
    <3>2. pv[o[i]] = IF i = 1 THEN NULL ELSE o[i - 1]
      BY Zenon, <3>1 DEF Linked, Backwards
    <3> QED BY Zenon, <3>1, <3>2
  <2> QED BY Zenon, <2>1, <2>2 DEF Backwards
<1>8. CASE n = 1
  <2>1. Len(r) = 0
    BY <1>3, <1>8
  <2>2. \A i \in 1..Len(r) : FALSE
    BY Zenon, <2>1, NoIndex
  <2>3. Path(r, NULL, nx)
    BY Zenon, <1>3, <2>1, <2>2 DEF Path
  <2> QED BY Zenon, <1>5, <1>6, <1>7, <1>8, <2>3 DEF Linked
<1>9. CASE n # 1
  <2> DEFINE nx2 == [nx EXCEPT ![p] = NULL]
  <2>1. f = r[1] /\ Len(r) # 0
    <3>1. f = o[1]
      BY Zenon, <1>2 DEF Linked, Path
    <3> QED BY <1>2, <1>3, <1>9, <3>1
  <2>2. ASSUME NEW i \in 1..Len(r) PROVE nx2[r[i]] = IF i = Len(r) THEN NULL ELSE r[i + 1]
    <3>1. /\ i \in 1..n /\ r[i] = o[i] /\ (i # n - 1 => r[i + 1] = o[i + 1]) /\ i # n /\ n - 1 \in 1..n
          /\ o[i] \in Entries
      BY <1>1, <1>2, <1>3, <1>9
    <3>2. nx[o[i]] = o[i + 1]
      BY Zenon, <1>2, <3>1 DEF Linked, Path
    <3>3. o[i] = p <=> i = n - 1
      BY Zenon, <1>1, <1>2, <1>4, <1>9, <3>1
    <3>4. nx2[o[i]] = IF o[i] = p THEN NULL ELSE nx[o[i]]
      BY Zenon, <3>1 DEF Fields
    <3> HIDE DEF nx2
    <3> QED BY Zenon, <1>3, <3>1, <3>2, <3>3, <3>4
  <2> HIDE DEF nx2
  <2>3. Path(r, f, nx2)
    BY Zenon, <1>3, <2>1, <2>2 DEF Path
  <2> QED BY Zenon, <1>5, <1>6, <1>7, <1>9, <2>3 DEF Linked, nx2
<1> QED BY Zenon, <1>8, <1>9

\* t is r with e in front.
OneMore(S, e, r, t) ==
  /\ t \in Seq(S) /\ Len(t) = Len(r) + 1 /\ t[1] = e
  /\ \A i \in 1..Len(r) : t[i + 1] = r[i]

\* An element in front of a sequence.
LEMMA InFront ==
  ASSUME NEW S, NEW e \in S, NEW r \in Seq(S), NEW t, t = <<e>> \o r
  PROVE  OneMore(S, e, r, t)
<1>1. PICK u : u = <<e>>
  OBVIOUS
<1>2. u \in Seq(S) /\ Len(u) = 1 /\ u[1] = e
  BY <1>1
<1>3. /\ t \in Seq(S) /\ Len(t) = Len(u) + Len(r)
      /\ \A i \in 1..Len(u) + Len(r) : t[i] = IF i <= Len(u) THEN u[i] ELSE r[i - Len(u)]
  <2>1. t = u \o r
    BY Zenon, <1>1
  <2> QED BY <1>2, <2>1, ConcatProperties
<1>4. Len(r) \in Nat
  OBVIOUS
<1> QED BY <1>2, <1>3, <1>4 DEF OneMore

\* What PutFirst makes of a chain r and its links.
Grown(e, r, f, l, nx, pv, t, l2, nx2, pv2) ==
  /\ t = <<e>> \o r /\ l2 = (IF f = NULL THEN e ELSE l) /\ nx2 = [nx EXCEPT ![e] = f]
  /\ pv2 = [x \in Entries |-> IF x = e THEN NULL ELSE IF x = f THEN e ELSE pv[x]]

\* add puts an entry first.
LEMMA AddFirst ==
  ASSUME NEW r, NEW C, NEW f, NEW l, NEW nx \in Fields, NEW pv \in Fields, Linked(r, C, f, l, nx, pv),
         NEW e \in Entries, e \notin C, NEW t, NEW l2, NEW nx2, NEW pv2,
         Grown(e, r, f, l, nx, pv, t, l2, nx2, pv2)
  PROVE  Linked(t, C \cup {e}, e, l2, nx2, pv2)
<1>1. /\ r \in Seq(Entries) /\ C \subseteq Entries /\ IsFiniteSet(C) /\ Len(r) = Cardinality(C)
      /\ \A i \in 1..Len(r) : r[i] \in Entries /\ r[i] \in C /\ r[i] # NULL
      /\ \A i, j \in 1..Len(r) : r[i] = r[j] => i = j
  BY LinkedFacts
<1>2. PICK n \in Nat : n = Len(r)
  BY <1>1
<1>3. /\ t \in Seq(Entries) /\ Len(t) = n + 1 /\ t[1] = e
      /\ \A i \in 1..n : t[i + 1] = r[i]
  BY <1>1, <1>2, InFront DEF OneMore, Grown
<1>4. \A i \in 1..n + 1 : i = 1 \/ (i - 1 \in 1..n /\ t[i] = r[i - 1] /\ t[i] # e)
  <2> SUFFICES ASSUME NEW i \in 1..n + 1, i # 1 PROVE i - 1 \in 1..n /\ t[i] = r[i - 1] /\ t[i] # e
    BY Zenon
  <2>1. i - 1 \in 1..n /\ (i - 1) + 1 = i
    OBVIOUS
  <2> QED BY <1>1, <1>2, <1>3, <2>1
<1>5. \A x \in Entries : /\ nx2[x] = IF x = e THEN f ELSE nx[x]
                         /\ pv2[x] = IF x = e THEN NULL ELSE IF x = f THEN e ELSE pv[x]
  BY Zenon DEF Fields, Grown
<1>6. /\ f = (IF n = 0 THEN NULL ELSE r[1]) /\ l = (IF n = 0 THEN NULL ELSE r[n])
      /\ \A i \in 1..n : nx[r[i]] = (IF i = n THEN NULL ELSE r[i + 1])
      /\ \A i \in 1..n : pv[r[i]] = (IF i = 1 THEN NULL ELSE r[i - 1])
  BY Zenon, <1>2 DEF Linked, Path, Backwards
<1>7. f = NULL <=> n = 0
  BY <1>1, <1>2, <1>6
<1>8. ASSUME NEW i \in 1..n + 1
      PROVE  /\ nx2[t[i]] = IF i = n + 1 THEN NULL ELSE t[i + 1]
             /\ pv2[t[i]] = IF i = 1 THEN NULL ELSE t[i - 1]
  <2>1. CASE i = 1
    <3>1. nx2[e] = f /\ pv2[e] = NULL
      BY Zenon, <1>5
    <3>2. n # 0 => t[1 + 1] = r[1]
      BY <1>3
    <3> QED BY <1>3, <1>6, <2>1, <3>1, <3>2
  <2>2. CASE i # 1
    <3>1. PICK j \in 1..n : j = i - 1 /\ i = j + 1 /\ t[i] = r[j] /\ t[i] # e /\ r[j] \in Entries
      BY <1>1, <1>2, <1>4, <2>2
    <3>2. nx2[r[j]] = nx[r[j]] /\ pv2[r[j]] = IF r[j] = f THEN e ELSE pv[r[j]]
      BY Zenon, <1>5, <3>1
    <3>3. nx[r[j]] = (IF j = n THEN NULL ELSE r[j + 1]) /\ pv[r[j]] = (IF j = 1 THEN NULL ELSE r[j - 1])
      BY <1>6
    <3>4. r[j] = f <=> j = 1
      <4>1. 1 \in 1..n /\ f = r[1]
        BY <1>6, <3>1
      <4> QED BY Zenon, <1>1, <1>2, <4>1
    <3>5. j # n => t[i + 1] = r[j + 1]
      <4> SUFFICES ASSUME j # n PROVE t[i + 1] = r[j + 1]
        BY Zenon
      <4>1. j + 1 \in 1..n /\ i + 1 = (j + 1) + 1
        BY <3>1
      <4> QED BY <1>3, <4>1
    <3>6. j # 1 => t[i - 1] = r[j - 1]
      <4> SUFFICES ASSUME j # 1 PROVE t[i - 1] = r[j - 1]
        BY Zenon
      <4>1. j - 1 \in 1..n /\ i - 1 = (j - 1) + 1
        BY <3>1
      <4> QED BY Zenon, <1>3, <4>1
    <3>7. j = 1 => t[i - 1] = e
      BY Zenon, <1>3, <3>1
    <3>8. j = n <=> i = n + 1
      BY <3>1
    <3> QED BY Zenon, <2>2, <3>1, <3>2, <3>3, <3>4, <3>5, <3>6, <3>7, <3>8
  <2> QED BY Zenon, <2>1, <2>2
<1>9. Holds(t, C \cup {e})
  <2>1. ASSUME NEW i \in 1..n + 1, NEW j \in 1..n + 1, t[i] = t[j] PROVE i = j
    <3>1. CASE i = 1 \/ j = 1
      BY Zenon, <1>3, <1>4, <2>1, <3>1
    <3>2. CASE i # 1 /\ j # 1
      <4>1. i - 1 \in 1..n /\ j - 1 \in 1..n /\ r[i - 1] = r[j - 1]
        BY Zenon, <1>4, <2>1, <3>2
      <4>2. i - 1 = j - 1
        BY Zenon, <1>1, <1>2, <4>1
      <4> QED BY <4>2
    <3> QED BY Zenon, <3>1, <3>2
  <2>2. \A x : x \in C <=> \E i \in 1..n : x = r[i]
    BY <1>2 DEF Linked, Holds
  <2>3. ASSUME NEW x, x \in C \cup {e} PROVE \E i \in 1..n + 1 : x = t[i]
    <3>1. CASE x = e
      BY <1>3, <3>1
    <3>2. CASE x \in C
      <4>1. PICK i \in 1..n : x = r[i]
        BY Zenon, <2>2, <3>2
      <4>2. i + 1 \in 1..n + 1 /\ t[i + 1] = x
        BY <1>3, <4>1
      <4> QED BY Zenon, <4>2
    <3> QED BY Zenon, <2>3, <3>1, <3>2
  <2>4. ASSUME NEW i \in 1..n + 1 PROVE t[i] \in C \cup {e}
    <3>1. i = 1 \/ t[i] \in C
      BY Zenon, <1>1, <1>2, <1>4
    <3> QED BY Zenon, <1>3, <3>1
  <2>5. Cardinality(C \cup {e}) = n + 1
    <3>1. Cardinality(C \cup {e}) = Cardinality(C) + 1
      BY Zenon, <1>1, FS_AddElement
    <3> QED BY Zenon, <1>1, <1>2, <3>1
  <2>6. \A x : x \in C \cup {e} <=> \E i \in 1..n + 1 : x = t[i]
    BY Zenon, <2>3, <2>4
  <2> QED BY Zenon, <1>3, <2>1, <2>5, <2>6 DEF Holds
<1>10. Path(t, e, nx2)
  BY <1>3, <1>8 DEF Path
<1>11. Backwards(t, l2, pv2)
  <2>1. n # 0 => t[n + 1] = r[n]
    BY <1>3
  <2>2. l2 = t[n + 1]
    BY <1>3, <1>6, <1>7, <2>1 DEF Grown
  <2> QED BY <1>3, <1>8, <2>2 DEF Backwards
<1> QED BY <1>9, <1>10, <1>11 DEF Linked

\* t is o with its k-th element in front.
Shifted(S, o, k, t) ==
  /\ t \in Seq(S) /\ Len(t) = Len(o)
  /\ \A i \in 1..Len(o) : t[i] = IF i = 1 THEN o[k] ELSE IF i <= k THEN o[i - 1] ELSE o[i]

RemoveAt(o, k) == SubSeq(o, 1, k - 1) \o SubSeq(o, k + 1, Len(o))

\* The elements from the i-th to the j-th.
Piece(S, o, i, j, a) ==
  a \in Seq(S) /\ Len(a) = j - i + 1 /\ \A x \in 1..(j - i + 1) : a[x] = o[i + x - 1]

\* What SubSeq is.
LEMMA Pieces ==
  ASSUME NEW S, NEW o \in Seq(S), NEW i \in 1..Len(o) + 1, NEW j \in (i - 1)..Len(o)
  PROVE  Piece(S, o, i, j, SubSeq(o, i, j))
BY SMTT(30) DEF Piece

\* The k-th element goes to the front.
LEMMA ToFront ==
  ASSUME NEW S, NEW o \in Seq(S), NEW n \in Nat, n = Len(o), NEW k \in 2..n,
         NEW t, t = <<o[k]>> \o RemoveAt(o, k)
  PROVE  Shifted(S, o, k, t)
<1>1. PICK a, b, r : a = SubSeq(o, 1, k - 1) /\ b = SubSeq(o, k + 1, n) /\ r = a \o b
  BY Zenon
<1>2. a \in Seq(S) /\ Len(a) = k - 1 /\ \A i \in 1..k - 1 : a[i] = o[i]
  <2>1. 1 \in 1..Len(o) + 1 /\ k - 1 \in (1 - 1)..Len(o)
    OBVIOUS
  <2>2. Piece(S, o, 1, k - 1, a)
    BY Zenon, <1>1, <2>1, Pieces
  <2> QED BY <2>2 DEF Piece
<1>3. b \in Seq(S) /\ Len(b) = n - k /\ \A i \in 1..n - k : b[i] = o[k + i]
  <2>1. k + 1 \in 1..Len(o) + 1 /\ n \in ((k + 1) - 1)..Len(o)
    OBVIOUS
  <2>2. Piece(S, o, k + 1, n, b)
    BY Zenon, <1>1, <2>1, Pieces
  <2> QED BY <2>2 DEF Piece
<1>4. /\ r \in Seq(S) /\ Len(r) = Len(a) + Len(b)
      /\ \A i \in 1..Len(a) + Len(b) : r[i] = IF i <= Len(a) THEN a[i] ELSE b[i - Len(a)]
  <2>1. a \in Seq(S) /\ b \in Seq(S) /\ r = a \o b
    BY Zenon, <1>1, <1>2, <1>3
  <2> QED BY <2>1, ConcatProperties, Zenon
<1>5. Len(r) = n - 1
  BY <1>2, <1>3, <1>4
<1>6. ASSUME NEW i \in 1..n - 1 PROVE r[i] = IF i < k THEN o[i] ELSE o[i + 1]
  <2>1. r[i] = IF i <= k - 1 THEN a[i] ELSE b[i - (k - 1)]
    <3>1. i \in 1..Len(a) + Len(b)
      BY <1>2, <1>3
    <3>2. r[i] = IF i <= Len(a) THEN a[i] ELSE b[i - Len(a)]
      BY Zenon, <1>4, <3>1
    <3> QED BY Zenon, <1>2, <3>2
  <2>2. CASE i < k
    <3>1. i \in 1..k - 1
      BY <2>2
    <3> QED BY <1>2, <2>1, <2>2, <3>1
  <2>3. CASE ~(i < k)
    <3>1. PICK j \in 1..n - k : j = i - (k - 1) /\ k + j = i + 1
      BY <2>3
    <3> QED BY SMTT(30), <1>3, <2>1, <2>3, <3>1
  <2> QED BY Zenon, <2>2, <2>3
<1>7. t = <<o[k]>> \o r /\ o[k] \in S
  BY <1>1 DEF RemoveAt
<1>8. t \in Seq(S) /\ Len(t) = n /\ t[1] = o[k] /\ \A i \in 1..n - 1 : t[i + 1] = r[i]
  <2>1. PICK e \in S : e = o[k]
    BY Zenon, <1>7
  <2>2. /\ t \in Seq(S) /\ Len(t) = Len(r) + 1 /\ t[1] = e
        /\ \A i \in 1..Len(r) : t[i + 1] = r[i]
    <3>1. t = <<e>> \o r /\ r \in Seq(S)
      BY Zenon, <1>4, <1>7, <2>1
    <3>2. OneMore(S, e, r, t)
      BY Zenon, <3>1, InFront
    <3> QED BY Zenon, <3>2 DEF OneMore
  <2>3. (n - 1) + 1 = n
    OBVIOUS
  <2>4. Len(t) = n
    BY Zenon, <1>5, <2>2, <2>3
  <2> QED BY <1>5, <2>1, <2>2, <2>4, Zenon
<1>9. ASSUME NEW i \in 1..n, i # 1 PROVE t[i] = IF i <= k THEN o[i - 1] ELSE o[i]
  <2>1. PICK j \in 1..n - 1 : j = i - 1 /\ i = j + 1
    BY <1>9
  <2>2. t[i] = IF j < k THEN o[j] ELSE o[j + 1]
    BY Zenon, <1>6, <1>8, <2>1
  <2>3. j < k <=> i <= k
    BY <2>1
  <2> QED BY Zenon, <2>1, <2>2, <2>3
<1> QED BY Zenon, <1>8, <1>9 DEF Shifted

\* The links once e stands before f, and its neighbours p and m are linked.
Spliced(f, e, p, m, nx, pv, nx2, pv2) ==
  \A x \in Entries :
    /\ nx2[x] = IF x = e THEN f ELSE IF x = p THEN m ELSE nx[x]
    /\ pv2[x] = IF x = f THEN e ELSE IF x = e THEN NULL ELSE IF x = m THEN p ELSE pv[x]

\* search brings an entry to the front.
LEMMA Relinked ==
  ASSUME NEW o, NEW C, NEW f, NEW l, NEW nx, NEW pv, Linked(o, C, f, l, nx, pv),
         NEW k \in 2..Len(o), NEW e, e = o[k], NEW p, p = pv[e], NEW m, m = nx[e],
         NEW t, Shifted(Entries, o, k, t), NEW nx2, NEW pv2,
         Spliced(f, e, p, m, nx, pv, nx2, pv2)
  PROVE  Linked(t, C, e, IF e = l THEN p ELSE l, nx2, pv2)
<1>1. /\ o \in Seq(Entries) /\ C \subseteq Entries /\ Len(o) = Cardinality(C)
      /\ \A i \in 1..Len(o) : o[i] \in Entries /\ o[i] \in C /\ o[i] # NULL
      /\ \A i, j \in 1..Len(o) : o[i] = o[j] => i = j
  BY Zenon, LinkedFacts
<1>2. PICK n \in Nat : n = Len(o) /\ k \in 2..n /\ n # 0
  BY <1>1
<1>3. /\ t \in Seq(Entries) /\ Len(t) = n
      /\ \A i \in 1..n : t[i] = IF i = 1 THEN o[k] ELSE IF i <= k THEN o[i - 1] ELSE o[i]
  BY Zenon, <1>2 DEF Shifted
<1>4. /\ f = o[1] /\ l = o[n]
      /\ \A i \in 1..n : nx[o[i]] = (IF i = n THEN NULL ELSE o[i + 1])
      /\ \A i \in 1..n : pv[o[i]] = (IF i = 1 THEN NULL ELSE o[i - 1])
  BY Zenon, <1>2 DEF Linked, Path, Backwards
<1>5. /\ p = o[k - 1] /\ m = (IF k = n THEN NULL ELSE o[k + 1])
      /\ k \in 1..n /\ k - 1 \in 1..n /\ 1 \in 1..n /\ n \in 1..n
  BY <1>2, <1>4
<1>6. \A i, j \in 1..n : o[i] = o[j] <=> i = j
  BY Zenon, <1>1, <1>2
<1>7. \A i \in 1..n : o[i] = m <=> i = k + 1
  <2> SUFFICES ASSUME NEW i \in 1..n PROVE o[i] = m <=> i = k + 1
    BY Zenon
  <2>1. CASE k = n
    BY <1>1, <1>2, <1>5, <2>1
  <2>2. CASE k # n
    <3>1. k + 1 \in 1..n
      BY <1>2, <2>2
    <3> QED BY <1>5, <1>6, <2>2, <3>1
  <2> QED BY Zenon, <2>1, <2>2
<1>8. ASSUME NEW i \in 1..n
      PROVE  /\ nx2[o[i]] = IF i = k THEN o[1] ELSE IF i = k - 1 THEN m ELSE IF i = n THEN NULL ELSE o[i + 1]
             /\ pv2[o[i]] = IF i = 1 THEN e ELSE IF i = k THEN NULL ELSE IF i = k + 1 THEN p ELSE o[i - 1]
  <2>1. o[i] \in Entries /\ (o[i] = e <=> i = k) /\ (o[i] = p <=> i = k - 1) /\ (o[i] = f <=> i = 1)
    BY <1>1, <1>2, <1>4, <1>5, <1>6
  <2>2. o[i] = m <=> i = k + 1
    BY <1>7
  <2>3. /\ nx2[o[i]] = (IF o[i] = e THEN f ELSE IF o[i] = p THEN m ELSE nx[o[i]])
        /\ pv2[o[i]] = (IF o[i] = f THEN e ELSE IF o[i] = e THEN NULL
                                     ELSE IF o[i] = m THEN p ELSE pv[o[i]])
    BY Zenon, <2>1 DEF Spliced
  <2>4. nx[o[i]] = (IF i = n THEN NULL ELSE o[i + 1]) /\ pv[o[i]] = (IF i = 1 THEN NULL ELSE o[i - 1])
    BY Zenon, <1>4
  <2> QED BY Zenon, <1>4, <2>1, <2>2, <2>3, <2>4
<1>9. ASSUME NEW i \in 1..n
      PROVE  /\ nx2[t[i]] = IF i = n THEN NULL ELSE t[i + 1]
             /\ pv2[t[i]] = IF i = 1 THEN NULL ELSE t[i - 1]
  <2>1. CASE i = 1
    <3>1. t[i] = o[k] /\ i + 1 \in 1..n /\ t[i + 1] = o[1] /\ i # n
      BY <1>2, <1>3, <2>1
    <3>2. nx2[o[k]] = o[1] /\ pv2[o[k]] = NULL
      BY <1>2, <1>5, <1>8
    <3> QED BY Zenon, <2>1, <3>1, <3>2
  <2>2. CASE i # 1 /\ i < k
    <3>1. PICK j \in 1..n : j = i - 1 /\ j # k /\ j # k - 1 /\ j # n /\ j # k + 1 /\ j + 1 = i /\ j < k
      BY <1>2, <2>2
    <3>2. t[i] = o[j] /\ t[i + 1] = o[i] /\ i # n
      <4>1. i + 1 \in 1..n /\ i + 1 # 1 /\ i + 1 <= k /\ (i + 1) - 1 = i /\ i # n /\ i <= k
        BY <1>2, <2>2
      <4>2. t[i] = o[i - 1] /\ t[i + 1] = o[(i + 1) - 1]
        BY Zenon, <1>3, <2>2, <4>1
      <4> QED BY Zenon, <3>1, <4>1, <4>2
    <3>3. nx2[o[j]] = o[i] /\ pv2[o[j]] = IF j = 1 THEN e ELSE o[j - 1]
      BY <1>8, <3>1
    <3>4. t[i - 1] = IF j = 1 THEN e ELSE o[j - 1]
      BY <1>3, <3>1
    <3> QED BY Zenon, <2>2, <3>2, <3>3, <3>4
  <2>3. CASE i = k
    <3>1. t[i] = o[k - 1] /\ k - 1 # k
      BY <1>2, <1>3, <2>3
    <3>2. nx2[o[k - 1]] = m /\ pv2[o[k - 1]] = IF k - 1 = 1 THEN e ELSE o[(k - 1) - 1]
      BY <1>2, <1>5, <1>8
    <3>3. m = IF i = n THEN NULL ELSE t[i + 1]
      <4>1. CASE k = n
        BY Zenon, <1>5, <2>3, <4>1
      <4>2. CASE k # n
        <5>1. k + 1 \in 1..n /\ k + 1 # 1 /\ ~(k + 1 <= k)
          BY <1>2, <4>2
        <5>2. t[k + 1] = o[k + 1]
          BY Zenon, <1>3, <5>1
        <5> QED BY Zenon, <1>5, <2>3, <4>2, <5>2
      <4> QED BY Zenon, <4>1, <4>2
    <3>4. t[i - 1] = IF k - 1 = 1 THEN e ELSE o[(k - 1) - 1]
      BY <1>2, <1>3, <1>5, <2>3
    <3>5. i # 1
      BY <1>2, <2>3
    <3> QED BY Zenon, <3>1, <3>2, <3>3, <3>4, <3>5
  <2>4. CASE i > k
    <3>1. t[i] = o[i] /\ i # k /\ i # k - 1 /\ i # 1
      BY <1>2, <1>3, <2>4
    <3>2. i # n => t[i + 1] = o[i + 1]
      BY <1>2, <1>3, <2>4
    <3>3. t[i - 1] = IF i = k + 1 THEN p ELSE o[i - 1]
      <4>1. i - 1 \in 1..n /\ i - 1 # 1 /\ (i - 1 <= k <=> i = k + 1)
        BY <1>2, <2>4
      <4>2. t[i - 1] = IF i - 1 <= k THEN o[(i - 1) - 1] ELSE o[i - 1]
        BY Zenon, <1>3, <4>1
      <4>3. i = k + 1 => (i - 1) - 1 = k - 1
        BY <1>2
      <4> QED BY Zenon, <1>5, <4>1, <4>2, <4>3
    <3> QED BY <1>8, <3>1, <3>2, <3>3
  <2>5. i = 1 \/ (i # 1 /\ i < k) \/ i = k \/ i > k
    BY <1>2
  <2> QED BY Zenon, <2>1, <2>2, <2>3, <2>4, <2>5
<1>10. Holds(t, C)
  <2>1. ASSUME NEW i \in 1..n PROVE \E j \in 1..n : t[i] = o[j] /\ j = IF i = 1 THEN k ELSE IF i <= k THEN i - 1 ELSE i
    BY <1>2, <1>3, <1>5
  <2>2. ASSUME NEW i \in 1..n, NEW j \in 1..n, t[i] = t[j] PROVE i = j
    <3>1. PICK a \in 1..n : t[i] = o[a] /\ a = IF i = 1 THEN k ELSE IF i <= k THEN i - 1 ELSE i
      BY Zenon, <2>1
    <3>2. PICK b \in 1..n : t[j] = o[b] /\ b = IF j = 1 THEN k ELSE IF j <= k THEN j - 1 ELSE j
      BY Zenon, <2>1
    <3>3. a = b
      <4>1. o[a] = o[b]
        BY Zenon, <2>2, <3>1, <3>2
      <4> QED BY <1>6, <4>1
    <3> QED BY <1>2, <3>1, <3>2, <3>3
  <2>3. ASSUME NEW j \in 1..n PROVE \E i \in 1..n : o[j] = t[i]
    <3>1. CASE j = k
      BY Zenon, <1>3, <1>5, <3>1
    <3>2. CASE j < k
      <4>1. j + 1 \in 1..n /\ j + 1 # 1 /\ j + 1 <= k /\ (j + 1) - 1 = j
        BY <1>2, <3>2
      <4>2. t[j + 1] = o[j]
        BY Zenon, <1>3, <4>1
      <4> QED BY Zenon, <4>1, <4>2
    <3>3. CASE j > k
      <4>1. t[j] = o[j]
        BY SMTT(30), <1>2, <1>3, <3>3
      <4> QED BY Zenon, <4>1
    <3> QED BY <1>2, <3>1, <3>2, <3>3
  <2>4. \A x : x \in C <=> \E i \in 1..n : x = o[i]
    BY Zenon, <1>2 DEF Linked, Holds
  <2>5. ASSUME NEW x PROVE x \in C <=> \E i \in 1..n : x = t[i]
    <3>1. ASSUME x \in C PROVE \E i \in 1..n : x = t[i]
      <4>1. PICK j \in 1..n : x = o[j]
        BY Zenon, <2>4, <3>1
      <4> QED BY Zenon, <2>3, <4>1
    <3>2. ASSUME NEW i \in 1..n, x = t[i] PROVE x \in C
      <4>1. PICK j \in 1..n : t[i] = o[j]
        BY Zenon, <2>1
      <4> QED BY Zenon, <2>4, <3>2, <4>1
    <3> QED BY Zenon, <3>1, <3>2
  <2> QED BY SMTT(30), <1>1, <1>2, <1>3, <2>2, <2>5 DEF Holds
<1>11. Path(t, e, nx2)
  BY SMTT(30), <1>2, <1>3, <1>5, <1>9 DEF Path
<1>12. Backwards(t, IF e = l THEN p ELSE l, pv2)
  <2>1. (IF e = l THEN p ELSE l) = t[n]
    <3>1. e = l <=> k = n
      BY Zenon, <1>4, <1>5, <1>6
    <3>2. t[n] = IF n <= k THEN o[n - 1] ELSE o[n]
      BY <1>2, <1>3, <1>5
    <3>3. n <= k <=> k = n
      BY <1>2
    <3> QED BY Zenon, <1>4, <1>5, <3>1, <3>2, <3>3
  <2> QED BY Zenon, <1>2, <1>3, <1>9, <2>1 DEF Backwards
<1> QED BY Zenon, <1>10, <1>11, <1>12 DEF Linked

-----------------------------------------------------------------------------
(* The steps.                                                              *)

FieldInv == m_size \in Sizes /\ next_used \in Fields /\ prev_used \in Fields

\* The chain describes the order o of the entries of the hash table.
Ordering(o) == Linked(o, cache, first_link, last_link, next_used, prev_used)

HInv == FieldInv /\ \E o : Ordering(o)

\* The steps of LruCache.tla, for an order and the next.
Used(o, t) == \E k \in Keys : \E i \in DOMAIN o : KeyOf(o[i]) = k /\ t = <<o[i]>> \o RemoveAt(o, i)

RoomIn(o, s) == IF Len(o) = s THEN SubSeq(o, 1, Len(o) - 1) ELSE o

Entered(o, t, s) ==
  \E e \in Entries : s > 0 /\ (\A i \in DOMAIN o : o[i] # e) /\ t \in {<<e>> \o RoomIn(o, s), RoomIn(o, s)}

LruStep(o, t, s, u) ==
  \/ s = u /\ (t = o \/ Used(o, t) \/ Entered(o, t, s))
  \/ t = <<>> /\ u \in Sizes

\* search.
LEMMA SearchStep ==
  ASSUME FieldInv, NEW o, Ordering(o), NEW k \in Keys, search(k)
  PROVE  FieldInv' /\ \E t : Ordering(t)' /\ LruStep(o, t, m_size, m_size')
<1>1. PICK e \in cache : /\ KeyOf(e) = k /\ e # first_link /\ Relink(e)
                         /\ UNCHANGED <<ready, m_size, cache>>
  BY Zenon DEF search
<1>2. PICK C, f, l, nx, pv : /\ C = cache /\ f = first_link /\ l = last_link
                             /\ nx = next_used /\ pv = prev_used
  BY Zenon
<1>3. Linked(o, C, f, l, nx, pv) /\ nx \in Fields /\ pv \in Fields
  BY Zenon, <1>2 DEF Ordering, FieldInv
<1>4. /\ o \in Seq(Entries) /\ Len(o) \in Nat /\ C \subseteq Entries
      /\ \A i \in 1..Len(o) : o[i] \in Entries /\ o[i] \in C /\ o[i] # NULL
      /\ \A i, j \in 1..Len(o) : o[i] = o[j] => i = j
  BY Zenon, <1>3, LinkedFacts
<1>5. PICK i \in 1..Len(o) : e = o[i]
  BY Zenon, <1>1, <1>2, <1>3 DEF Linked, Holds
<1>6. /\ f = o[1] /\ l = o[Len(o)] /\ Len(o) # 0
      /\ nx[o[i]] = (IF i = Len(o) THEN NULL ELSE o[i + 1])
      /\ pv[o[i]] = (IF i = 1 THEN NULL ELSE o[i - 1])
  BY SMTT(30), <1>3, <1>4, <1>5 DEF Linked, Path, Backwards
<1>7. i \in 2..Len(o)
  BY SMTT(30), <1>1, <1>2, <1>4, <1>5, <1>6
<1>8. PICK p, m : p = pv[e] /\ m = nx[e]
  BY Zenon
<1>9. e \in Entries /\ f \in Entries /\ p \in Entries /\ m \in Links /\ (e = l <=> m = NULL) /\ e # f
  <2>1. p = o[i - 1] /\ i - 1 \in 1..Len(o) /\ 1 \in 1..Len(o) /\ Len(o) \in 1..Len(o)
    BY <1>4, <1>5, <1>6, <1>7, <1>8
  <2>2. e = l <=> i = Len(o)
    BY <1>4, <1>5, <1>6, <2>1
  <2>3. i # Len(o) => i + 1 \in 1..Len(o)
    BY <1>4
  <2>4. m = (IF i = Len(o) THEN NULL ELSE o[i + 1])
    BY Zenon, <1>5, <1>6, <1>8
  <2> QED BY Zenon, <1>1, <1>2, <1>4, <1>5, <1>6, <2>1, <2>2, <2>3, <2>4 DEF Links
<1> DEFINE nx1 == [nx EXCEPT ![p] = IF e = l THEN NULL ELSE m]
           pv1 == IF e = l THEN pv ELSE [pv EXCEPT ![m] = p]
           nx2 == [nx1 EXCEPT ![e] = f]
           pv2 == [pv1 EXCEPT ![e] = NULL, ![f] = e]
<1>10. /\ first_link' = e /\ last_link' = (IF e = l THEN p ELSE l)
       /\ next_used' = nx2 /\ prev_used' = pv2 /\ cache' = C /\ m_size' = m_size
  BY Zenon, <1>1, <1>2, <1>8 DEF Relink
<1>11. nx1 \in Fields /\ \A x \in Entries : nx1[x] = IF x = p THEN m ELSE nx[x]
  BY Zenon, <1>3, <1>9 DEF Fields, Links
<1>12. pv1 \in Fields /\ \A x \in Entries : pv1[x] = IF x = m THEN p ELSE pv[x]
  <2>1. CASE e = l
    BY Zenon, <1>3, <1>9, <2>1, HashFiloAssumption
  <2>2. CASE e # l
    BY Zenon, <1>3, <1>9, <2>2 DEF Fields, Links
  <2> QED BY Zenon, <2>1, <2>2
<1> HIDE DEF nx1, pv1
<1>13. nx2 \in Fields /\ \A x \in Entries : nx2[x] = IF x = e THEN f ELSE IF x = p THEN m ELSE nx[x]
  BY Zenon, <1>9, <1>11 DEF Fields, Links
<1>14. pv2 \in Fields /\ \A x \in Entries : pv2[x] = IF x = f THEN e ELSE IF x = e THEN NULL
                                                     ELSE IF x = m THEN p ELSE pv[x]
  BY Zenon, <1>9, <1>12 DEF Fields, Links
<1> HIDE DEF nx2, pv2
<1>15. PICK t : t = <<o[i]>> \o RemoveAt(o, i)
  BY Zenon
<1>16. Shifted(Entries, o, i, t)
  BY Zenon, <1>4, <1>7, <1>15, ToFront
<1>17. Linked(t, C, e, IF e = l THEN p ELSE l, nx2, pv2)
  <2>1. Spliced(f, e, p, m, nx, pv, nx2, pv2)
    BY Zenon, <1>13, <1>14 DEF Spliced
  <2> QED BY <1>3, <1>5, <1>7, <1>8, <1>16, <2>1, Relinked
<1>18. Ordering(t)'
  BY Zenon, <1>10, <1>17 DEF Ordering
<1>19. Used(o, t)
  <2>1. i \in DOMAIN o /\ KeyOf(o[i]) = k
    BY <1>1, <1>4, <1>5
  <2> QED BY Zenon, <1>15, <2>1 DEF Used
<1>20. FieldInv'
  BY Zenon, <1>10, <1>13, <1>14 DEF FieldInv
<1> QED BY Zenon, <1>10, <1>18, <1>19, <1>20 DEF LruStep

\* add, with or without success.
LEMMA AddStep ==
  ASSUME FieldInv, NEW o, Ordering(o), NEW e \in Entries, add(e)
  PROVE  FieldInv' /\ \E t : Ordering(t)' /\ LruStep(o, t, m_size, m_size')
<1>1. PICK C, f, l, nx, pv, s : /\ C = cache /\ f = first_link /\ l = last_link
                                /\ nx = next_used /\ pv = prev_used /\ s = m_size
  OBVIOUS
<1>2. Linked(o, C, f, l, nx, pv) /\ nx \in Fields /\ pv \in Fields /\ s \in Nat
  BY Zenon, <1>1, HashFiloAssumption DEF Ordering, FieldInv
<1>3. /\ o \in Seq(Entries) /\ Len(o) \in Nat /\ C \subseteq Entries /\ Len(o) = Cardinality(C)
      /\ \A i \in 1..Len(o) : o[i] \in Entries /\ o[i] \in C /\ o[i] # NULL
  BY Zenon, <1>2, LinkedFacts
<1>4. s > 0 /\ e \notin C /\ m_size' = s
  BY <1>1 DEF add
<1>5. (\A i \in DOMAIN o : o[i] # e)
  BY <1>3, <1>4
<1>6. full <=> Len(o) = s
  BY Zenon, <1>1, <1>3 DEF full
<1>7. PICK r : r = RoomIn(o, s)
  OBVIOUS
<1>8. PICK C1, f1, l1, nx1 : C1 = cache1 /\ f1 = first1 /\ l1 = last1 /\ nx1 = next1
  OBVIOUS
<1>9. Linked(r, C1, f1, l1, nx1, pv) /\ nx1 \in Fields /\ C1 \subseteq C
  <2>1. CASE full
    <3>1. r = SubSeq(o, 1, Len(o) - 1) /\ Len(o) # 0
      BY <1>4, <1>6, <1>7, <2>1 DEF RoomIn
    <3>2. PICK p : p = pv[l]
      BY Zenon
    <3>3. /\ l1 = p /\ C1 = C \ {l} /\ f1 = (IF p = NULL THEN NULL ELSE f)
          /\ nx1 = IF p # NULL THEN [nx EXCEPT ![p] = NULL] ELSE nx
      BY <1>1, <1>8, <2>1, <3>2 DEF last1, cache1, first1, next1
    <3>4. Linked(r, C1, f1, l1, nx1, pv)
      BY Zenon, <1>2, <3>1, <3>2, <3>3, TakeLast
    <3>5. nx1 \in Fields
      BY Zenon, <1>2, <3>3 DEF Fields, Links
    <3> QED BY <3>3, <3>4, <3>5
  <2>2. CASE ~full
    <3>1. r = o
      BY <1>6, <1>7, <2>2 DEF RoomIn
    <3>2. C1 = C /\ f1 = f /\ l1 = l /\ nx1 = nx
      BY Zenon, <1>1, <1>8, <2>2 DEF last1, cache1, first1, next1
    <3> QED BY Zenon, <1>2, <3>1, <3>2
  <2> QED BY Zenon, <2>1, <2>2
<1>10. CASE /\ cache' = cache1 /\ first_link' = first1 /\ last_link' = last1
            /\ next_used' = next1 /\ UNCHANGED prev_used
  <2>1. Ordering(r)'
    BY Zenon, <1>1, <1>8, <1>9, <1>10 DEF Ordering
  <2>2. FieldInv'
    BY <1>1, <1>4, <1>8, <1>9, <1>10 DEF FieldInv
  <2>3. Entered(o, r, s)
    BY Zenon, <1>4, <1>5, <1>7 DEF Entered
  <2> QED BY <1>1, <1>4, <2>1, <2>2, <2>3 DEF LruStep
<1>11. CASE PutFirst(e)
  <2>1. PICK t, l2, nx2, pv2 : Grown(e, r, f1, l1, nx1, pv, t, l2, nx2, pv2)
    BY Zenon DEF Grown
  <2>2. /\ cache' = C1 \cup {e} /\ first_link' = e /\ last_link' = l2
        /\ next_used' = nx2 /\ prev_used' = pv2
    BY Zenon, <1>1, <1>8, <1>11, <2>1 DEF PutFirst, Grown
  <2>3. e \notin C1
    BY Zenon, <1>4, <1>9
  <2>4. Linked(t, C1 \cup {e}, e, l2, nx2, pv2)
    BY Zenon, <1>2, <1>9, <2>1, <2>3, AddFirst
  <2>5. f1 \in Links
    <3>1. f1 = IF Len(r) = 0 THEN NULL ELSE r[1]
      BY Zenon, <1>9 DEF Linked, Path
    <3>2. r \in Seq(Entries)
      BY Zenon, <1>9 DEF Linked, Path
    <3> QED BY <3>1, <3>2 DEF Links
  <2>6. nx2 \in Fields /\ pv2 \in Fields
    BY Zenon, <1>2, <1>9, <2>1, <2>5 DEF Fields, Links, Grown
  <2>7. Ordering(t)'
    BY Zenon, <2>2, <2>4 DEF Ordering
  <2>8. FieldInv'
    BY Zenon, <1>1, <1>4, <2>2, <2>6 DEF FieldInv
  <2>9. Entered(o, t, s)
    BY Zenon, <1>4, <1>5, <1>7, <2>1 DEF Entered, Grown
  <2> QED BY <1>1, <1>4, <2>7, <2>8, <2>9 DEF LruStep
<1> QED BY Zenon, <1>10, <1>11 DEF add

\* Every step is a step of the cache that the chain describes, or none.
LEMMA EveryStep ==
  ASSUME FieldInv, NEW o, Ordering(o), [Next]_vars
  PROVE  FieldInv' /\ \E t : Ordering(t)' /\ LruStep(o, t, m_size, m_size')
<1>1. CASE clear \/ \E n \in Sizes : resize(n)
  <2>1. /\ cache' = {} /\ first_link' = NULL /\ last_link' = NULL /\ m_size' \in Sizes
        /\ UNCHANGED <<next_used, prev_used>>
    BY Zenon, <1>1 DEF clear, resize, FieldInv
  <2>2. Ordering(<<>>)'
    BY Zenon, <2>1, LinkedEmpty DEF Ordering
  <2> QED BY <2>1, <2>2 DEF FieldInv, LruStep
<1>2. CASE UNCHANGED vars
  <2>1. Ordering(o)' /\ FieldInv' /\ m_size' = m_size
    BY <1>2 DEF vars, chain, Ordering, FieldInv
  <2> QED BY Zenon, <2>1 DEF LruStep
<1> QED BY <1>1, <1>2, SearchStep, AddStep DEF Next

\* The chain describes an order of the entries, in every state.
LEMMA Invariant == Spec => []HInv
<1>1. Init => HInv
  <2> SUFFICES ASSUME Init PROVE HInv
    OBVIOUS
  <2>1. Ordering(<<>>)
    BY LinkedEmpty DEF Init, Ordering
  <2> QED BY <2>1 DEF Init, HInv, FieldInv, Fields
<1>2. HInv /\ [Next]_vars => HInv'
  <2> SUFFICES ASSUME HInv, [Next]_vars PROVE HInv'
    OBVIOUS
  <2>1. PICK o : Ordering(o)
    BY DEF HInv
  <2>2. FieldInv' /\ \E t : Ordering(t)'
    BY Zenon, <2>1, EveryStep DEF HInv
  <2> QED BY <2>2 DEF HInv
<1> QED BY <1>1, <1>2, PTL DEF Spec

\* The order that the chain describes is the one that Follow finds.
LEMMA OrderIs ==
  ASSUME NEW o, NEW C, NEW f, NEW l, NEW nx, NEW pv, Linked(o, C, f, l, nx, pv)
  PROVE  Follow(f, nx) = o /\ Follow(l, pv) = Reversed(o)
<1>3. o \in Seq(Entries) /\ Len(o) <= Cardinality(Entries)
  BY Zenon, LinkedFacts
<1>4. Follow(f, nx) = o
  BY Zenon, <1>3, FollowIs DEF Linked
<1>5. Path(Reversed(o), l, pv) /\ Len(Reversed(o)) = Len(o)
  BY Zenon, <1>3, ReversePath DEF Linked
<1>6. Follow(l, pv) = Reversed(o)
  BY Zenon, <1>3, <1>5, FollowIs
<1> QED BY Zenon, <1>4, <1>6

\* The chain has the entries of the hash table, each once, and following
\* prev_used from last_link meets them in the opposite order: what add drops
\* from the table is what it takes off the chain.
THEOREM ChainsTheorem == Spec => []ChainsAgree
<1>1. HInv => ChainsAgree
  <2> SUFFICES ASSUME NEW o, Ordering(o) PROVE ChainsAgree
    BY DEF HInv
  <2>1. Follow(first_link, next_used) = o /\ Follow(last_link, prev_used) = Reversed(o)
    BY OrderIs DEF Ordering
  <2>2. o \in Seq(Entries) /\ Len(o) = Cardinality(cache)
    BY Zenon, LinkedFacts DEF Ordering
  <2>3. \A x : x \in cache <=> \E i \in 1..Len(o) : x = o[i]
    BY DEF Ordering, Linked, Holds
  <2>4. DOMAIN o = 1..Len(o)
    BY <2>2
  <2>5. Range(o) = cache
    BY <2>3, <2>4, Zenon DEF Range
  <2> QED BY Zenon, <2>1, <2>2, <2>5 DEF ChainsAgree
<1> QED BY <1>1, Invariant, PTL

\* hash_filo is the cache it is used as: add drops the entry whose use is longest
\* ago, search brings one to the front, and nothing else moves.
THEOREM LruTheorem == Spec => LruSpec
<1>1. Init => Lru!Init
  <2> SUFFICES ASSUME Init PROVE Lru!Init
    OBVIOUS
  <2>1. Ordering(<<>>)
    BY LinkedEmpty DEF Init, Ordering
  <2>2. Follow(first_link, next_used) = <<>>
    BY <2>1, OrderIs DEF Ordering
  <2> QED BY Zenon, <2>2 DEF Init, Lru!Init
<1>2. HInv /\ [Next]_vars => [Lru!Next]_<<Follow(first_link, next_used), m_size>>
  <2> SUFFICES ASSUME FieldInv, NEW o, Ordering(o), [Next]_vars
               PROVE  [Lru!Next]_<<Follow(first_link, next_used), m_size>>
    BY DEF HInv
  <2>1. PICK t : Ordering(t)' /\ LruStep(o, t, m_size, m_size')
    BY EveryStep
  <2>2. Follow(first_link, next_used) = o
    BY OrderIs DEF Ordering
  <2>3. Follow(first_link, next_used)' = t
    <3>1. PICK C, f, l, nx, pv : /\ C = cache' /\ f = first_link' /\ l = last_link'
                                 /\ nx = next_used' /\ pv = prev_used'
      OBVIOUS
    <3>2. Linked(t, C, f, l, nx, pv)
      BY Zenon, <2>1, <3>1 DEF Ordering
    <3>3. Follow(f, nx) = t
      BY <3>2, OrderIs
    <3>4. Follow(first_link', next_used') = t
      BY Zenon, <3>1, <3>3
    <3> QED BY <3>4, Zenon DEF Follow, Steps
  <2>4. CASE t = o /\ m_size' = m_size
    BY Zenon, <2>2, <2>3, <2>4
  <2>5. CASE t = <<>> /\ m_size' \in Sizes
    BY Zenon, <2>3, <2>5 DEF Lru!Next, Lru!Reset
  <2>6. CASE Used(o, t) /\ m_size' = m_size
    BY <2>2, <2>3, <2>6, Zenon DEF Lru!Next, Lru!Use, Used, RemoveAt
  <2>7. CASE Entered(o, t, m_size) /\ m_size' = m_size
    BY <2>2, <2>3, <2>7, Zenon DEF Lru!Next, Lru!Enter, Lru!Room, Entered, RoomIn
  <2> QED BY Zenon, <2>1, <2>4, <2>5, <2>6, <2>7 DEF LruStep
<1> QED BY <1>1, <1>2, Invariant, PTL DEF Spec, LruSpec, Lru!Spec

=============================================================================

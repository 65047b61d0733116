------------------------ MODULE TranxAllocatorProofs ------------------------
(***************************************************************************)
(* Proofs about TranxAllocator.tla, for any blocks, any number of nodes in *)
(* a block and any reserve.  The inductive invariant names the chain that  *)
(* the pointers describe, the place of the current block in it and how     *)
(* many nodes are wasted in front of those in use.                         *)
(***************************************************************************)
EXTENDS TranxAllocator, FiniteSetTheorems, WellFoundedInduction, TLAPS

B == BLOCK_TRANX_NODES

-----------------------------------------------------------------------------
(* Chain.                                                                  *)

\* The blocks of c, in this order, are met from b on along the pointers nx.
Path(L, c, b, nx) ==
  /\ L \in Nat /\ c \in [1..L -> Blocks]
  /\ b = IF L = 0 THEN NULL ELSE c[1]
  /\ \A i \in 1..L : nx[c[i]] = IF i = L THEN NULL ELSE c[i + 1]

\* Every non-empty set of numbers has a least element.
LEMMA Least ==
  ASSUME NEW S \in SUBSET Nat, S # {}
  PROVE  \E m \in S : \A n \in S : m <= n
<1>1. PICK m \in S : \A n \in S : ~(<<n, m>> \in OpToRel(<, Nat))
  BY Zenon, NatLessThanWellFounded, WFMin
<1>2. \A n \in S : n \in Nat /\ ~(n < m)
  BY Zenon, <1>1 DEF OpToRel
<1> QED BY <1>2

\* One step along the pointers.
Step(nx, b, f, i) ==
  IF i = 1 THEN b ELSE IF f[i - 1] = NULL THEN NULL ELSE nx[f[i - 1]]

\* Along a path, the steps are the blocks of the path and then NULL.
LEMMA StepsAre ==
  ASSUME NEW L, NEW c, NEW b, NEW nx, Path(L, c, b, nx)
  PROVE  Steps(nx, b) = [i \in 1..Cardinality(Blocks) + 1 |-> IF i <= L THEN c[i] ELSE NULL]
<1>1. PICK N \in Nat : N = Cardinality(Blocks) + 1
  BY TranxAssumption, FS_CardinalityType
<1> DEFINE at == Steps(nx, b)
           g == [i \in 1..N |-> IF i <= L THEN c[i] ELSE NULL]
<1>2. at = CHOOSE f : f = [i \in 1..N |-> Step(nx, b, f, i)]
  BY <1>1 DEF Steps, Step
<1>3. L \in Nat /\ \A i \in 1..L : c[i] \in Blocks
  BY DEF Path
<1>4. ASSUME NEW i \in 1..N PROVE g[i] = Step(nx, b, g, i)
  <2>1. CASE i = 1
    BY <1>3, <2>1 DEF Path, Step
  <2>2. CASE i # 1
    <3>1. i - 1 \in 1..N /\ g[i - 1] = IF i - 1 <= L THEN c[i - 1] ELSE NULL
      BY <2>2
    <3>2. g[i] = IF i <= L THEN c[i] ELSE NULL
      OBVIOUS
    <3> HIDE DEF g
    <3>3. CASE i - 1 <= L
      <4>1. i - 1 \in 1..L /\ (i - 1) + 1 = i
        BY <1>3, <2>2, <3>3
      <4>2. nx[c[i - 1]] = IF i - 1 = L THEN NULL ELSE c[i]
        BY <4>1 DEF Path
      <4>3. g[i - 1] = c[i - 1] /\ c[i - 1] # NULL
        BY <1>3, <3>1, <3>3, <4>1, TranxAssumption
      <4>4. i <= L <=> i - 1 # L
        BY <1>3, <4>1
      <4> QED BY <2>2, <3>2, <4>2, <4>3, <4>4 DEF Step
    <3>4. CASE ~(i - 1 <= L)
      <4>1. ~(i <= L)
        BY <1>3, <3>4
      <4> QED BY <2>2, <3>1, <3>2, <3>4, <4>1 DEF Step
    <3> QED BY <3>3, <3>4
  <2> QED BY <2>1, <2>2
<1>5. g = [i \in 1..N |-> Step(nx, b, g, i)]
  <2>1. g = [i \in 1..N |-> g[i]]
    OBVIOUS
  <2> HIDE DEF g
  <2> QED BY <1>4, <2>1, Zenon
<1>6. at = [i \in 1..N |-> Step(nx, b, at, i)]
  <2> HIDE DEF at, g
  <2>1. \E f : f = [i \in 1..N |-> Step(nx, b, f, i)]
    BY <1>5
  <2> QED BY <1>2, <2>1, Zenon
<1>7. \A i \in 1..N : at[i] = g[i]
  <2> HIDE DEF at, g
  <2> DEFINE Bad == {i \in 1..N : at[i] # g[i]}
  <2> SUFFICES ASSUME Bad # {} PROVE FALSE
    OBVIOUS
  <2>1. PICK m \in Bad : \A n \in Bad : m <= n
    <3>1. Bad \in SUBSET Nat
      OBVIOUS
    <3> HIDE DEF Bad
    <3> QED BY <3>1, Least
  <2>2. at[m] = Step(nx, b, at, m) /\ g[m] = Step(nx, b, g, m)
    BY <1>4, <1>6, Zenon
  <2>3. m # 1
    BY <2>2 DEF Step
  <2>4. m - 1 \in 1..N /\ m - 1 \notin Bad
    BY <2>1, <2>3
  <2>5. at[m - 1] = g[m - 1]
    BY <2>4
  <2> QED BY <2>2, <2>3, <2>5 DEF Step
<1>8. at = g
  <2>1. DOMAIN at = 1..N
    <3> HIDE DEF at
    <3> QED BY <1>6, Zenon
  <2>2. at = [i \in 1..N |-> at[i]]
    <3> HIDE DEF at, g
    <3> QED BY <1>6, Zenon
  <2>3. g = [i \in 1..N |-> g[i]]
    OBVIOUS
  <2> HIDE DEF at, g
  <2> QED BY <1>7, <2>2, <2>3, Zenon
<1> QED BY <1>1, <1>8

\* Chain finds the path.
LEMMA ChainIs ==
  ASSUME NEW L, NEW c, NEW b, NEW nx, Path(L, c, b, nx), L <= Cardinality(Blocks)
  PROVE  Chain(nx, b) = c
<1>1. PICK N \in Nat : N = Cardinality(Blocks) + 1
  BY TranxAssumption, FS_CardinalityType
<1>2. PICK at : at = Steps(nx, b)
  OBVIOUS
<1>3. at = [i \in 1..N |-> IF i <= L THEN c[i] ELSE NULL]
  BY <1>1, <1>2, StepsAre
<1>4. L \in Nat /\ L < N /\ \A i \in 1..L : c[i] \in Blocks
  BY <1>1, TranxAssumption, FS_CardinalityType DEF Path
<1>5. {j \in DOMAIN at : at[j] # NULL} = 1..L
  <2>1. DOMAIN at = 1..N
    BY <1>3
  <2>2. ASSUME NEW j \in 1..N PROVE at[j] # NULL <=> j \in 1..L
    <3>1. at[j] = IF j <= L THEN c[j] ELSE NULL
      BY <1>3
    <3>2. j <= L <=> j \in 1..L
      BY <1>4
    <3> QED BY <1>4, <3>1, <3>2, TranxAssumption
  <2>3. 1..L \subseteq 1..N
    BY <1>4
  <2> QED BY <2>1, <2>2, <2>3, Zenon
<1>6. Cardinality(1..L) = L
  <2>1. PICK n \in Nat : n = L
    BY <1>4
  <2>2. 1 \in Int /\ n \in Int
    BY <2>1
  <2>3. Cardinality(1..n) = IF 1 > n THEN 0 ELSE n - 1 + 1
    BY <2>2, FS_Interval, Zenon
  <2> QED BY <2>1, <2>3
<1>7. Chain(nx, b) = [i \in 1..L |-> at[i]]
  BY Zenon, <1>2, <1>5, <1>6 DEF Chain
<1>8. \A i \in 1..L : at[i] = c[i]
  BY <1>3, <1>4
<1> QED BY <1>4, <1>7, <1>8 DEF Path

-----------------------------------------------------------------------------
(* Numbers.                                                                *)

\* Division with remainder.
LEMMA DivMod ==
  ASSUME NEW n \in Nat, NEW m \in Nat \ {0}
  PROVE  n \div m \in Nat /\ n % m \in 0..m - 1 /\ n = (n \div m) * m + (n % m)
OBVIOUS

\* A factor cancels from an inequality.
LEMMA Cancel ==
  ASSUME NEW a \in Int, NEW b \in Int, NEW m \in Nat \ {0}, a * m < b * m + m
  PROVE  a <= b
<1>1. CASE a <= b
  BY <1>1
<1>2. CASE b + 1 <= a
  <2>1. (a - b - 1) * m >= 0
    BY <1>2
  <2>2. (a - b - 1) * m = a * m - b * m - m
    OBVIOUS
  <2> QED BY <2>1, <2>2
<1> QED BY <1>1, <1>2

\* Quotient and remainder are unique.
LEMMA DivUnique ==
  ASSUME NEW n \in Nat, NEW m \in Nat \ {0}, NEW q \in Nat, NEW r \in 0..m - 1, n = q * m + r
  PROVE  n \div m = q /\ n % m = r
<1>1. PICK x \in Nat, y \in 0..m - 1 : x = n \div m /\ y = n % m /\ n = x * m + y
  BY DivMod
<1>2. x * m < q * m + m /\ q * m < x * m + m
  <2>1. x * m \in Int /\ q * m \in Int
    OBVIOUS
  <2> QED BY <1>1, <2>1
<1>3. x <= q /\ q <= x
  BY <1>2, Cancel
<1>4. x = q
  BY <1>3
<1> QED BY <1>1, <1>4

\* A number below a multiple has a quotient below the factor.
LEMMA DivBelow ==
  ASSUME NEW n \in Nat, NEW m \in Nat \ {0}, NEW a \in Nat, n < a * m
  PROVE  n \div m < a
<1>1. PICK x \in Nat, y \in 0..m - 1 : x = n \div m /\ y = n % m /\ n = x * m + y
  BY DivMod
<1>2. x * m < (a - 1) * m + m
  <2>1. x * m \in Int /\ a * m \in Int /\ (a - 1) * m + m = a * m
    OBVIOUS
  <2> QED BY <1>1, <2>1
<1>3. x <= a - 1
  BY <1>2, Cancel
<1> QED BY <1>1, <1>3

\* A number from a multiple on has a quotient from the factor on.
LEMMA DivAbove ==
  ASSUME NEW n \in Nat, NEW m \in Nat \ {0}, NEW a \in Nat, a * m <= n
  PROVE  a <= n \div m
<1>1. PICK x \in Nat, y \in 0..m - 1 : x = n \div m /\ y = n % m /\ n = x * m + y
  BY DivMod
<1>2. a * m < x * m + m
  <2>1. x * m \in Int /\ a * m \in Int
    OBVIOUS
  <2> QED BY <1>1, <2>1
<1>3. a <= x
  BY <1>2, Cancel
<1> QED BY <1>1, <1>3

\* Multiples of the divisor go into the quotient.
LEMMA DivShift ==
  ASSUME NEW n \in Nat, NEW m \in Nat \ {0}, NEW a \in Nat, a * m <= n
  PROVE  /\ n - a * m \in Nat /\ (n - a * m) \div m = n \div m - a
         /\ (n - a * m) % m = n % m
<1>1. PICK x \in Nat, y \in 0..m - 1 : x = n \div m /\ y = n % m /\ n = x * m + y
  BY DivMod
<1>2. a <= x
  BY <1>1, DivAbove
<1>3. PICK k \in Nat : k = n - a * m
  <2>1. a * m \in Int
    OBVIOUS
  <2> QED BY <2>1
<1>4. k = (x - a) * m + y
  <2>1. (x - a) * m = x * m - a * m
    OBVIOUS
  <2> QED BY <1>1, <1>3, <2>1
<1>5. x - a \in Nat
  BY <1>2
<1>6. k \div m = x - a /\ k % m = y
  BY <1>4, <1>5, DivUnique
<1> QED BY <1>1, <1>3, <1>6

-----------------------------------------------------------------------------
(* The chain of blocks.                                                    *)

\* The blocks of c are those of H, each once.
Holds(L, c, H) ==
  /\ \A i, j \in 1..L : c[i] = c[j] => i = j
  /\ \A x : x \in H <=> \E i \in 1..L : x = c[i]

Linked(L, c, H, f, l, nx) ==
  /\ Path(L, c, f, nx) /\ Holds(L, c, H)
  /\ l = IF L = 0 THEN NULL ELSE c[L]

\* What the blocks of a chain are.
LEMMA LinkedFacts ==
  ASSUME NEW L, NEW c, NEW H, NEW f, NEW l, NEW nx, Linked(L, c, H, f, l, nx)
  PROVE  /\ L \in Nat /\ c \in [1..L -> Blocks] /\ H \subseteq Blocks
         /\ f = (IF L = 0 THEN NULL ELSE c[1]) /\ l = (IF L = 0 THEN NULL ELSE c[L])
         /\ \A i \in 1..L : c[i] \in Blocks /\ c[i] \in H /\ c[i] # NULL
         /\ \A i, j \in 1..L : c[i] = c[j] => i = j
         /\ \A x \in H : \E i \in 1..L : x = c[i]
         /\ \A i \in 1..L : nx[c[i]] = IF i = L THEN NULL ELSE c[i + 1]
<1>1. /\ L \in Nat /\ c \in [1..L -> Blocks] /\ f = (IF L = 0 THEN NULL ELSE c[1])
      /\ \A i \in 1..L : nx[c[i]] = IF i = L THEN NULL ELSE c[i + 1]
  BY DEF Linked, Path
<1>2. /\ \A i, j \in 1..L : c[i] = c[j] => i = j
      /\ \A x : x \in H <=> \E i \in 1..L : x = c[i]
      /\ l = (IF L = 0 THEN NULL ELSE c[L])
  BY DEF Linked, Holds
<1> QED BY <1>1, <1>2, TranxAssumption

\* A chain is as long as there are blocks in it.
LEMMA LinkedSize ==
  ASSUME NEW L, NEW c, NEW H, NEW f, NEW l, NEW nx, Linked(L, c, H, f, l, nx)
  PROVE  Cardinality(H) = L /\ L <= Cardinality(Blocks)
<1>1. /\ L \in Nat /\ c \in [1..L -> Blocks] /\ H \subseteq Blocks
      /\ \A i \in 1..L : c[i] \in H
      /\ \A i, j \in 1..L : c[i] = c[j] => i = j
      /\ \A x \in H : \E i \in 1..L : x = c[i]
  BY LinkedFacts
<1>2. c \in Bijection(1..L, H)
  <2>1. c \in [1..L -> H]
    BY <1>1
  <2>2. IsInjective(c)
    BY <1>1 DEF IsInjective
  <2>3. \A x \in H : \E i \in 1..L : c[i] = x
    BY <1>1
  <2> QED BY <2>1, <2>2, <2>3, Zenon DEF Bijection, Injection, Surjection
<1>3. Cardinality(H) = L
  <2>1. ExistsBijection(1..L, H)
    BY <1>2, Zenon DEF ExistsBijection
  <2> QED BY <1>1, <2>1, FS_CountingElements, Zenon
<1>4. Cardinality(H) <= Cardinality(Blocks)
  <2>1. H \in SUBSET Blocks
    BY <1>1
  <2> QED BY <2>1, TranxAssumption, FS_Subset, Zenon
<1> QED BY <1>3, <1>4

\* The blocks from the k-th on.
LEMMA Suffix ==
  ASSUME NEW L, NEW c, NEW H, NEW f, NEW l, NEW nx, Linked(L, c, H, f, l, nx),
         NEW k \in 1..L + 1, NEW b, b = IF k = L + 1 THEN NULL ELSE c[k]
  PROVE  Chain(nx, b) = [i \in 1..(L + 1) - k |-> c[k + i - 1]]
<1>1. /\ L \in Nat /\ c \in [1..L -> Blocks]
      /\ \A i \in 1..L : nx[c[i]] = IF i = L THEN NULL ELSE c[i + 1]
  BY LinkedFacts
<1>a. PICK n \in Nat : n = (L + 1) - k
  BY <1>1
<1>b. PICK s : s = [i \in 1..n |-> c[k + i - 1]]
  BY Zenon
<1>2. n = (L + 1) - k /\ s = [i \in 1..n |-> c[k + i - 1]]
  BY Zenon, <1>a, <1>b
<1>3. \A i \in 1..n : k + i - 1 \in 1..L /\ s[i] = c[k + i - 1]
  BY <1>1, <1>2
<1>4. s \in [1..n -> Blocks]
  <2>1. \A i \in 1..n : c[k + i - 1] \in Blocks
    BY Zenon, <1>1, <1>3
  <2> QED BY <1>2, <2>1
<1>5. b = IF n = 0 THEN NULL ELSE s[1]
  <2>1. n = 0 <=> k = L + 1
    BY <1>1, <1>2
  <2>2. n # 0 => 1 \in 1..n /\ k + 1 - 1 = k
    BY <1>2
  <2>3. n # 0 => s[1] = c[k]
    BY <1>3, <2>2
  <2> QED BY <2>1, <2>3
<1>6. ASSUME NEW i \in 1..n PROVE nx[s[i]] = IF i = n THEN NULL ELSE s[i + 1]
  <2>1. PICK j \in 1..L : j = k + i - 1 /\ s[i] = c[j]
    BY <1>3
  <2>2. nx[c[j]] = IF j = L THEN NULL ELSE c[j + 1]
    BY <1>1
  <2>3. j = L <=> i = n
    BY <1>1, <1>2, <2>1
  <2>4. ASSUME i # n PROVE s[i + 1] = c[j + 1]
    <3>1. i + 1 \in 1..n /\ k + (i + 1) - 1 = j + 1
      BY <1>2, <2>1, <2>4
    <3> QED BY <1>3, <3>1
  <2> QED BY <2>1, <2>2, <2>3, <2>4
<1>7. Path(n, s, b, nx)
  BY <1>4, <1>5, <1>6 DEF Path
<1>8. n <= Cardinality(Blocks)
  <2>1. L <= Cardinality(Blocks) /\ Cardinality(Blocks) \in Nat
    BY LinkedSize, TranxAssumption, FS_CardinalityType
  <2> QED BY <1>1, <1>2, <2>1
<1> QED BY <1>2, <1>7, <1>8, ChainIs

\* The same, block by block.
LEMMA SuffixAt ==
  ASSUME NEW L, NEW c, NEW H, NEW f, NEW l, NEW nx, Linked(L, c, H, f, l, nx),
         NEW k \in 1..L + 1, NEW b, b = IF k = L + 1 THEN NULL ELSE c[k],
         NEW n \in Nat, n = (L + 1) - k
  PROVE  Len(Chain(nx, b)) = n /\ \A i \in 1..n : Chain(nx, b)[i] = c[k + i - 1]
<1>1. Chain(nx, b) = [i \in 1..n |-> c[k + i - 1]]
  BY Suffix
<1> QED BY <1>1

\* The chain from its beginning.
LEMMA Whole ==
  ASSUME NEW L, NEW c, NEW H, NEW f, NEW l, NEW nx, Linked(L, c, H, f, l, nx)
  PROVE  Chain(nx, f) = c
BY LinkedSize, ChainIs DEF Linked

\* No blocks.
LEMMA LinkedEmpty == \A nx : \E c : Linked(0, c, {}, NULL, NULL, nx)
<1>1. PICK c : c = [i \in 1..0 |-> NULL]
  OBVIOUS
<1>2. c \in [1..0 -> Blocks] /\ \A i \in 1..0 : FALSE
  BY <1>1
<1>3. ASSUME NEW nx PROVE Linked(0, c, {}, NULL, NULL, nx)
  BY Zenon, <1>2 DEF Linked, Path, Holds
<1> QED BY <1>3

\* The block b behind the last one, a, or alone.
Rear(L, c, H, f, l, nx, b, a, nx1, c1) ==
  /\ nx \in [Blocks -> Blocks \cup {NULL}] /\ b \in Blocks /\ b \notin H
  /\ a = IF f = NULL THEN b ELSE l
  /\ nx1 = [nx EXCEPT ![b] = NULL, ![a] = IF f = NULL THEN NULL ELSE b]
  /\ c1 = [i \in 1..L + 1 |-> IF i = L + 1 THEN b ELSE c[i]]

\* allocate_block puts b at the rear.
LEMMA AtRear ==
  ASSUME NEW L, NEW c, NEW H, NEW f, NEW l, NEW nx, Linked(L, c, H, f, l, nx),
         NEW b, NEW a, NEW nx1, NEW c1, Rear(L, c, H, f, l, nx, b, a, nx1, c1)
  PROVE  Linked(L + 1, c1, H \cup {b}, IF f = NULL THEN b ELSE f, b, nx1)
<1> USE DEF Rear
<1>1. /\ L \in Nat /\ c \in [1..L -> Blocks]
      /\ f = (IF L = 0 THEN NULL ELSE c[1]) /\ l = (IF L = 0 THEN NULL ELSE c[L])
      /\ \A i \in 1..L : c[i] \in Blocks /\ c[i] \in H /\ c[i] # NULL
      /\ \A i, j \in 1..L : c[i] = c[j] => i = j
      /\ \A x \in H : \E i \in 1..L : x = c[i]
      /\ \A i \in 1..L : nx[c[i]] = IF i = L THEN NULL ELSE c[i + 1]
  BY LinkedFacts
<1>2. f = NULL <=> L = 0
  BY <1>1
<1>3. \A i \in 1..L + 1 : (i = L + 1 /\ c1[i] = b) \/ (i \in 1..L /\ c1[i] = c[i] /\ c[i] # b)
  BY <1>1
<1>4. c1 \in [1..L + 1 -> Blocks]
  BY <1>1
<1>5. (IF f = NULL THEN b ELSE f) = c1[1]
  BY <1>1, <1>2
<1>6. nx1[b] = NULL
  BY <1>1, <1>2
<1>7. \A i \in 1..L : nx1[c[i]] = IF i = L THEN b ELSE nx[c[i]]
  BY <1>1, <1>2
<1>8. ASSUME NEW i \in 1..L + 1 PROVE nx1[c1[i]] = IF i = L + 1 THEN NULL ELSE c1[i + 1]
  <2>1. CASE i = L + 1
    BY Zenon, <1>3, <1>6, <2>1
  <2>2. CASE i # L + 1
    <3>1. i \in 1..L /\ c1[i] = c[i] /\ i + 1 \in 1..L + 1
      BY <1>1, <1>3, <2>2
    <3>2. c1[i + 1] = IF i = L THEN b ELSE c[i + 1]
      BY <1>1, <3>1
    <3> QED BY Zenon, <1>1, <1>7, <2>2, <3>1, <3>2
  <2> QED BY <2>1, <2>2
<1>9. Path(L + 1, c1, IF f = NULL THEN b ELSE f, nx1)
  <2>1. L + 1 \in Nat /\ L + 1 # 0
    BY <1>1
  <2> HIDE DEF Rear
  <2> QED BY Zenon, <1>4, <1>5, <1>8, <2>1 DEF Path
<1>10. Holds(L + 1, c1, H \cup {b})
  <2>1. ASSUME NEW i \in 1..L + 1, NEW j \in 1..L + 1, c1[i] = c1[j] PROVE i = j
    BY <1>1, <1>3, <2>1
  <2>2. ASSUME NEW x, x \in H \cup {b} PROVE \E i \in 1..L + 1 : x = c1[i]
    <3>1. CASE x = b
      <4>1. L + 1 \in 1..L + 1 /\ c1[L + 1] = b
        BY <1>1
      <4> QED BY Zenon, <3>1, <4>1
    <3>2. CASE x \in H
      <4>1. PICK i \in 1..L : x = c[i]
        BY <1>1, <3>2
      <4>2. i \in 1..L + 1 /\ c1[i] = c[i]
        BY <1>1
      <4> QED BY <4>1, <4>2
    <3> QED BY <2>2, <3>1, <3>2
  <2>3. ASSUME NEW i \in 1..L + 1 PROVE c1[i] \in H \cup {b}
    BY <1>1, <1>3
  <2>4. \A x : x \in H \cup {b} <=> \E i \in 1..L + 1 : x = c1[i]
    BY Zenon, <2>2, <2>3
  <2> QED BY <2>1, <2>4 DEF Holds
<1>11. b = c1[L + 1] /\ L + 1 # 0
  BY <1>1
<1> QED BY Zenon, <1>9, <1>10, <1>11 DEF Linked

\* What allocate_block(b) makes of the pointers, the blocks and the first block.
Addition(b, H, f, l, nx, H1, f1, nx1) ==
  /\ nx \in [Blocks -> Blocks \cup {NULL}] /\ b \in Blocks /\ b \notin H
  /\ nx1 = [nx EXCEPT ![b] = NULL,
                      ![IF f = NULL THEN b ELSE l] = IF f = NULL THEN NULL ELSE b]
  /\ H1 = H \cup {b} /\ f1 = IF f = NULL THEN b ELSE f

\* allocate_block makes the chain longer.
LEMMA Added ==
  ASSUME NEW L, NEW c, NEW H, NEW f, NEW l, NEW nx, Linked(L, c, H, f, l, nx),
         NEW b, NEW H1, NEW f1, NEW nx1, Addition(b, H, f, l, nx, H1, f1, nx1)
  PROVE  \E c1 : /\ Linked(L + 1, c1, H1, f1, b, nx1) /\ nx1 \in [Blocks -> Blocks \cup {NULL}]
                 /\ c1[L + 1] = b /\ \A i \in 1..L : c1[i] = c[i]
<1>1. PICK a : a = IF f = NULL THEN b ELSE l
  BY Zenon
<1>2. PICK y : y = IF f = NULL THEN NULL ELSE b
  BY Zenon
<1>3. PICK c1 : c1 = [i \in 1..L + 1 |-> IF i = L + 1 THEN b ELSE c[i]]
  BY Zenon
<1>4. /\ nx \in [Blocks -> Blocks \cup {NULL}] /\ b \in Blocks /\ b \notin H
      /\ nx1 = [nx EXCEPT ![b] = NULL, ![a] = y]
      /\ H1 = H \cup {b} /\ f1 = IF f = NULL THEN b ELSE f
  BY Zenon, <1>1, <1>2 DEF Addition
<1>5. Linked(L + 1, c1, H \cup {b}, IF f = NULL THEN b ELSE f, b, nx1)
  <2>1. nx1 = [nx EXCEPT ![b] = NULL, ![a] = IF f = NULL THEN NULL ELSE b]
    BY Zenon, <1>2, <1>4
  <2>2. Rear(L, c, H, f, l, nx, b, a, nx1, c1)
    BY Zenon, <1>1, <1>3, <1>4, <2>1 DEF Rear
  <2> QED BY Zenon, <2>2, AtRear
<1>6. L \in Nat /\ a \in Blocks
  <2>1. /\ L \in Nat /\ f = (IF L = 0 THEN NULL ELSE c[1]) /\ l = (IF L = 0 THEN NULL ELSE c[L])
        /\ \A i \in 1..L : c[i] \in Blocks
    BY LinkedFacts
  <2> QED BY <1>1, <1>4, <2>1
<1>7. c1[L + 1] = b /\ \A i \in 1..L : c1[i] = c[i]
  BY <1>3, <1>6
<1>8. nx1 \in [Blocks -> Blocks \cup {NULL}]
  <2>1. y \in Blocks \cup {NULL}
    BY Zenon, <1>2, <1>4
  <2>2. PICK n1 : n1 = [nx EXCEPT ![b] = NULL]
    BY Zenon
  <2>3. n1 \in [Blocks -> Blocks \cup {NULL}]
    BY <1>4, <2>2
  <2>4. nx1 = [n1 EXCEPT ![a] = y]
    BY Zenon, <1>4, <2>2
  <2> QED BY <1>6, <2>1, <2>3, <2>4
<1> QED BY Zenon, <1>4, <1>5, <1>7, <1>8

\* free_nodes_before moves the blocks before the q-th to the rear.
LEMMA Rotation ==
  ASSUME NEW L, NEW c, NEW H, NEW f, NEW l, NEW nx \in [Blocks -> Blocks \cup {NULL}],
         Linked(L, c, H, f, l, nx), NEW q \in 2..L, NEW p, p = c[q - 1],
         NEW nx1, nx1 = [nx EXCEPT ![l] = f, ![p] = NULL],
         NEW m \in Nat, m = (L - q) + 1,
         NEW c1, c1 = [i \in 1..L |-> IF i <= m THEN c[i + q - 1] ELSE c[i - m]]
  PROVE  Linked(L, c1, H, c[q], p, nx1)
<1>1. /\ L \in Nat /\ c \in [1..L -> Blocks]
      /\ f = (IF L = 0 THEN NULL ELSE c[1]) /\ l = (IF L = 0 THEN NULL ELSE c[L])
      /\ \A i \in 1..L : c[i] \in Blocks /\ c[i] \in H /\ c[i] # NULL
      /\ \A i, j \in 1..L : c[i] = c[j] => i = j
      /\ \A x \in H : \E i \in 1..L : x = c[i]
      /\ \A i \in 1..L : nx[c[i]] = IF i = L THEN NULL ELSE c[i + 1]
  BY LinkedFacts
<1>2. m \in 1..L - 1 /\ L # 0 /\ q - 1 \in 1..L - 1 /\ L - m = q - 1
  BY <1>1
<1>3. \A i \in 1..L : IF i <= m THEN i + q - 1 \in 1..L /\ i + q - 1 >= q /\ c1[i] = c[i + q - 1]
                      ELSE i - m \in 1..L /\ i - m < q /\ c1[i] = c[i - m]
  BY <1>1, <1>2
<1>4. c1 \in [1..L -> Blocks]
  <2>1. \A i \in 1..L : c1[i] \in Blocks
    BY Zenon, <1>1, <1>3
  <2> QED BY Zenon, <2>1
<1>5. c1[1] = c[q] /\ c1[L] = p /\ c1[m] = l
  BY <1>1, <1>2, <1>3
<1>6. \A i \in 1..L : nx1[c[i]] = IF i = q - 1 THEN NULL ELSE IF i = L THEN f ELSE c[i + 1]
  BY <1>1, <1>2
<1>7. ASSUME NEW i \in 1..L PROVE nx1[c1[i]] = IF i = L THEN NULL ELSE c1[i + 1]
  <2>1. CASE i < m
    <3>0. i + 1 \in 1..L /\ i <= m /\ i + 1 <= m
      BY <1>1, <1>2, <2>1
    <3>1. c1[i] = c[i + q - 1] /\ i + q - 1 \in 1..L /\ c1[i + 1] = c[(i + 1) + q - 1]
      BY <1>3, <3>0
    <3>2. i + q - 1 # q - 1 /\ i + q - 1 # L /\ (i + q - 1) + 1 = (i + 1) + q - 1 /\ i # L
      BY <1>1, <1>2, <2>1
    <3> QED BY Zenon, <1>6, <3>1, <3>2
  <2>2. CASE i = m
    <3>1. c1[i] = c[L] /\ L \in 1..L /\ L # q - 1 /\ i # L
      BY <1>1, <1>2, <1>5, <2>2
    <3>2. i + 1 \in 1..L /\ ~(i + 1 <= m) /\ (i + 1) - m = 1
      BY <1>1, <1>2, <2>2
    <3>3. c1[i + 1] = f
      BY Zenon, <1>1, <1>2, <1>3, <3>2
    <3>4. nx1[c[L]] = f
      BY Zenon, <1>6, <3>1
    <3> QED BY Zenon, <3>1, <3>3, <3>4
  <2>3. CASE i > m
    <3>1. c1[i] = c[i - m] /\ i - m \in 1..L /\ (i - m = q - 1 <=> i = L) /\ i - m # L
      BY <1>1, <1>2, <1>3, <2>3
    <3>2. ASSUME i # L PROVE c1[i + 1] = c[(i - m) + 1]
      <4>1. i + 1 \in 1..L /\ ~(i + 1 <= m) /\ (i + 1) - m = (i - m) + 1
        BY <1>1, <1>2, <2>3, <3>2
      <4> QED BY <1>3, <4>1
    <3> QED BY Zenon, <1>6, <3>1, <3>2
  <2> QED BY <1>2, <2>1, <2>2, <2>3
<1>8. Path(L, c1, c[q], nx1)
  BY Zenon, <1>1, <1>2, <1>4, <1>5, <1>7 DEF Path
<1>9. Holds(L, c1, H)
  <2>1. ASSUME NEW i \in 1..L, NEW j \in 1..L, c1[i] = c1[j] PROVE i = j
    <3>1. CASE i <= m /\ j <= m
      BY <1>1, <1>3, <2>1, <3>1
    <3>2. CASE i > m /\ j > m
      BY <1>1, <1>2, <1>3, <2>1, <3>2
    <3>3. CASE (i <= m /\ j > m) \/ (i > m /\ j <= m)
      BY <1>1, <1>2, <1>3, <2>1, <3>3
    <3> QED BY <1>2, <3>1, <3>2, <3>3
  <2>2. ASSUME NEW x \in H PROVE \E i \in 1..L : x = c1[i]
    <3>1. PICK j \in 1..L : x = c[j]
      BY Zenon, <1>1
    <3>2. CASE j >= q
      <4>1. (j - q) + 1 \in 1..L /\ (j - q) + 1 <= m /\ ((j - q) + 1) + q - 1 = j
        BY <1>1, <1>2, <3>2
      <4> QED BY Zenon, <1>3, <3>1, <4>1
    <3>3. CASE j < q
      <4>1. j + m \in 1..L /\ ~(j + m <= m) /\ (j + m) - m = j
        BY <1>1, <1>2, <3>3
      <4> QED BY Zenon, <1>3, <3>1, <4>1
    <3> QED BY <1>1, <3>2, <3>3
  <2>3. ASSUME NEW i \in 1..L PROVE c1[i] \in H
    BY <1>1, <1>3
  <2>4. \A x : x \in H <=> \E i \in 1..L : x = c1[i]
    BY Zenon, <2>2, <2>3
  <2> QED BY <2>1, <2>4 DEF Holds
<1> QED BY Zenon, <1>2, <1>5, <1>8, <1>9 DEF Linked

\* What free_blocks leaves of the pointers, the blocks and the chain when it takes
\* n blocks out, those behind the one after the u-th: b is the first one to stay.
Prune(L, c, H, l, nx, u, n, b, nx1, H1, M, c1, z) ==
  /\ nx \in [Blocks -> Blocks \cup {NULL}] /\ u \in 1..L - 1
  /\ n \in 0..(L - u) - 1 /\ M \in Nat /\ M = L - n
  /\ b = (IF n < (L - u) - 1 THEN c[u + n + 2] ELSE NULL)
  /\ nx1 = [nx EXCEPT ![c[u + 1]] = b]
  /\ \A x : x \in H1 <=> x \in H /\ \A i \in 1..n : x # c[u + 1 + i]
  /\ c1 = [i \in 1..M |-> IF i <= u + 1 THEN c[i] ELSE c[i + n]]
  /\ z = IF b = NULL THEN c[u + 1] ELSE l

\* free_blocks takes blocks out of the chain.
LEMMA Pruning ==
  ASSUME NEW L, NEW c, NEW H, NEW f, NEW l, NEW nx, Linked(L, c, H, f, l, nx),
         NEW u, NEW n, NEW b, NEW nx1, NEW H1, NEW M, NEW c1, NEW z,
         Prune(L, c, H, l, nx, u, n, b, nx1, H1, M, c1, z)
  PROVE  Linked(M, c1, H1, f, z, nx1)
<1>0. nx \in [Blocks -> Blocks \cup {NULL}] /\ u \in 1..L - 1 /\ n \in 0..(L - u) - 1
      /\ M \in Nat /\ M = L - n
  BY Zenon DEF Prune
<1>a. b = (IF n < (L - u) - 1 THEN c[u + n + 2] ELSE NULL)
  BY Zenon DEF Prune
<1>b. nx1 = [nx EXCEPT ![c[u + 1]] = b]
  BY Zenon DEF Prune
<1>c. \A x : x \in H1 <=> x \in H /\ \A i \in 1..n : x # c[u + 1 + i]
  BY Zenon DEF Prune
<1>d. c1 = [i \in 1..M |-> IF i <= u + 1 THEN c[i] ELSE c[i + n]]
  BY Zenon DEF Prune
<1>e. z = IF b = NULL THEN c[u + 1] ELSE l
  BY Zenon DEF Prune
<1> USE <1>0
<1>1. /\ L \in Nat /\ c \in [1..L -> Blocks]
      /\ f = (IF L = 0 THEN NULL ELSE c[1]) /\ l = (IF L = 0 THEN NULL ELSE c[L])
      /\ \A i \in 1..L : c[i] \in Blocks /\ c[i] \in H /\ c[i] # NULL
      /\ \A i, j \in 1..L : c[i] = c[j] => i = j
      /\ \A x \in H : \E i \in 1..L : x = c[i]
      /\ \A i \in 1..L : nx[c[i]] = IF i = L THEN NULL ELSE c[i + 1]
  BY LinkedFacts
<1>2. L # 0 /\ u + 1 \in 1..M /\ u + 1 \in 1..L /\ M + n = L /\ M <= L
  BY <1>1
<1>3. \A i \in 1..M : IF i <= u + 1 THEN i \in 1..L /\ c1[i] = c[i]
                      ELSE i + n \in 1..L /\ c1[i] = c[i + n]
  BY <1>1, <1>2, <1>d
<1>4. c1 \in [1..M -> Blocks]
  <2>1. \A i \in 1..M : c1[i] \in Blocks
    BY Zenon, <1>1, <1>3
  <2> QED BY Zenon, <1>d, <2>1
<1>5. f = c1[1] /\ M # 0
  <2>1. 1 \in 1..M /\ 1 <= u + 1
    BY <1>2
  <2> QED BY <1>1, <1>2, <1>3, <2>1
<1>6. \A i \in 1..L : nx1[c[i]] = IF i = u + 1 THEN b ELSE nx[c[i]]
  BY Zenon, <1>1, <1>2, <1>b
<1>7. b = (IF u + 1 = M THEN NULL ELSE c1[u + 2]) /\ (b = NULL <=> u + 1 = M)
  <2>1. CASE n < (L - u) - 1
    <3>1. u + 2 \in 1..M /\ ~(u + 2 <= u + 1) /\ (u + 2) + n = u + n + 2 /\ u + 1 # M
      BY <1>1, <1>2, <2>1
    <3>2. c1[u + 2] = c[u + n + 2] /\ u + n + 2 \in 1..L
      BY <1>3, <3>1
    <3> QED BY Zenon, <1>1, <1>a, <2>1, <3>1, <3>2
  <2>2. CASE ~(n < (L - u) - 1)
    <3>1. u + 1 = M
      BY <1>1, <2>2
    <3> QED BY Zenon, <1>a, <2>2, <3>1
  <2> QED BY Zenon, <2>1, <2>2
<1>8. ASSUME NEW i \in 1..M PROVE nx1[c1[i]] = IF i = M THEN NULL ELSE c1[i + 1]
  <2>1. CASE i < u + 1
    <3>1. i \in 1..L /\ i <= u + 1 /\ i + 1 \in 1..M /\ i + 1 <= u + 1 /\ i # M /\ i # L
      BY <1>1, <1>2, <2>1
    <3>2. c1[i] = c[i] /\ c1[i + 1] = c[i + 1]
      BY Zenon, <1>3, <3>1
    <3>3. i # u + 1
      BY <1>1, <2>1
    <3> QED BY Zenon, <1>1, <1>6, <3>1, <3>2, <3>3
  <2>2. CASE i = u + 1
    <3>1. c1[i] = c[u + 1] /\ i + 1 = u + 2
      BY <1>2, <1>3, <2>2
    <3> QED BY Zenon, <1>2, <1>6, <1>7, <2>2, <3>1
  <2>3. CASE i > u + 1
    <3>1. c1[i] = c[i + n] /\ i + n \in 1..L /\ i + n # u + 1 /\ (i + n = L <=> i = M)
      BY <1>1, <1>2, <1>3, <2>3
    <3>2. ASSUME i # M PROVE c1[i + 1] = c[(i + n) + 1]
      <4>1. i + 1 \in 1..M /\ ~(i + 1 <= u + 1) /\ (i + 1) + n = (i + n) + 1
        BY <1>1, <1>2, <2>3, <3>2
      <4> QED BY <1>3, <4>1
    <3>3. nx1[c[i + n]] = nx[c[i + n]]
      BY Zenon, <1>6, <3>1
    <3>4. nx[c[i + n]] = IF i + n = L THEN NULL ELSE c[(i + n) + 1]
      BY Zenon, <1>1, <3>1
    <3> QED BY Zenon, <3>1, <3>2, <3>3, <3>4
  <2> QED BY <1>2, <2>1, <2>2, <2>3
<1>9. Path(M, c1, f, nx1)
  BY <1>4, <1>5, <1>8 DEF Path
<1>10. Holds(M, c1, H1)
  <2>1. ASSUME NEW i \in 1..M, NEW j \in 1..M, c1[i] = c1[j] PROVE i = j
    <3>1. CASE i <= u + 1 /\ j <= u + 1
      BY <1>1, <1>3, <2>1, <3>1
    <3>2. CASE i > u + 1 /\ j > u + 1
      BY <1>1, <1>2, <1>3, <2>1, <3>2
    <3>3. CASE (i <= u + 1 /\ j > u + 1) \/ (i > u + 1 /\ j <= u + 1)
      BY <1>1, <1>2, <1>3, <2>1, <3>3
    <3> QED BY <1>2, <3>1, <3>2, <3>3
  <2>2. ASSUME NEW x \in H1 PROVE \E i \in 1..M : x = c1[i]
    <3>1. x \in H /\ \A i \in 1..n : x # c[u + 1 + i]
      BY <1>c, Zenon
    <3>2. PICK j \in 1..L : x = c[j]
      BY Zenon, <1>1, <3>1
    <3>3. CASE j <= u + 1
      <4>1. j \in 1..M
        BY <1>2, <3>3
      <4> QED BY Zenon, <1>3, <3>2, <3>3, <4>1
    <3>4. CASE j > u + 1
      <4>1. ~(j <= u + 1 + n)
        <5>1. ASSUME j <= u + 1 + n PROVE FALSE
          <6>1. j - (u + 1) \in 1..n /\ u + 1 + (j - (u + 1)) = j
            BY <1>2, <3>4, <5>1
          <6> QED BY Zenon, <3>1, <3>2, <6>1
        <5> QED BY <5>1
      <4>2. j - n \in 1..M /\ ~(j - n <= u + 1) /\ (j - n) + n = j
        BY <1>1, <1>2, <3>4, <4>1
      <4> QED BY Zenon, <1>3, <3>2, <4>2
    <3> QED BY <1>2, <3>3, <3>4
  <2>3. ASSUME NEW i \in 1..M PROVE c1[i] \in H1
    <3>1. PICK j \in 1..L : c1[i] = c[j] /\ (j <= u + 1 \/ j > u + 1 + n)
      <4>1. CASE i <= u + 1
        BY Zenon, <1>3, <4>1
      <4>2. CASE ~(i <= u + 1)
        <5>1. i + n \in 1..L /\ c1[i] = c[i + n] /\ i + n > u + 1 + n
          BY <1>2, <1>3, <4>2
        <5> QED BY Zenon, <5>1
      <4> QED BY Zenon, <4>1, <4>2
    <3>2. ASSUME NEW x \in 1..n PROVE c[j] # c[u + 1 + x]
      <4>1. u + 1 + x \in 1..L /\ u + 1 + x # j
        BY <1>1, <1>2, <3>1
      <4> QED BY Zenon, <1>1, <4>1
    <3> QED BY Zenon, <1>1, <1>c, <3>1, <3>2
  <2>4. \A x : x \in H1 <=> \E i \in 1..M : x = c1[i]
    BY <2>2, <2>3, Zenon
  <2> QED BY Zenon, <2>1, <2>4 DEF Holds
<1>11. (IF b = NULL THEN c[u + 1] ELSE l) = c1[M]
  <2>1. CASE u + 1 = M
    <3>1. c1[u + 1] = c[u + 1]
      BY <1>2, <1>3
    <3> QED BY Zenon, <1>7, <2>1, <3>1
  <2>2. CASE u + 1 # M
    <3>1. M \in 1..M /\ ~(M <= u + 1)
      BY <1>2, <2>2
    <3>2. c1[M] = c[L]
      BY Zenon, <1>2, <1>3, <3>1
    <3> QED BY Zenon, <1>1, <1>2, <1>7, <2>2, <3>2
  <2> QED BY Zenon, <2>1, <2>2
<1> QED BY <1>5, <1>9, <1>10, <1>11, <1>e, Zenon DEF Linked

-----------------------------------------------------------------------------
(* The nodes in use.                                                       *)

\* The j-th node of the chain, from 0 on.
Node(c, j) == <<c[j \div B + 1], j % B>>

\* How many nodes there are up to node k of block u.
Count(u, k) == IF u = 0 THEN 0 ELSE (u - 1) * B + k + 1

\* The nodes lv are those up to node k of block u, but for d of the first block.
InUse(c, u, k, d, lv) ==
  /\ u \in Nat /\ k \in -1..B - 1 /\ d \in 0..B - 1 /\ lv \in Seq(Blocks \X Nat)
  /\ k = -1 => u <= 1
  /\ u = 0 => k = -1
  /\ Len(lv) + d = Count(u, k)
  /\ \A i \in 1..Len(lv) : lv[i] = Node(c, d + i - 1)

\* Products with the size of a block.
LEMMA Products ==
  ASSUME NEW u \in Nat
  PROVE  u * B \in Nat /\ (u - 1) * B \in Int /\ (u - 1) * B + B = u * B
BY TranxAssumption DEF B

\* The node at the i-th place is in one of the first u blocks.
LEMMA UseIndex ==
  ASSUME NEW c, NEW u, NEW k, NEW d, NEW lv, InUse(c, u, k, d, lv),
         NEW i \in 1..Len(lv), NEW j, j = d + i - 1
  PROVE  /\ u \in Nat \ {0} /\ j \in Nat /\ j < u * B /\ j \div B \in Nat /\ j \div B + 1 \in 1..u
         /\ Len(lv) + d = (u - 1) * B + k + 1
<1>1. /\ B \in Nat \ {0} /\ u \in Nat /\ k \in -1..B - 1 /\ d \in 0..B - 1 /\ Len(lv) \in Nat
      /\ Len(lv) + d = Count(u, k)
  BY TranxAssumption DEF InUse, B
<1>2. u # 0 /\ j \in Nat /\ j < Len(lv) + d
  BY <1>1 DEF Count
<1>3. Len(lv) + d = (u - 1) * B + k + 1
  BY <1>1, <1>2 DEF Count
<1>4. j < u * B
  <2>1. u * B \in Nat /\ (u - 1) * B \in Int /\ (u - 1) * B + B = u * B
    BY Zenon, <1>1, Products
  <2> QED BY <1>1, <1>2, <1>3, <2>1
<1>5. j \div B \in Nat /\ j \div B < u
  BY Zenon, <1>1, <1>2, <1>4, DivMod, DivBelow
<1> QED BY <1>1, <1>2, <1>3, <1>4, <1>5

\* Only the first u blocks matter.
LEMMA UseKept ==
  ASSUME NEW c, NEW u, NEW k, NEW d, NEW lv, InUse(c, u, k, d, lv),
         NEW c2, \A i \in 1..u : c2[i] = c[i]
  PROVE  InUse(c2, u, k, d, lv)
<1>1. ASSUME NEW i \in 1..Len(lv) PROVE lv[i] = Node(c2, d + i - 1)
  <2>1. PICK j : j = d + i - 1
    OBVIOUS
  <2>2. j \div B + 1 \in 1..u
    BY <2>1, UseIndex
  <2>3. lv[i] = Node(c, j)
    BY <2>1 DEF InUse
  <2>4. c2[j \div B + 1] = c[j \div B + 1]
    BY <2>2
  <2> QED BY Zenon, <2>1, <2>3, <2>4 DEF Node
<1> QED BY Zenon, <1>1 DEF InUse

\* No node is in use.
LEMMA UseNone ==
  ASSUME NEW c, NEW u \in {0, 1}
  PROVE  InUse(c, u, -1, 0, <<>>)
<1>1. B \in Nat \ {0}
  BY TranxAssumption DEF B
<1>2. PICK e : e = <<>>
  OBVIOUS
<1>3. Len(e) = 0 /\ e \in Seq(Blocks \X Nat) /\ \A i \in 1..Len(e) : FALSE
  BY <1>2
<1>4. Count(u, -1) = 0
  BY <1>1 DEF Count
<1>5. InUse(c, u, -1, 0, e)
  BY <1>1, <1>3, <1>4 DEF InUse
<1> QED BY <1>2, <1>5

\* The j-th node of the v-th block.
LEMMA NodeAt ==
  ASSUME NEW c, NEW v \in Nat \ {0}, NEW j \in 0..B - 1, NEW x \in Nat, x = (v - 1) * B + j
  PROVE  Node(c, x) = <<c[v], j>>
<1>1. B \in Nat \ {0} /\ v - 1 \in Nat /\ (v - 1) + 1 = v
  BY TranxAssumption DEF B
<1>2. x \div B = v - 1 /\ x % B = j
  BY Zenon, <1>1, DivUnique
<1> QED BY <1>1, <1>2, Zenon DEF Node

\* Node j of block v is the one after node k of block u.
After(u, k, v, j) ==
  \/ u # 0 /\ k # B - 1 /\ v = u /\ j = k + 1
  \/ (u = 0 \/ k = B - 1) /\ v = u + 1 /\ j = 0

\* allocate_node hands out the node after the last one.
LEMMA UseNext ==
  ASSUME NEW c, NEW u, NEW k, NEW d, NEW lv, InUse(c, u, k, d, lv), NEW v, NEW j,
         After(u, k, v, j), c[v] \in Blocks, NEW lv2, lv2 = Append(lv, <<c[v], j>>)
  PROVE  InUse(c, v, j, d, lv2)
<1>1. /\ B \in Nat \ {0} /\ u \in Nat /\ k \in -1..B - 1 /\ d \in 0..B - 1 /\ lv \in Seq(Blocks \X Nat)
      /\ Len(lv) + d = Count(u, k) /\ (u = 0 => k = -1)
  BY TranxAssumption DEF InUse, B
<1>2. PICK n \in Nat : n = Len(lv)
  BY <1>1
<1>3. v \in Nat \ {0} /\ j \in 0..B - 1
  BY <1>1 DEF After
<1>4. n + d = (v - 1) * B + j
  <2>1. (u - 1) * B \in Int /\ (u - 1) * B + B = u * B
    BY Zenon, <1>1, Products
  <2>2. CASE v = u
    <3>1. u # 0 /\ j = k + 1
      BY <1>1, <2>2 DEF After
    <3>2. Len(lv) + d = (u - 1) * B + k + 1
      BY <1>1, <3>1 DEF Count
    <3> QED BY <1>1, <1>2, <2>1, <2>2, <3>1, <3>2
  <2>3. CASE v = u + 1 /\ u = 0
    <3>1. v - 1 = 0 /\ j = 0 /\ 0 * B = 0
      BY <1>1, <2>3 DEF After
    <3>2. Len(lv) + d = 0
      BY <1>1, <2>3 DEF Count
    <3> QED BY <1>1, <1>2, <3>1, <3>2
  <2>4. CASE v = u + 1 /\ u # 0
    <3>1. k = B - 1 /\ j = 0 /\ v - 1 = u
      BY <1>1, <2>4 DEF After
    <3> QED BY <1>1, <1>2, <2>1, <2>4, <3>1 DEF Count
  <2>5. v = u \/ v = u + 1
    BY DEF After
  <2> QED BY Zenon, <2>2, <2>3, <2>4, <2>5
<1>5. Node(c, n + d) = <<c[v], j>>
  <2>1. PICK x \in Nat : x = n + d
    BY <1>1, <1>2
  <2>2. x = (v - 1) * B + j
    BY <1>4, <2>1, Zenon
  <2>3. Node(c, x) = <<c[v], j>>
    BY <1>3, <2>2, NodeAt, Zenon
  <2> QED BY <2>1, <2>3, Zenon
<1>6. <<c[v], j>> \in Blocks \X Nat
  BY <1>3
<1>7. /\ lv2 \in Seq(Blocks \X Nat) /\ Len(lv2) = n + 1
      /\ \A i \in 1..n + 1 : lv2[i] = IF i = n + 1 THEN <<c[v], j>> ELSE lv[i]
  <2>1. PICK e : e = <<c[v], j>> /\ e \in Blocks \X Nat
    BY <1>6
  <2>2. lv2 = Append(lv, e)
    BY Zenon, <2>1
  <2> QED BY <1>1, <1>2, <2>1, <2>2
<1>8. ASSUME NEW i \in 1..n + 1 PROVE lv2[i] = Node(c, d + i - 1)
  <2>1. CASE i = n + 1
    <3>1. d + i - 1 = n + d
      BY <1>1, <2>1
    <3> QED BY <1>5, <1>7, <2>1, <3>1
  <2>2. CASE i # n + 1
    <3>1. i \in 1..Len(lv)
      BY <1>2, <2>2
    <3>2. lv2[i] = lv[i]
      BY <1>7, <2>2
    <3>3. lv[i] = Node(c, d + i - 1)
      BY <3>1 DEF InUse
    <3> QED BY Zenon, <3>2, <3>3
  <2> QED BY Zenon, <2>1, <2>2
<1>9. Len(lv2) + d = Count(v, j)
  <2>1. PICK y \in Int : y = (v - 1) * B
    BY Zenon, <1>3, Products
  <2>2. Count(v, j) = y + j + 1
    BY <1>3, <2>1 DEF Count
  <2>3. n + d = y + j
    BY <1>4, <2>1, Zenon
  <2>4. Len(lv2) = n + 1 /\ d \in Int /\ j \in Int
    BY <1>1, <1>3, <1>7
  <2> QED BY <2>2, <2>3, <2>4
<1>10. v \in Nat /\ j \in -1..B - 1 /\ j # -1 /\ v # 0
  BY <1>1, <1>3
<1> QED BY Zenon, <1>1, <1>7, <1>8, <1>9, <1>10 DEF InUse

\* The number of a node, the place of its block and its index there.
At(j, q, r) == q = j \div B + 1 /\ r = j % B

\* lv2 is what lv has from the m-th element on.
Rest(lv, m, lv2) ==
  /\ lv2 \in Seq(Blocks \X Nat) /\ Len(lv2) = (Len(lv) - m) + 1
  /\ \A i \in 1..Len(lv2) : lv2[i] = lv[m + i - 1]

\* SubSeq gives the rest of a sequence.
LEMMA RestIs ==
  ASSUME NEW lv \in Seq(Blocks \X Nat), NEW m \in 1..Len(lv)
  PROVE  Rest(lv, m, SubSeq(lv, m, Len(lv)))
<1>1. PICK S : S = Blocks \X Nat
  BY Zenon
<1>2. lv \in Seq(S)
  BY <1>1
<1>3. PICK s : s = SubSeq(lv, m, Len(lv))
  BY Zenon
<1>4. /\ s \in Seq(S) /\ Len(s) = (Len(lv) - m) + 1
      /\ \A i \in 1..Len(s) : s[i] = lv[m + i - 1]
  <2>1. PICK n \in Nat : n = Len(lv) /\ m \in 1..n /\ m \in Int /\ n \in Int
    BY <1>2
  <2>2. s = SubSeq(lv, m, n) /\ \A i \in m..n : lv[i] \in S
    BY <1>2, <1>3, <2>1
  <2>3. /\ s \in Seq(S) /\ Len(s) = (IF m <= n THEN n - m + 1 ELSE 0)
        /\ \A i \in 1..n - m + 1 : s[i] = lv[m + i - 1]
    BY <2>1, <2>2
  <2>4. m <= n /\ n - m + 1 = (n - m) + 1
    BY <2>1
  <2> QED BY Zenon, <2>1, <2>3, <2>4
<1> QED BY Zenon, <1>1, <1>3, <1>4 DEF Rest

\* Two nodes whose numbers differ by whole blocks.
LEMMA AtShift ==
  ASSUME NEW a \in Nat, NEW r \in 0..B - 1, NEW J \in Nat, NEW x \in Nat,
         a * B + r <= J, J - a * B = x
  PROVE  /\ x \div B = J \div B - a /\ x % B = J % B
         /\ J \div B \in Nat /\ a <= J \div B
<1>1. B \in Nat \ {0}
  BY TranxAssumption DEF B
<1>2. a * B \in Nat
  BY <1>1
<1>3. a * B <= J
  BY <1>2
<1>4. J \div B \in Nat
  BY <1>1, DivMod
<1> QED BY Zenon, <1>1, <1>3, <1>4, DivShift, DivAbove

\* The nodes from the m-th on, in a chain that begins with the block of that node.
LEMMA UseFrom ==
  ASSUME NEW c, NEW u, NEW k, NEW d, NEW lv, InUse(c, u, k, d, lv), NEW m \in 1..Len(lv),
         NEW q, NEW r, At(d + m - 1, q, r), NEW lv2, Rest(lv, m, lv2)
  PROVE  /\ lv[m] = <<c[q], r>> /\ q \in 1..u
         /\ \A c2 : (\A i \in 1..(u - q) + 1 : c2[i] = c[i + q - 1])
                      => InUse(c2, (u - q) + 1, k, r, lv2)
<1>1. /\ B \in Nat \ {0} /\ u \in Nat /\ k \in -1..B - 1 /\ d \in 0..B - 1
      /\ lv \in Seq(Blocks \X Nat) /\ (k = -1 => u <= 1)
  BY TranxAssumption DEF InUse, B
<1>2. PICK n \in Nat : n = Len(lv)
  BY <1>1
<1>3. PICK j \in Nat : j = d + m - 1
  BY <1>1
<1>4. /\ u \in Nat \ {0} /\ j \div B + 1 \in 1..u
      /\ n + d = (u - 1) * B + k + 1
  BY <1>2, <1>3, UseIndex
<1>5. lv[m] = <<c[q], r>>
  <2>1. lv[m] = Node(c, d + m - 1)
    BY DEF InUse
  <2> QED BY <2>1 DEF Node, At
<1>6. q \in 1..u
  BY <1>3, <1>4 DEF At
<1>7. PICK a \in Nat : a = q - 1
  BY <1>6
<1>8. r \in 0..B - 1 /\ j = a * B + r
  <2>1. j \div B \in Nat /\ j % B \in 0..B - 1 /\ j = (j \div B) * B + (j % B)
    BY Zenon, <1>1, <1>3, DivMod
  <2>2. j \div B = a /\ j % B = r
    BY <1>3, <1>7, <2>1 DEF At
  <2> QED BY <2>1, <2>2, Zenon
<1>9. PICK z \in Nat : z = a * B
  BY Zenon, <1>1, <1>7, Products
<1>10. PICK v \in Nat \ {0} : v = (u - q) + 1
  BY <1>4, <1>6
<1>11. /\ lv2 \in Seq(Blocks \X Nat) /\ Len(lv2) = (n - m) + 1
       /\ \A i \in 1..Len(lv2) : lv2[i] = lv[m + i - 1]
  BY Zenon, <1>2 DEF Rest
<1>12. Len(lv2) + r = Count(v, k)
  <2>1. v - 1 = (u - 1) - a
    BY <1>4, <1>6, <1>7, <1>10
  <2>2. PICK w \in Int : w = u - 1
    BY <1>1
  <2>3. (w - a) * B = w * B - a * B
    BY <1>1, <2>2
  <2>4. Count(v, k) = (v - 1) * B + k + 1
    BY <1>10 DEF Count
  <2>5. PICK y \in Int : y = w * B
    BY <1>1, <2>2
  <2>6. n + d = y + k + 1
    BY Zenon, <1>4, <2>2, <2>5
  <2>7. Count(v, k) = (y - z) + k + 1
    BY <1>9, <2>1, <2>2, <2>3, <2>4, <2>5, Zenon
  <2>8. j = z + r
    BY Zenon, <1>8, <1>9
  <2>a. PICK e \in Nat : e = (n - m) + 1
    BY <1>2
  <2>9. e = Len(lv2) /\ e = (n - m) + 1
    BY <1>11, <2>a, Zenon
  <2>10. r \in Int
    BY <1>1, <1>8
  <2> QED BY <1>1, <1>3, <2>6, <2>7, <2>8, <2>9, <2>10
<1>13. ASSUME NEW i \in 1..Len(lv2)
       PROVE  \E x \in 1..v : \E J : /\ lv2[i] = <<c[x + q - 1], J % B>>
                                     /\ (r + i - 1) \div B + 1 = x /\ (r + i - 1) % B = J % B
  <2>1. PICK e : e = m + i - 1
    OBVIOUS
  <2>2. e \in 1..Len(lv) /\ lv2[i] = lv[e]
    BY <1>2, <1>11, <2>1
  <2>3. PICK J \in Nat : J = d + e - 1
    BY <1>1, <2>2
  <2>4. J \div B + 1 \in 1..u
    BY Zenon, <2>2, <2>3, UseIndex
  <2>5. J = j + (i - 1) /\ i \in Nat \ {0}
    BY <1>1, <1>3, <1>11, <2>1, <2>3
  <2>6. PICK y \in Nat : y = r + i - 1
    BY <1>8, <2>5
  <2>7. a * B + r <= J /\ J - a * B = y
    <3>1. r \in Int /\ j = z + r
      BY <1>1, <1>8, <1>9
    <3>2. z + r <= J /\ J - z = y
      BY <2>5, <2>6, <3>1
    <3> QED BY <1>9, <3>2, Zenon
  <2>8. PICK w \in Nat : w = J \div B /\ y \div B = w - a /\ y % B = J % B /\ a <= w
    BY <1>7, <1>8, <2>7, AtShift
  <2>9. PICK x \in 1..v : x = (w - a) + 1 /\ x + q - 1 = w + 1
    <3>1. w + 1 \in 1..u /\ a <= w
      BY <2>4, <2>8, Zenon
    <3>2. (w - a) + 1 \in 1..v /\ (w - a) + 1 + q - 1 = w + 1
      BY <1>1, <1>6, <1>7, <1>10, <3>1
    <3> QED BY <3>2
  <2>10. lv[e] = <<c[w + 1], J % B>>
    <3>1. lv[e] = Node(c, d + e - 1)
      BY Zenon, <2>2 DEF InUse
    <3> QED BY Zenon, <2>3, <2>8, <3>1 DEF Node
  <2> QED BY Zenon, <2>2, <2>6, <2>8, <2>9, <2>10
<1>14. k = -1 => v <= 1
  BY <1>1, <1>4, <1>6, <1>10
<1>15. ASSUME NEW c2, \A i \in 1..v : c2[i] = c[i + q - 1]
       PROVE  InUse(c2, v, k, r, lv2)
  <2>1. ASSUME NEW i \in 1..Len(lv2) PROVE lv2[i] = Node(c2, r + i - 1)
    <3>1. PICK x \in 1..v : \E J : /\ lv2[i] = <<c[x + q - 1], J % B>>
                                   /\ (r + i - 1) \div B + 1 = x /\ (r + i - 1) % B = J % B
      BY <1>13, Zenon
    <3>2. c2[x] = c[x + q - 1]
      BY <1>15
    <3> QED BY <3>1, <3>2, Zenon DEF Node
  <2>2. v \in Nat /\ v # 0
    BY <1>10
  <2> QED BY <1>1, <1>8, <1>11, <1>12, <1>14, <2>1, <2>2, Zenon DEF InUse
<1> QED BY <1>5, <1>6, <1>10, <1>15

-----------------------------------------------------------------------------
(* free_blocks.                                                            *)

\* No more free blocks behind the u-th than there should be.
Few(L, u, R) == L > R => L - u <= 1

\* The reserve has room for reserved_nodes nodes.
LEMMA Reserve ==
  ASSUME reserved_nodes \in Nat
  PROVE  /\ reserved_blocks \in Nat
         /\ \A M \in Nat : M >= reserved_blocks => M * B >= reserved_nodes
<1>1. B \in Nat \ {0}
  BY TranxAssumption DEF B
<1>2. PICK x \in Nat, y \in 0..B - 1 :
        /\ x = reserved_nodes \div B /\ y = reserved_nodes % B
        /\ reserved_nodes = x * B + y
  BY <1>1, DivMod
<1>3. reserved_blocks \in Nat /\ x + 1 <= reserved_blocks
  <2>1. reserved_blocks = x + (IF y > 1 THEN 2 ELSE 1)
    BY <1>2, Zenon DEF reserved_blocks, B
  <2> QED BY <1>1, <1>2, <2>1
<1>4. ASSUME NEW M \in Nat, M >= reserved_blocks PROVE M * B >= reserved_nodes
  <2>1. PICK e \in Nat : M = (x + 1) + e
    <3>1. M - (x + 1) \in Nat /\ M = (x + 1) + (M - (x + 1))
      BY <1>3, <1>4
    <3> QED BY <3>1
  <2>2. M * B = x * B + B + e * B /\ e * B \in Nat /\ x * B \in Nat
    BY <1>1, <2>1
  <2> QED BY <1>1, <1>2, <2>2
<1> QED BY <1>3, <1>4

\* What Surplus counts: K blocks stand behind the free one, R are reserved.
Excess(L, K, R, n) ==
  n = IF (IF L > R THEN L - R ELSE 0) < K THEN (IF L > R THEN L - R ELSE 0) ELSE K

\* With the surplus gone there are at least the reserved blocks, and few free ones.
LEMMA ExcessGone ==
  ASSUME NEW L \in Nat, NEW R \in Nat, NEW u \in 1..L - 1, NEW K, K = (L - u) - 1,
         NEW n, Excess(L, K, R, n)
  PROVE  /\ n \in 0..(L - u) - 1 /\ L - n \in Nat /\ u <= L - n
         /\ Few(L - n, u, R) /\ (L - n < L => L - n >= R)
BY DEF Excess, Few

\* behind is the chain from e on, which is two places behind a, n of its blocks
\* are too many, and b is the first that is not.
Loose(nx, a, w, e, behind, n, b) ==
  /\ a # NULL /\ nx[a] = w /\ w # NULL /\ e = nx[w] /\ behind = Chain(nx, e) /\ n = Surplus(nx, a)
  /\ b = IF n < Len(behind) THEN behind[n + 1] ELSE NULL

\* free_blocks, when the block a is not the last one.
LEMMA FreeIs ==
  ASSUME NEW nx, NEW a, NEW l, NEW w, NEW e, NEW behind, NEW n, NEW b,
         Loose(nx, a, w, e, behind, n, b), free_blocks(nx, a, l)
  PROVE  /\ heap' = heap \ {behind[i] : i \in 1..n} /\ block_num' = block_num - n
         /\ next' = [nx EXCEPT ![w] = b] /\ last_block' = IF b = NULL THEN w ELSE l
BY Zenon DEF free_blocks, Loose

\* free_blocks, for the current block at the u-th place: the chain loses blocks
\* behind it only, and as many as it may.
LEMMA FreeBlocks ==
  ASSUME NEW L, NEW c, NEW f, NEW l, NEW nx \in [Blocks -> Blocks \cup {NULL}],
         NEW H, H = heap, Linked(L, c, H, f, l, nx), block_num = L,
         NEW R \in Nat, R = reserved_blocks,
         NEW u \in 1..L, free_blocks(nx, c[u], l)
  PROVE  \E M, c1 : /\ Linked(M, c1, heap', f, last_block', next')
                    /\ next' \in [Blocks -> Blocks \cup {NULL}]
                    /\ M \in Nat /\ block_num' = M /\ u <= M
                    /\ \A i \in 1..u : c1[i] = c[i]
                    /\ Few(M, u, R) /\ (M < L => M >= R)
<1>1. /\ L \in Nat
      /\ \A i \in 1..L : c[i] \in Blocks /\ c[i] # NULL
      /\ \A i \in 1..L : nx[c[i]] = IF i = L THEN NULL ELSE c[i + 1]
  BY LinkedFacts
<1>2. CASE u = L
  <2>1. nx[c[u]] = NULL
    BY Zenon, <1>1, <1>2
  <2>2. next' = nx /\ last_block' = l /\ block_num' = block_num /\ heap' = heap
    BY Zenon, <2>1 DEF free_blocks
  <2>3. Few(L, u, R) /\ u <= L
    BY <1>1, <1>2 DEF Few
  <2>4. Linked(L, c, heap', f, last_block', next') /\ next' \in [Blocks -> Blocks \cup {NULL}]
        /\ block_num' = L
    BY <2>2, Zenon
  <2>5. L < L => L >= R
    BY <1>1
  <2> QED BY <1>1, <2>3, <2>4, <2>5, Zenon
<1>3. CASE u # L
  <2>1. u \in 1..L - 1 /\ u + 1 \in 1..L /\ u + 2 \in 1..L + 1
    BY <1>1, <1>3
  <2>2. nx[c[u]] = c[u + 1] /\ c[u] # NULL /\ c[u + 1] # NULL /\ c[u + 1] \in Blocks
    BY Zenon, <1>1, <1>3, <2>1
  <2>3. PICK K \in Nat : K = (L - u) - 1
    BY <1>1, <2>1
  <2>4. PICK e : e = nx[c[u + 1]]
    BY Zenon
  <2>5. e = IF u + 2 = L + 1 THEN NULL ELSE c[u + 2]
    <3>1. (u + 1 = L <=> u + 2 = L + 1) /\ (u + 1) + 1 = u + 2
      BY <1>1
    <3> QED BY Zenon, <1>1, <2>1, <2>4, <3>1
  <2>6. PICK behind : behind = Chain(nx, e)
    BY Zenon
  <2>7. Len(behind) = K /\ \A i \in 1..K : behind[i] = c[u + 1 + i]
    <3>1. PICK k \in 1..L + 1 : k = u + 2 /\ K = (L + 1) - k
      BY <1>1, <2>1, <2>3
    <3>2. e = IF k = L + 1 THEN NULL ELSE c[k]
      BY <2>5, <3>1, Zenon
    <3>3. Len(behind) = K /\ \A i \in 1..K : behind[i] = c[k + i - 1]
      BY <2>3, <2>6, <3>1, <3>2, SuffixAt
    <3>4. \A i \in 1..K : k + i - 1 = u + 1 + i
      BY <1>1, <2>3, <3>1
    <3> QED BY Zenon, <3>3, <3>4
  <2>8. PICK n : n = Surplus(nx, c[u])
    BY Zenon
  <2>9. Excess(L, K, R, n)
    BY <2>2, <2>4, <2>6, <2>7, <2>8, Zenon DEF Surplus, Excess
  <2>10. PICK M \in Nat : M = L - n
    BY Zenon, <1>1, <2>1, <2>3, <2>9, ExcessGone
  <2>11. n \in 0..(L - u) - 1 /\ u <= M /\ Few(M, u, R) /\ (M < L => M >= R)
    BY Zenon, <1>1, <2>1, <2>3, <2>9, <2>10, ExcessGone
  <2>12. PICK b : b = (IF n < K THEN behind[n + 1] ELSE NULL)
    BY Zenon
  <2>13. b = (IF n < (L - u) - 1 THEN c[u + n + 2] ELSE NULL)
    <3>1. n < K => n + 1 \in 1..K /\ u + 1 + (n + 1) = u + n + 2
      BY <1>1, <2>3, <2>11
    <3>2. n < K => behind[n + 1] = c[u + n + 2]
      BY <2>7, <3>1
    <3> QED BY Zenon, <2>3, <2>12, <3>2
  <2>14. PICK nx1, H1 : nx1 = [nx EXCEPT ![c[u + 1]] = b] /\ H1 = heap \ {behind[i] : i \in 1..n}
    BY Zenon
  <2>15. /\ heap' = H1 /\ block_num' = block_num - n /\ next' = nx1
         /\ last_block' = IF b = NULL THEN c[u + 1] ELSE l
    <3>1. b = IF n < Len(behind) THEN behind[n + 1] ELSE NULL
      BY <2>7, <2>12, Zenon
    <3>2. PICK a, w : a = c[u] /\ w = c[u + 1]
      BY Zenon
    <3>3. a # NULL /\ nx[a] = w /\ w # NULL /\ e = nx[w] /\ n = Surplus(nx, a) /\ free_blocks(nx, a, l)
      BY <2>2, <2>4, <2>8, <3>2, Zenon
    <3>4. /\ heap' = heap \ {behind[i] : i \in 1..n} /\ block_num' = block_num - n
          /\ next' = [nx EXCEPT ![w] = b] /\ last_block' = IF b = NULL THEN w ELSE l
      <4>1. Loose(nx, a, w, e, behind, n, b)
        BY Zenon, <2>6, <3>1, <3>3 DEF Loose
      <4> QED BY <3>3, <4>1, FreeIs
    <3> QED BY <2>14, <3>2, <3>4, Zenon
  <2>16. \A x : x \in H1 <=> x \in H /\ \A i \in 1..n : x # c[u + 1 + i]
    <3>1. \A i \in 1..n : behind[i] = c[u + 1 + i]
      <4>1. \A i \in 1..n : i \in 1..K
        BY <2>3, <2>11
      <4> QED BY Zenon, <2>7, <4>1
    <3> QED BY <2>14, <3>1, Zenon
  <2>17. PICK c1 : c1 = [i \in 1..M |-> IF i <= u + 1 THEN c[i] ELSE c[i + n]]
    BY Zenon
  <2>18. Linked(M, c1, H1, f, IF b = NULL THEN c[u + 1] ELSE l, nx1)
    <3>1. PICK z : z = IF b = NULL THEN c[u + 1] ELSE l
      BY Zenon
    <3>2. Prune(L, c, H, l, nx, u, n, b, nx1, H1, M, c1, z)
      BY <2>1, <2>10, <2>11, <2>13, <2>14, <2>16, <2>17, <3>1, Zenon DEF Prune
    <3>3. Linked(M, c1, H1, f, z, nx1)
      BY Zenon, <3>2, Pruning
    <3> QED BY <3>1, <3>3, Zenon
  <2>19. nx1 \in [Blocks -> Blocks \cup {NULL}]
    <3>1. b \in Blocks \cup {NULL}
      <4>1. n < (L - u) - 1 => u + n + 2 \in 1..L
        BY <1>1, <2>11
      <4> QED BY Zenon, <1>1, <2>13, <4>1
    <3> QED BY Zenon, <2>2, <2>14, <3>1
  <2>20. \A i \in 1..u : c1[i] = c[i]
    <3>1. \A i \in 1..u : i \in 1..M /\ i <= u + 1
      BY <1>1, <2>11
    <3> QED BY Zenon, <2>17, <3>1
  <2>21. Linked(M, c1, heap', f, last_block', next') /\ next' \in [Blocks -> Blocks \cup {NULL}]
    BY <2>15, <2>18, <2>19, Zenon
  <2>22. block_num' = M
    BY <2>10, <2>15
  <2> QED BY <2>10, <2>11, <2>20, <2>21, <2>22, Zenon
<1> QED BY Zenon, <1>2, <1>3

-----------------------------------------------------------------------------
(* The invariant.                                                          *)

\* The current block is the u-th one.
Place(L, c, u, cur) == u \in 0..L /\ (u = 0 <=> L = 0) /\ cur = IF u = 0 THEN NULL ELSE c[u]

\* The chain is c, of length L; the current block is the u-th and d nodes of the
\* first block are wasted.
Table(L, c, u, d, R) ==
  /\ next \in [Blocks -> Blocks \cup {NULL}] /\ block_num = L
  /\ Linked(L, c, heap, first_block, last_block, next)
  /\ Place(L, c, u, current_block)
  /\ InUse(c, u, last_node, d, live)
  /\ Few(L, u, R)

Ordered == reserved_nodes \in Nat /\ \E L, c, u, d : Table(L, c, u, d, reserved_blocks)

\* Before the first block is allocated no node is.
LEMMA NoneFull ==
  ASSUME NEW L, NEW c, NEW u, NEW d, NEW R, Table(L, c, u, d, R)
  PROVE  /\ last_node \in -1..B - 1
         /\ u = 0 => last_node = -1 /\ ~full
<1>1. last_node \in -1..B - 1 /\ (u = 0 => last_node = -1)
  BY Zenon DEF Table, InUse
<1>2. B \in Nat \ {0}
  BY TranxAssumption DEF B
<1> QED BY <1>1, <1>2 DEF full, B

\* allocate_node in the blocks that are there.
LEMMA HereStep ==
  ASSUME NEW L, NEW c, NEW u, NEW d, NEW R, R \in Nat, Table(L, c, u, d, R), AllocateHere
  PROVE  \E v : Table(L, c, v, d, R)'
<1>1. /\ L \in Nat /\ u \in 0..L /\ (u = 0 <=> L = 0)
      /\ current_block = (IF u = 0 THEN NULL ELSE c[u])
      /\ \A i \in 1..L : c[i] \in Blocks
      /\ \A i \in 1..L : next[c[i]] = IF i = L THEN NULL ELSE c[i + 1]
  <2>1. /\ Linked(L, c, heap, first_block, last_block, next)
        /\ Place(L, c, u, current_block)
    BY Zenon DEF Table
  <2>2. /\ L \in Nat
        /\ \A i \in 1..L : c[i] \in Blocks /\ c[i] # NULL
        /\ \A i \in 1..L : next[c[i]] = IF i = L THEN NULL ELSE c[i + 1]
    BY <2>1, LinkedFacts
  <2> QED BY Zenon, <2>1, <2>2 DEF Place
<1>2. u \in 1..L /\ current_block = c[u]
  <2>1. u # 0
    BY Zenon, <1>1, NoneFull DEF AllocateHere, moved
  <2> QED BY <1>1, <2>1
<1>3. PICK v, j : /\ After(u, last_node, v, j) /\ v \in 1..L /\ (v = u \/ v = u + 1)
                  /\ Give(c[v], j)
  <2>1. CASE full
    <3>1. next[c[u]] # NULL /\ Give(next[c[u]], 0)
      <4>1. moved = next[c[u]] /\ upto = -1 /\ -1 + 1 = 0
        BY <1>2, <2>1 DEF moved, upto
      <4> QED BY Zenon, <4>1 DEF AllocateHere
    <3>2. u # L /\ next[c[u]] = c[u + 1]
      BY Zenon, <1>1, <1>2, <3>1
    <3>3. u + 1 \in 1..L
      BY <1>1, <1>2, <3>2
    <3>4. After(u, last_node, u + 1, 0)
      BY Zenon, <2>1 DEF After, full, B
    <3> QED BY Zenon, <3>1, <3>2, <3>3, <3>4
  <2>2. CASE ~full
    <3>1. Give(c[u], last_node + 1)
      BY Zenon, <1>2, <2>2 DEF AllocateHere, moved, upto
    <3>2. After(u, last_node, u, last_node + 1)
      BY <1>2, <2>2 DEF After, full, B
    <3> QED BY Zenon, <1>2, <3>1, <3>2
  <2> QED BY Zenon, <2>1, <2>2
<1>4. current_block' = c[v] /\ last_node' = j /\ live' = Append(live, <<c[v], j>>)
  BY Zenon, <1>3 DEF Give
<1>5. InUse(c, v, j, d, live')
  BY Zenon, <1>1, <1>3, <1>4, UseNext DEF Table
<1>6. /\ next' = next /\ first_block' = first_block /\ last_block' = last_block
      /\ block_num' = block_num /\ heap' = heap
  BY Zenon DEF AllocateHere
<1>7. Place(L, c, v, c[v])
  BY <1>1, <1>2, <1>3 DEF Place
<1>8. Few(L, v, R)
  BY <1>1, <1>2, <1>3 DEF Few, Table
<1>9. Table(L, c, v, d, R)'
  BY Zenon, <1>4, <1>5, <1>6, <1>7, <1>8 DEF Table
<1> QED BY Zenon, <1>9

\* allocate_block.
LEMMA BlockStep ==
  ASSUME NEW L, NEW c, NEW u, NEW d, NEW R, R \in Nat, Table(L, c, u, d, R),
         NEW b \in Blocks, allocate_block(b)
  PROVE  \E c1 : Table(L + 1, c1, L + 1, d, R)'
<1>1. /\ L \in Nat /\ u \in 0..L /\ (u = 0 <=> L = 0)
      /\ current_block = (IF u = 0 THEN NULL ELSE c[u])
      /\ \A i \in 1..L : c[i] \in Blocks /\ c[i] # NULL
      /\ \A i \in 1..L : next[c[i]] = IF i = L THEN NULL ELSE c[i + 1]
  <2>1. /\ Linked(L, c, heap, first_block, last_block, next)
        /\ Place(L, c, u, current_block)
    BY Zenon DEF Table
  <2>2. /\ L \in Nat
        /\ \A i \in 1..L : c[i] \in Blocks /\ c[i] # NULL
        /\ \A i \in 1..L : next[c[i]] = IF i = L THEN NULL ELSE c[i + 1]
    BY <2>1, LinkedFacts
  <2> QED BY Zenon, <2>1, <2>2 DEF Place
<1>2. u = L /\ (u = 0 \/ full)
  <2>1. CASE u = 0
    BY Zenon, <1>1, <2>1
  <2>2. CASE u # 0
    <3>1. u \in 1..L /\ current_block = c[u] /\ c[u] # NULL
      BY <1>1, <2>2
    <3>2. full /\ next[c[u]] = NULL
      BY Zenon, <3>1 DEF allocate_block, moved
    <3>3. u = L
      <4> SUFFICES ASSUME u # L PROVE FALSE
        BY Zenon
      <4>1. u + 1 \in 1..L
        BY <1>1, <3>1
      <4> QED BY Zenon, <1>1, <3>1, <3>2, <4>1
    <3> QED BY Zenon, <3>2, <3>3
  <2> QED BY Zenon, <2>1, <2>2
<1>3. /\ heap' = heap \cup {b} /\ block_num' = block_num + 1
      /\ last_block' = b
      /\ current_block' = b /\ last_node' = 0 /\ live' = Append(live, <<b, 0>>)
  <2>1. upto + 1 = 0
    BY <1>1, <1>2, NoneFull DEF upto
  <2> QED BY Zenon, <2>1 DEF allocate_block, Give
<1>4. Addition(b, heap, first_block, last_block, next, heap', first_block', next')
  BY Zenon DEF Addition, allocate_block, Table
<1>5. PICK c1 : /\ Linked(L + 1, c1, heap', first_block', b, next')
                /\ next' \in [Blocks -> Blocks \cup {NULL}]
                /\ c1[L + 1] = b /\ \A i \in 1..L : c1[i] = c[i]
  <2>1. Linked(L, c, heap, first_block, last_block, next)
    BY Zenon DEF Table
  <2>2. PICK H, f, l, nx, H1, f1, nx1 :
          /\ H = heap /\ f = first_block /\ l = last_block /\ nx = next
          /\ H1 = heap' /\ f1 = first_block' /\ nx1 = next'
    BY Zenon
  <2>3. Linked(L, c, H, f, l, nx) /\ Addition(b, H, f, l, nx, H1, f1, nx1)
    BY Zenon, <1>4, <2>1, <2>2
  <2>4. \E c1 : /\ Linked(L + 1, c1, H1, f1, b, nx1) /\ nx1 \in [Blocks -> Blocks \cup {NULL}]
                /\ c1[L + 1] = b /\ \A i \in 1..L : c1[i] = c[i]
    BY Zenon, <2>3, Added
  <2> QED BY Zenon, <2>2, <2>4
<1>6. After(L, last_node, L + 1, 0)
  BY Zenon, <1>2 DEF After, full, B
<1>7. InUse(c1, L, last_node, d, live)
  BY Zenon, <1>2, <1>5, UseKept DEF Table
<1>8. InUse(c1, L + 1, 0, d, live')
  BY Zenon, <1>3, <1>5, <1>6, <1>7, UseNext
<1>9. Place(L + 1, c1, L + 1, b)
  <2>1. L \in Nat
    BY Zenon, <1>1
  <2>2. L + 1 \in 0..L + 1 /\ L + 1 # 0
    BY <2>1
  <2> QED BY Zenon, <1>5, <2>2 DEF Place
<1>10. Few(L + 1, L + 1, R)
  BY <1>1 DEF Few
<1>11. block_num' = L + 1
  BY Zenon, <1>3 DEF Table
<1>12. Table(L + 1, c1, L + 1, d, R)'
  BY Zenon, <1>3, <1>5, <1>8, <1>9, <1>10, <1>11 DEF Table
<1> QED BY Zenon, <1>12

\* free_all_nodes.
LEMMA AllStep ==
  ASSUME NEW L, NEW c, NEW u, NEW d, NEW R \in Nat, R = reserved_blocks, Table(L, c, u, d, R),
         free_all_nodes
  PROVE  \E M, c1, v : Table(M, c1, v, 0, R)' /\ (M < L => M >= R)
<1>1. /\ L \in Nat /\ Linked(L, c, heap, first_block, last_block, next)
      /\ next \in [Blocks -> Blocks \cup {NULL}] /\ block_num = L
      /\ first_block = IF L = 0 THEN NULL ELSE c[1]
  <2>1. /\ Linked(L, c, heap, first_block, last_block, next)
        /\ next \in [Blocks -> Blocks \cup {NULL}] /\ block_num = L
    BY Zenon DEF Table
  <2>2. L \in Nat /\ first_block = IF L = 0 THEN NULL ELSE c[1]
    BY <2>1, LinkedFacts
  <2> QED BY Zenon, <2>1, <2>2
<1>2. /\ current_block' = first_block /\ first_block' = first_block
      /\ last_node' = -1 /\ live' = <<>>
      /\ free_blocks(next, first_block, last_block)
  BY Zenon DEF free_all_nodes
<1>3. CASE L = 0
  <2>1. /\ next' = next /\ last_block' = last_block /\ block_num' = block_num /\ heap' = heap
    BY Zenon, <1>1, <1>2, <1>3 DEF free_blocks
  <2>2. InUse(c, 0, -1, 0, <<>>)
    BY UseNone
  <2>3. Place(0, c, 0, NULL) /\ Few(0, 0, R)
    BY DEF Place, Few
  <2>4. Table(0, c, 0, 0, R)'
    BY Zenon, <1>1, <1>2, <1>3, <2>1, <2>2, <2>3 DEF Table
  <2>5. ~(0 < L)
    BY <1>3
  <2> QED BY Zenon, <1>3, <2>4, <2>5
<1>4. CASE L # 0
  <2>1. 1 \in 1..L /\ first_block = c[1]
    BY <1>1, <1>4
  <2>2. free_blocks(next, c[1], last_block)
    BY Zenon, <1>2, <2>1
  <2>3. PICK M, c1 : /\ Linked(M, c1, heap', first_block, last_block', next')
                     /\ next' \in [Blocks -> Blocks \cup {NULL}]
                     /\ M \in Nat /\ block_num' = M /\ 1 <= M
                     /\ \A i \in 1..1 : c1[i] = c[i]
                     /\ Few(M, 1, R) /\ (M < L => M >= R)
    <3>1. PICK H, f, l, nx : H = heap /\ f = first_block /\ l = last_block /\ nx = next
      BY Zenon
    <3>2. /\ Linked(L, c, H, f, l, nx) /\ nx \in [Blocks -> Blocks \cup {NULL}]
          /\ free_blocks(nx, c[1], l)
      BY Zenon, <1>1, <2>2, <3>1
    <3>3. \E M, c1 : /\ Linked(M, c1, heap', f, last_block', next')
                     /\ next' \in [Blocks -> Blocks \cup {NULL}]
                     /\ M \in Nat /\ block_num' = M /\ 1 <= M
                     /\ \A i \in 1..1 : c1[i] = c[i]
                     /\ Few(M, 1, R) /\ (M < L => M >= R)
      BY Zenon, <1>1, <2>1, <3>1, <3>2, FreeBlocks
    <3> QED BY Zenon, <3>1, <3>3
  <2>4. InUse(c1, 1, -1, 0, <<>>)
    BY UseNone
  <2>5. c1[1] = c[1] /\ Place(M, c1, 1, c1[1])
    BY <2>3 DEF Place
  <2>6. Table(M, c1, 1, 0, R)'
    BY Zenon, <1>2, <2>1, <2>3, <2>4, <2>5 DEF Table
  <2> QED BY Zenon, <2>3, <2>6
<1> QED BY Zenon, <1>3, <1>4

\* The block that stands before the q-th.
LEMMA Previous ==
  ASSUME NEW L, NEW c, NEW H, NEW f, NEW l, NEW nx, Linked(L, c, H, f, l, nx), NEW q \in 2..L
  PROVE  (CHOOSE b \in H : nx[b] = c[q]) = c[q - 1]
<1>1. /\ L \in Nat /\ \A i \in 1..L : c[i] \in H /\ c[i] # NULL
      /\ \A i, j \in 1..L : c[i] = c[j] => i = j
      /\ \A x \in H : \E i \in 1..L : x = c[i]
      /\ \A i \in 1..L : nx[c[i]] = IF i = L THEN NULL ELSE c[i + 1]
  BY LinkedFacts
<1>2. q - 1 \in 1..L /\ q - 1 # L /\ (q - 1) + 1 = q /\ q \in 1..L
  BY <1>1
<1>3. c[q - 1] \in H /\ nx[c[q - 1]] = c[q]
  BY Zenon, <1>1, <1>2
<1>4. ASSUME NEW b \in H, nx[b] = c[q] PROVE b = c[q - 1]
  <2>1. PICK i \in 1..L : b = c[i]
    BY Zenon, <1>1
  <2>2. i # L /\ nx[c[i]] = c[i + 1]
    BY Zenon, <1>1, <1>2, <1>4, <2>1
  <2>3. i + 1 \in 1..L
    BY <1>1, <2>2
  <2>4. i + 1 = q
    BY Zenon, <1>1, <1>2, <1>4, <2>1, <2>2, <2>3
  <2>5. i = q - 1
    BY <2>4
  <2> QED BY Zenon, <2>1, <2>5
<1> QED BY Zenon, <1>3, <1>4

\* The q-th block becomes the first one, and p the last.
Turn(L, c, f, l, nx, q, u, p, nx1) ==
  /\ nx \in [Blocks -> Blocks \cup {NULL}] /\ q \in 2..L /\ u \in q..L /\ p = c[q - 1]
  /\ nx1 = [nx EXCEPT ![l] = f, ![p] = NULL]

\* The chain after the rotation, up to the current block.
LEMMA Turned ==
  ASSUME NEW L, NEW c, NEW H, NEW f, NEW l, NEW nx, Linked(L, c, H, f, l, nx),
         NEW q, NEW u, NEW p, NEW nx1, Turn(L, c, f, l, nx, q, u, p, nx1)
  PROVE  /\ nx1 \in [Blocks -> Blocks \cup {NULL}] /\ (u - q) + 1 \in 1..L
         /\ \E c1 : /\ Linked(L, c1, H, c[q], p, nx1) /\ c1[(u - q) + 1] = c[u]
                    /\ \A i \in 1..(u - q) + 1 : c1[i] = c[i + q - 1]
<1> USE DEF Turn
<1>1. /\ L \in Nat /\ f = (IF L = 0 THEN NULL ELSE c[1]) /\ l = (IF L = 0 THEN NULL ELSE c[L])
      /\ \A i \in 1..L : c[i] \in Blocks
  BY LinkedFacts
<1>2. l \in Blocks /\ f \in Blocks /\ p \in Blocks
  <2>1. 1 \in 1..L /\ L \in 1..L /\ q - 1 \in 1..L /\ L # 0
    BY <1>1
  <2> QED BY Zenon, <1>1, <2>1
<1>3. nx1 \in [Blocks -> Blocks \cup {NULL}]
  <2>1. PICK y : y = [nx EXCEPT ![l] = f]
    BY Zenon
  <2>2. y \in [Blocks -> Blocks \cup {NULL}]
    BY Zenon, <1>2, <2>1
  <2>3. nx1 = [y EXCEPT ![p] = NULL]
    BY Zenon, <2>1
  <2> QED BY Zenon, <1>2, <2>2, <2>3
<1>4. PICK m \in Nat : m = (L - q) + 1
  BY <1>1
<1>5. PICK c1 : c1 = [i \in 1..L |-> IF i <= m THEN c[i + q - 1] ELSE c[i - m]]
  BY Zenon
<1>6. Linked(L, c1, H, c[q], p, nx1)
  BY Zenon, <1>4, <1>5, Rotation
<1>7. (u - q) + 1 \in 1..L /\ ((u - q) + 1) + q - 1 = u
  BY <1>1
<1>8. ASSUME NEW i \in 1..(u - q) + 1 PROVE c1[i] = c[i + q - 1]
  <2>1. i \in 1..L /\ i <= m
    BY <1>1, <1>4
  <2> QED BY Zenon, <1>5, <2>1
<1>9. c1[(u - q) + 1] = c[u]
  <2>1. (u - q) + 1 \in 1..(u - q) + 1
    BY <1>7
  <2> QED BY Zenon, <1>7, <1>8, <2>1
<1> QED BY Zenon, <1>3, <1>6, <1>7, <1>8, <1>9

\* free_nodes_before the m-th node in use.
LEMMA BeforeStep ==
  ASSUME NEW L, NEW c, NEW u, NEW d, NEW R \in Nat, R = reserved_blocks, Table(L, c, u, d, R),
         NEW m \in 1..Len(live), free_nodes_before(m)
  PROVE  \E M, c1, v, r : Table(M, c1, v, r, R)' /\ (M < L => M >= R)
<1>1. /\ Linked(L, c, heap, first_block, last_block, next)
      /\ next \in [Blocks -> Blocks \cup {NULL}] /\ block_num = L
      /\ Place(L, c, u, current_block) /\ InUse(c, u, last_node, d, live) /\ Few(L, u, R)
  BY Zenon DEF Table
<1>2. /\ L \in Nat /\ first_block = (IF L = 0 THEN NULL ELSE c[1])
      /\ \A i, j \in 1..L : c[i] = c[j] => i = j
  BY <1>1, LinkedFacts
<1>3. PICK q, r : At(d + m - 1, q, r)
  BY Zenon DEF At
<1>4. Rest(live, m, live')
  <2>1. live \in Seq(Blocks \X Nat) /\ live' = SubSeq(live, m, Len(live))
    BY Zenon, <1>1 DEF InUse, free_nodes_before
  <2> QED BY Zenon, <2>1, RestIs
<1>5. /\ live[m] = <<c[q], r>> /\ q \in 1..u
      /\ \A c2 : (\A i \in 1..(u - q) + 1 : c2[i] = c[i + q - 1])
                   => InUse(c2, (u - q) + 1, last_node, r, live')
  BY Zenon, <1>1, <1>3, <1>4, UseFrom
<1>6. u \in 1..L /\ q \in 1..L /\ 1 \in 1..L /\ L # 0 /\ current_block = c[u]
  <2>1. L \in Nat /\ u \in 0..L /\ q \in 1..u /\ current_block = IF u = 0 THEN NULL ELSE c[u]
    BY Zenon, <1>1, <1>2, <1>5 DEF Place
  <2>2. u \in 1..L /\ q \in 1..L /\ 1 \in 1..L /\ L # 0 /\ u # 0
    BY <2>1
  <2> QED BY Zenon, <2>1, <2>2
<1>7. live[m][1] = c[q] /\ first_block = c[1]
  BY <1>2, <1>5, <1>6
<1>8. /\ first_block' = c[q] /\ current_block' = c[u] /\ last_node' = last_node
      /\ c[q] = first_block => /\ next' = next /\ last_block' = last_block
                               /\ block_num' = block_num /\ heap' = heap
      /\ c[q] # first_block =>
           LET p == CHOOSE b \in heap : next[b] = c[q] IN free_blocks(Rotated(p), c[u], p)
  BY Zenon, <1>6, <1>7 DEF free_nodes_before
<1>9. CASE q = 1
  <2>1. (u - q) + 1 = u /\ \A i \in 1..u : i + q - 1 = i
    BY <1>6, <1>9
  <2>2. InUse(c, u, last_node, r, live')
    BY Zenon, <1>5, <2>1
  <2>3. /\ next' = next /\ last_block' = last_block /\ block_num' = block_num /\ heap' = heap
        /\ first_block' = first_block /\ current_block' = current_block /\ last_node' = last_node
    BY Zenon, <1>6, <1>7, <1>8, <1>9
  <2>4. Table(L, c, u, r, R)'
    BY Zenon, <1>1, <2>2, <2>3 DEF Table
  <2>5. ~(L < L)
    BY <1>2
  <2> QED BY Zenon, <2>4, <2>5
<1>10. CASE q # 1
  <2>1. q \in 2..L /\ u \in q..L
    BY <1>2, <1>5, <1>6, <1>10
  <2>2. c[q] # first_block
    BY Zenon, <1>2, <1>6, <1>7, <1>10
  <2>3. PICK p : p = c[q - 1]
    BY Zenon
  <2>4. free_blocks(Rotated(p), c[u], p)
    <3>1. (CHOOSE b \in heap : next[b] = c[q]) = p
      BY <1>1, <2>1, <2>3, Previous
    <3> QED BY Zenon, <1>8, <2>2, <3>1
  <2>5. PICK v : v = (u - q) + 1
    BY Zenon
  <2>6. PICK nx : nx = Rotated(p)
    BY Zenon
  <2>7. /\ nx \in [Blocks -> Blocks \cup {NULL}] /\ v \in 1..L
        /\ \E c1 : /\ Linked(L, c1, heap, c[q], p, nx) /\ c1[v] = c[u]
                   /\ \A i \in 1..v : c1[i] = c[i + q - 1]
    <3>1. PICK H, f, l, nx0 : H = heap /\ f = first_block /\ l = last_block /\ nx0 = next
      BY Zenon
    <3>2. /\ nx0 \in [Blocks -> Blocks \cup {NULL}] /\ Linked(L, c, H, f, l, nx0)
          /\ Turn(L, c, f, l, nx0, q, u, p, nx)
      BY Zenon, <1>1, <2>1, <2>3, <2>6, <3>1 DEF Rotated, Turn
    <3>3. /\ nx \in [Blocks -> Blocks \cup {NULL}] /\ (u - q) + 1 \in 1..L
          /\ \E c1 : /\ Linked(L, c1, H, c[q], p, nx) /\ c1[(u - q) + 1] = c[u]
                     /\ \A i \in 1..(u - q) + 1 : c1[i] = c[i + q - 1]
      BY <3>2, Turned
    <3> QED BY Zenon, <2>5, <3>1, <3>3
  <2>8. PICK c1 : /\ Linked(L, c1, heap, c[q], p, nx) /\ c1[v] = c[u]
                  /\ \A i \in 1..v : c1[i] = c[i + q - 1]
    BY Zenon, <2>7
  <2>9. free_blocks(nx, c1[v], p)
    BY Zenon, <2>4, <2>6, <2>8
  <2>10. PICK M, c2 : /\ Linked(M, c2, heap', c[q], last_block', next')
                      /\ next' \in [Blocks -> Blocks \cup {NULL}]
                      /\ M \in Nat /\ block_num' = M /\ v <= M
                      /\ \A i \in 1..v : c2[i] = c1[i]
                      /\ Few(M, v, R) /\ (M < L => M >= R)
    <3>1. PICK H, f : H = heap /\ f = c[q]
      BY Zenon
    <3>2. /\ Linked(L, c1, H, f, p, nx) /\ nx \in [Blocks -> Blocks \cup {NULL}] /\ v \in 1..L
      BY Zenon, <2>7, <2>8, <3>1
    <3>3. \E M, c2 : /\ Linked(M, c2, heap', f, last_block', next')
                     /\ next' \in [Blocks -> Blocks \cup {NULL}]
                     /\ M \in Nat /\ block_num' = M /\ v <= M
                     /\ \A i \in 1..v : c2[i] = c1[i]
                     /\ Few(M, v, R) /\ (M < L => M >= R)
      BY <1>1, <2>9, <3>1, <3>2, FreeBlocks
    <3> QED BY Zenon, <3>1, <3>3
  <2>11. v \in 1..v /\ Place(M, c2, v, c2[v])
    <3>1. v \in 1..L /\ L \in Nat /\ M \in Nat /\ v <= M
      BY Zenon, <1>2, <2>7, <2>10
    <3>2. v \in 1..v /\ v \in 0..M /\ v # 0 /\ M # 0
      BY <3>1
    <3> QED BY Zenon, <3>2 DEF Place
  <2>12. InUse(c2, v, last_node, r, live')
    BY Zenon, <1>5, <2>5, <2>8, <2>10
  <2>13. current_block' = c2[v]
    BY Zenon, <1>8, <2>8, <2>10, <2>11
  <2>14. Table(M, c2, v, r, R)'
    BY Zenon, <1>8, <2>10, <2>11, <2>12, <2>13 DEF Table
  <2> QED BY Zenon, <2>10, <2>14
<1> QED BY Zenon, <1>9, <1>10

\* At the start there are no blocks.
LEMMA OrderedInit == Init => Ordered
<1> SUFFICES ASSUME Init PROVE Ordered
  BY Zenon
<1>1. reserved_nodes \in Nat
  BY TranxAssumption DEF Init
<1>2. PICK c : Linked(0, c, {}, NULL, NULL, next)
  BY Zenon, LinkedEmpty
<1>3. next \in [Blocks -> Blocks \cup {NULL}]
  BY DEF Init
<1>4. InUse(c, 0, -1, 0, <<>>)
  BY Zenon, UseNone
<1>5. Place(0, c, 0, NULL)
  BY DEF Place
<1>6. PICK R : R = reserved_blocks
  BY Zenon
<1>7. Few(0, 0, R)
  BY DEF Few
<1>8. Table(0, c, 0, 0, R)
  BY Zenon, <1>2, <1>3, <1>4, <1>5, <1>7 DEF Table, Init
<1> QED BY Zenon, <1>1, <1>6, <1>8 DEF Ordered

\* When malloc fails, current_block and last_node are what they were.
LEMMA FailStep ==
  ASSUME NEW L, NEW c, NEW u, NEW d, NEW R, Table(L, c, u, d, R), MallocFails
  PROVE  UNCHANGED vars
<1>1. current_block = NULL => u = 0
  <2>1. Linked(L, c, heap, first_block, last_block, next) /\ Place(L, c, u, current_block)
    BY Zenon DEF Table
  <2>2. L \in Nat /\ \A i \in 1..L : c[i] # NULL
    BY <2>1, LinkedFacts
  <2> QED BY <2>1, <2>2 DEF Place
<1>2. last_node' = last_node
  <2>1. CASE current_block = NULL
    BY Zenon, <1>1, <2>1, NoneFull DEF MallocFails, upto
  <2>2. CASE current_block # NULL
    <3>1. full
      BY Zenon, <2>2 DEF MallocFails, moved
    <3> QED BY Zenon, <2>2, <3>1 DEF MallocFails, full
  <2> QED BY Zenon, <2>1, <2>2
<1> QED BY Zenon, <1>2 DEF MallocFails, vars, table

\* A step that changes nothing.
LEMMA StutterStep ==
  ASSUME NEW L, NEW c, NEW u, NEW d, NEW R, Table(L, c, u, d, R), UNCHANGED vars
  PROVE  Table(L, c, u, d, R)'
<1>1. /\ next' = next /\ first_block' = first_block /\ last_block' = last_block
      /\ current_block' = current_block /\ last_node' = last_node /\ block_num' = block_num
      /\ heap' = heap /\ live' = live
  BY DEF vars, table
<1> QED BY Zenon, <1>1 DEF Table

\* Every step keeps the chain in order, and gives blocks back down to the reserve
\* only.
LEMMA OrderedStep ==
  ASSUME Ordered, [Next]_vars
  PROVE  /\ Ordered'
         /\ block_num' \in Nat /\ (block_num' < block_num => block_num' >= reserved_blocks)
<1>1. PICK L, c, u, d : Table(L, c, u, d, reserved_blocks)
  BY Zenon DEF Ordered
<1>2. PICK R : R = reserved_blocks
  BY Zenon
<1>3. reserved_nodes \in Nat /\ R \in Nat
  BY Zenon, <1>2, Reserve DEF Ordered
<1>4. Table(L, c, u, d, R) /\ block_num = L
  BY Zenon, <1>1, <1>2 DEF Table
<1>5. reserved_nodes' = reserved_nodes
  BY Zenon DEF Next, AllocateHere, allocate_block, MallocFails, free_all_nodes,
     free_nodes_before, vars
<1>6. reserved_blocks' = reserved_blocks
  BY Zenon, <1>5 DEF reserved_blocks
<1>7. L \in Nat
  <2>1. Linked(L, c, heap, first_block, last_block, next)
    BY Zenon, <1>4 DEF Table
  <2> QED BY Zenon, <2>1 DEF Linked, Path
<1>8. \E M, c1, v, r : Table(M, c1, v, r, R)' /\ (M < L => M >= R)
  <2>1. ~(L < L) /\ ~(L + 1 < L)
    BY <1>7
  <2>2. CASE AllocateHere
    <3>1. \E v : Table(L, c, v, d, R)'
      BY Zenon, <1>3, <1>4, <2>2, HereStep
    <3> QED BY Zenon, <2>1, <3>1
  <2>3. ASSUME NEW b \in Blocks, allocate_block(b)
        PROVE  \E M, c1, v, r : Table(M, c1, v, r, R)' /\ (M < L => M >= R)
    <3>1. \E c1 : Table(L + 1, c1, L + 1, d, R)'
      BY Zenon, <1>3, <1>4, <2>3, BlockStep
    <3> QED BY Zenon, <2>1, <3>1
  <2>4. CASE UNCHANGED vars
    <3>1. Table(L, c, u, d, R)'
      BY Zenon, <1>4, <2>4, StutterStep
    <3> QED BY Zenon, <2>1, <3>1
  <2>5. CASE free_all_nodes
    BY Zenon, <1>2, <1>3, <1>4, <2>5, AllStep
  <2>6. ASSUME NEW m \in 1..Len(live), free_nodes_before(m)
        PROVE  \E M, c1, v, r : Table(M, c1, v, r, R)' /\ (M < L => M >= R)
    BY Zenon, <1>2, <1>3, <1>4, <2>6, BeforeStep
  <2>7. MallocFails => UNCHANGED vars
    BY Zenon, <1>4, FailStep
  <2> QED BY Zenon, <2>2, <2>3, <2>4, <2>5, <2>6, <2>7 DEF Next
<1>9. PICK M, c1, v, r : Table(M, c1, v, r, R)' /\ (M < L => M >= R)
  BY Zenon, <1>8
<1>10. Ordered'
  BY Zenon, <1>2, <1>3, <1>5, <1>6, <1>9 DEF Ordered
<1>11. block_num' = M /\ M \in Nat
  <2>1. /\ Linked(M, c1, heap', first_block', last_block', next') /\ block_num' = M
    BY Zenon, <1>9 DEF Table
  <2> QED BY Zenon, <2>1 DEF Linked, Path
<1> QED BY Zenon, <1>2, <1>4, <1>9, <1>10, <1>11

\* The invariant holds in every reachable state.
THEOREM OrderedTheorem == Spec => []Ordered
<1>1. Init => Ordered
  BY OrderedInit
<1>2. Ordered /\ [Next]_vars => Ordered'
  BY Zenon, OrderedStep
<1> QED BY <1>1, <1>2, PTL DEF Spec

-----------------------------------------------------------------------------
(* What the allocator promises.                                            *)

\* The chain has each allocated block once and ends at last_block; block_num is
\* its length.
LEMMA OrderedWhole == Ordered => TableWhole
<1> SUFFICES ASSUME Ordered PROVE TableWhole
  BY Zenon
<1>1. PICK L, c, u, d : Table(L, c, u, d, reserved_blocks)
  BY Zenon DEF Ordered
<1>2. Linked(L, c, heap, first_block, last_block, next) /\ block_num = L
  BY Zenon, <1>1 DEF Table
<1>3. /\ L \in Nat /\ c \in [1..L -> Blocks]
      /\ last_block = (IF L = 0 THEN NULL ELSE c[L])
      /\ \A i \in 1..L : c[i] \in heap
      /\ \A x \in heap : \E i \in 1..L : x = c[i]
      /\ \A i \in 1..L : next[c[i]] = IF i = L THEN NULL ELSE c[i + 1]
  BY <1>2, LinkedFacts
<1>4. Chain(next, first_block) = c
  BY Zenon, <1>2, Whole
<1>5. Cardinality(heap) = L
  BY Zenon, <1>2, LinkedSize
<1>6. Len(c) = L /\ DOMAIN c = 1..L
  BY <1>3
<1>7. Range(c) = heap
  BY <1>3, <1>6 DEF Range
<1>8. c = <<>> <=> L = 0
  BY <1>3, <1>6
<1>9. last_block = IF c = <<>> THEN NULL ELSE c[Len(c)]
  BY Zenon, <1>3, <1>6, <1>8
<1>10. last_block # NULL => next[last_block] = NULL
  <2>1. L # 0 => L \in 1..L
    BY <1>3
  <2> QED BY Zenon, <1>3, <2>1
<1> QED BY Zenon, <1>2, <1>4, <1>5, <1>6, <1>7, <1>9, <1>10 DEF TableWhole

\* free_blocks and the rotation of free_nodes_before neither lose nor share a block.
THEOREM TableWholeTheorem == Spec => []TableWhole
BY OrderedTheorem, OrderedWhole, PTL

\* ReserveKept: free_blocks keeps room for reserved_nodes nodes, and as long as
\* there are more blocks than reserved, at most one free block behind the current one.
THEOREM ReserveKeptTheorem == Spec => ReserveKept
<1>1. Ordered /\ [Next]_vars
        => [block_num' < block_num => block_num' * BLOCK_TRANX_NODES >= reserved_nodes]_vars
  <2> SUFFICES ASSUME Ordered, [Next]_vars, block_num' < block_num
               PROVE  block_num' * BLOCK_TRANX_NODES >= reserved_nodes
    BY Zenon
  <2>1. block_num' \in Nat /\ block_num' >= reserved_blocks
    BY Zenon, OrderedStep
  <2>2. reserved_nodes \in Nat
    BY Zenon DEF Ordered
  <2>3. block_num' * B >= reserved_nodes
    BY Zenon, <2>1, <2>2, Reserve
  <2> QED BY Zenon, <2>3 DEF B
<1>2. Ordered => (block_num > reserved_blocks /\ current_block # NULL =>
                    Len(Chain(next, current_block)) <= 2)
  <2> SUFFICES ASSUME Ordered, block_num > reserved_blocks, current_block # NULL
               PROVE  Len(Chain(next, current_block)) <= 2
    BY Zenon
  <2>1. PICK L, c, u, d : Table(L, c, u, d, reserved_blocks)
    BY Zenon DEF Ordered
  <2>2. /\ Linked(L, c, heap, first_block, last_block, next) /\ block_num = L
        /\ Place(L, c, u, current_block) /\ Few(L, u, reserved_blocks)
    BY Zenon, <2>1 DEF Table
  <2>3. L \in Nat
    BY Zenon, <2>2 DEF Linked, Path
  <2>4. u \in 1..L /\ current_block = c[u]
    BY <2>2, <2>3 DEF Place
  <2>5. L - u <= 1
    BY Zenon, <2>2 DEF Few
  <2>6. PICK n \in Nat : n = (L + 1) - u
    BY <2>3, <2>4
  <2>7. u \in 1..L + 1 /\ u # L + 1 /\ n <= 2
    BY <2>3, <2>4, <2>5, <2>6
  <2>8. Len(Chain(next, current_block)) = n
    <3>1. PICK H, f, l, nx, b : /\ H = heap /\ f = first_block /\ l = last_block /\ nx = next
                                /\ b = current_block
      BY Zenon
    <3>2. Linked(L, c, H, f, l, nx) /\ b = IF u = L + 1 THEN NULL ELSE c[u]
      BY Zenon, <2>2, <2>4, <2>7, <3>1
    <3>3. Len(Chain(nx, b)) = n
      BY <2>6, <2>7, <3>2, SuffixAt
    <3> QED BY Zenon, <3>1, <3>3
  <2> QED BY Zenon, <2>7, <2>8
<1> QED BY <1>1, <1>2, OrderedTheorem, PTL DEF Spec, ReserveKept

\* Where the current block is, HandedOut counts the nodes up to the last one.
LEMMA HandedIs ==
  ASSUME NEW L, NEW c, NEW u, NEW d, NEW R, Table(L, c, u, d, R)
  PROVE  HandedOut = [i \in 1..Count(u, last_node) |-> Node(c, i - 1)]
<1>1. /\ Linked(L, c, heap, first_block, last_block, next)
      /\ Place(L, c, u, current_block)
  BY Zenon DEF Table
<1>2. /\ L \in Nat /\ c \in [1..L -> Blocks]
      /\ \A i \in 1..L : c[i] \in Blocks /\ c[i] # NULL
      /\ \A i, j \in 1..L : c[i] = c[j] => i = j
  BY <1>1, LinkedFacts
<1>3. Chain(next, first_block) = c /\ DOMAIN c = 1..L
  BY Zenon, <1>1, <1>2, Whole
<1> DEFINE use == CHOOSE i \in DOMAIN c : c[i] = current_block
           count == IF current_block \in Range(c)
                    THEN (use - 1) * BLOCK_TRANX_NODES + last_node + 1 ELSE 0
<1>4. count = Count(u, last_node)
  <2>1. CASE u = 0
    <3>1. current_block = NULL /\ L = 0
      BY Zenon, <1>1, <2>1 DEF Place
    <3>2. current_block \notin Range(c)
      BY Zenon, <1>2, <1>3, <3>1 DEF Range
    <3> QED BY Zenon, <2>1, <3>2 DEF Count
  <2>2. CASE u # 0
    <3>1. u \in 1..L /\ current_block = c[u]
      BY <1>1, <1>2, <2>2 DEF Place
    <3>2. current_block \in Range(c)
      BY Zenon, <1>3, <3>1 DEF Range
    <3>3. use = u
      <4>1. \A i \in DOMAIN c : c[i] = current_block <=> i = u
        BY Zenon, <1>2, <1>3, <3>1
      <4> QED BY Zenon, <1>3, <3>1, <4>1
    <3>4. count = (use - 1) * B + last_node + 1
      BY Zenon, <3>2 DEF B
    <3>5. Count(u, last_node) = (u - 1) * B + last_node + 1
      BY Zenon, <2>2 DEF Count
    <3> HIDE DEF use, count
    <3> QED BY Zenon, <3>3, <3>4, <3>5
  <2> QED BY Zenon, <2>1, <2>2
<1>5. HandedOut = [i \in 1..count |->
                     <<c[(i - 1) \div BLOCK_TRANX_NODES + 1], (i - 1) % BLOCK_TRANX_NODES>>]
  BY Zenon, <1>3 DEF HandedOut
<1> QED BY Zenon, <1>4, <1>5 DEF Node, B

\* Two nodes of the first u blocks are the same only if their numbers are.
LEMMA NodesDiffer ==
  ASSUME NEW u \in Nat, NEW c, \A i, j \in 1..u : c[i] = c[j] => i = j,
         NEW x \in Nat, NEW y \in Nat, x < u * B, y < u * B, Node(c, x) = Node(c, y)
  PROVE  x = y
<1>1. B \in Nat \ {0}
  BY TranxAssumption DEF B
<1>2. PICK q, r, s, t : q = x \div B /\ r = x % B /\ s = y \div B /\ t = y % B
  BY Zenon
<1>3. q < u /\ s < u
  BY Zenon, <1>1, <1>2, DivBelow
<1>4. /\ q \in Nat /\ x = q * B + r
      /\ s \in Nat /\ y = s * B + t
  BY Zenon, <1>1, <1>2, DivMod
<1>5. c[q + 1] = c[s + 1] /\ r = t
  <2>1. <<c[q + 1], r>> = <<c[s + 1], t>>
    BY Zenon, <1>2 DEF Node
  <2> QED BY Zenon, <2>1
<1>6. q + 1 \in 1..u /\ s + 1 \in 1..u
  BY <1>3, <1>4
<1>7. q + 1 = s + 1
  BY Zenon, <1>5, <1>6
<1>8. q = s
  BY <1>4, <1>7
<1> QED BY Zenon, <1>4, <1>5, <1>8

\* The nodes in use are the last ones handed out.
LEMMA OrderedSequence == Ordered => InSequence
<1> SUFFICES ASSUME Ordered PROVE InSequence
  BY Zenon
<1>1. PICK L, c, u, d : Table(L, c, u, d, reserved_blocks)
  BY Zenon DEF Ordered
<1>2. /\ Linked(L, c, heap, first_block, last_block, next)
      /\ Place(L, c, u, current_block) /\ InUse(c, u, last_node, d, live)
  BY Zenon, <1>1 DEF Table
<1>3. PICK n : n = Count(u, last_node)
  BY Zenon
<1>4. HandedOut = [i \in 1..n |-> Node(c, i - 1)]
  BY Zenon, <1>1, <1>3, HandedIs
<1>5. /\ u \in Nat /\ last_node \in -1..B - 1 /\ d \in 0..B - 1 /\ live \in Seq(Blocks \X Nat)
      /\ Len(live) + d = n
      /\ \A i \in 1..Len(live) : live[i] = Node(c, d + i - 1)
  BY Zenon, <1>2, <1>3 DEF InUse
<1>6. B \in Nat \ {0}
  BY TranxAssumption DEF B
<1>7. n \in Nat /\ Len(live) \in Nat /\ DOMAIN live = 1..Len(live) /\ d \in Nat
  BY <1>5, <1>6
<1>8. u * B \in Nat /\ n <= u * B
  <2>1. PICK y, z : y = u * B /\ z = (u - 1) * B
    BY Zenon
  <2>2. y \in Nat /\ z \in Int /\ z + B = y
    BY Zenon, <1>5, <2>1, Products
  <2>3. n = IF u = 0 THEN 0 ELSE z + last_node + 1
    BY Zenon, <1>3, <2>1 DEF Count
  <2>4. n <= y
    BY <1>5, <1>6, <2>2, <2>3
  <2> QED BY Zenon, <2>1, <2>2, <2>4
<1>9. \A i, j \in 1..u : c[i] = c[j] => i = j
  <2>1. L \in Nat /\ \A i, j \in 1..L : c[i] = c[j] => i = j
    BY <1>2, LinkedFacts
  <2>2. \A i \in 1..u : i \in 1..L
    BY <1>2, <1>5, <2>1 DEF Place
  <2> QED BY Zenon, <2>1, <2>2
<1>10. DOMAIN HandedOut = 1..n /\ Len(HandedOut) = n /\ \A i \in 1..n : HandedOut[i] = Node(c, i - 1)
  BY <1>4, <1>7
<1>11. IsInjective(HandedOut)
  <2>1. ASSUME NEW i \in 1..n, NEW j \in 1..n, HandedOut[i] = HandedOut[j]
        PROVE  i = j
    <3>1. PICK y : y = u * B
      BY Zenon
    <3>2. /\ i - 1 \in Nat /\ j - 1 \in Nat /\ i - 1 < y /\ j - 1 < y
      BY <1>7, <1>8, <3>1
    <3>3. Node(c, i - 1) = Node(c, j - 1)
      BY Zenon, <1>10, <2>1
    <3>4. i - 1 = j - 1
      BY Zenon, <1>5, <1>9, <3>1, <3>2, <3>3, NodesDiffer
    <3> QED BY <1>7, <3>4
  <2> QED BY Zenon, <1>10, <2>1 DEF IsInjective
<1>12. ASSUME NEW i \in DOMAIN live PROVE live[i] = HandedOut[d + i]
  <2>1. i \in 1..Len(live) /\ d + i \in 1..n
    BY <1>5, <1>7
  <2>2. (d + i) - 1 = d + i - 1
    BY <1>7, <2>1
  <2> QED BY Zenon, <1>5, <1>10, <2>1, <2>2
<1>13. Len(HandedOut) = d + Len(live) /\ d \in 0..BLOCK_TRANX_NODES - 1
  BY <1>5, <1>7, <1>10 DEF B
<1> QED BY Zenon, <1>11, <1>12, <1>13 DEF InSequence

\* allocate_node hands out every node of the chain once, in the order of the chain,
\* and free_nodes_before wastes less than one block.
THEOREM InSequenceTheorem == Spec => []InSequence
BY OrderedTheorem, OrderedSequence, PTL

=============================================================================

--------------------------- MODULE SamplingProofs ---------------------------
(***************************************************************************)
(* Proofs about Sampling.tla, for every limit and every content of the     *)
(* files and of the table.                                                 *)
(***************************************************************************)
EXTENDS Sampling, FiniteSetTheorems, WellFoundedInduction, TLAPS

\* The lines of an archive file are a sequence.
LEMMA FileOfType ==
  ASSUME NEW k \in Nat
  PROVE  FileOf(1, k, 1) \in Seq(BOOLEAN)
<1>1. Block(1 + 1, FALSE) \in Seq(BOOLEAN) /\ Block(k, TRUE) \in Seq(BOOLEAN)
      /\ Block(1, FALSE) \in Seq(BOOLEAN)
  BY DEF Block
<1>2. \A a, b \in Seq(BOOLEAN) : a \o b \in Seq(BOOLEAN)
  OBVIOUS
<1> QED BY <1>1, <1>2, Zenon DEF FileOf

\* wc -l yields a number.
LEMMA CountType ==
  ASSUME TypeOK
  PROVE  Cardinality(Matches(1..Len(lines))) \in Nat
<1>1. IsFiniteSet(1..Len(lines))
  BY FS_Interval DEF TypeOK
<1>2. IsFiniteSet(Matches(1..Len(lines)))
  BY <1>1, FS_Subset DEF Matches
<1> QED BY <1>2, FS_CardinalityType

\* The quotient of the loops is a number, and dividing by one changes nothing.
LEMMA Quotient ==
  ASSUME NEW n \in Nat
  PROVE  /\ n \div 1 = n
         /\ \A m \in Nat \ {0} : n \div m \in Nat
BY DEF TypeOK

\* Every step keeps the shape of the state.
LEMMA TypeStep == TypeOK /\ [Next]_vars => TypeOK'
<1> SUFFICES ASSUME TypeOK, [Next]_vars PROVE TypeOK'
  OBVIOUS
<1> USE LimitAssumption
<1>1. CASE UNCHANGED vars
  BY <1>1 DEF TypeOK, vars, filevars
<1>2. CASE getParam
  <2>1. nbLines' \in Nat /\ tmp' = nbLines' /\ cpt' = 1 /\ nbLines' \div 1 = nbLines'
    BY <1>2, CountType, Quotient DEF getParam
  <2> QED BY <1>2, <2>1 DEF TypeOK, getParam
<1>3. CASE AddN
  BY <1>3 DEF TypeOK, AddN
<1>4. CASE Sed
  <2>1. pos \in 1..input /\ pos' \in {pos + cpt, pos + 1} /\ printed' \subseteq printed \cup {pos}
    BY <1>4 DEF TypeOK, Sed
  <2>2. pos' \in Nat \ {0} /\ printed' \subseteq 1..input
    BY <2>1 DEF TypeOK
  <2>3. /\ pc = "sed"
        /\ UNCHANGED <<pc, lines, files, nbLines, cpt, input, rows, nb, modulo, tmp, answer, more, moved>>
    BY <1>4, Zenon DEF Sed
  <2> QED BY <2>2, <2>3 DEF TypeOK
<1>5. CASE SedEnd
  BY <1>5 DEF TypeOK, SedEnd, filevars
<1>6. CASE getModulo
  <2>1. rows \div 1 = rows
    BY Quotient DEF TypeOK
  <2> QED BY <1>6, <2>1 DEF TypeOK, getModulo, filevars
<1>7. CASE Loop
  BY SMTT(30), <1>7 DEF TypeOK, Loop, filevars
<1>8. CASE SelectVals
  BY <1>8 DEF TypeOK, SelectVals, filevars
<1>9. CASE addVal
  BY <1>9 DEF TypeOK, addVal, filevars
<1>10. CASE Archive
  <2>1. PICK k \in 1..rows : lines' = lines \o FileOf(1, k, 1) /\ rows' = rows - k
    BY SMTT(30), <1>10 DEF Archive
  <2>2. FileOf(1, k, 1) \in Seq(BOOLEAN) /\ rows' \in Nat
    BY <2>1, FileOfType DEF TypeOK
  <2>3. lines' \in Seq(BOOLEAN) /\ Len(lines) <= Len(lines')
    BY <2>1, <2>2 DEF TypeOK
  <2>4. input' \in 0..Len(lines')
    BY <1>10, <2>3 DEF TypeOK, Archive
  <2> QED BY <1>10, <2>2, <2>3, <2>4 DEF TypeOK, Archive
<1>11. CASE Stop
  BY <1>11 DEF TypeOK, Stop, vars, filevars
<1> QED BY <1>1, <1>2, <1>3, <1>4, <1>5, <1>6, <1>7, <1>8, <1>9, <1>10, <1>11 DEF Next, Request

\* The shape of the state at the start of a request.
LEMMA TypeInit == Init => TypeOK
<1> SUFFICES ASSUME Init PROVE TypeOK
  OBVIOUS
<1>1. lines \in Seq(BOOLEAN) /\ files \in Nat
  BY ContentsAssumption DEF Init
<1> QED BY <1>1, LimitAssumption DEF Init, TypeOK

\* The shape of the state holds in every reachable state.
THEOREM TypeCorrect == Spec => []TypeOK
BY TypeInit, TypeStep, PTL DEF Spec

-----------------------------------------------------------------------------
(* The divisors.                                                           *)

\* The divisors tried before gave too many lines or rows.
DivisorInv ==
  /\ TypeOK
  /\ pc = "ploop" => \A m \in 1..cpt - 1 : nbLines \div m > LIMIT
  /\ pc = "loop" => \A m \in 1..modulo - 1 : nb \div m > LIMIT
  /\ LeastDivisor

\* Every step keeps the invariant of the loops.
LEMMA DivisorStep == DivisorInv /\ [Next]_vars => DivisorInv'
<1> SUFFICES ASSUME DivisorInv, [Next]_vars PROVE DivisorInv'
  OBVIOUS
<1> USE LimitAssumption
<1>0. TypeOK /\ TypeOK'
  BY TypeStep DEF DivisorInv
<1>1. CASE UNCHANGED <<pc, nbLines, cpt, nb, modulo>>
  BY <1>0, <1>1 DEF DivisorInv, LeastDivisor
<1>2. CASE getParam
  BY <1>0, <1>2 DEF DivisorInv, LeastDivisor, getParam
<1>3. CASE AddN
  <2>1. CASE tmp > LIMIT
    <3>1. pc = "ploop" /\ pc' = "ploop" /\ cpt' = cpt + 1 /\ nbLines' = nbLines
      BY <1>3, <2>1 DEF AddN, TypeOK, DivisorInv
    <3>2. nbLines \div cpt > LIMIT
      BY SMTT(30), <1>0, <2>1, <3>1 DEF TypeOK
    <3>3. \A m \in 1..cpt' - 1 : m = cpt \/ m \in 1..cpt - 1
      BY <1>0, <3>1 DEF TypeOK
    <3> QED BY <1>0, <3>1, <3>2, <3>3 DEF DivisorInv, LeastDivisor
  <2>2. CASE tmp <= LIMIT
    <3>1. pc = "ploop" /\ pc' = "sed" /\ cpt' = cpt /\ nbLines' = nbLines
      BY <1>0, <1>3, <2>2 DEF AddN, TypeOK
    <3>2. nbLines \div cpt <= LIMIT
      BY SMTT(30), <1>0, <2>2, <3>1 DEF TypeOK
    <3> QED BY <1>0, <3>1, <3>2 DEF DivisorInv, LeastDivisor
  <2> QED BY <1>3, <2>1, <2>2 DEF AddN
<1>4. CASE Sed \/ SedEnd
  BY <1>0, <1>4 DEF DivisorInv, LeastDivisor, Sed, SedEnd, filevars
<1>5. CASE getModulo
  BY <1>0, <1>5 DEF DivisorInv, LeastDivisor, getModulo, filevars
<1>6. CASE Loop
  <2>1. CASE tmp > LIMIT
    <3>1. /\ pc = "loop" /\ pc' = "loop" /\ modulo' = modulo + 1
          /\ UNCHANGED <<nb, nbLines, cpt>>
      BY <1>0, <1>6, <2>1 DEF Loop, filevars, TypeOK
    <3>2. nb \div modulo > LIMIT
      BY <1>0, <2>1, <3>1 DEF TypeOK
    <3>3. \A m \in 1..modulo' - 1 : m = modulo \/ m \in 1..modulo - 1
      BY <1>0, <3>1 DEF TypeOK
    <3> QED BY <1>0, <3>1, <3>2, <3>3 DEF DivisorInv, LeastDivisor
  <2>2. CASE tmp <= LIMIT
    <3>1. /\ pc = "loop" /\ pc' = "select"
          /\ UNCHANGED <<nb, nbLines, cpt, modulo>>
      BY <1>0, <1>6, <2>2 DEF Loop, filevars, TypeOK
    <3>2. nb \div modulo <= LIMIT
      BY <1>0, <2>2, <3>1 DEF TypeOK
    <3> QED BY <1>0, <3>1, <3>2 DEF DivisorInv, LeastDivisor
  <2> QED BY <1>6, <2>1, <2>2 DEF Loop
<1>7. CASE SelectVals
  BY <1>0, <1>7 DEF DivisorInv, LeastDivisor, SelectVals, filevars
<1>8. CASE addVal \/ Archive \/ Stop \/ UNCHANGED vars
  BY <1>1, <1>8 DEF addVal, Archive, Stop, vars, filevars
<1> QED BY <1>2, <1>3, <1>4, <1>5, <1>6, <1>7, <1>8 DEF Next, Request

\* Both divisors are the least that bring the count under the limit.
THEOREM LeastDivisorTheorem == Spec => []LeastDivisor
<1>1. Init => DivisorInv
  BY TypeInit DEF Init, DivisorInv, LeastDivisor
<1>2. DivisorInv => LeastDivisor
  BY DEF DivisorInv
<1> QED BY <1>1, <1>2, DivisorStep, PTL DEF Spec

-----------------------------------------------------------------------------
(* The lines sed prints.                                                   *)

Near(i) == \E j \in printed : i - cpt < j /\ j <= i

\* Every matching line before the one sed reads next is printed or follows one
\* that is closely.
SedInv ==
  /\ TypeOK
  /\ pc \in {"param", "ploop"} => pos = 1
  /\ pc = "sed" => \A i \in 1..input : i < pos /\ lines[i] => Near(i)
  /\ NoStretchLost

\* Every step keeps the invariant of sed.
LEMMA SedStep == SedInv /\ [Next]_vars => SedInv'
<1> SUFFICES ASSUME SedInv, [Next]_vars PROVE SedInv'
  OBVIOUS
<1>0. TypeOK /\ TypeOK'
  BY TypeStep DEF SedInv
<1>1. CASE UNCHANGED <<pc, lines, cpt, input, pos, printed>>
  BY <1>0, <1>1 DEF SedInv, NoStretchLost, Near, Matches
<1>2. CASE getParam
  BY <1>0, <1>2 DEF SedInv, NoStretchLost, getParam
<1>3. CASE AddN
  <2>1. pos' = 1 /\ pc' \in {"ploop", "sed"}
    BY <1>3 DEF AddN, SedInv
  <2> QED BY <1>0, <2>1 DEF SedInv, NoStretchLost
<1>4. CASE Sed
  <2>1. /\ pc = "sed" /\ pc' = "sed" /\ UNCHANGED <<lines, cpt, input>> /\ pos \in 1..input
        /\ \/ printed' = printed \cup {pos} /\ pos' = pos + cpt
           \/ ~lines[pos] /\ printed' = printed /\ pos' = pos + 1
    BY <1>0, <1>4 DEF Sed, TypeOK
  <2>2. ASSUME NEW i \in 1..input, i < pos', lines[i]
        PROVE  \E j \in printed' : i - cpt < j /\ j <= i
    <3>1. CASE i < pos
      BY <2>1, <2>2, <3>1 DEF SedInv, Near
    <3>2. CASE ~(i < pos)
      <4>1. printed' = printed \cup {pos} /\ pos' = pos + cpt
        <5>1. pos' = pos + 1 => i = pos
          BY <1>0, <2>1, <2>2, <3>2 DEF TypeOK
        <5> QED BY <2>1, <2>2, <5>1
      <4>2. i - cpt < pos /\ pos <= i
        BY <1>0, <2>1, <2>2, <3>2, <4>1 DEF TypeOK
      <4> QED BY <4>1, <4>2
    <3> QED BY <3>1, <3>2
  <2> QED BY <1>0, <2>1, <2>2 DEF SedInv, NoStretchLost, Near
<1>5. CASE SedEnd
  <2>1. /\ pc = "sed" /\ pc' = "count" /\ UNCHANGED <<lines, cpt, input, pos, printed>> /\ pos > input
    BY <1>5 DEF SedEnd, filevars
  <2>2. \A i \in 1..input : i < pos
    BY <1>0, <2>1 DEF TypeOK
  <2> QED BY <1>0, <2>1, <2>2 DEF SedInv, NoStretchLost, Near, Matches
<1>6. CASE pc' \in {"loop", "select", "done"}
  BY <1>0, <1>6 DEF SedInv, NoStretchLost
<1>7. CASE Archive
  <2>1. PICK k \in 1..rows : lines' = lines \o FileOf(1, k, 1)
    BY <1>7 DEF Archive
  <2>2. \A i \in 1..input : lines'[i] = lines[i]
    <3>1. FileOf(1, k, 1) \in Seq(BOOLEAN)
      BY <1>0, <2>1, FileOfType DEF TypeOK
    <3> QED BY <1>0, <2>1, <3>1 DEF TypeOK
  <2>3. UNCHANGED <<pc, cpt, input, pos, printed>>
    BY <1>7 DEF Archive
  <2> QED BY <1>0, <2>2, <2>3 DEF SedInv, NoStretchLost, Near, Matches
<1> QED BY <1>1, <1>2, <1>3, <1>4, <1>5, <1>6, <1>7
     DEF Next, Request, getModulo, Loop, SelectVals, addVal, Stop, vars, filevars

\* No stretch of the files is left out, whatever was archived after the count.
THEOREM NoStretchTheorem == Spec => []NoStretchLost
<1>1. Init => SedInv
  BY TypeInit DEF Init, SedInv, NoStretchLost
<1>2. SedInv => NoStretchLost
  BY DEF SedInv
<1> QED BY <1>1, <1>2, SedStep, PTL DEF Spec

-----------------------------------------------------------------------------
(* Arithmetic.                                                             *)

\* Division with remainder.
LEMMA DivMod ==
  ASSUME NEW n \in Nat, NEW m \in Nat \ {0}
  PROVE  /\ n \div m \in Nat /\ n % m \in 0..m - 1
         /\ n = (n \div m) * m + (n % m)
OBVIOUS

\* A factor cancels from an inequality.
LEMMA Cancel ==
  ASSUME NEW a \in Int, NEW b \in Int, NEW m \in Nat \ {0}, a * m < b * m + m
  PROVE  a <= b
<1>1. CASE a <= b
  BY <1>1
<1>2. CASE b + 1 <= a
  <2>1. (a - b - 1) * m >= 0
    BY <1>2
  <2>2. (a - b - 1) * m = a * m - b * m - m
    OBVIOUS
  <2> QED BY <2>1, <2>2
<1> QED BY <1>1, <1>2

\* The quotient is the largest number of times that m fits in n.
LEMMA QuotientLargest ==
  ASSUME NEW n \in Nat, NEW m \in Nat \ {0}, NEW a \in Nat, a * m <= n
  PROVE  a <= n \div m
<1>1. n < (n \div m) * m + m /\ n \div m \in Nat
  BY DivMod
<1>2. (n \div m) * m \in Int /\ a * m \in Int
  BY <1>1
<1> QED BY <1>1, <1>2, Cancel

\* The numbers up to n that m divides are the first n \div m multiples of m.
LEMMA Multiples ==
  ASSUME NEW n \in Nat, NEW m \in Nat \ {0}
  PROVE  {i \in 1..n : i % m = 0} = {i * m : i \in 1..(n \div m)}
<1>1. ASSUME NEW i \in 1..n, i % m = 0
      PROVE  \E j \in 1..(n \div m) : i = j * m
  <2> DEFINE j == i \div m
  <2>1. i = j * m /\ j \in Nat
    BY <1>1, DivMod
  <2>2. j # 0
    BY <2>1
  <2>3. j <= n \div m
    BY <2>1, QuotientLargest
  <2>4. n \div m \in Nat
    BY DivMod
  <2> HIDE DEF j
  <2>5. j \in 1..(n \div m)
    BY <2>1, <2>2, <2>3, <2>4
  <2> QED BY <2>1, <2>5
<1>2. ASSUME NEW j \in 1..(n \div m)
      PROVE  j * m \in 1..n /\ (j * m) % m = 0
  <2> DEFINE q == (j * m) \div m
  <2>1. n \div m \in Nat /\ (n \div m) * m <= n /\ (n \div m) * m \in Nat
    BY DivMod
  <2>2. j * m <= (n \div m) * m
    <3>1. ((n \div m) - j) * m >= 0
      BY <2>1
    <3>2. ((n \div m) - j) * m = (n \div m) * m - j * m
      BY <2>1
    <3>3. j * m \in Int
      BY <2>1
    <3> QED BY <2>1, <3>1, <3>2, <3>3
  <2>3. j * m \in Nat /\ j * m >= 1
    BY <2>1
  <2>4. (j * m) % m = 0
    <3>1. j * m = q * m + ((j * m) % m) /\ (j * m) % m \in 0..m - 1 /\ q \in Nat
      BY Zenon, <2>3, DivMod
    <3>2. j <= q
      BY <2>1, <2>3, QuotientLargest
    <3>3. (q - j) * m = q * m - j * m
      BY <2>1, <3>1
    <3>4. (q - j) * m >= 0
      BY <3>1, <3>2
    <3> HIDE DEF q
    <3> QED BY <2>3, <3>1, <3>3, <3>4
  <2> QED BY <2>1, <2>2, <2>3, <2>4
<1> QED BY Zenon, <1>1, <1>2

\* k more than n raises the quotient by k at most.
LEMMA QuotientPlus ==
  ASSUME NEW n \in Nat, NEW k \in Nat, NEW m \in Nat \ {0}, NEW r \in 0..n + k
  PROVE  r \div m <= (n \div m) + k
<1> DEFINE a == r \div m
           b == n \div m
<1>1. /\ a \in Nat /\ b \in Nat
      /\ a * m <= r /\ n < b * m + m /\ a * m \in Int /\ b * m \in Int
  BY DivMod
<1>2. k * m >= k /\ k * m \in Int
  OBVIOUS
<1> HIDE DEF a, b
<1>3. (b + k) * m = b * m + k * m
  BY <1>1
<1>4. a * m < (b + k) * m + m
  BY <1>1, <1>2, <1>3
<1>5. a <= b + k
  BY <1>1, <1>4, Cancel
<1> QED BY <1>5 DEF a, b

-----------------------------------------------------------------------------
(* The rows of the table.                                                  *)

\* The table holds no more than the rows that the COUNT saw and those added
\* since; the archive only takes rows away.
RowsInv ==
  /\ DivisorInv
  /\ pc \notin {"loop", "select", "done"} => more = 0
  /\ pc \in {"loop", "select"} => rows <= nb + more
  /\ AnswerBounded

\* Every step keeps the invariant of the rows.
LEMMA RowsStep == RowsInv /\ [Next]_vars => RowsInv'
<1> SUFFICES ASSUME RowsInv, [Next]_vars PROVE RowsInv'
  OBVIOUS
<1> USE LimitAssumption
<1>0. TypeOK /\ TypeOK' /\ DivisorInv /\ DivisorInv'
  BY DivisorStep DEF RowsInv, DivisorInv
<1>1. CASE UNCHANGED <<pc, rows, nb, modulo, answer, more>>
  BY <1>0, <1>1 DEF RowsInv, AnswerBounded
<1>2. CASE getParam \/ AddN \/ Sed \/ SedEnd
  <2>1. pc' \notin {"loop", "select", "done"} /\ pc \notin {"loop", "select", "done"} /\ more' = more
    BY Zenon, <1>0, <1>2 DEF getParam, AddN, Sed, SedEnd, TypeOK
  <2> QED BY <1>0, <2>1 DEF RowsInv, AnswerBounded
<1>3. CASE getModulo
  <2>1. pc = "count" /\ pc' = "loop" /\ nb' = rows /\ rows' = rows /\ more' = more
    BY <1>3 DEF getModulo
  <2> QED BY <1>0, <2>1 DEF RowsInv, AnswerBounded, TypeOK
<1>4. CASE Loop
  <2>1. pc = "loop" /\ pc' \in {"loop", "select"} /\ UNCHANGED <<rows, nb, more>>
    BY <1>4 DEF Loop
  <2> QED BY <1>0, <2>1 DEF RowsInv, AnswerBounded
<1>5. CASE SelectVals
  <2>1. /\ pc = "select" /\ pc' = "done" /\ answer' = {n \in 1..rows : n % modulo = 0}
        /\ UNCHANGED <<rows, nb, modulo, more>>
    BY <1>5 DEF SelectVals
  <2>2. answer' = {n * modulo : n \in 1..(rows \div modulo)}
    BY Zenon, <1>0, <2>1, Multiples DEF TypeOK
  <2>3. rows \div modulo \in 0..LIMIT + more
    <3>0. /\ rows \in Nat /\ nb \in Nat /\ more \in Nat /\ modulo \in Nat \ {0}
          /\ rows <= nb + more
      BY <1>0, <2>1 DEF RowsInv, TypeOK
    <3>1. rows \in 0..nb + more /\ nb \div modulo <= LIMIT
      BY <1>0, <2>1, <3>0 DEF DivisorInv, LeastDivisor
    <3>2. rows \div modulo <= (nb \div modulo) + more
      BY <3>0, <3>1, QuotientPlus
    <3>3. rows \div modulo \in Nat /\ nb \div modulo \in Nat /\ more \in Nat
      BY <3>0, DivMod
    <3> QED BY <3>1, <3>2, <3>3
  <2>4. AnswerBounded'
    BY <2>1, <2>2, <2>3 DEF AnswerBounded
  <2> QED BY <1>0, <2>1, <2>4 DEF RowsInv
<1>6. CASE addVal
  <2>1. pc \in {"loop", "select"} /\ rows' = rows + 1 /\ more' = more + 1 /\ UNCHANGED <<pc, nb>>
    BY <1>6 DEF addVal
  <2> QED BY <1>0, <2>1 DEF RowsInv, AnswerBounded, TypeOK
<1>7. CASE Archive
  <2>1. pc # "done" /\ rows' <= rows /\ UNCHANGED <<pc, nb, more>>
    BY <1>0, <1>7 DEF Archive, TypeOK
  <2> QED BY <1>0, <2>1 DEF RowsInv, AnswerBounded, TypeOK
<1> QED BY <1>1, <1>2, <1>3, <1>4, <1>5, <1>6, <1>7 DEF Next, Request, Stop, vars

\* The SELECT returns evenly spaced rows, and more of them than the limit only
\* by the rows added since the COUNT, whatever the archive took away.
THEOREM AnswerBoundedTheorem == Spec => []AnswerBounded
<1>1. Init => RowsInv
  BY TypeInit DEF Init, RowsInv, DivisorInv, LeastDivisor, AnswerBounded
<1>2. RowsInv => AnswerBounded
  BY DEF RowsInv
<1> QED BY <1>1, <1>2, RowsStep, PTL DEF Spec

-----------------------------------------------------------------------------
(* The number of lines sed prints.                                         *)

\* A set of naturals that is not empty has a least element.
LEMMA Least ==
  ASSUME NEW S \in SUBSET Nat, S # {}
  PROVE  \E m \in S : \A n \in S : m <= n
<1>1. PICK m \in S : \A n \in S : ~ (<<n, m>> \in OpToRel(<, Nat))
  BY Zenon, NatLessThanWellFounded, WFMin
<1>2. \A n \in S : n \in Nat /\ ~(n < m)
  BY Zenon, <1>1 DEF OpToRel
<1> QED BY <1>2

MatchesOf(l, n) == {i \in 1..n : l[i]}

\* A stretch of matching lines that ends before p + c, and p is in it, has its
\* last line there.
LEMMA StretchEndsSoon ==
  ASSUME NEW l, NEW n \in Nat, NEW c \in Nat, NEW p \in 1..n, l[p],
         ~ \A j \in 0..c - 1 : p + j \in MatchesOf(l, n)
  PROVE  \E e \in StretchEnds(l, n) : p <= e /\ e < p + c
<1> DEFINE Out == {j \in 0..c - 1 : p + j \notin MatchesOf(l, n)}
<1>1. Out \in SUBSET Nat /\ Out # {}
  <2>1. PICK j \in 0..c - 1 : p + j \notin MatchesOf(l, n)
    OBVIOUS
  <2>2. j \in Out
    BY <2>1
  <2>3. \A k \in Out : k \in Nat
    OBVIOUS
  <2> HIDE DEF Out
  <2> QED BY <2>2, <2>3
<1>2. PICK j \in Out : \A k \in Out : j <= k
  BY Zenon, <1>1, Least
<1>3. j \in 1..c - 1
  BY <1>2 DEF MatchesOf
<1>4. p + (j - 1) \in MatchesOf(l, n)
  BY <1>2, <1>3
<1>5. p + j \notin MatchesOf(l, n)
  BY <1>2
<1> DEFINE e == p + (j - 1)
<1>6. e \in 1..n /\ l[e] /\ e + 1 = p + j
  BY <1>3, <1>4 DEF MatchesOf
<1>7. e = n \/ ~l[e + 1]
  BY <1>3, <1>5, <1>6 DEF MatchesOf
<1>8. e \in StretchEnds(l, n)
  BY <1>6, <1>7 DEF StretchEnds
<1> QED BY <1>3, <1>8

\* Matching lines at least c apart: those followed by c - 1 more matching lines
\* are at most one in c of the matching lines, and each of the others has the
\* end of a stretch to itself.
LEMMA SpacedLines ==
  ASSUME NEW l, NEW n \in Nat, NEW c \in Nat \ {0},
         NEW P \in SUBSET MatchesOf(l, n),
         \A p, q \in P : p < q => p + c <= q
  PROVE  /\ IsFiniteSet(P) /\ IsFiniteSet(MatchesOf(l, n))
         /\ Cardinality(P) <= (Cardinality(MatchesOf(l, n)) \div c) + Cardinality(StretchEnds(l, n))
<1>0. \A p \in P : p \in Nat
  BY DEF MatchesOf
<1> DEFINE M == MatchesOf(l, n)
           E == StretchEnds(l, n)
           W == 0..c - 1
           Full == {p \in P : \A j \in W : p + j \in M}
           Rest == P \ Full
<1>1. IsFiniteSet(1..n) /\ M \subseteq 1..n /\ E \subseteq 1..n
  BY FS_Interval DEF MatchesOf, StretchEnds
<1>2. IsFiniteSet(M) /\ IsFiniteSet(E)
  BY <1>1, FS_Subset
<1>3. IsFiniteSet(P) /\ IsFiniteSet(Full) /\ IsFiniteSet(Rest)
  BY <1>2, FS_Subset
<1>4. IsFiniteSet(W) /\ Cardinality(W) = c
  <2>1. 0 \in Int /\ c - 1 \in Int /\ ~(0 > c - 1) /\ c - 1 - 0 + 1 = c
    OBVIOUS
  <2> QED BY <2>1, FS_Interval
<1>5. Cardinality(Full) * c <= Cardinality(M)
  <2> DEFINE f == [x \in Full \X W |-> x[1] + x[2]]
  <2>1. f \in [Full \X W -> M]
    OBVIOUS
  <2>2. ASSUME NEW x \in Full \X W, NEW y \in Full \X W, f[x] = f[y]
        PROVE  x = y
    <3>1. PICK p \in Full, i \in W : x = <<p, i>>
      OBVIOUS
    <3>2. PICK q \in Full, j \in W : y = <<q, j>>
      OBVIOUS
    <3>3. p + i = q + j
      <4>1. f[x] = p + i /\ f[y] = q + j
        BY <3>1, <3>2
      <4> QED BY <2>2, <4>1
    <3>4. p \in P /\ q \in P /\ p \in Nat /\ q \in Nat
      <4>1. p \in P /\ q \in P
        OBVIOUS
      <4> QED BY Zenon, <1>0, <4>1
    <3>5. ~(p < q) /\ ~(q < p)
      BY <3>3, <3>4
    <3>6. p = q /\ i = j
      BY <3>3, <3>4, <3>5
    <3> QED BY <3>1, <3>2, <3>6
  <2> HIDE DEF f
  <2>3. f \in Injection(Full \X W, M)
    BY <2>1, <2>2 DEF Injection, IsInjective
  <2>4. Cardinality(Full \X W) <= Cardinality(M)
    BY <1>2, <2>3, FS_Injection
  <2> QED BY Zenon, <1>3, <1>4, <2>4, FS_Product
<1>6. Cardinality(Rest) <= Cardinality(E)
  <2> DEFINE g == [p \in Rest |-> CHOOSE e \in E : p <= e /\ e < p + c]
  <2>1. \A p \in Rest : g[p] \in E /\ p <= g[p] /\ g[p] < p + c
    <3>1. ASSUME NEW p \in Rest
          PROVE  \E e \in E : p <= e /\ e < p + c
      <4>1. p \in 1..n /\ l[p] /\ ~ \A j \in 0..c - 1 : p + j \in MatchesOf(l, n)
        BY DEF MatchesOf
      <4> QED BY Zenon, <4>1, StretchEndsSoon
    <3> QED BY <3>1
  <2>2. g \in [Rest -> E]
    BY <2>1
  <2> HIDE DEF g
  <2>3. ASSUME NEW p \in Rest, NEW q \in Rest, g[p] = g[q]
        PROVE  p = q
    <3>1. /\ p \in P /\ q \in P /\ p \in Nat /\ q \in Nat /\ g[p] \in Nat
          /\ p <= g[p] /\ g[p] < p + c /\ q <= g[p] /\ g[p] < q + c
      BY <1>1, <2>1, <2>3
    <3>2. ~(p < q) /\ ~(q < p)
      BY <3>1
    <3> QED BY <3>1, <3>2
  <2>4. g \in Injection(Rest, E)
    BY <2>2, <2>3 DEF Injection, IsInjective
  <2> QED BY <1>2, <2>4, FS_Injection
<1>7. Cardinality(P) = Cardinality(Full) + Cardinality(Rest)
  <2>1. Full \cup Rest = P /\ Full \cap Rest = {}
    OBVIOUS
  <2>2. Cardinality({}) = 0
    BY FS_EmptySet
  <2>3. Cardinality(Full) \in Nat /\ Cardinality(Rest) \in Nat
    BY <1>3, FS_CardinalityType
  <2> HIDE DEF Full, Rest
  <2>4. Cardinality(Full \cup Rest) = Cardinality(Full) + Cardinality(Rest) - Cardinality(Full \cap Rest)
    BY <1>3, FS_Union
  <2>5. Cardinality(P) = Cardinality(Full) + Cardinality(Rest) - 0
    BY Zenon, <2>1, <2>2, <2>4
  <2> QED BY <2>3, <2>5
<1>8. Cardinality(Full) \in Nat /\ Cardinality(Rest) \in Nat /\ Cardinality(M) \in Nat /\ Cardinality(E) \in Nat
  BY <1>2, <1>3, FS_CardinalityType
<1> HIDE DEF Full, Rest, M, E
<1>9. Cardinality(Full) <= Cardinality(M) \div c
  BY <1>5, <1>8, QuotientLargest
<1>10. Cardinality(M) \div c \in Nat
  BY <1>8, DivMod
<1>11. Cardinality(P) <= (Cardinality(M) \div c) + Cardinality(E)
  BY <1>6, <1>7, <1>8, <1>9, <1>10
<1> QED BY <1>2, <1>3, <1>11 DEF M, E

\* The lines of two parts of a file.
LEMMA Parts ==
  ASSUME NEW a \in Seq(BOOLEAN), NEW b \in Seq(BOOLEAN)
  PROVE  /\ a \o b \in Seq(BOOLEAN)
         /\ Len(a \o b) = Len(a) + Len(b)
         /\ \A i \in 1..Len(a) : (a \o b)[i] = a[i]
         /\ \A i \in 1..Len(b) : (a \o b)[Len(a) + i] = b[i]
OBVIOUS

\* The lines of a file that the archive writes.
LEMMA FileOfLines ==
  ASSUME NEW k \in Nat
  PROVE  /\ Len(FileOf(1, k, 1)) = k + 3
         /\ \A i \in {1, 2, k + 3} : FileOf(1, k, 1)[i] = FALSE
         /\ \A i \in 3..k + 2 : FileOf(1, k, 1)[i] = TRUE
<1> DEFINE a == Block(1 + 1, FALSE)
           b == Block(k, TRUE)
           c == Block(1, FALSE)
           d == a \o b
           e == d \o c
<1>1. /\ a \in Seq(BOOLEAN) /\ Len(a) = 2 /\ \A i \in 1..2 : a[i] = FALSE
      /\ b \in Seq(BOOLEAN) /\ Len(b) = k /\ \A i \in 1..k : b[i] = TRUE
      /\ c \in Seq(BOOLEAN) /\ Len(c) = 1 /\ c[1] = FALSE
  BY DEF Block
<1>2. FileOf(1, k, 1) = e
  BY DEF FileOf
<1> HIDE DEF a, b, c
<1>3. /\ d \in Seq(BOOLEAN) /\ Len(d) = 2 + k
      /\ \A i \in 1..2 : d[i] = a[i]
      /\ \A i \in 1..k : d[2 + i] = b[i]
  <2>1. a \in Seq(BOOLEAN) /\ b \in Seq(BOOLEAN) /\ Len(a) = 2 /\ Len(b) = k
    BY <1>1
  <2>2. /\ a \o b \in Seq(BOOLEAN) /\ Len(a \o b) = Len(a) + Len(b)
        /\ \A i \in 1..Len(a) : (a \o b)[i] = a[i]
        /\ \A i \in 1..Len(b) : (a \o b)[Len(a) + i] = b[i]
    BY Zenon, <2>1, Parts
  <2> QED BY <2>1, <2>2
<1> HIDE DEF d
<1>4. /\ Len(e) = (2 + k) + 1
      /\ \A i \in 1..2 + k : e[i] = d[i]
      /\ \A i \in 1..1 : e[(2 + k) + i] = c[i]
  <2>1. d \in Seq(BOOLEAN) /\ c \in Seq(BOOLEAN) /\ Len(d) = 2 + k /\ Len(c) = 1
    BY <1>1, <1>3
  <2>2. /\ Len(d \o c) = Len(d) + Len(c)
        /\ \A i \in 1..Len(d) : (d \o c)[i] = d[i]
        /\ \A i \in 1..Len(c) : (d \o c)[Len(d) + i] = c[i]
    BY <2>1, Parts
  <2> QED BY <2>1, <2>2
<1> HIDE DEF e
<1>5. /\ \A i \in 3..k + 2 : i - 2 \in 1..k /\ 2 + (i - 2) = i /\ i \in 1..2 + k
      /\ (2 + k) + 1 = k + 3 /\ 1 \in 1..2 + k /\ 2 \in 1..2 + k /\ 1 \in 1..1
  OBVIOUS
<1>6. e[1] = FALSE /\ e[2] = FALSE /\ e[k + 3] = FALSE
  <2>1. e[1] = d[1] /\ e[2] = d[2] /\ e[k + 3] = c[1]
    BY Zenon, <1>4, <1>5
  <2>2. 1 \in 1..2 /\ 2 \in 1..2
    OBVIOUS
  <2> QED BY Zenon, <1>1, <1>3, <2>1, <2>2
<1>7. ASSUME NEW i \in 3..k + 2
      PROVE  e[i] = TRUE
  <2>1. e[i] = d[i] /\ d[i] = b[i - 2] /\ b[i - 2] = TRUE
    BY <1>1, <1>3, <1>4, <1>5
  <2> QED BY <2>1
<1> QED BY Zenon, <1>2, <1>4, <1>5, <1>6, <1>7

\* A new file leaves the lines before it as they are, and has one stretch.
LEMMA OneStretchMore ==
  ASSUME NEW l \in Seq(BOOLEAN), NEW k \in Nat \ {0}, NEW n \in 0..Len(l),
         NEW t, t = l \o FileOf(1, k, 1)
  PROVE  /\ MatchesOf(t, n) = MatchesOf(l, n) /\ StretchEnds(t, n) = StretchEnds(l, n)
         /\ Cardinality(StretchEnds(t, Len(t))) <= Cardinality(StretchEnds(l, Len(l))) + 1
<1> DEFINE f == FileOf(1, k, 1)
           N == Len(l)
<1>1. /\ f \in Seq(BOOLEAN) /\ Len(f) = k + 3
      /\ f[1] = FALSE /\ f[2] = FALSE /\ f[k + 3] = FALSE
      /\ \A i \in 3..k + 2 : f[i] = TRUE
  BY Zenon, FileOfType, FileOfLines
<1>2. N \in Nat /\ n \in 0..N
  OBVIOUS
<1>t. t = l \o f
  OBVIOUS
<1> HIDE DEF f
<1>3. /\ Len(t) = N + k + 3
      /\ \A i \in 1..N : t[i] = l[i]
      /\ \A i \in N + 1..N + k + 3 : t[i] = f[i - N]
  BY SMTT(30), <1>1, <1>t
<1> HIDE DEF N
<1>4. /\ \A i \in {N + 1, N + 2, N + k + 3} : t[i] = FALSE
      /\ \A i \in N + 3..N + k + 2 : t[i] = TRUE
  <2>1. /\ N + 1 \in N + 1..N + k + 3 /\ N + 2 \in N + 1..N + k + 3 /\ N + k + 3 \in N + 1..N + k + 3
        /\ (N + 1) - N = 1 /\ (N + 2) - N = 2 /\ (N + k + 3) - N = k + 3
    BY <1>2
  <2>2. \A i \in N + 3..N + k + 2 : i \in N + 1..N + k + 3 /\ i - N \in 3..k + 2
    BY <1>2
  <2>3. t[N + 1] = FALSE /\ t[N + 2] = FALSE /\ t[N + k + 3] = FALSE
    <3>1. t[N + 1] = f[1] /\ t[N + 2] = f[2] /\ t[N + k + 3] = f[k + 3]
      BY Zenon, <1>3, <2>1
    <3> QED BY Zenon, <1>1, <3>1
  <2>4. \A i \in N + 3..N + k + 2 : t[i] = TRUE
    BY Zenon, <1>1, <1>3, <2>2
  <2> QED BY Zenon, <2>3, <2>4
<1>5. MatchesOf(t, n) = MatchesOf(l, n) /\ StretchEnds(t, n) = StretchEnds(l, n)
  <2>1. \A i \in 1..n : t[i] = l[i] /\ (i = n \/ t[i + 1] = l[i + 1])
    BY <1>2, <1>3
  <2> QED BY <2>1 DEF MatchesOf, StretchEnds
<1> DEFINE A == StretchEnds(l, N)
           B == StretchEnds(t, N + k + 3)
<1>6. B \subseteq A \cup {N + k + 2}
  <2> SUFFICES ASSUME NEW i \in B, i # N + k + 2
               PROVE  i \in A
    OBVIOUS
  <2>1. i \in 1..N + k + 3 /\ t[i] /\ (i = N + k + 3 \/ ~t[i + 1])
    BY Zenon DEF StretchEnds
  <2>2. i \notin {N + 1, N + 2, N + k + 3}
    BY Zenon, <1>4, <2>1
  <2>3. i \notin N + 3..N + k + 1
    <3>1. i \in N + 3..N + k + 1 => i + 1 \in N + 3..N + k + 2 /\ i # N + k + 3
      BY <1>2
    <3> QED BY Zenon, <1>4, <2>1, <3>1
  <2>4. i \in 1..N
    BY <1>2, <2>1, <2>2, <2>3
  <2>5. l[i] /\ (i = N \/ ~l[i + 1])
    <3>1. i = N \/ i + 1 \in 1..N
      BY <1>2, <2>4
    <3>2. i # N + k + 3
      BY <1>2, <2>4
    <3> QED BY SMTT(30), <1>3, <2>1, <2>4, <3>1, <3>2
  <2> QED BY <2>4, <2>5 DEF StretchEnds
<1>7. IsFiniteSet(A)
  <2>1. IsFiniteSet(1..N) /\ A \subseteq 1..N
    BY <1>2, FS_Interval DEF StretchEnds
  <2> QED BY Zenon, <2>1, FS_Subset
<1> HIDE DEF A, B
<1>8. IsFiniteSet(A \cup {N + k + 2}) /\ Cardinality(A \cup {N + k + 2}) <= Cardinality(A) + 1
  <2>1. Cardinality(A) \in Nat
    BY <1>7, FS_CardinalityType
  <2>2. CASE N + k + 2 \in A
    <3>1. A \cup {N + k + 2} = A
      BY <2>2
    <3>2. Cardinality(A) <= Cardinality(A) + 1
      BY <2>1
    <3> QED BY Zenon, <1>7, <3>1, <3>2
  <2>3. CASE N + k + 2 \notin A
    <3>1. IsFiniteSet(A \cup {N + k + 2}) /\ Cardinality(A \cup {N + k + 2}) = Cardinality(A) + 1
      BY <1>7, <2>3, FS_AddElement
    <3> QED BY <2>1, <3>1
  <2> QED BY <2>2, <2>3
<1>9. Cardinality(B) <= Cardinality(A) + 1
  <2>1. IsFiniteSet(B) /\ Cardinality(B) <= Cardinality(A \cup {N + k + 2})
    BY <1>6, <1>8, FS_Subset
  <2>2. Cardinality(B) \in Nat /\ Cardinality(A) \in Nat /\ Cardinality(A \cup {N + k + 2}) \in Nat
    BY <1>7, <1>8, <2>1, FS_CardinalityType
  <2> QED BY <1>8, <2>1, <2>2
<1> QED BY <1>3, <1>5, <1>9 DEF A, B, N

\* The count is that of the lines sed reads, unless the archive ran in between;
\* each file holds at most one stretch; the lines printed are cpt apart.
PrintInv ==
  /\ DivisorInv
  /\ pc \in {"param", "ploop"} => printed = {}
  /\ pc = "ploop" /\ moved # "ploop" => nbLines = Cardinality(MatchesOf(lines, Len(lines)))
  /\ Cardinality(StretchEnds(lines, Len(lines))) <= files
  /\ pc \in {"sed", "count"} =>
       /\ moved # "ploop" => nbLines = Cardinality(MatchesOf(lines, input))
       /\ Cardinality(StretchEnds(lines, input)) <= files
       /\ printed \subseteq MatchesOf(lines, input)
       /\ \A p \in printed : p + cpt <= pos
       /\ \A p, q \in printed : p < q => p + cpt <= q

\* Every step keeps the invariant of the lines that sed prints.
LEMMA PrintStep == PrintInv /\ [Next]_vars => PrintInv'
<1> SUFFICES ASSUME PrintInv, [Next]_vars PROVE PrintInv'
  OBVIOUS
<1> USE LimitAssumption
<1>0. TypeOK /\ TypeOK' /\ DivisorInv /\ DivisorInv'
  BY DivisorStep DEF PrintInv, DivisorInv
<1>1. CASE UNCHANGED <<pc, filevars, moved>>
  BY <1>0, <1>1 DEF PrintInv, filevars
<1>2. CASE getParam
  <2>1. /\ pc = "param" /\ pc' = "ploop" /\ UNCHANGED <<lines, files, printed>>
        /\ nbLines' = Cardinality(MatchesOf(lines, Len(lines)))
    BY <1>2 DEF getParam, Matches, MatchesOf
  <2> QED BY <1>0, <2>1 DEF PrintInv
<1>3. CASE AddN
  <2>1. /\ pc = "ploop" /\ UNCHANGED <<lines, files, nbLines, printed, moved>>
        /\ pc' = "ploop" \/ (pc' = "sed" /\ input' = Len(lines))
    BY <1>3 DEF AddN
  <2> QED BY <1>0, <2>1 DEF PrintInv
<1>4. CASE Sed
  <2>1. /\ pc = "sed" /\ pc' = "sed" /\ UNCHANGED <<lines, files, nbLines, cpt, input, moved>>
        /\ pos \in 1..input
        /\ \/ lines[pos] /\ printed' = printed \cup {pos} /\ pos' = pos + cpt
           \/ printed' = printed /\ pos' = pos + 1
    BY <1>0, <1>4 DEF Sed, TypeOK
  <2>2. /\ printed \subseteq MatchesOf(lines, input) /\ \A p \in printed : p \in Nat /\ p + cpt <= pos
        /\ \A p, q \in printed : p < q => p + cpt <= q
    <3>1. \A p \in printed : p \in Nat
      BY <1>0 DEF TypeOK
    <3> QED BY <2>1, <3>1 DEF PrintInv
  <2>3. cpt \in Nat \ {0} /\ pos \in Nat
    BY <1>0 DEF TypeOK
  <2>4. CASE lines[pos] /\ printed' = printed \cup {pos} /\ pos' = pos + cpt
    <3>1. printed' \subseteq MatchesOf(lines, input)
      BY <2>1, <2>2, <2>4 DEF MatchesOf
    <3>2. \A p \in printed' : p + cpt <= pos'
      BY <2>2, <2>3, <2>4
    <3>3. \A p, q \in printed' : p < q => p + cpt <= q
      BY <2>2, <2>3, <2>4
    <3> QED BY <1>0, <2>1, <3>1, <3>2, <3>3 DEF PrintInv
  <2>5. CASE printed' = printed /\ pos' = pos + 1
    <3>1. \A p \in printed' : p + cpt <= pos'
      BY <2>2, <2>3, <2>5
    <3> QED BY <1>0, <2>1, <2>2, <2>5, <3>1 DEF PrintInv
  <2> QED BY <2>1, <2>4, <2>5
<1>5. CASE SedEnd
  BY <1>0, <1>5 DEF PrintInv, SedEnd, filevars
<1>6. CASE pc' \in {"loop", "select", "done"} /\ UNCHANGED <<lines, files>>
  BY <1>0, <1>6 DEF PrintInv
<1>7. CASE Archive
  <2>1. PICK k \in 1..rows : lines' = lines \o FileOf(1, k, 1)
    BY <1>7 DEF Archive
  <2>2. /\ UNCHANGED <<pc, nbLines, cpt, input, pos, printed>> /\ moved = "no" /\ moved' = pc
        /\ files' = files + 1
    BY <1>7 DEF Archive
  <2>3. /\ MatchesOf(lines', input) = MatchesOf(lines, input)
        /\ StretchEnds(lines', input) = StretchEnds(lines, input)
        /\ Cardinality(StretchEnds(lines', Len(lines'))) <= Cardinality(StretchEnds(lines, Len(lines))) + 1
    <3>1. lines \in Seq(BOOLEAN) /\ k \in Nat \ {0} /\ input \in 0..Len(lines)
      BY <1>0 DEF TypeOK
    <3> QED BY Zenon, <2>1, <3>1, OneStretchMore
  <2>4. /\ Cardinality(StretchEnds(lines, Len(lines))) \in Nat
        /\ Cardinality(StretchEnds(lines, input)) \in Nat
        /\ Cardinality(StretchEnds(lines', Len(lines'))) \in Nat
    <3>1. ASSUME NEW l, NEW n \in Nat
          PROVE  Cardinality(StretchEnds(l, n)) \in Nat
      <4>1. IsFiniteSet(1..n) /\ StretchEnds(l, n) \subseteq 1..n
        BY FS_Interval DEF StretchEnds
      <4> QED BY <4>1, FS_Subset, FS_CardinalityType
    <3>2. Len(lines) \in Nat /\ Len(lines') \in Nat /\ input \in Nat
      <4>1. lines \in Seq(BOOLEAN) /\ lines' \in Seq(BOOLEAN) /\ input \in 0..Len(lines)
        BY <1>0 DEF TypeOK
      <4> QED BY <4>1
    <3> QED BY <3>1, <3>2
  <2>5. /\ Cardinality(StretchEnds(lines', Len(lines'))) <= files'
        /\ pc \in {"sed", "count"} => Cardinality(StretchEnds(lines, input)) <= files'
    BY SMTT(30), <1>0, <2>2, <2>3, <2>4 DEF PrintInv, TypeOK
  <2>6. pc \in {"sed", "count"} => moved' # "ploop" /\ moved # "ploop"
    BY <2>2
  <2> QED BY <1>0, <2>2, <2>3, <2>5, <2>6 DEF PrintInv
<1> QED BY <1>1, <1>2, <1>3, <1>4, <1>5, <1>6, <1>7
     DEF Next, Request, getModulo, Loop, SelectVals, addVal, Stop, vars, filevars

\* sed prints more lines than the limit only by one per file, unless the archive
\* ran between the count and the printing.
THEOREM PrintedBoundedTheorem == Spec => []PrintedBounded
<1>1. Init => PrintInv
  <2> SUFFICES ASSUME Init PROVE PrintInv
    OBVIOUS
  <2>1. Cardinality(StretchEnds(lines, Len(lines))) <= files
    BY ContentsAssumption DEF Init
  <2> QED BY <2>1, TypeInit DEF Init, PrintInv, DivisorInv, LeastDivisor
<1>2. PrintInv => PrintedBounded
  <2> SUFFICES ASSUME PrintInv, pc = "count", moved # "ploop"
               PROVE  Cardinality(printed) <= LIMIT + files
    BY DEF PrintedBounded
  <2>1. /\ nbLines = Cardinality(MatchesOf(lines, input)) /\ Cardinality(StretchEnds(lines, input)) <= files
        /\ printed \subseteq MatchesOf(lines, input)
        /\ \A p, q \in printed : p < q => p + cpt <= q
    BY DEF PrintInv
  <2>2. input \in Nat /\ cpt \in Nat \ {0} /\ nbLines \in Nat /\ files \in Nat /\ nbLines \div cpt <= LIMIT
    BY DEF PrintInv, DivisorInv, LeastDivisor, TypeOK
  <2>3. IsFiniteSet(printed) /\ Cardinality(printed) <= (nbLines \div cpt) + Cardinality(StretchEnds(lines, input))
    BY <2>1, <2>2, SpacedLines
  <2>4. nbLines \div cpt \in Nat /\ LIMIT \in Nat
    BY <2>2, DivMod, LimitAssumption
  <2>5. Cardinality(printed) \in Nat /\ Cardinality(StretchEnds(lines, input)) \in Nat
    <3>1. IsFiniteSet(1..input) /\ StretchEnds(lines, input) \subseteq 1..input
      BY <2>2, FS_Interval DEF StretchEnds
    <3> QED BY Zenon, <2>3, <3>1, FS_Subset, FS_CardinalityType
  <2> QED BY <2>1, <2>2, <2>3, <2>4, <2>5
<1> QED BY <1>1, <1>2, PrintStep, PTL DEF Spec

=============================================================================

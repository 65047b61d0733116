------------------------------ MODULE Sampling ------------------------------
(***************************************************************************)
(* How IndiceDaoImpl.getIndicesVals thins out a long series: getParam and  *)
(* a sed command that skips lines after each line it prints, for the       *)
(* files; getModulo and a SELECT that keeps every modulo-th row, for the   *)
(* table.  Reader.tla is about the values themselves; here only their      *)
(* positions matter.                                                       *)
(*                                                                         *)
(* sed sees the files as one sequence of lines; a line is TRUE if it       *)
(* begins with the identifier.  The rows of the identifier in the table    *)
(* are numbered in the order of their dates.                               *)
(***************************************************************************)
EXTENDS Integers, Sequences, FiniteSets

CONSTANTS
  LIMIT,      \* the limit of both loops (2000)
  Contents,   \* what the files can hold when the request comes
  MaxTable,   \* bound: rows in the table when the request comes
  MaxMore     \* bound: rows added while the request runs

\* The lines of one file: the header and the smaller identifiers, the
\* identifier, the larger ones (BDD.write, ORDER BY V.ID).
Block(n, b) == [k \in 1..n |-> b]
FileOf(before, mine, after) ==
  Block(before + 1, FALSE) \o Block(mine, TRUE) \o Block(after, FALSE)

\* The last lines of the stretches of the identifier among the first n lines.
StretchEnds(l, n) == {i \in 1..n : l[i] /\ (i = n \/ ~l[i + 1])}

ASSUME LimitAssumption ==
  LIMIT \in Nat \ {0} /\ MaxTable \in Nat /\ MaxMore \in Nat

\* Each file starts with its header and holds the lines of the identifier, if
\* any, in one stretch.
ASSUME ContentsAssumption ==
  \A c \in Contents :
    /\ c.lines \in Seq(BOOLEAN) /\ c.files \in Nat
    /\ Cardinality(StretchEnds(c.lines, Len(c.lines))) <= c.files

VARIABLES
  pc,         \* param, ploop, sed, count, loop, select, done
  lines,      \* the lines of the files
  files,      \* the number of files
  nbLines, cpt,
  input,      \* the number of lines when sed starts
  pos,        \* the line sed reads next
  printed,    \* the lines it printed
  rows,       \* number of rows in the table
  nb, modulo,
  tmp,        \* of the loop in progress
  answer,     \* the rows that the SELECT returned
  more,       \* history: rows added since the COUNT
  moved       \* history: where the request was when the archive ran

filevars == <<lines, files, nbLines, cpt, input, pos, printed>>
vars == <<pc, filevars, rows, nb, modulo, tmp, answer, more, moved>>

Matches(S) == {i \in S : lines[i]}

Init ==
  /\ pc = "param"
  /\ \E c \in Contents : lines = c.lines /\ files = c.files
  /\ nbLines = 0 /\ cpt = 1 /\ input = 0 /\ pos = 1 /\ printed = {}
  /\ rows \in 0..MaxTable /\ nb = 0 /\ modulo = 1 /\ tmp = 0 /\ answer = {}
  /\ more = 0 /\ moved = "no"

-----------------------------------------------------------------------------
(* The files.                                                              *)

\* getParam: the first command counts the lines, the loop builds {p;n;n;...}.
getParam ==
  /\ pc = "param" /\ pc' = "ploop"
  /\ nbLines' = Cardinality(Matches(1..Len(lines)))
  /\ tmp' = nbLines' /\ cpt' = 1
  /\ UNCHANGED <<lines, files, input, pos, printed, rows, nb, modulo, answer, more, moved>>

AddNForgotten ==
  /\ pc = "ploop"
  /\ \/ tmp > LIMIT  /\ UNCHANGED <<pc, input>>
     \/ tmp <= LIMIT /\ pc' = "sed" /\ input' = Len(lines)
  /\ UNCHANGED <<lines, files, nbLines, cpt, pos, printed, rows, nb, modulo, tmp, answer, more, moved>>

AddN ==
  /\ pc = "ploop"
  /\ \/ /\ tmp > LIMIT
        /\ cpt' = cpt + 1 /\ tmp' = nbLines \div (cpt + 1)
        /\ UNCHANGED <<pc, input>>
     \/ /\ tmp <= LIMIT
        /\ pc' = "sed" /\ input' = Len(lines)
        /\ UNCHANGED <<cpt, tmp>>
  /\ UNCHANGED <<lines, files, nbLines, pos, printed, rows, nb, modulo, answer, more, moved>>

\* One cycle of the second command: p prints a line that matches, and each n
\* replaces it by the next one, whatever its identifier.
SedWithoutN ==
  /\ pc = "sed" /\ pos <= input
  /\ \/ lines[pos]  /\ printed' = printed \cup {pos}
     \/ ~lines[pos] /\ printed' = printed
  /\ pos' = pos + 1
  /\ UNCHANGED <<pc, lines, files, nbLines, cpt, input, rows, nb, modulo, tmp, answer, more, moved>>

SedOneTooFar ==
  /\ pc = "sed" /\ pos <= input
  /\ \/ lines[pos]  /\ printed' = printed \cup {pos} /\ pos' = pos + cpt + 1
     \/ ~lines[pos] /\ printed' = printed            /\ pos' = pos + 1
  /\ UNCHANGED <<pc, lines, files, nbLines, cpt, input, rows, nb, modulo, tmp, answer, more, moved>>

Sed ==
  /\ pc = "sed" /\ pos <= input
  /\ \/ lines[pos]  /\ printed' = printed \cup {pos} /\ pos' = pos + cpt
     \/ ~lines[pos] /\ printed' = printed            /\ pos' = pos + 1
  /\ UNCHANGED <<pc, lines, files, nbLines, cpt, input, rows, nb, modulo, tmp, answer, more, moved>>

SedEnd ==
  /\ pc = "sed" /\ pos > input /\ pc' = "count"
  /\ UNCHANGED <<filevars, rows, nb, modulo, tmp, answer, more, moved>>

-----------------------------------------------------------------------------
(* The table.                                                              *)

getModulo ==
  /\ pc = "count" /\ pc' = "loop"
  /\ nb' = rows /\ tmp' = rows /\ modulo' = 1
  /\ UNCHANGED <<filevars, rows, answer, more, moved>>

LoopTooFar ==
  /\ pc = "loop"
  /\ \/ /\ tmp >= LIMIT
        /\ modulo' = modulo + 1 /\ tmp' = nb \div (modulo + 1)
        /\ pc' = pc
     \/ /\ tmp < LIMIT
        /\ pc' = "select"
        /\ UNCHANGED <<modulo, tmp>>
  /\ UNCHANGED <<filevars, rows, nb, answer, more, moved>>

Loop ==
  /\ pc = "loop"
  /\ \/ /\ tmp > LIMIT
        /\ modulo' = modulo + 1 /\ tmp' = nb \div (modulo + 1)
        /\ pc' = pc
     \/ /\ tmp <= LIMIT
        /\ pc' = "select"
        /\ UNCHANGED <<modulo, tmp>>
  /\ UNCHANGED <<filevars, rows, nb, answer, more, moved>>

\* WHERE MOD(LIGNES.NUM, modulo) = 0
SelectValsUnfiltered ==
  /\ pc = "select" /\ pc' = "done"
  /\ answer' = 1..rows
  /\ UNCHANGED <<filevars, rows, nb, modulo, tmp, more, moved>>

SelectVals ==
  /\ pc = "select" /\ pc' = "done"
  /\ answer' = {n \in 1..rows : n % modulo = 0}
  /\ UNCHANGED <<filevars, rows, nb, modulo, tmp, more, moved>>

-----------------------------------------------------------------------------

\* The collector adds a row to the table.  (A row that comes before the COUNT
\* is like one that was there from the start.)
addVal ==
  /\ pc \in {"loop", "select"} /\ more < MaxMore
  /\ rows' = rows + 1 /\ more' = more + 1
  /\ UNCHANGED <<pc, filevars, nb, modulo, tmp, answer, moved>>

\* The archive moves the first rows of the table to a new file.
Archive ==
  /\ pc # "done" /\ moved = "no"
  /\ \E k \in 1..rows :
       /\ lines' = lines \o FileOf(1, k, 1)
       /\ rows' = rows - k
  /\ files' = files + 1 /\ moved' = pc
  /\ UNCHANGED <<pc, nbLines, cpt, input, pos, printed, nb, modulo, tmp, answer, more>>

\* The request is over.
Stop ==
  /\ pc = "done"
  /\ UNCHANGED vars

Request == getParam \/ AddN \/ Sed \/ SedEnd \/ getModulo \/ Loop \/ SelectVals

Next == Request \/ addVal \/ Archive \/ Stop

Spec == Init /\ [][Next]_vars

\* The loops are plain computation, and the commands end with their input.
FairSpec == Spec /\ WF_vars(Request)

-----------------------------------------------------------------------------
(* Properties.                                                             *)

\* The variables of the two loops stay what they stand for: tmp is the size of
\* the sample that the current divisor would give.
TypeOK ==
  /\ pc \in {"param", "ploop", "sed", "count", "loop", "select", "done"}
  /\ lines \in Seq(BOOLEAN) /\ files \in Nat
  /\ nbLines \in Nat /\ cpt \in Nat \ {0} /\ pos \in Nat \ {0} /\ input \in 0..Len(lines)
  /\ printed \subseteq 1..input
  /\ rows \in Nat /\ nb \in Nat /\ modulo \in Nat \ {0}
  /\ more \in 0..MaxMore
  /\ pc = "ploop" => tmp = nbLines \div cpt
  /\ pc = "loop" => tmp = nb \div modulo

\* Both divisors are the least ones that bring their count under the limit:
\* no series is thinned out more than needed (getParam, getModulo).
LeastDivisor ==
  /\ pc \notin {"param", "ploop"} =>
       nbLines \div cpt <= LIMIT /\ \A m \in 1..cpt - 1 : nbLines \div m > LIMIT
  /\ pc \in {"select", "done"} =>
       nb \div modulo <= LIMIT /\ \A m \in 1..modulo - 1 : nb \div m > LIMIT

\* The table contributes evenly spaced rows, more of them than the limit only
\* by the rows added between the COUNT and the SELECT (two statements).
AnswerBounded ==
  pc = "done" => \E k \in 0..LIMIT + more : answer = {n * modulo : n \in 1..k}

\* Every line of the identifier is printed or follows one that is by less than
\* cpt lines: only a stretch that is shorter than cpt and comes right after a
\* printed line is left out whole (sed, {p;n;n;...}).
NoStretchLost ==
  pc = "count" =>
    \A i \in Matches(1..input) : \E j \in printed : i - cpt < j /\ j <= i

\* The files contribute more lines than the limit only by one per file and by
\* what was archived after the lines were counted: n skips lines of the other
\* identifiers too, so every file starts afresh.
PrintedBounded ==
  pc = "count" /\ moved # "ploop" => Cardinality(printed) <= LIMIT + files

\* The request is answered, whatever the counts.
Answers == <>(pc = "done")

=============================================================================

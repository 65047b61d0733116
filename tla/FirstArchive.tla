---------------------------- MODULE FirstArchive ----------------------------
(***************************************************************************)
(* BDD/src/v01/Launcher.java: the first archive program, started by hand   *)
(* (BDD.bat).  It copies yesterday's rows of VALEURS_INDICES into          *)
(* ./cache/<day>.csv and deletes them, if the day of the month is between  *)
(* the 2nd and the 25th.  Unlike Archiver.tla, every exception ends the    *)
(* program, an empty file is kept, and nothing stops a second run from     *)
(* being started while the first one is at work.                           *)
(***************************************************************************)
EXTENDS Integers, FiniteSets

CONSTANTS
  Procs,       \* the runs that can be going on at once
  Ids,         \* identifiers present in INDICES
  NoId,        \* an identifier that the join with INDICES leaves out
  DayOfMonth,  \* calendar: day number -> day of the month
  MaxDay,      \* bound: last day of the clock
  MaxRows      \* bound: number of values recorded

\* String.format("%02d", i-1) is yesterday: the day before the 2nd, the 3rd...
\* has the number before in the same month.
ASSUME CalendarAssumption ==
  /\ MaxDay \in Nat \ {0} /\ MaxRows \in Nat /\ NoId \notin Ids
  /\ DayOfMonth \in [0..MaxDay -> 1..31]
  /\ \A d \in 1..MaxDay :
       DayOfMonth[d] > 1 => DayOfMonth[d - 1] = DayOfMonth[d] - 1

Days == 0..MaxDay
Row  == [id : Ids \cup {NoId}, day : Days, seq : 0..MaxRows]

\* A line of a file has a beginning and an end, which may be flushed apart.
Part == Row \X {1, 2}
Parts(S) == S \X {1, 2}

VARIABLES
  today,       \* the clock of the machine, in days
  live,        \* rows of VALEURS_INDICES
  cached,      \* days with a file under ./cache
  disk,        \* parts of lines that are in the files
  pc,          \* where each run is
  jour,        \* the day each run archives (d of the code)
  todo,        \* what each run has selected and not yet got into the file
  nextSeq      \* number of values recorded so far

\* History, read by no action.
VARIABLES
  recorded,    \* rows that were ever in the table
  spoilt,      \* days whose archive was cut short
  clash        \* days whose file a second run emptied

run  == <<pc, jour, todo>>
vars == <<today, live, cached, disk, run, nextSeq, recorded, spoilt, clash>>

RowsOf(S, d)  == {r \in S : r.day = d}
Identified(S) == {r \in S : r.id # NoId}
PartsOf(S, d) == {q \in S : q[1].day = d}
Complete      == {r \in Row : Parts({r}) \subseteq disk}

\* Days whose file a run has opened and is not done with.
InHand == {jour[p] : p \in {q \in Procs : pc[q] \in {"write", "delete"}}}

Init ==
  /\ today = 1
  /\ live = {} /\ cached = {} /\ disk = {} /\ nextSeq = 0
  /\ pc = [p \in Procs |-> "off"]
  /\ jour = [p \in Procs |-> 0]
  /\ todo = [p \in Procs |-> {}]
  /\ recorded = {} /\ spoilt = {} /\ clash = {}

Goto(p, l) == pc' = [pc EXCEPT ![p] = l]

\* The program connects, reads the clock and goes on if i>1 && i<26.
Start(p) ==
  /\ pc[p] = "off"
  /\ DayOfMonth[today] > 1 /\ DayOfMonth[today] < 26
  /\ jour' = [jour EXCEPT ![p] = today - 1]
  /\ Goto(p, "query")
  /\ UNCHANGED <<today, live, cached, disk, todo, nextSeq, recorded, spoilt, clash>>

\* The SELECT joins with INDICES.
Select(p) ==
  /\ pc[p] = "query"
  /\ todo' = [todo EXCEPT ![p] = Parts(Identified(RowsOf(live, jour[p])))]
  /\ Goto(p, "exists")
  /\ UNCHANGED <<today, live, cached, disk, jour, nextSeq, recorded, spoilt, clash>>

\* The run is over, normally or by an exception; what is buffered is lost.
Off(p) ==
  /\ Goto(p, "off")
  /\ jour' = [jour EXCEPT ![p] = 0]
  /\ todo' = [todo EXCEPT ![p] = {}]

\* LE FICHIER EXISTE DEJA
Exists(p) ==
  /\ pc[p] = "exists"
  /\ \/ jour[p] \in cached /\ Off(p)
     \/ jour[p] \notin cached /\ Goto(p, "open") /\ UNCHANGED <<jour, todo>>
  /\ UNCHANGED <<today, live, cached, disk, nextSeq, recorded, spoilt, clash>>

\* new FileWriter creates the file, or empties the one that came in between.
Open(p) ==
  /\ pc[p] = "open"
  /\ cached' = cached \cup {jour[p]}
  /\ disk' = disk \ PartsOf(disk, jour[p])
  /\ clash' = clash \cup (cached \cap {jour[p]})
  /\ Goto(p, "write")
  /\ UNCHANGED <<today, live, jour, todo, nextSeq, recorded, spoilt>>

\* fw hands some of what it was given to the file.  Two runs write the same
\* lines at the same places: each adds to what is there.
Flush(p) ==
  /\ pc[p] = "write"
  /\ \E S \in SUBSET todo[p] :
       /\ disk' = disk \cup S
       /\ todo' = [todo EXCEPT ![p] = @ \ S]
  /\ UNCHANGED <<today, live, cached, pc, jour, nextSeq, recorded, spoilt, clash>>

\* fw.close at the end of the loop.
CloseWithoutFlush(p) ==
  /\ pc[p] = "write"
  /\ todo' = [todo EXCEPT ![p] = {}]
  /\ Goto(p, "delete")
  /\ UNCHANGED <<today, live, cached, disk, jour, nextSeq, recorded, spoilt, clash>>

Close(p) ==
  /\ pc[p] = "write"
  /\ disk' = disk \cup todo[p]
  /\ todo' = [todo EXCEPT ![p] = {}]
  /\ Goto(p, "delete")
  /\ UNCHANGED <<today, live, cached, jour, nextSeq, recorded, spoilt, clash>>

\* The DELETE has no join.
DeleteSince(p) ==
  /\ pc[p] = "delete"
  /\ live' = {r \in live : r.day < jour[p]}
  /\ Off(p)
  /\ UNCHANGED <<today, cached, disk, nextSeq, recorded, spoilt, clash>>

Delete(p) ==
  /\ pc[p] = "delete"
  /\ live' = live \ RowsOf(live, jour[p])
  /\ Off(p)
  /\ UNCHANGED <<today, cached, disk, nextSeq, recorded, spoilt, clash>>

\* main throws at any statement, or the window is closed.
Die(p) ==
  /\ pc[p] # "off"
  /\ Off(p)
  /\ spoilt' = spoilt \cup IF pc[p] \in {"write", "delete"} THEN {jour[p]} ELSE {}
  /\ UNCHANGED <<today, live, cached, disk, nextSeq, recorded, clash>>

-----------------------------------------------------------------------------
(* The programs that fill the table, and the clock.                        *)

Record ==
  /\ nextSeq < MaxRows
  /\ \E i \in Ids \cup {NoId} :
       LET r == [id |-> i, day |-> today, seq |-> nextSeq]
       IN  live' = live \cup {r} /\ recorded' = recorded \cup {r}
  /\ nextSeq' = nextSeq + 1
  /\ UNCHANGED <<today, cached, disk, run, spoilt, clash>>

Midnight ==
  /\ today < MaxDay
  /\ today' = today + 1
  /\ UNCHANGED <<live, cached, disk, run, nextSeq, recorded, spoilt, clash>>

Step(p) ==
  \/ Start(p) \/ Select(p) \/ Exists(p) \/ Open(p)
  \/ Flush(p) \/ Close(p) \/ Delete(p) \/ Die(p)

Next == (\E p \in Procs : Step(p)) \/ Record \/ Midnight

Spec == Init /\ [][Next]_vars

-----------------------------------------------------------------------------
(* Properties.                                                             *)

\* The shape of the state: runs are about days that are over.
TypeOK ==
  /\ today \in 1..MaxDay /\ nextSeq \in 0..MaxRows
  /\ live \in SUBSET recorded /\ recorded \in SUBSET Row /\ disk \in SUBSET Part
  /\ cached \in SUBSET Days /\ spoilt \in SUBSET Days /\ clash \in SUBSET Days
  /\ pc \in [Procs -> {"off", "query", "exists", "open", "write", "delete"}]
  /\ jour \in [Procs -> Days] /\ \A p \in Procs : jour[p] < today
  /\ todo \in [Procs -> SUBSET Part]

\* The ledger that the table and the files amount to.
L == INSTANCE Ledger WITH Row    <- Row,
                          open   <- Identified(live),
                          sealed <- Complete

\* What one run at a time implements (main closes fw before the DELETE, and
\* leaves a file that exists alone, "LE FICHIER EXISTE DEJA").
LedgerSpec == L!LSpec

\* However many runs are going on and wherever they are stopped, the promise of
\* the archive is kept until a run empties the file of another: a value leaves
\* the table only when its line is whole in a closed file, and no whole line is
\* taken back (main, tmpDir.exists, new FileWriter, fw.close, the DELETE).
LedgerUnlessClash == [][clash' = {} => [L!LNext]_(L!lvars)]_vars

\* Values that are neither in the table nor whole in a file.
Lost == Identified(recorded) \ (live \cup Complete)

\* With several runs at once, a value is in neither place only if a run emptied
\* the file of another (it tested tmpDir.exists before the other created it),
\* and then only while a run has the file in hand or after one was cut short:
\* runs that all come to their end restore the file (main, new FileWriter).
LossExplained ==
  \A r \in Lost : r.day \in clash /\ r.day \in spoilt \cup InHand

\* A value is in the table and in a file only while a run has the file in
\* hand or after one was cut short there, and stays so: the next run leaves an
\* existing file and the rows of its day alone (main, tmpDir.exists).
OverlapExplained ==
  \A r \in live \cap Complete : r.day \in spoilt \cup InHand

=============================================================================

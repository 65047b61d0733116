------------------------- MODULE FirstArchiveProofs -------------------------
(***************************************************************************)
(* Proofs about FirstArchive.tla, for any number of runs at once.          *)
(***************************************************************************)
EXTENDS FirstArchive, TLAPS

\* The values of day d that the archive must keep.
Kept(d) == Identified(RowsOf(recorded, d))

\* They are in the file, but for what is in T.
Covered(d, T) == Parts(Kept(d)) \subseteq disk \cup T

InFile(p) == pc[p] \in {"write", "delete"}

\* Files are about days that are over, lines are in files that exist, and a
\* day without a file has all its rows in the table.
FilesInv ==
  /\ \A d \in cached : d < today
  /\ \A q \in disk : q[1].day \in cached
  /\ \A r \in recorded : r.day \in cached \/ r \in live

\* A run that found no file has selected every value of the day.
RunInv ==
  \A p \in Procs :
    /\ InFile(p) => jour[p] \in cached
    /\ pc[p] = "exists" /\ jour[p] \notin cached => todo[p] = Parts(Kept(jour[p]))
    /\ pc[p] = "open" => todo[p] = Parts(Kept(jour[p]))
    /\ pc[p] = "write" => todo[p] \subseteq Parts(Kept(jour[p]))
    /\ pc[p] = "delete" => todo[p] = {}

\* A file is whole, or spoilt, or the run that emptied it last has what lacks.
CoverInv ==
  \A d \in cached :
    \/ d \in spoilt
    \/ Covered(d, {})
    \/ \E p \in Procs : pc[p] = "write" /\ jour[p] = d /\ Covered(d, todo[p])

\* A file that was never emptied has one run, which has what lacks in it, and
\* has not deleted anything while it writes.
AloneInv ==
  \A p \in Procs : InFile(p) /\ jour[p] \notin clash =>
    /\ \A q \in Procs : InFile(q) /\ jour[q] = jour[p] => q = p
    /\ Covered(jour[p], todo[p])
    /\ pc[p] = "write" => Kept(jour[p]) \subseteq live

KeptInv ==
  \A r \in Identified(recorded) :
    r.day \in clash \/ r \in live \/ Parts({r}) \subseteq disk

GoneInv ==
  \A r \in live :
    r.day \in cached => r.day \in spoilt \/ \E p \in Procs : InFile(p) /\ jour[p] = r.day

IInv == TypeOK /\ FilesInv /\ RunInv /\ CoverInv /\ AloneInv /\ KeptInv /\ GoneInv

-----------------------------------------------------------------------------

\* The database and the files as they are before any run satisfy IInv.
LEMMA InitInv == Init => IInv
BY CalendarAssumption
DEF Init, IInv, TypeOK, FilesInv, RunInv, CoverInv, AloneInv, KeptInv, GoneInv,
    Covered, Kept, InFile, Identified, RowsOf, Parts, Part, Days

\* A run reads the clock and computes the day before (main, first lines).
LEMMA StartInv == ASSUME IInv, NEW p \in Procs, Start(p) PROVE IInv'
<1>0. TypeOK /\ FilesInv /\ RunInv /\ CoverInv /\ AloneInv /\ KeptInv /\ GoneInv
  BY DEF IInv
<1>1. TypeOK'
  BY <1>0, CalendarAssumption DEF Start, Goto, TypeOK, Days, Part, Parts, Identified, RowsOf
<1>2. FilesInv'
  BY <1>0 DEF Start, Goto, TypeOK, FilesInv, InFile, RowsOf
<1>3. RunInv'
  BY <1>0 DEF Start, Goto, TypeOK, FilesInv, RunInv, InFile, Kept, Identified, RowsOf, Parts
<1>4. CoverInv'
  BY <1>0 DEF Start, Goto, TypeOK, RunInv, CoverInv, Covered, InFile, Kept, Identified, RowsOf, Parts
<1>5. AloneInv'
  BY <1>0 DEF Start, Goto, TypeOK, RunInv, FilesInv, AloneInv, Covered, InFile, Kept, Identified, RowsOf, Parts
<1>6. KeptInv'
  BY <1>0 DEF Start, Goto, TypeOK, RunInv, FilesInv, AloneInv, KeptInv, Covered, InFile, Kept, Identified, RowsOf, Parts
<1>7. GoneInv'
  BY <1>0 DEF Start, Goto, TypeOK, RunInv, GoneInv, InFile, RowsOf
<1> QED BY <1>1, <1>2, <1>3, <1>4, <1>5, <1>6, <1>7 DEF IInv

\* A run counts and reads the rows of its day.
LEMMA SelectInv == ASSUME IInv, NEW p \in Procs, Select(p) PROVE IInv'
<1>0. TypeOK /\ FilesInv /\ RunInv /\ CoverInv /\ AloneInv /\ KeptInv /\ GoneInv
  BY DEF IInv
<1>1. TypeOK'
  BY <1>0 DEF Select, Goto, TypeOK, Days, Part, Parts, Identified, RowsOf
<1>2. FilesInv'
  BY <1>0 DEF Select, Goto, TypeOK, FilesInv, InFile, RowsOf
<1>3. RunInv'
  BY <1>0 DEF Select, Goto, TypeOK, FilesInv, RunInv, InFile, Kept, Identified, RowsOf, Parts
<1>4. CoverInv'
  BY <1>0 DEF Select, Goto, TypeOK, RunInv, CoverInv, Covered, InFile, Kept, Identified, RowsOf, Parts
<1>5. AloneInv'
  BY <1>0 DEF Select, Goto, TypeOK, RunInv, FilesInv, AloneInv, Covered, InFile, Kept, Identified, RowsOf, Parts
<1>6. KeptInv'
  BY <1>0 DEF Select, Goto, TypeOK, RunInv, FilesInv, AloneInv, KeptInv, Covered, InFile, Kept, Identified, RowsOf, Parts
<1>7. GoneInv'
  BY <1>0 DEF Select, Goto, TypeOK, RunInv, GoneInv, InFile, RowsOf
<1> QED BY <1>1, <1>2, <1>3, <1>4, <1>5, <1>6, <1>7 DEF IInv

\* A run finds that its file is there, or that it is not.
LEMMA ExistsInv == ASSUME IInv, NEW p \in Procs, Exists(p) PROVE IInv'
<1>0. TypeOK /\ FilesInv /\ RunInv /\ CoverInv /\ AloneInv /\ KeptInv /\ GoneInv
  BY DEF IInv
<1>1. TypeOK'
  <2>1. CASE jour[p] \in cached /\ Off(p)
    BY <1>0, <2>1, CalendarAssumption DEF Exists, Goto, Off, TypeOK, Days
  <2>2. CASE Goto(p, "open") /\ UNCHANGED <<jour, todo>>
    BY <1>0, <2>2 DEF Exists, Goto, TypeOK
  <2> QED BY <2>1, <2>2 DEF Exists
<1>2. FilesInv'
  BY <1>0 DEF Exists, Goto, Off, TypeOK, FilesInv, InFile, RowsOf
<1>3. RunInv'
  BY <1>0 DEF Exists, Goto, Off, TypeOK, FilesInv, RunInv, InFile, Kept, Identified, RowsOf, Parts
<1>4. CoverInv'
  BY <1>0 DEF Exists, Goto, Off, TypeOK, RunInv, CoverInv, Covered, InFile, Kept, Identified, RowsOf, Parts
<1>5. AloneInv'
  BY <1>0 DEF Exists, Goto, Off, TypeOK, RunInv, FilesInv, AloneInv, Covered, InFile, Kept, Identified, RowsOf, Parts
<1>6. KeptInv'
  BY <1>0 DEF Exists, Goto, Off, TypeOK, RunInv, FilesInv, AloneInv, KeptInv, Covered, InFile, Kept, Identified, RowsOf, Parts
<1>7. GoneInv'
  BY <1>0 DEF Exists, Goto, Off, TypeOK, RunInv, GoneInv, InFile, RowsOf
<1> QED BY <1>1, <1>2, <1>3, <1>4, <1>5, <1>6, <1>7 DEF IInv

\* A run opens its file, which empties it, whatever another run wrote there.
LEMMA OpenInv == ASSUME IInv, NEW p \in Procs, Open(p) PROVE IInv'
<1>0. TypeOK /\ FilesInv /\ RunInv /\ CoverInv /\ AloneInv /\ KeptInv /\ GoneInv
  BY DEF IInv
<1>1. TypeOK'
  BY <1>0 DEF Open, Goto, PartsOf, TypeOK, Days, Part, Parts, Identified, RowsOf
<1>2. FilesInv'
  BY <1>0 DEF Open, Goto, PartsOf, TypeOK, FilesInv, InFile, RowsOf
<1>3. RunInv'
  BY <1>0 DEF Open, Goto, PartsOf, TypeOK, FilesInv, RunInv, InFile, Kept, Identified, RowsOf, Parts
<1>4. CoverInv'
  BY <1>0 DEF Open, Goto, PartsOf, TypeOK, RunInv, CoverInv, Covered, InFile, Kept, Identified, RowsOf, Parts
<1>5. AloneInv'
  BY <1>0 DEF Open, Goto, PartsOf, TypeOK, RunInv, FilesInv, AloneInv, Covered, InFile, Kept, Identified, RowsOf, Parts
<1>6. KeptInv'
  BY <1>0 DEF Open, Goto, PartsOf, TypeOK, RunInv, FilesInv, AloneInv, KeptInv, Covered, InFile, Kept, Identified, RowsOf, Parts
<1>7. GoneInv'
  BY <1>0 DEF Open, Goto, PartsOf, TypeOK, RunInv, GoneInv, InFile, RowsOf
<1> QED BY <1>1, <1>2, <1>3, <1>4, <1>5, <1>6, <1>7 DEF IInv

\* A run's buffer reaches the disk up to some place, perhaps inside a line.
LEMMA FlushInv == ASSUME IInv, NEW p \in Procs, Flush(p) PROVE IInv'
<1>0. TypeOK /\ FilesInv /\ RunInv /\ CoverInv /\ AloneInv /\ KeptInv /\ GoneInv
  BY DEF IInv
<1>1. TypeOK'
  BY <1>0 DEF Flush, TypeOK, Days, Part, Parts, Identified, RowsOf
<1>2. FilesInv'
  BY <1>0 DEF Flush, TypeOK, FilesInv, RunInv, InFile, Kept,
      Identified, RowsOf, Parts
<1>3. RunInv'
  BY <1>0 DEF Flush, TypeOK, FilesInv, RunInv, InFile, Kept, Identified, RowsOf, Parts
<1>4. CoverInv'
  BY <1>0 DEF Flush, TypeOK, RunInv, CoverInv, Covered, InFile, Kept, Identified, RowsOf, Parts
<1>5. AloneInv'
  BY <1>0 DEF Flush, TypeOK, RunInv, FilesInv, AloneInv, Covered, InFile, Kept, Identified, RowsOf, Parts
<1>6. KeptInv'
  BY <1>0 DEF Flush, TypeOK, RunInv, FilesInv, AloneInv, KeptInv, Covered, InFile, Kept, Identified, RowsOf, Parts
<1>7. GoneInv'
  BY <1>0 DEF Flush, TypeOK, RunInv, GoneInv, InFile, RowsOf
<1> QED BY <1>1, <1>2, <1>3, <1>4, <1>5, <1>6, <1>7 DEF IInv

\* A run closes its file: all that it read is on disk.
LEMMA CloseInv == ASSUME IInv, NEW p \in Procs, Close(p) PROVE IInv'
<1>0. TypeOK /\ FilesInv /\ RunInv /\ CoverInv /\ AloneInv /\ KeptInv /\ GoneInv
  BY DEF IInv
<1>1. TypeOK'
  BY <1>0 DEF Close, Goto, TypeOK, Days, Part, Parts, Identified, RowsOf
<1>2. FilesInv'
  BY <1>0 DEF Close, Goto, TypeOK, FilesInv, RunInv, InFile, Kept,
      Identified, RowsOf, Parts
<1>3. RunInv'
  BY <1>0 DEF Close, Goto, TypeOK, FilesInv, RunInv, InFile, Kept, Identified, RowsOf, Parts
<1>4. CoverInv'
  BY <1>0 DEF Close, Goto, TypeOK, RunInv, CoverInv, Covered, InFile, Kept, Identified, RowsOf, Parts
<1>5. AloneInv'
  BY <1>0 DEF Close, Goto, TypeOK, RunInv, FilesInv, AloneInv, Covered, InFile, Kept, Identified, RowsOf, Parts
<1>6. KeptInv'
  BY <1>0 DEF Close, Goto, TypeOK, RunInv, FilesInv, AloneInv, KeptInv, Covered, InFile, Kept, Identified, RowsOf, Parts
<1>7. GoneInv'
  BY <1>0 DEF Close, Goto, TypeOK, RunInv, GoneInv, InFile, RowsOf
<1> QED BY <1>1, <1>2, <1>3, <1>4, <1>5, <1>6, <1>7 DEF IInv

\* A run deletes the rows of its day.
LEMMA DeleteInv == ASSUME IInv, NEW p \in Procs, Delete(p) PROVE IInv'
<1>0. TypeOK /\ FilesInv /\ RunInv /\ CoverInv /\ AloneInv /\ KeptInv /\ GoneInv
  BY DEF IInv
<1>1. TypeOK'
  BY <1>0, CalendarAssumption DEF Delete, Goto, Off, TypeOK, Days, Part, Parts, Identified, RowsOf
<1>2. FilesInv'
  BY <1>0 DEF Delete, Goto, Off, TypeOK, FilesInv, RunInv, InFile, Kept,
      Identified, RowsOf, Parts
<1>3. RunInv'
  BY <1>0 DEF Delete, Goto, Off, TypeOK, FilesInv, RunInv, InFile, Kept, Identified, RowsOf, Parts
<1>4. CoverInv'
  BY <1>0 DEF Delete, Goto, Off, TypeOK, RunInv, CoverInv, Covered, InFile, Kept, Identified, RowsOf, Parts
<1>5. AloneInv'
  BY <1>0 DEF Delete, Goto, Off, TypeOK, RunInv, FilesInv, AloneInv, Covered, InFile, Kept, Identified, RowsOf, Parts
<1>6. KeptInv'
  BY <1>0 DEF Delete, Goto, Off, TypeOK, RunInv, FilesInv, AloneInv, KeptInv, Covered, InFile, Kept, Identified, RowsOf, Parts
<1>7. GoneInv'
  BY <1>0 DEF Delete, Goto, Off, TypeOK, RunInv, GoneInv, InFile, RowsOf
<1> QED BY <1>1, <1>2, <1>3, <1>4, <1>5, <1>6, <1>7 DEF IInv

\* A run ends with an exception or is stopped, at any statement.
LEMMA DieInv == ASSUME IInv, NEW p \in Procs, Die(p) PROVE IInv'
<1>0. TypeOK /\ FilesInv /\ RunInv /\ CoverInv /\ AloneInv /\ KeptInv /\ GoneInv
  BY DEF IInv
<1>1. TypeOK'
  <2>1. spoilt' \in SUBSET Days
    BY <1>0 DEF Die, TypeOK
  <2> QED BY <1>0, <2>1, CalendarAssumption DEF Die, Goto, Off, TypeOK, Days
<1>2. FilesInv'
  BY <1>0 DEF Die, Goto, Off, TypeOK, FilesInv, InFile, RowsOf
<1>3. RunInv'
  BY <1>0 DEF Die, Goto, Off, TypeOK, FilesInv, RunInv, InFile, Kept, Identified, RowsOf, Parts
<1>4. CoverInv'
  BY <1>0 DEF Die, Goto, Off, TypeOK, RunInv, CoverInv, Covered, InFile, Kept, Identified, RowsOf, Parts
<1>5. AloneInv'
  BY <1>0 DEF Die, Goto, Off, TypeOK, RunInv, FilesInv, AloneInv, Covered, InFile, Kept, Identified, RowsOf, Parts
<1>6. KeptInv'
  BY <1>0 DEF Die, Goto, Off, TypeOK, RunInv, FilesInv, AloneInv, KeptInv, Covered, InFile, Kept, Identified, RowsOf, Parts
<1>7. GoneInv'
  BY <1>0 DEF Die, Goto, Off, TypeOK, RunInv, GoneInv, InFile, RowsOf
<1> QED BY <1>1, <1>2, <1>3, <1>4, <1>5, <1>6, <1>7 DEF IInv

\* Another program adds a row to the table.
LEMMA RecordInv == ASSUME IInv, Record PROVE IInv'
<1>0. TypeOK /\ FilesInv /\ RunInv /\ CoverInv /\ AloneInv /\ KeptInv /\ GoneInv
  BY DEF IInv
<1>1. TypeOK'
  BY <1>0, CalendarAssumption DEF Record, run, TypeOK, Days, Row
\* Nothing that the runs are about is recorded any more.
<1>2. /\ today \notin cached
      /\ \A d \in Days : d < today => Kept(d)' = Kept(d)
  BY <1>0 DEF Record, run, TypeOK, FilesInv, Kept, Identified, RowsOf
<1>3. /\ \A p \in Procs : Kept(jour[p])' = Kept(jour[p])
      /\ \A d \in cached : Kept(d)' = Kept(d)
      /\ \A p \in Procs : InFile(p)' = InFile(p)
  BY <1>0, <1>2 DEF Record, run, TypeOK, FilesInv, InFile
<1>4. FilesInv'
  BY <1>0 DEF Record, run, FilesInv
<1>5. RunInv'
  BY <1>0, <1>3 DEF Record, run, RunInv
<1>6. CoverInv'
  BY <1>0, <1>3 DEF Record, run, CoverInv, Covered
<1>7. AloneInv'
  BY <1>0, <1>3 DEF Record, run, AloneInv, Covered
<1>8. KeptInv'
  BY <1>0 DEF Record, run, KeptInv, Identified
<1>9. GoneInv'
  BY <1>0, <1>2, <1>3 DEF Record, run, GoneInv
<1> QED BY <1>1, <1>4, <1>5, <1>6, <1>7, <1>8, <1>9 DEF IInv

\* The clock passes midnight.
LEMMA MidnightInv == ASSUME IInv, Midnight PROVE IInv'
<1>1. TypeOK' /\ FilesInv'
  BY CalendarAssumption DEF Midnight, run, IInv, TypeOK, FilesInv, Days
<1>2. RunInv' /\ CoverInv' /\ AloneInv' /\ KeptInv' /\ GoneInv'
  BY DEF Midnight, run, IInv, RunInv, CoverInv, AloneInv, KeptInv, GoneInv,
         Covered, Kept, InFile, Identified, RowsOf
<1> QED BY <1>1, <1>2 DEF IInv

\* Steps that change nothing preserve IInv.
LEMMA StutterInv == ASSUME IInv, UNCHANGED vars PROVE IInv'
BY DEF vars, run, IInv, TypeOK, FilesInv, RunInv, CoverInv, AloneInv, KeptInv,
       GoneInv, Covered, Kept, InFile, Identified, RowsOf

\* Every step preserves IInv: one lemma above for each action.
LEMMA NextInv == IInv /\ [Next]_vars => IInv'
BY StartInv, SelectInv, ExistsInv, OpenInv, FlushInv, CloseInv, DeleteInv, DieInv,
   RecordInv, MidnightInv, StutterInv
DEF Next, Step

\* IInv holds throughout.
LEMMA Invariance == Spec => []IInv
BY InitInv, NextInv, PTL DEF Spec

\* The state keeps its shape, and no run is ever about a day that is not over
\* (main: d is the day before the one read from the clock).
THEOREM TypeCorrect == Spec => []TypeOK
<1>1. IInv => TypeOK
  BY DEF IInv
<1> QED BY <1>1, Invariance, PTL

\* However many runs of main are started at once and wherever they are stopped,
\* a value is lost only where a run emptied the file of another, and only while
\* a run is in that file or after one was cut short in it.
THEOREM LossTheorem == Spec => []LossExplained
<1>1. IInv => LossExplained
  <2> SUFFICES ASSUME IInv, NEW r \in Lost
               PROVE  r.day \in clash /\ r.day \in spoilt \cup InHand
    BY DEF LossExplained
  <2>1. /\ TypeOK /\ FilesInv /\ CoverInv /\ KeptInv
        /\ r \in recorded /\ r \in Row /\ r.id # NoId
        /\ r \notin live /\ ~(Parts({r}) \subseteq disk)
    BY Zenon DEF IInv, TypeOK, Lost, Complete, Identified
  <2>2. r.day \in clash
    BY <2>1 DEF KeptInv, Identified
  <2>3. r.day \in cached /\ ~Covered(r.day, {})
    BY <2>1 DEF FilesInv, Covered, Kept, Identified, RowsOf, Parts
  <2>4. r.day \in spoilt \/ \E p \in Procs : pc[p] = "write" /\ jour[p] = r.day
    BY <2>1, <2>3 DEF CoverInv
  <2> QED BY <2>2, <2>4 DEF InHand
<1> QED BY <1>1, Invariance, PTL

\* A value is in the table and whole in a file only while a run of main is in
\* that file or after one was cut short in it.
THEOREM OverlapTheorem == Spec => []OverlapExplained
<1>1. IInv => OverlapExplained
  <2> SUFFICES ASSUME IInv, NEW r \in live, r \in Complete
               PROVE  r.day \in spoilt \cup InHand
    BY DEF OverlapExplained
  <2>1. TypeOK /\ FilesInv /\ GoneInv
    BY DEF IInv
  <2>2. <<r, 1>> \in disk
    BY DEF Complete, Parts
  <2>3. r.day \in cached
    BY <2>1, <2>2 DEF FilesInv
  <2> QED BY <2>1, <2>3 DEF GoneInv, InHand, InFile
<1> QED BY <1>1, Invariance, PTL

-----------------------------------------------------------------------------
(* The ledger.                                                             *)

\* What a run gets into a file that was not emptied was in the table.
LEMMA Seals ==
  ASSUME IInv, clash = {}, NEW p \in Procs, pc[p] = "write",
         NEW S \in SUBSET todo[p], disk' = disk \cup S, UNCHANGED live
  PROVE  L!Seal
<1>1. /\ todo[p] \subseteq Parts(Kept(jour[p])) /\ Kept(jour[p]) \subseteq live
      /\ live \subseteq Row
  BY DEF IInv, RunInv, AloneInv, InFile, TypeOK
<1>2. \A q \in S : q[1] \in Identified(live) /\ q \in Parts({q[1]})
  BY <1>1 DEF Parts, Kept, Identified, RowsOf
<1> DEFINE New == {r \in Identified(live) : Parts({r}) \subseteq disk'}
<1>3. Complete' = Complete \cup New
  <2>1. ASSUME NEW r \in Row, Parts({r}) \subseteq disk' PROVE r \in Complete \cup New
    <3>1. CASE Parts({r}) \subseteq disk
      BY SMTT(30), <3>1 DEF Complete
    <3>2. CASE \E q \in Parts({r}) : q \notin disk
      <4>1. PICK q \in Parts({r}) : q \in S
        BY <2>1, <3>2
      <4>2. q[1] = r
        BY <4>1 DEF Parts
      <4> QED BY <1>2, <2>1, <4>1, <4>2
    <3> QED BY SMTT(30), <3>1, <3>2
  <2>2. New \subseteq Row
    BY <1>1 DEF Identified
  <2>3. \A r \in Complete : Parts({r}) \subseteq disk'
    BY DEF Complete
  <2> QED BY <2>1, <2>2, <2>3 DEF Complete
<1>4. New \in SUBSET Identified(live)
  OBVIOUS
<1>5. Identified(live)' = Identified(live)
  BY DEF Identified
<1> QED BY Zenon, <1>3, <1>4, <1>5 DEF L!Seal

\* A step before which, and in which, no run empties the file of another.
LEMMA LedgerStep ==
  ASSUME IInv, [Next]_vars, clash' = {} PROVE [L!LNext]_(L!lvars)
<1>0. TypeOK /\ FilesInv /\ RunInv /\ AloneInv
  BY DEF IInv
<1>a. clash = {}
  BY DEF Next, Step, Start, Select, Exists, Open, Flush, Close, Delete, Die, Record,
         Midnight, vars
<1>1. ASSUME UNCHANGED <<live, disk>> PROVE UNCHANGED L!lvars
  BY <1>1 DEF L!lvars, Identified, Complete
<1>2. ASSUME NEW p \in Procs, Step(p) PROVE [L!LNext]_(L!lvars)
  <2>1. CASE Start(p) \/ Select(p) \/ Exists(p) \/ Die(p)
    BY <1>1, <2>1 DEF Start, Select, Exists, Die
  <2>2. CASE Open(p)
    <3>1. PartsOf(disk, jour[p]) = {}
      BY <1>0, <2>2 DEF Open, PartsOf, FilesInv
    <3> QED BY <1>1, <2>2, <3>1 DEF Open
  <2>3. CASE Flush(p)
    BY <1>a, <2>3, Seals DEF Flush, L!LNext
  <2>4. CASE Close(p)
    BY <1>a, <2>4, Seals DEF Close, L!LNext
  <2>5. CASE Delete(p)
    <3>1. /\ Parts(Kept(jour[p])) \subseteq disk
          /\ live \subseteq recorded /\ recorded \subseteq Row
      BY <1>0, <1>a, <2>5 DEF Delete, AloneInv, Covered, InFile, RunInv, TypeOK
    <3>2. Identified(RowsOf(live, jour[p])) \subseteq Complete
      BY <3>1 DEF Complete, Parts, Kept, Identified, RowsOf
    <3>3. Identified(live)' = Identified(live) \ Identified(RowsOf(live, jour[p]))
      BY <2>5 DEF Delete, Identified, RowsOf
    <3>4. Complete' = Complete
      BY <2>5 DEF Delete, Complete
    <3> QED BY <3>2, <3>3, <3>4 DEF L!Drop, L!LNext
  <2> QED BY <1>2, <2>1, <2>2, <2>3, <2>4, <2>5 DEF Step
<1>3. CASE Record
  <2>1. PICK i \in Ids \cup {NoId} :
          live' = live \cup {[id |-> i, day |-> today, seq |-> nextSeq]}
    BY <1>3 DEF Record
  <2>2. [id |-> i, day |-> today, seq |-> nextSeq] \in Row
    BY <1>0, CalendarAssumption DEF TypeOK, Row, Days
  <2>3. Complete' = Complete
    BY <1>3 DEF Record, Complete
  <2>4. CASE i = NoId
    BY <2>1, <2>3, <2>4 DEF Identified, L!lvars
  <2>5. CASE i # NoId
    <3>1. Identified(live)' =
            Identified(live) \cup {[id |-> i, day |-> today, seq |-> nextSeq]}
      BY <2>1, <2>5 DEF Identified
    <3> QED BY <2>2, <2>3, <3>1 DEF L!Record, L!LNext
  <2> QED BY <2>4, <2>5
<1>4. CASE Midnight \/ UNCHANGED vars
  BY <1>1, <1>4 DEF Midnight, vars
<1> QED BY <1>2, <1>3, <1>4 DEF Next

\* However many runs of main are going on, each step is one of the ledger as
\* long as no run has emptied the file of another.
THEOREM LedgerTheorem == Spec => LedgerUnlessClash
<1>1. IInv /\ [Next]_vars => [clash' = {} => [L!LNext]_(L!lvars)]_vars
  BY LedgerStep
<1> QED BY <1>1, Invariance, PTL DEF Spec, LedgerUnlessClash

-----------------------------------------------------------------------------
(* A single run at a time.                                                 *)

Alone == \A p, q \in Procs : p = q

\* Nobody creates the file between the test and the FileWriter.
AloneOpens ==
  /\ clash = {}
  /\ \A p \in Procs : pc[p] = "open" => jour[p] \notin cached

\* With a single run no file is ever emptied while another run is in it.
LEMMA AloneStep ==
  ASSUME Alone, IInv, AloneOpens, [Next]_vars PROVE AloneOpens'
<1> USE DEF AloneOpens
<1>0. TypeOK
  BY DEF IInv
<1>1. ASSUME NEW p \in Procs, Step(p) PROVE AloneOpens'
  <2>1. CASE Start(p) \/ Select(p) \/ Flush(p) \/ Close(p)
    BY <1>0, <2>1 DEF Start, Select, Flush, Close, Goto, TypeOK
  <2>2. CASE Exists(p)
    BY <1>0, <2>2 DEF Exists, Off, Goto, TypeOK
  <2>3. CASE Open(p)
    BY <1>0, <2>3 DEF Open, Goto, TypeOK, Alone
  <2>4. CASE Delete(p) \/ Die(p)
    BY <1>0, <2>4 DEF Delete, Die, Off, Goto, TypeOK
  <2> QED BY <1>1, <2>1, <2>2, <2>3, <2>4 DEF Step
<1>2. CASE Record \/ Midnight \/ UNCHANGED vars
  BY <1>2 DEF Record, Midnight, vars, run
<1> QED BY <1>1, <1>2 DEF Next

\* One run of main at a time implements the ledger, wherever it is stopped: a
\* value leaves the table only when its line is whole in a file that is closed,
\* and no whole line is ever taken back.
THEOREM ImplementsLedger ==
  ASSUME Alone PROVE Spec => LedgerSpec
<1>1. Init => L!LInit /\ AloneOpens
  <2>0. \A r : <<r, 1>> \in Parts({r})
    BY DEF Parts
  <2>1. Init => Complete = {}
    BY Zenon, <2>0 DEF Init, Complete
  <2>2. Init => Identified(live) = {} /\ AloneOpens
    BY DEF Init, AloneOpens, Identified
  <2> QED BY <2>1, <2>2 DEF L!LInit
<1>2. IInv /\ AloneOpens /\ [Next]_vars => AloneOpens'
  BY AloneStep
<1>3. IInv /\ AloneOpens /\ [Next]_vars => [L!LNext]_(L!lvars)
  BY AloneStep, LedgerStep DEF AloneOpens
<1> QED BY <1>1, <1>2, <1>3, Invariance, PTL DEF Spec, LedgerSpec, L!LSpec

=============================================================================

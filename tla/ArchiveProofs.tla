--------------------------- MODULE ArchiveProofs ----------------------------
(***************************************************************************)
(* Proofs about Archiver.tla, for every number of tables, sites, rows,     *)
(* days and crashes, and about Reader.tla: what a request can miss, read   *)
(* twice or count while the archive runs.                                  *)
(***************************************************************************)
EXTENDS Reader, FiniteSetTheorems, TLAPS

\* write always works on one of the tables of SITES.
LEMMA CurrentType ==
  ASSUME TypeOK
  PROVE  type \in Tables /\ Current \in File
BY ConstantsAssumption DEF TypeOK, type, Current, File

\* Leaving write keeps the types of the pass.
LEMMA EndWriteType ==
  ASSUME TypeOK, EndWrite
  PROVE  /\ hier' \in Days /\ site' \in 1..Len(SITES)
         /\ rs' \in SUBSET Row /\ buf' \in SUBSET Row /\ cpt' \in Nat
         /\ pc' \in {"query", "arm"}
BY ConstantsAssumption DEF TypeOK, EndWrite

\* A dead process leaves well-typed defaults behind.
LEMMA DieType ==
  ASSUME TypeOK, Die, crashes' \in 0..MaxCrash
  PROVE  TypeOK'
<1> USE ConstantsAssumption
<1>1. spoilt' \in SUBSET File
  <2>1. InHand \in SUBSET File
    BY CurrentType DEF InHand
  <2> QED BY <2>1 DEF Die, TypeOK
<1>2. 1 \in 1..Len(SITES) /\ 0 \in Days /\ 0 \in 0..CheckEvery - 1
  BY DEF Days
<1>3. jour' \in 0..today' /\ today' \in 1..MaxDay
  BY DEF Die, TypeOK
<1>4. /\ live' \in SUBSET Row /\ disk' \in SUBSET Row /\ half' \in SUBSET Row
      /\ cached' \in SUBSET File /\ visited' \in SUBSET Days
      /\ rs' \in SUBSET Row /\ buf' \in SUBSET Row
  BY DEF TypeOK, Die, store
<1>5. st' \in BOOLEAN /\ late' \in BOOLEAN
  BY Zenon DEF TypeOK, Die
<1>6. cpt' \in Nat /\ nextSeq' \in 0..MaxRows /\ jmore' \in 0..31
  BY DEF TypeOK, Die
<1>7. nb' \in 0..CheckEvery - 1 /\ hier' \in Days /\ site' \in 1..Len(SITES)
  BY <1>2 DEF Die
<1> QED BY <1>1, <1>3, <1>4, <1>5, <1>6, <1>7 DEF TypeOK, Die

\* Every step of Launcher and BDD keeps the types.
LEMMA TypeStep == TypeOK /\ [Next]_vars => TypeOK'
<1> SUFFICES ASSUME TypeOK, [Next]_vars PROVE TypeOK'
  OBVIOUS
<1> USE ConstantsAssumption
<1>a. type \in Tables /\ Current \in File
  BY CurrentType
<1>1. CASE UNCHANGED vars
  BY <1>1 DEF TypeOK, vars, store, pass, history
<1>2. CASE SetJmore
  <2> DEFINE d == IF jour = 0 THEN today ELSE jour
  <2>1. d + 1 \in 0..MaxDay + 1
    BY DEF TypeOK
  <2>2. jmore' \in 1..31
    <3> HIDE DEF d
    <3> QED BY Zenon, <1>2, <2>1, CalendarAssumption DEF SetJmore, d
  <2> QED BY <1>2, <2>2 DEF TypeOK, SetJmore, store, pass, history
<1>3. CASE loopVals
  BY <1>3 DEF TypeOK, loopVals, store, pass, history
<1>4. CASE verifDate
  BY <1>4 DEF TypeOK, verifDate, store, pass, history
<1>5. CASE run
  BY <1>5 DEF TypeOK, run, store, Days
<1>6. CASE Select
  <2>1. CASE Fail
    BY <1>6, <2>1, <1>a, EndWriteType DEF TypeOK, Select, Fail, store
  <2>2. CASE EndWrite /\ UNCHANGED history
    BY <1>6, <2>2, EndWriteType DEF TypeOK, Select, store, history
  <2>3. CASE /\ rs' = Identified(RowsOf(live, Current)) /\ pc' = "open"
             /\ UNCHANGED <<hier, site, cpt, buf, history>>
    <3>1. rs' \in SUBSET Row
      BY <2>3 DEF TypeOK, Identified, RowsOf
    <3> QED BY <1>6, <2>3, <3>1 DEF TypeOK, Select, store, history
  <2> QED BY <1>6, <2>1, <2>2, <2>3 DEF Select
<1>7. CASE Open
  <2>1. CASE Fail /\ UNCHANGED store
    BY <1>7, <2>1, <1>a, EndWriteType DEF TypeOK, Open, Fail, store
  <2>2. CASE ~(Fail /\ UNCHANGED store)
    BY <1>7, <2>2, <1>a DEF TypeOK, Open, pass, history
  <2> QED BY <2>1, <2>2
<1>8. CASE WriteRow
  BY <1>8 DEF TypeOK, WriteRow, store, history
<1>9. CASE WriteFail
  BY <1>9, <1>a, EndWriteType DEF TypeOK, WriteFail, Fail, store
<1>10. CASE Close
  <2>1. disk' \in SUBSET Row /\ half' \in SUBSET Row /\ UNCHANGED <<live, cached>>
    BY <1>10 DEF TypeOK, Close, Flushed
  <2>2. CASE Fail
    BY <1>10, <2>1, <2>2, <1>a, EndWriteType DEF TypeOK, Close, Fail
  <2>3. CASE ~Fail
    BY <1>10, <2>1, <2>3 DEF TypeOK, Close, history
  <2> QED BY <2>2, <2>3
<1>11. CASE DeleteEmptyFile
  BY <1>11 DEF TypeOK, DeleteEmptyFile, store, pass, history
<1>12. CASE DeleteRows
  <2>1. live' \in SUBSET Row
    BY <1>12 DEF TypeOK, DeleteRows
  <2>2. CASE Fail
    BY <1>12, <2>1, <2>2, <1>a, EndWriteType DEF TypeOK, DeleteRows, Fail
  <2>3. CASE ~Fail
    BY <1>12, <2>1, <2>3, EndWriteType DEF TypeOK, DeleteRows, history
  <2> QED BY <2>2, <2>3
<1>13. CASE NullStatement
  BY <1>13, DieType DEF TypeOK, NullStatement
<1>14. CASE Connect
  BY Zenon, <1>14 DEF TypeOK, Connect, store, pass, history
<1>15. CASE addVal
  BY <1>15 DEF TypeOK, addVal, Row, Days, pass, history
<1>16. CASE Flush
  BY <1>16 DEF TypeOK, Flush, Flushed, history
<1>17. CASE Crash
  BY <1>17, DieType DEF TypeOK, Crash
<1>18. CASE Midnight
  BY <1>18 DEF TypeOK, Midnight, store, pass, Days
<1> QED
  BY <1>1, <1>2, <1>3, <1>4, <1>5, <1>6, <1>7, <1>8, <1>9, <1>10, <1>11, <1>12,
     <1>13, <1>14, <1>15, <1>16, <1>17, <1>18 DEF Next, Thread

-----------------------------------------------------------------------------
(* Where the rows of the file in hand are.                                 *)

\* The rows write has to save: those of its day that the SELECT finds.
Due == Identified(RowsOf(live, Current))

\* Rows are numbered as they come, lines are in files that exist, and no file
\* is about today.
StoreInv ==
  /\ \A r \in live \cup disk : r.seq < nextSeq
  /\ \A r \in disk \cup half : <<r.tbl, r.day>> \in cached
  /\ \A f \in cached : f[2] < today
  /\ hier < today

\* A row to save is in the result set, in the buffer or on the disk while the
\* file is written, and on the disk once it is closed.
PassInv ==
  /\ pc \notin {"open", "write"} => rs = {}
  /\ pc # "write" => buf = {}
  /\ pc \notin {"write", "purge", "delete"} => cpt = 0
  /\ rs \cup buf \subseteq Due
  /\ pc = "open" => Current \notin cached /\ rs = Due
  /\ pc = "write" =>
       /\ Current \in cached
       /\ Due \subseteq rs \cup buf \cup disk
       /\ RowsOf(half, Current) \subseteq buf
       /\ cpt = 0 => buf = {} /\ RowsOf(disk, Current) = {}
  /\ pc \in {"purge", "delete"} => Due \subseteq disk /\ RowsOf(half, Current) = {}
  /\ pc = "purge" => (cpt = 0 => RowsOf(disk, Current) = {})

FileInv == TypeOK /\ StoreInv /\ PassInv /\ TornKept /\ OverlapExplained

\* The state before write is entered and after it is left: nothing is in hand.
LEMMA NothingInHand ==
  ASSUME FileInv, StoreInv', pc' \notin {"open", "write", "purge", "delete"},
         rs' = {}, buf' = {}, cpt' = 0,
         half' \subseteq live',
         \A r \in live' \cap disk' : <<r.tbl, r.day>> \in spoilt'
  PROVE  PassInv' /\ TornKept' /\ OverlapExplained'
BY DEF PassInv, TornKept, OverlapExplained, InHand

\* Steps of Launcher and BDD keep the invariant; one step per action.
LEMMA FileStep == FileInv /\ [Next]_vars => FileInv'
<1> SUFFICES ASSUME FileInv, [Next]_vars
             PROVE  StoreInv' /\ PassInv' /\ TornKept' /\ OverlapExplained'
  BY TypeStep DEF FileInv
<1> USE ConstantsAssumption DEF FileInv
<1>1. CASE UNCHANGED vars
  BY <1>1 DEF vars, store, pass, history, StoreInv, PassInv, Due, Identified, RowsOf,
     Current, type, TornKept, OverlapExplained, InHand
<1>2. CASE SetJmore \/ loopVals \/ verifDate \/ Connect
  <2>1. /\ pc \in {"arm", "idle", "verif", "down"} /\ pc' \in {"idle", "verif", "run", "arm"}
        /\ UNCHANGED <<today, live, cached, disk, half, hier, rs, cpt, buf, nextSeq, spoilt>>
    BY Zenon, <1>2 DEF SetJmore, loopVals, verifDate, Connect, store, pass, history
  <2>2. StoreInv'
    BY Zenon, <2>1 DEF StoreInv
  <2>3. \A r \in live' \cap disk' : <<r.tbl, r.day>> \in spoilt'
    BY Zenon, <2>1 DEF OverlapExplained, InHand
  <2>4. rs' = {} /\ buf' = {} /\ cpt' = 0 /\ half' \subseteq live'
    BY Zenon, <2>1 DEF PassInv, TornKept
  <2> QED BY <2>1, <2>2, <2>3, <2>4, NothingInHand
<1>3. CASE run
  <2>1. /\ pc = "run" /\ pc' = "query" /\ hier' = today - 1
        /\ UNCHANGED <<today, live, cached, disk, half, rs, cpt, buf, nextSeq, spoilt>>
    BY Zenon, <1>3 DEF run, store
  <2>2. hier' < today'
    BY <2>1 DEF TypeOK
  <2>3. StoreInv'
    BY Zenon, <2>1, <2>2 DEF StoreInv
  <2>4. \A r \in live' \cap disk' : <<r.tbl, r.day>> \in spoilt'
    BY Zenon, <2>1 DEF OverlapExplained, InHand
  <2>5. rs' = {} /\ buf' = {} /\ cpt' = 0 /\ half' \subseteq live'
    BY Zenon, <2>1 DEF PassInv, TornKept
  <2> QED BY <2>1, <2>3, <2>4, <2>5, NothingInHand
<1>4. CASE Select
  <2>1. /\ pc = "query" /\ UNCHANGED <<today, live, cached, disk, half, hier, nextSeq>>
        /\ spoilt \subseteq spoilt'
    BY <1>4 DEF Select, Fail, EndWrite, store, history
  <2>2. StoreInv'
    BY <2>1 DEF StoreInv
  <2>3. \A r \in live' \cap disk' : <<r.tbl, r.day>> \in spoilt'
    BY Zenon, <2>1 DEF OverlapExplained, InHand
  <2>4. CASE EndWrite
    BY <2>1, <2>2, <2>3, <2>4, NothingInHand DEF EndWrite, TornKept
  <2>5. CASE /\ Current \notin cached /\ rs' = Due /\ pc' = "open"
             /\ UNCHANGED <<hier, site, cpt, buf, history>>
    <3>1. Current' = Current /\ Due' = Due
      BY <2>1, <2>5 DEF Due, Identified, RowsOf, Current, type
    <3>2. PassInv'
      BY <2>1, <2>5, <3>1 DEF PassInv
    <3> QED BY <2>1, <2>2, <2>3, <2>5, <3>2 DEF TornKept, OverlapExplained, InHand
  <2> QED BY <1>4, <2>4, <2>5 DEF Select, Fail, Due
<1>5. CASE Open
  <2>1. /\ pc = "open" /\ Current \notin cached /\ rs = Due /\ cpt = 0 /\ buf = {}
        /\ UNCHANGED <<today, nextSeq>>
    BY <1>5 DEF Open, PassInv
  <2>2. \A r \in live \cap disk : <<r.tbl, r.day>> \in spoilt
    BY Zenon, <2>1 DEF OverlapExplained, InHand
  <2>3. CASE Fail /\ UNCHANGED store
    <3>1. StoreInv'
      BY <2>1, <2>3 DEF StoreInv, Fail, EndWrite, store
    <3> QED BY <2>2, <2>3, <3>1, NothingInHand DEF Fail, EndWrite, store, TornKept
  <2>4. CASE ~(Fail /\ UNCHANGED store)
    <3>1. /\ cached' = cached \cup {Current} /\ pc' = "write"
          /\ UNCHANGED <<live, hier, site, rs, cpt, buf, spoilt>>
      BY <1>5, <2>4 DEF Open, pass, history
    <3>2. RowsOf(disk, Current) = {} /\ RowsOf(half, Current) = {}
      BY <2>1 DEF StoreInv, RowsOf, Current
    <3>3. disk' = disk /\ half' = half
      BY <1>5, <2>4, <3>2 DEF Open
    <3>4. Current' = Current /\ Due' = Due /\ InHand' = {Current}
      BY <3>1 DEF Due, Identified, RowsOf, Current, type, InHand
    <3>5. StoreInv'
      BY <2>1, <3>1, <3>3 DEF StoreInv, Current
    <3>6. PassInv'
      BY SMTT(30), <2>1, <3>1, <3>2, <3>3, <3>4 DEF PassInv, RowsOf
    <3> QED BY <2>2, <3>1, <3>3, <3>4, <3>5, <3>6 DEF TornKept, OverlapExplained
  <2> QED BY <2>3, <2>4
<1>6. CASE WriteRow
  <2>1. PICK r \in rs : rs' = rs \ {r} /\ buf' = buf \cup {r}
    BY Zenon, <1>6 DEF WriteRow
  <2>2. /\ pc = "write" /\ cpt' = cpt + 1
        /\ UNCHANGED <<today, live, cached, disk, half, pc, hier, site, nextSeq, spoilt>>
    BY Zenon, <1>6 DEF WriteRow, store, history
  <2>3. StoreInv'
    BY Zenon, <2>2 DEF StoreInv
  <2>4. Current' = Current /\ Due' = Due /\ InHand' = InHand
    BY Zenon, <2>2 DEF Due, Identified, RowsOf, Current, type, InHand
  <2>5. cpt' # 0
    BY <2>2 DEF TypeOK
  <2>6. /\ rs' \cup buf' \subseteq Due /\ Due \subseteq rs' \cup buf' \cup disk
        /\ RowsOf(half, Current) \subseteq buf' /\ Current \in cached
    BY <2>1, <2>2 DEF PassInv
  <2>7. PassInv'
    BY Zenon, <2>2, <2>4, <2>5, <2>6 DEF PassInv, RowsOf
  <2> QED BY Zenon, <2>2, <2>3, <2>4, <2>7 DEF TornKept, OverlapExplained
<1>7. CASE WriteFail
  BY <1>7, NothingInHand DEF WriteFail, Fail, EndWrite, store, StoreInv, PassInv,
     TornKept, OverlapExplained, InHand
<1>8. CASE Flush
  <2>1. PICK S \in SUBSET buf : Flushed(S) /\ buf' = buf \ S
    BY <1>8 DEF Flush
  <2>2. pc = "write" /\ UNCHANGED <<today, live, cached, pc, hier, site, rs, cpt, nextSeq>>
    BY <1>8, <2>1 DEF Flush, Flushed
  <2>3. /\ S \subseteq Due /\ disk' = disk \cup S
        /\ half' \subseteq (half \ RowsOf(half, Current)) \cup (buf \ S)
    BY <2>1, <2>2 DEF Flushed, PassInv
  <2>4. Due' = Due /\ Current' = Current /\ Due \subseteq RowsOf(live, Current)
    BY <2>2 DEF Due, Identified, RowsOf, Current, type
  <2>5. StoreInv' /\ TornKept'
    BY <2>2, <2>3, <2>4 DEF StoreInv, PassInv, TornKept, RowsOf, Current
  <2>6. PassInv'
    <3>1. RowsOf(half', Current) \subseteq buf'
      BY <2>1, <2>3 DEF RowsOf
    <3>2. cpt = 0 => buf' = {} /\ RowsOf(disk', Current) = {}
      BY Zenon, <2>1, <2>2, <2>3 DEF PassInv
    <3> QED BY <2>1, <2>2, <2>3, <2>4, <3>1, <3>2 DEF PassInv, RowsOf
  <2>7. OverlapExplained'
    BY Zenon, <1>8, <2>2, <2>3, <2>4 DEF Flush, history, OverlapExplained, InHand, RowsOf, Current
  <2> QED BY <2>5, <2>6, <2>7
<1>9. CASE Close
  <2>1. PICK S \in SUBSET buf :
          /\ Flushed(S)
          /\ \/ S = buf /\ buf' = {} /\ pc' = "purge" /\ UNCHANGED <<hier, site, rs, cpt, history>>
             \/ Fail
    BY <1>9 DEF Close
  <2>2. pc = "write" /\ rs = {} /\ UNCHANGED <<today, live, cached, nextSeq>>
    BY <1>9, <2>1 DEF Close, Flushed
  <2>3. /\ S \subseteq Due /\ disk' = disk \cup S
        /\ half' \subseteq (half \ RowsOf(half, Current)) \cup (buf \ S)
    BY <2>1, <2>2 DEF Flushed, PassInv
  <2>4. Due \subseteq RowsOf(live, Current)
    BY DEF Due, Identified, RowsOf
  <2>5. hier' = hier
    BY <2>1 DEF Fail, EndWrite
  <2>6. StoreInv' /\ TornKept'
    BY <2>2, <2>3, <2>4, <2>5 DEF StoreInv, PassInv, TornKept, RowsOf, Current
  <2>7. \A r \in live' \cap disk' : <<r.tbl, r.day>> \in spoilt \cup {Current}
    BY Zenon, <2>2, <2>3, <2>4 DEF OverlapExplained, InHand, RowsOf, Current
  <2>8. CASE Fail
    <3>1. \A r \in live' \cap disk' : <<r.tbl, r.day>> \in spoilt'
      BY Zenon, <2>7, <2>8 DEF Fail
    <3> QED BY <2>6, <2>8, <3>1, NothingInHand DEF Fail, EndWrite, TornKept
  <2>9. CASE S = buf /\ buf' = {} /\ pc' = "purge" /\ UNCHANGED <<hier, site, rs, cpt, history>>
    <3>1. Current' = Current /\ Due' = Due /\ InHand' = {Current}
      BY <2>2, <2>9 DEF Due, Identified, RowsOf, Current, type, InHand
    <3>2. Due \subseteq disk' /\ RowsOf(half', Current) = {}
      BY <2>2, <2>3, <2>9 DEF PassInv, RowsOf
    <3>3. cpt = 0 => RowsOf(disk', Current) = {}
      BY Zenon, <2>2, <2>3, <2>9 DEF PassInv
    <3>4. PassInv'
      BY <2>2, <2>9, <3>1, <3>2, <3>3 DEF PassInv, RowsOf
    <3>5. OverlapExplained'
      BY Zenon, <2>7, <2>9, <3>1 DEF OverlapExplained, history
    <3> QED BY <2>6, <3>4, <3>5
  <2> QED BY <2>1, <2>8, <2>9
<1>10. CASE DeleteEmptyFile
  <2>1. /\ pc = "purge" /\ pc' = "delete"
        /\ UNCHANGED <<today, live, hier, site, rs, cpt, buf, nextSeq, spoilt>>
    BY <1>10 DEF DeleteEmptyFile, store, pass, history
  <2>2. Current' = Current /\ Due' = Due /\ InHand' = InHand
    BY <2>1 DEF Due, Identified, RowsOf, Current, type, InHand
  <2>a. cpt < 1 => cpt = 0
    BY DEF TypeOK
  <2>b. RowsOf(half, Current) = {} /\ (cpt < 1 => RowsOf(disk, Current) = {})
    BY <2>1, <2>a DEF PassInv
  <2>3. disk' = disk /\ half' = half
    BY Zenon, <1>10, <2>b DEF DeleteEmptyFile, store
  <2>4. cached' \subseteq cached
    BY <1>10 DEF DeleteEmptyFile, store
  <2>5. \A r \in disk \cup half : <<r.tbl, r.day>> \in cached'
    BY Zenon, <1>10, <2>b DEF DeleteEmptyFile, store, StoreInv, RowsOf, Current
  <2>6. StoreInv'
    BY <2>1, <2>3, <2>4, <2>5 DEF StoreInv
  <2>7. PassInv'
    BY <2>1, <2>2, <2>3 DEF PassInv, RowsOf
  <2> QED BY <2>1, <2>2, <2>3, <2>6, <2>7 DEF TornKept, OverlapExplained
<1>11. CASE DeleteRows
  <2>1. /\ pc = "delete" /\ EndWrite /\ spoilt \subseteq spoilt'
        /\ UNCHANGED <<today, cached, disk, half, hier, nextSeq>>
    BY <1>11 DEF DeleteRows, Fail, EndWrite, history
  <2>2. \/ live' = live \ RowsOf(live, Current)
        \/ live' = live /\ Current \in spoilt'
    BY <1>11 DEF DeleteRows, Fail
  <2>3. live' \subseteq live
    BY <2>2
  <2>4. StoreInv'
    BY <2>1, <2>3 DEF StoreInv
  <2>5. half' \subseteq live'
    BY <2>1, <2>2 DEF PassInv, TornKept, RowsOf
  <2>6. \A r \in live' \cap disk' : <<r.tbl, r.day>> \in spoilt'
    BY Zenon, <2>1, <2>2, <2>3 DEF OverlapExplained, InHand, RowsOf, Current
  <2> QED BY <2>1, <2>4, <2>5, <2>6, NothingInHand DEF EndWrite
<1>12. CASE NullStatement \/ Crash
  <2>1. Die
    BY <1>12 DEF NullStatement, Crash
  <2>2. StoreInv'
    BY <2>1 DEF Die, store, StoreInv, TypeOK
  <2>3. \A r \in live' \cap disk' : <<r.tbl, r.day>> \in spoilt'
    BY Zenon, <2>1 DEF Die, store, OverlapExplained
  <2>4. half' \subseteq live'
    BY SMTT(30), <2>1 DEF Die, store, TornKept
  <2> QED BY <2>1, <2>2, <2>3, <2>4, NothingInHand DEF Die
<1>13. CASE addVal
  <2>0. PICK t \in Tables, i \in Ids \cup {NoId} :
          live' = live \cup {[tbl |-> t, id |-> i, day |-> today, seq |-> nextSeq]}
    BY <1>13 DEF addVal
  <2> DEFINE r == [tbl |-> t, id |-> i, day |-> today, seq |-> nextSeq]
  <2>1. r.seq = nextSeq /\ live' = live \cup {r}
    BY <2>0
  <2> HIDE DEF r
  <2>2. r \notin disk
    BY <2>1 DEF StoreInv, TypeOK
  <2>3. pc = "idle" /\ nextSeq' = nextSeq + 1
        /\ UNCHANGED <<today, cached, disk, half, pc, hier, rs, cpt, buf, spoilt>>
    BY <1>13 DEF addVal, pass, history
  <2>4. StoreInv'
    <3>1. \A q \in live' \cup disk' : q.seq < nextSeq'
      BY <2>1, <2>3 DEF StoreInv, TypeOK, Row
    <3> QED BY <2>3, <3>1 DEF StoreInv
  <2>5. \A q \in live' \cap disk' : <<q.tbl, q.day>> \in spoilt'
    BY Zenon, <2>1, <2>2, <2>3 DEF OverlapExplained, InHand
  <2>6. half' \subseteq live'
    BY <2>1, <2>3 DEF TornKept
  <2> QED BY <2>3, <2>4, <2>5, <2>6, NothingInHand DEF PassInv
<1>14. CASE Midnight
  <2>1. UNCHANGED <<live, cached, disk, half, pc, hier, site, rs, cpt, buf, nextSeq, spoilt>>
    BY <1>14 DEF Midnight, store, pass
  <2>2. StoreInv'
    BY SMTT(30), <1>14, <2>1 DEF Midnight, StoreInv, TypeOK, File, Days
  <2>3. Current' = Current /\ Due' = Due /\ InHand' = InHand
    BY Zenon, <2>1 DEF Due, Identified, RowsOf, Current, type, InHand
  <2>4. PassInv'
    BY <2>1, <2>3 DEF PassInv, RowsOf
  <2> QED BY <2>1, <2>2, <2>3, <2>4 DEF TornKept, OverlapExplained
<1> QED
  BY <1>1, <1>2, <1>3, <1>4, <1>5, <1>6, <1>7, <1>8, <1>9, <1>10, <1>11, <1>12,
     <1>13, <1>14 DEF Next, Thread

\* The invariant of the file in hand holds at the start.
LEMMA FileInit == Init => FileInv
<1> SUFFICES ASSUME Init PROVE FileInv
  OBVIOUS
<1>1. TypeOK
  <2>1. 1 \in 1..Len(SITES) /\ 0 \in Days /\ 0 \in 0..CheckEvery - 1 /\ 1 \in 1..MaxDay
    BY ConstantsAssumption DEF Days
  <2>2. st \in BOOLEAN /\ late \in BOOLEAN
    BY Zenon DEF Init
  <2>3. jour \in 0..today /\ nextSeq \in 0..MaxRows /\ crashes \in 0..MaxCrash
    BY ConstantsAssumption DEF Init
  <2> QED BY <2>1, <2>2, <2>3 DEF Init, TypeOK
<1>2. StoreInv /\ PassInv
  BY DEF Init, StoreInv, PassInv
<1>3. TornKept /\ OverlapExplained
  BY DEF Init, TornKept, OverlapExplained
<1> QED BY <1>1, <1>2, <1>3 DEF FileInv

\* Every variable keeps its type.
THEOREM TypeCorrect == Spec => []TypeOK
<1>1. Init => TypeOK
  BY FileInit DEF FileInv
<1> QED BY <1>1, TypeStep, PTL DEF Spec

\* The invariant of the file in hand holds in every reachable state.
THEOREM FileInvariant == Spec => []FileInv
BY FileInit, FileStep, PTL DEF Spec

\* A value is in a table and in a file only while BDD.write has the file in
\* hand, or after an error or a crash interrupted it there.
THEOREM OverlapTheorem == Spec => []OverlapExplained
<1>1. FileInv => OverlapExplained
  BY DEF FileInv
<1> QED BY <1>1, FileInvariant, PTL

\* The row of a line that is cut in a file is still in its table.
THEOREM TornKeptTheorem == Spec => []TornKept
<1>1. FileInv => TornKept
  BY DEF FileInv
<1> QED BY <1>1, FileInvariant, PTL

-----------------------------------------------------------------------------
(* The archive implements the ledger.                                      *)

\* What a step of the program does to the tables and to the complete lines.
LEMMA StoreStep ==
  ASSUME FileInv, [Next]_vars
  PROVE  \/ live' = live /\ disk' = disk
         \/ /\ \E r \in Row : r.day = today /\ live' = live \cup {r}
            /\ disk' = disk
         \/ live' = live /\ \E S \in SUBSET Due : disk' = disk \cup S
         \/ live' = live \ RowsOf(live, Current) /\ Due \subseteq disk /\ disk' = disk
<1> USE ConstantsAssumption DEF FileInv
<1>1. CASE Open
  <2>1. RowsOf(disk, Current) = {}
    BY <1>1 DEF Open, PassInv, StoreInv, RowsOf, Current
  <2> QED BY <1>1, <2>1 DEF Open, store
<1>2. CASE Flush \/ Close
  <2>1. PICK S \in SUBSET buf : Flushed(S)
    BY <1>2 DEF Flush, Close
  <2>2. S \in SUBSET Due
    BY <2>1 DEF PassInv
  <2> QED BY <2>1, <2>2 DEF Flushed
<1>3. CASE DeleteEmptyFile
  <2>1. cpt < 1 => cpt = 0
    BY DEF TypeOK
  <2>2. cpt < 1 => RowsOf(disk, Current) = {}
    BY <1>3, <2>1 DEF DeleteEmptyFile, PassInv
  <2> QED BY Zenon, <1>3, <2>2 DEF DeleteEmptyFile, store
<1>4. CASE DeleteRows
  BY <1>4 DEF DeleteRows, PassInv
<1>5. CASE addVal
  <2>1. PICK t \in Tables, i \in Ids \cup {NoId} :
          live' = live \cup {[tbl |-> t, id |-> i, day |-> today, seq |-> nextSeq]}
    BY <1>5 DEF addVal
  <2> DEFINE r == [tbl |-> t, id |-> i, day |-> today, seq |-> nextSeq]
  <2>2. today \in Days /\ nextSeq \in 0..MaxRows
    BY DEF TypeOK, Days
  <2>3. r \in Row /\ r.day = today
    BY SMTT(30), <2>2 DEF Row
  <2> QED BY <1>5, <2>1, <2>3 DEF addVal
<1>6. CASE UNCHANGED vars \/ SetJmore \/ loopVals \/ verifDate \/ Connect \/ run \/ Select
           \/ WriteRow \/ WriteFail \/ NullStatement \/ Crash \/ Midnight
  BY Zenon, <1>6 DEF vars, store, SetJmore, loopVals, verifDate, Connect, run, Select, WriteRow,
     WriteFail, NullStatement, Crash, Die, Midnight
<1> QED BY Zenon, <1>1, <1>2, <1>3, <1>4, <1>5, <1>6 DEF Next, Thread

\* Every step of the archive is a step of the ledger or leaves it alone.
LEMMA LedgerStep == FileInv /\ [Next]_vars => [L!LNext]_(L!lvars)
<1> SUFFICES ASSUME FileInv, [Next]_vars PROVE [L!LNext]_(L!lvars)
  OBVIOUS
<1>1. CASE live' = live /\ disk' = disk
  BY <1>1 DEF L!lvars, Identified
<1>2. ASSUME NEW r \in Row, live' = live \cup {r}, disk' = disk
      PROVE  [L!LNext]_(L!lvars)
  <2>1. CASE r.id = NoId
    BY <1>2, <2>1 DEF L!lvars, Identified
  <2>2. CASE r.id # NoId
    <3>1. Identified(live)' = Identified(live) \cup {r}
      BY <1>2, <2>2 DEF Identified
    <3> QED BY <1>2, <3>1 DEF L!LNext, L!Record
  <2> QED BY <2>1, <2>2
<1>3. ASSUME live' = live, NEW S \in SUBSET Due, disk' = disk \cup S
      PROVE  [L!LNext]_(L!lvars)
  <2>1. S \in SUBSET Identified(live) /\ Identified(live)' = Identified(live)
    BY <1>3 DEF Due, Identified, RowsOf
  <2> QED BY <1>3, <2>1 DEF L!LNext, L!Seal
<1>4. CASE live' = live \ RowsOf(live, Current) /\ Due \subseteq disk /\ disk' = disk
  <2>1. Identified(live)' = Identified(live) \ Due
    BY <1>4 DEF Due, Identified, RowsOf
  <2>2. Due \in SUBSET disk
    BY <1>4
  <2> QED BY <1>4, <2>1, <2>2 DEF L!LNext, L!Drop
<1> QED BY <1>1, <1>2, <1>3, <1>4, StoreStep

\* The archive implements the ledger: no value with an identifier leaves its
\* table before its line is complete in a file, and no complete line is lost.
THEOREM ImplementsLedger == Spec => LedgerSpec
<1>1. Init => L!LInit
  BY DEF Init, L!LInit, Identified
<1> QED BY <1>1, LedgerStep, FileInvariant, PTL DEF Spec, LedgerSpec, L!LSpec

-----------------------------------------------------------------------------
(* A file that is not in hand is frozen.                                   *)

\* Steps of Launcher and BDD leave alone every file that is not in hand.
LEMMA FrozenStep ==
  ASSUME FileInv, [Next]_vars, NEW f \in cached \ InHand
  PROVE  Frozen(f)
<1> USE ConstantsAssumption DEF FileInv
<1>a. f # Current => ~(f[1] = Current[1] /\ f[2] = Current[2])
  <2>1. f \in Tables \X Days
    BY DEF TypeOK, File
  <2> QED BY <2>1 DEF Current
<1>1. CASE Open \/ DeleteEmptyFile
  <2>1. f # Current
    BY <1>1 DEF Open, DeleteEmptyFile, PassInv, InHand
  <2>2. /\ cached \ {Current} \subseteq cached'
        /\ \/ UNCHANGED <<live, disk, half>>
           \/ /\ live' = live
              /\ disk' = disk \ RowsOf(disk, Current)
              /\ half' = half \ RowsOf(half, Current)
    BY <1>1 DEF Open, DeleteEmptyFile, store
  <2>3. RowsOf(disk \ RowsOf(disk, Current), f) = RowsOf(disk, f)
    BY <1>a, <2>1 DEF RowsOf
  <2>4. RowsOf(half \ RowsOf(half, Current), f) = RowsOf(half, f)
    BY <1>a, <2>1 DEF RowsOf
  <2> QED BY Zenon, <2>1, <2>2, <2>3, <2>4 DEF Frozen
<1>2. CASE Flush \/ Close
  <2>1. f # Current
    BY <1>2 DEF Flush, Close, InHand
  <2>2. PICK S \in SUBSET buf : Flushed(S)
    BY <1>2 DEF Flush, Close
  <2>3. PICK H \in SUBSET buf :
          /\ disk' = disk \cup S
          /\ half' = (half \ RowsOf(half, Current)) \cup H
          /\ UNCHANGED <<live, cached>>
    BY SMTT(30), <2>2 DEF Flushed
  <2>4. \A r \in buf : r.tbl = Current[1] /\ r.day = Current[2]
    BY DEF PassInv, Due, Identified, RowsOf
  <2>5. RowsOf(disk', f) = RowsOf(disk, f)
    <3>1. \A r \in S : ~(r.tbl = f[1] /\ r.day = f[2])
      BY <1>a, <2>1, <2>4
    <3> QED BY Zenon, <2>3, <3>1 DEF RowsOf
  <2>6. RowsOf(half', f) = RowsOf(half, f)
    BY <1>a, <2>1, <2>3, <2>4 DEF RowsOf
  <2> QED BY <2>3, <2>5, <2>6 DEF Frozen
<1>5. CASE DeleteRows
  <2>1. f # Current
    BY <1>5 DEF DeleteRows, InHand
  <2>2. RowsOf(live \ RowsOf(live, Current), f) = RowsOf(live, f)
    BY <1>a, <2>1 DEF RowsOf
  <2> QED BY Zenon, <1>5, <2>2 DEF DeleteRows, Frozen
<1>3. CASE addVal
  <2>1. f[2] < today
    BY DEF StoreInv
  <2>2. PICK t \in Tables, i \in Ids \cup {NoId} :
          live' = live \cup {[tbl |-> t, id |-> i, day |-> today, seq |-> nextSeq]}
    BY <1>3 DEF addVal
  <2>3. today # f[2]
    BY <2>1 DEF TypeOK
  <2>4. PICK r : live' = live \cup {r} /\ r = [tbl |-> t, id |-> i, day |-> today, seq |-> nextSeq]
    BY Zenon, <2>2
  <2>5. RowsOf(live', f) = RowsOf(live, f)
    <3>1. r.day = today
      BY <2>4
    <3> QED BY Zenon, <2>3, <2>4, <3>1 DEF RowsOf
  <2>6. UNCHANGED <<cached, disk, half>>
    BY Zenon, <1>3 DEF addVal
  <2> QED BY Zenon, <2>5, <2>6 DEF Frozen
<1>4. CASE UNCHANGED vars \/ SetJmore \/ loopVals \/ verifDate \/ Connect \/ run \/ Select
           \/ WriteRow \/ WriteFail \/ NullStatement \/ Crash \/ Midnight
  <2>1. UNCHANGED store
    BY Zenon, <1>4 DEF vars, SetJmore, loopVals, verifDate, Connect, run, Select, WriteRow,
       WriteFail, NullStatement, Crash, Die, Midnight
  <2> QED BY Zenon, <2>1 DEF Frozen, RowsOf, store
<1> QED BY <1>1, <1>2, <1>3, <1>4, <1>5 DEF Next, Thread

\* An existing file that no pass has in hand never changes again, and neither
\* do the rows of its day in the table.
THEOREM FreezeTheorem == Spec => ExistingFileFreezesItsDay
<1>1. FileInv /\ [Next]_vars => [\A f \in cached \ InHand : Frozen(f)]_vars
  BY FrozenStep
<1> QED BY <1>1, FileInvariant, PTL DEF Spec, ExistingFileFreezesItsDay

-----------------------------------------------------------------------------
(* No day is skipped while the rollover keeps up with the clock.           *)

\* While midnight never overtook an archive: a pass is about yesterday, and
\* jmore is today while the archive of the day is due, tomorrow once it is done.
DayInv ==
  /\ pc \in {"down", "idle", "verif"} => jour = 0
  /\ late \/
     /\ 0..today - 2 \subseteq visited
     /\ pc \in {"run", "query", "open", "write", "purge", "delete", "arm"} => jour \in {0, today}
     /\ pc \in {"query", "open", "write", "purge", "delete"} => today - 1 \in visited
     /\ pc = "arm" /\ st => today - 1 \in visited
     /\ pc \in {"idle", "verif"} /\ st =>
          /\ jmore \in {DayOfMonth[today], DayOfMonth[today + 1]}
          /\ jmore # DayOfMonth[today] => today - 1 \in visited

\* Every step keeps the invariant of the rollover.
LEMMA DayStep == TypeOK /\ DayInv /\ [Next]_vars => DayInv'
<1> SUFFICES ASSUME TypeOK, DayInv, [Next]_vars PROVE DayInv'
  OBVIOUS
<1>1. CASE UNCHANGED vars
  BY <1>1 DEF vars, history, DayInv
<1>2. CASE SetJmore
  BY SMTT(30), <1>2 DEF SetJmore, history, DayInv
<1>3. CASE loopVals \/ verifDate \/ Connect \/ addVal
  <2>1. CASE loopVals
    <3>1. pc = "idle" /\ pc' \in {"idle", "verif"} /\ UNCHANGED <<today, st, jmore, jour, visited, late>>
      BY Zenon, <2>1 DEF loopVals, history
    <3> QED BY Zenon, <3>1 DEF DayInv
  <2>2. CASE verifDate
    <3>1. /\ pc = "verif" /\ UNCHANGED <<today, st, jmore, visited, late>>
          /\ \/ jour' = today /\ pc' = "run"
             \/ jour' = jour /\ pc' = "idle"
      BY Zenon, <2>2 DEF verifDate, history
    <3> QED BY Zenon, <3>1 DEF DayInv
  <2>3. CASE Connect
    <3>1. /\ pc = "down" /\ UNCHANGED <<today, jmore, jour, visited, late>>
          /\ \/ pc' = "run"
             \/ pc' = "arm" /\ st' = FALSE
      BY Zenon, <2>3 DEF Connect, history
    <3> QED BY Zenon, <3>1 DEF DayInv
  <2>4. CASE addVal
    <3>1. UNCHANGED <<pc, today, st, jmore, jour, visited, late>>
      BY Zenon, <2>4 DEF addVal, history
    <3> QED BY Zenon, <3>1 DEF DayInv
  <2> QED BY Zenon, <1>3, <2>1, <2>2, <2>3, <2>4
<1>4. CASE run
  BY <1>4 DEF run, DayInv
<1>5. CASE Select \/ Open \/ WriteFail \/ Close \/ DeleteRows
  <2>1. /\ pc \in {"query", "open", "write", "delete"}
        /\ pc' \in {"query", "open", "write", "purge", "arm"}
        /\ UNCHANGED <<today, jour, jmore, visited, late>>
    BY <1>5 DEF Select, Open, WriteFail, Close, DeleteRows, Fail, EndWrite, history
  <2> QED BY SMTT(30), <2>1 DEF DayInv
<1>6. CASE WriteRow \/ Flush \/ DeleteEmptyFile
  <2>1. /\ pc \in {"write", "purge"} /\ pc' \in {"write", "delete"}
        /\ UNCHANGED <<today, jour, jmore, visited, late>>
    BY <1>6 DEF WriteRow, Flush, DeleteEmptyFile, history
  <2> QED BY <2>1 DEF DayInv
<1>7. CASE NullStatement \/ Crash
  BY <1>7 DEF NullStatement, Crash, Die, DayInv
<1>8. CASE Midnight
  <2>1. CASE late'
    BY <1>8, <2>1 DEF Midnight, DayInv
  <2>2. CASE ~late'
    <3>1. ~late /\ OnTime
      BY Zenon, <1>8, <2>2 DEF Midnight, TypeOK
    <3>2. 0..today - 2 \subseteq visited /\ today - 1 \in visited /\ jour = 0
          /\ jmore = DayOfMonth[today + 1]
      BY <3>1 DEF OnTime, DayInv
    <3>3. 0..today' - 2 \subseteq visited'
      BY <1>8, <3>2 DEF Midnight, TypeOK
    <3> QED BY <1>8, <3>1, <3>2, <3>3 DEF Midnight, OnTime, DayInv
  <2> QED BY <2>1, <2>2
<1> QED
  BY <1>1, <1>2, <1>3, <1>4, <1>5, <1>6, <1>7, <1>8 DEF Next, Thread

\* A day is skipped only if midnight passed before the archive of the day was
\* over, or while the program was stopped or had no database.
THEOREM NoDayMissedTheorem == Spec => []NoDayMissed
<1>1. Init => DayInv
  BY DEF Init, DayInv
<1>2. DayInv => NoDayMissed
  BY DEF DayInv, NoDayMissed
<1> QED BY <1>1, <1>2, DayStep, TypeCorrect, PTL DEF Spec

-----------------------------------------------------------------------------
(* Reader.tla.  The proofs rest on FileInv, the invariant of the archive.  *)

\* A value with an identifier stays in the table or is in a file, and a
\* complete line stays.
LEMMA ArchiveKeeps ==
  ASSUME FileInv, [Next]_vars
  PROVE  /\ disk \subseteq disk'
         /\ \A r \in live : r.id # NoId => r \in live' \cup disk'
<1>1. CASE live' = live /\ disk' = disk
  BY <1>1
<1>2. CASE (\E r \in Row : r.day = today /\ live' = live \cup {r}) /\ disk' = disk
  BY <1>2
<1>3. CASE live' = live /\ \E S \in SUBSET Due : disk' = disk \cup S
  BY <1>3
<1>4. CASE live' = live \ RowsOf(live, Current) /\ Due \subseteq disk /\ disk' = disk
  BY <1>4 DEF Due, Identified, RowsOf
<1> QED BY <1>1, <1>2, <1>3, <1>4, StoreStep

Steps == {"none", "param", "sed", "count", "select", "done", "all", "month", "day", "total"}

\* Where the values are that the request could return when it started, and
\* what has been read so far.
ReadInv ==
  /\ rq \in Steps
  /\ headed \subseteq half
  /\ rq # "none" => rid \in Ids
  /\ rq = "none" => known = {}
  /\ rq \notin {"count", "select", "done"} => fileRows = {} /\ torn = {}
  /\ \A r \in known \cup torn : r.tbl = rtbl /\ r.id = rid
  /\ fileRows \subseteq disk
  /\ rq \in {"param", "sed"} /\ ~skipped =>
       \A r \in known : r \in live \cup gone \/ (r \in disk /\ r.day \in rdays)
  /\ rq \in {"count", "select"} /\ ~skipped => known \subseteq live \cup fileRows \cup gone
  /\ rq \in {"count", "select"} => torn \subseteq live \cup gone
  /\ MissingExplained /\ TornReadTwice

RInv == FileInv /\ ReadInv

\* Steps of the collector.
LEMMA CollectStep ==
  ASSUME RInv, Collect
  PROVE  ReadInv'
<1> USE DEF RInv
<1>1. [Next]_vars
  BY DEF Collect
<1>2. disk \subseteq disk' /\ \A r \in live : r.id # NoId => r \in live' \cup disk'
  BY <1>1, ArchiveKeeps
<1>3. headed' \subseteq half' /\ UNCHANGED <<request, known, skipped>>
  BY DEF Collect, ReadInv
<1>4. UNCHANGED <<rq, rtbl, rid, rdays, fileRows, torn, dbRows>>
  BY <1>3 DEF request
<1>5. gone \subseteq gone'
  BY DEF Collect
<1>6. ASSUME NEW r \in live, r \notin live', r.tbl = rtbl, r.id = rid, rq # "none"
      PROVE  /\ r \in disk'
             /\ rq \in {"count", "select"} \/ r.day \notin rdays => r \in gone'
  <2>1. r.id # NoId
    BY <1>6, ConstantsAssumption DEF ReadInv
  <2>2. r \in Mine(live \ live')
    BY <1>6 DEF Mine
  <2>3. gone' = gone \cup {q \in Mine(live \ live') :
                             rq \notin {"param", "sed", "all"} \/ q.day \notin rdays}
    BY <1>6 DEF Collect
  <2> QED BY <1>2, <1>6, <2>1, <2>2, <2>3
<1>7. ASSUME rq \in {"param", "sed"}, ~skipped, NEW r \in known
      PROVE  r \in live' \cup gone' \/ (r \in disk' /\ r.day \in rdays)
  <2>1. r.tbl = rtbl /\ r.id = rid /\ (r \in live \cup gone \/ (r \in disk /\ r.day \in rdays))
    BY <1>7 DEF ReadInv
  <2> QED BY <1>2, <1>5, <1>6, <1>7, <2>1
<1>8. ASSUME rq \in {"count", "select"}, NEW r \in known \cup torn, r \in live \cup fileRows \cup gone
      PROVE  r \in live' \cup fileRows \cup gone' /\ (r \in live \cup gone => r \in live' \cup gone')
  <2>1. r.tbl = rtbl /\ r.id = rid
    BY <1>8 DEF ReadInv
  <2> QED BY <1>5, <1>6, <1>8, <2>1
<1>9. MissingExplained' /\ TornReadTwice'
  BY <1>3, <1>4, <1>5 DEF ReadInv, MissingExplained, TornReadTwice
<1>10. rq \in {"count", "select"} => torn \subseteq live' \cup gone'
  BY <1>8 DEF ReadInv
<1>11. rq \in {"count", "select"} /\ ~skipped => known \subseteq live' \cup fileRows \cup gone'
  BY <1>8 DEF ReadInv
<1> QED BY <1>2, <1>3, <1>4, <1>7, <1>9, <1>10, <1>11 DEF ReadInv

\* The end of a request, with an answer or an error 500.
LEMMA EndStep ==
  ASSUME RInv, End
  PROVE  ReadInv'
BY DEF RInv, ReadInv, End, Blank, vars, store, MissingExplained, TornReadTwice, Steps

\* The start of a request: everything it can return is in the table or the files.
LEMMA StartStep ==
  ASSUME RInv, NEW t, NEW i \in Ids, NEW D, NEW M, NEW next \in {"param", "count", "all"},
         Start(next, t, i, D, M), next = "count" => D = {}
  PROVE  ReadInv'
<1>1. /\ rq' = next /\ rtbl' = t /\ rid' = i /\ rdays' = D /\ rq = "none"
      /\ known' = {r \in live \cup disk : r.tbl = t /\ r.id = i /\ (r \in live \/ r.day \in D)}
      /\ UNCHANGED <<live, disk, half, headed, fileRows, torn, dbRows, gone, skipped>>
  BY DEF Start, vars, store
<1>2. fileRows = {} /\ torn = {}
  BY <1>1 DEF RInv, ReadInv
<1> QED BY <1>1, <1>2 DEF RInv, ReadInv, MissingExplained, TornReadTwice, Steps

\* Steps of the request.
LEMMA ReadStep ==
  ASSUME RInv, RNext, ~Collect
  PROVE  ReadInv'
<1>1. CASE getIndicesVals
  BY <1>1, StartStep DEF getIndicesVals
<1>2. CASE getIndicesTotal
  BY <1>2, StartStep DEF getIndicesTotal
<1>3. CASE End
  BY <1>3, EndStep
<1>4. CASE FilesFail /\ rq \in {"param", "sed"}
  BY <1>4 DEF RInv, ReadInv, FilesFail, vars, store, MissingExplained, TornReadTwice, Steps
<1>5. CASE getParam /\ ~FilesFail /\ ~End
  <2>1. /\ rq = "param" /\ rq' = "sed"
        /\ UNCHANGED <<live, disk, half, headed, rtbl, rid, rdays, fileRows, torn, dbRows,
                       known, gone, skipped>>
    BY <1>5 DEF getParam, vars, store, rhistory
  <2> QED BY <2>1 DEF RInv, ReadInv, MissingExplained, TornReadTwice, Steps
<1>6. CASE getIndicesComm /\ ~FilesFail /\ ~End
  <2>1. /\ rq = "sed" /\ rq' = "count"
        /\ fileRows' = InFiles(Mine(disk)) /\ torn' = InFiles(Mine(headed))
        /\ UNCHANGED <<live, disk, half, headed, rtbl, rid, rdays, dbRows, known, gone, skipped>>
    BY <1>6 DEF getIndicesComm, vars, store, rhistory
  <2>2. torn' \subseteq live /\ \A r \in torn' : r.tbl = rtbl /\ r.id = rid
    BY <2>1 DEF InFiles, Mine, RInv, ReadInv, FileInv, TornKept
  <2>3. fileRows' \subseteq disk
    BY <2>1 DEF InFiles, Mine
  <2>4. ~skipped => known \subseteq live \cup fileRows' \cup gone
    BY <2>1 DEF InFiles, Mine, RInv, ReadInv
  <2> QED BY <2>1, <2>2, <2>3, <2>4 DEF RInv, ReadInv, MissingExplained, TornReadTwice, Steps
<1>7. CASE getModulo /\ ~End
  <2>1. /\ rq = "count" /\ rq' = "select"
        /\ UNCHANGED <<live, disk, half, headed, rtbl, rid, rdays, fileRows, torn, dbRows,
                       known, gone, skipped>>
    BY <1>7 DEF getModulo, vars, store, rhistory
  <2> QED BY <2>1 DEF RInv, ReadInv, MissingExplained, TornReadTwice, Steps
<1>8. CASE SelectVals /\ ~End
  <2>1. /\ rq = "select" /\ rq' = "done" /\ dbRows' = Mine(live)
        /\ UNCHANGED <<live, disk, half, headed, rtbl, rid, rdays, fileRows, torn,
                       known, gone, skipped>>
    BY <1>8 DEF SelectVals, vars, store, rhistory
  <2>2. \A r \in known \cup torn : r \in live => r \in dbRows'
    BY <2>1 DEF Mine, RInv, ReadInv
  <2>3. MissingExplained' /\ TornReadTwice'
    BY <2>1, <2>2 DEF RInv, ReadInv, MissingExplained, TornReadTwice
  <2> QED BY <2>1, <2>3 DEF RInv, ReadInv, Steps
<1>9. CASE CountAll \/ CountMonth \/ CountsFail \/ (CountDay /\ ~End)
  <2>1. /\ rq \in {"all", "month", "day"} /\ rq' \in {"month", "day", "total"}
        /\ UNCHANGED <<live, disk, half, headed, rtbl, rid, rdays, fileRows, torn, dbRows,
                       known, gone>>
    BY <1>9 DEF CountAll, CountMonth, CountsFail, CountDay, vars, store, rhistory
  <2> QED BY <2>1 DEF RInv, ReadInv, MissingExplained, TornReadTwice, Steps
<1> QED BY <1>1, <1>2, <1>3, <1>4, <1>5, <1>6, <1>7, <1>8, <1>9
     DEF RNext, getParam, getIndicesComm, Respond

\* Every step of the collector or of the request keeps the invariant.
LEMMA RStep == RInv /\ [RNext]_rvars => RInv'
<1> SUFFICES ASSUME RInv, [RNext]_rvars PROVE RInv'
  BY SMTT(30)
<1>1. [Next]_vars
  BY DEF RNext, rvars, Collect, getIndicesVals, getIndicesTotal, Start, getParam, getIndicesComm,
     FilesFail, End, getModulo, SelectVals, CountAll, CountMonth, CountsFail, CountDay, Respond
<1>2. FileInv'
  BY <1>1, FileStep DEF RInv
<1>3. CASE UNCHANGED rvars
  <2>1. UNCHANGED <<live, disk, half, headed, rq, rtbl, rid, rdays, fileRows, torn, dbRows,
                    known, gone, skipped>>
    BY <1>3 DEF rvars, vars, store, request, rhistory
  <2>2. ReadInv'
    BY <2>1 DEF RInv, ReadInv, MissingExplained, TornReadTwice
  <2> QED BY <1>2, <2>2 DEF RInv
<1> QED BY <1>2, <1>3, CollectStep, ReadStep DEF RInv

\* No request is in progress at the start.
LEMMA RInitInv == RInit => RInv
BY FileInit DEF RInit, Init, RInv, ReadInv, MissingExplained, TornReadTwice, Steps

\* The invariant of the archive and of the request holds in every reachable state.
THEOREM RInvariant == RSpec => []RInv
BY RInitInv, RStep, PTL DEF RSpec

\* A value that was stored when a request came is in its answer, unless it was
\* deleted from the table after the files were read or the files were skipped.
THEOREM MissingTheorem == RSpec => []MissingExplained
<1>1. RInv => MissingExplained
  BY DEF RInv, ReadInv
<1> QED BY <1>1, RInvariant, PTL

\* A value read from a cut line is read from the table too, unless it was
\* archived and deleted in between.
THEOREM TornTheorem == RSpec => []TornReadTwice
<1>1. RInv => TornReadTwice
  BY DEF RInv, ReadInv
<1> QED BY <1>1, RInvariant, PTL

\* An answer has a value twice only while its day is being archived, or after
\* that archive was interrupted.
THEOREM DoubledTheorem == RSpec => DoubledExplained
<1>1. RInv /\ [RNext]_rvars =>
        [rq = "select" /\ rq' = "done" =>
           \A r \in fileRows \cap dbRows' : <<r.tbl, r.day>> \in spoilt \cup InHand]_rvars
  <2> SUFFICES ASSUME RInv, RNext, rq = "select", rq' = "done", NEW r \in fileRows \cap dbRows'
               PROVE  <<r.tbl, r.day>> \in spoilt \cup InHand
    OBVIOUS
  <2>1. dbRows' = Mine(live)
    BY DEF RNext, Collect, request, getIndicesVals, getIndicesTotal, Start, getParam,
       getIndicesComm, getModulo, SelectVals, End, CountAll, CountMonth, CountsFail, CountDay,
       Respond
  <2>2. r \in live \cap disk
    BY <2>1 DEF Mine, RInv, ReadInv
  <2> QED BY <2>2 DEF RInv, FileInv, OverlapExplained
<1> QED BY <1>1, RInvariant, PTL DEF RSpec, DoubledExplained

-----------------------------------------------------------------------------
(* The counts of getIndicesTotal.                                          *)

\* The union of two finite sets is finite, and bounded by the two.
LEMMA UnionFinite ==
  ASSUME NEW S, NEW T, IsFiniteSet(S), IsFiniteSet(T)
  PROVE  IsFiniteSet(S \cup T) /\ Cardinality(S \cup T) <= Cardinality(S) + Cardinality(T)
<1>1. IsFiniteSet(S \cup T) /\ IsFiniteSet(S \cap T)
  <2>1. IsFiniteSet(S \cup T)
    BY Zenon, FS_Union
  <2>2. S \cap T \in SUBSET S
    OBVIOUS
  <2> QED BY Zenon, <2>1, <2>2, FS_Subset
<1>2. Cardinality(S \cup T) = Cardinality(S) + Cardinality(T) - Cardinality(S \cap T)
  BY Zenon, FS_Union
<1>3. Cardinality(S) \in Nat /\ Cardinality(T) \in Nat /\ Cardinality(S \cap T) \in Nat
  BY Zenon, <1>1, FS_CardinalityType
<1> QED BY <1>1, <1>2, <1>3

\* A part of a finite set is finite and no larger.
LEMMA PartFinite ==
  ASSUME NEW S, NEW T, IsFiniteSet(S), T \subseteq S
  PROVE  /\ IsFiniteSet(T) /\ Cardinality(T) \in Nat /\ Cardinality(S) \in Nat
         /\ Cardinality(T) <= Cardinality(S)
<1>1. T \in SUBSET S
  OBVIOUS
<1>2. IsFiniteSet(T) /\ Cardinality(T) <= Cardinality(S)
  BY Zenon, <1>1, FS_Subset
<1> QED BY Zenon, <1>2, FS_CardinalityType

\* Two sets counted one after the other: what is in both is counted twice.
LEMMA BothCounted ==
  ASSUME NEW C, NEW T, NEW S, NEW W, IsFiniteSet(S), C \subseteq S, T \subseteq S,
         W \subseteq T, C \cap T \subseteq W
  PROVE  Cardinality(C) + Cardinality(T) <= Cardinality(S) + Cardinality(W)
<1>1. IsFiniteSet(C) /\ IsFiniteSet(T) /\ Cardinality(C) \in Nat /\ Cardinality(T) \in Nat
  BY Zenon, PartFinite
<1>2. IsFiniteSet(W) /\ Cardinality(W) \in Nat
  BY Zenon, <1>1, PartFinite
<1>3. Cardinality(C \cap T) \in Nat /\ Cardinality(C \cap T) <= Cardinality(W)
  BY Zenon, <1>2, PartFinite
<1>4. C \cup T \subseteq S
  BY Zenon
<1>5. /\ Cardinality(C \cup T) \in Nat /\ Cardinality(S) \in Nat
      /\ Cardinality(C \cup T) <= Cardinality(S)
  BY Zenon, <1>4, PartFinite
<1>6. Cardinality(C \cup T) = Cardinality(C) + Cardinality(T) - Cardinality(C \cap T)
  BY Zenon, <1>1, FS_Union
<1> QED BY <1>1, <1>2, <1>3, <1>5, <1>6

\* The lines of a command are finitely many.
LEMMA LinesFinite ==
  ASSUME IsFiniteSet(live), IsFiniteSet(disk), headed \subseteq live, NEW D
  PROVE  IsFiniteSet({r \in Mine(disk \cup headed) : r.day \in D}) /\ Lines(D) \in Nat
<1> DEFINE A == {r \in Mine(disk \cup headed) : r.day \in D}
<1>1. IsFiniteSet(disk \cup live)
  BY Zenon, UnionFinite
<1>2. A \subseteq disk \cup live
  BY DEF Mine
<1>3. IsFiniteSet(A) /\ Cardinality(A) \in Nat
  <2> HIDE DEF A
  <2> QED BY Zenon, <1>1, <1>2, PartFinite
<1> QED BY <1>3 DEF Lines

\* A line that is cut is in a file that write has in hand or was interrupted at.
CutMarked == \A r \in half : <<r.tbl, r.day>> \in spoilt \cup InHand

\* It stays so, and a line, cut or complete, is one afterwards.
LEMMA CutStep ==
  ASSUME FileInv, CutMarked, [Next]_vars
  PROVE  CutMarked' /\ half \subseteq half' \cup disk'
<1> USE DEF FileInv
<1>1. CASE Open
  <2>1. RowsOf(half, Current) = {}
    BY <1>1 DEF Open, PassInv, StoreInv, RowsOf, Current
  <2>2. half' = half /\ InHand = {} /\ spoilt \subseteq spoilt'
    BY <1>1, <2>1 DEF Open, store, history, InHand, Fail
  <2> QED BY Zenon, <2>2 DEF CutMarked
<1>2. CASE Flush \/ Close
  <2>1. PICK S \in SUBSET buf : /\ Flushed(S)
                               /\ \/ Current \in spoilt' /\ spoilt \subseteq spoilt'
                                  \/ Current \in InHand' /\ spoilt' = spoilt
    <3>1. CASE Flush
      BY <1>2, <3>1 DEF Flush, InHand, Current, type, history
    <3>2. CASE Close
      BY <1>2, <3>2 DEF Close, InHand, Current, type, history, Fail
    <3> QED BY Zenon, <1>2, <3>1, <3>2
  <2>2. PICK H \in SUBSET (buf \ S) : /\ half \cap buf \subseteq S \cup H
                                      /\ disk' = disk \cup S
                                      /\ half' = (half \ RowsOf(half, Current)) \cup H
    BY Zenon, <2>1 DEF Flushed
  <2>3. pc = "write" /\ RowsOf(half, Current) \subseteq buf /\ InHand = {Current}
    BY <1>2 DEF Flush, Close, PassInv, InHand
  <2>4. \A r \in buf : <<r.tbl, r.day>> = Current
    BY DEF PassInv, Due, Identified, RowsOf, Current
  <2>5. half \subseteq half' \cup disk'
    BY <2>2, <2>3
  <2>6. \A r \in half' : <<r.tbl, r.day>> \in spoilt \cup {Current}
    BY <2>2, <2>3, <2>4 DEF CutMarked
  <2>7. spoilt \cup {Current} \subseteq spoilt' \cup InHand'
    BY Zenon, <2>1
  <2> QED BY Zenon, <2>5, <2>6, <2>7 DEF CutMarked
<1>3. CASE DeleteEmptyFile
  <2>1. RowsOf(half, Current) = {}
    BY <1>3 DEF DeleteEmptyFile, PassInv
  <2>2. half' = half
    BY Zenon, <1>3, <2>1 DEF DeleteEmptyFile, store
  <2>3. InHand' = InHand /\ spoilt' = spoilt
    BY <1>3 DEF DeleteEmptyFile, InHand, Current, type, pass, history
  <2> QED BY Zenon, <2>2, <2>3 DEF CutMarked
<1>4. CASE DeleteRows
  <2>1. RowsOf(half, Current) = {} /\ InHand = {Current}
    BY <1>4 DEF DeleteRows, PassInv, InHand
  <2>2. half' = half /\ spoilt \subseteq spoilt'
    BY <1>4 DEF DeleteRows, Fail, history
  <2>3. \A r \in half : <<r.tbl, r.day>> # Current
    BY <2>1 DEF RowsOf, Current
  <2> QED BY Zenon, <2>1, <2>2, <2>3 DEF CutMarked
<1>5. CASE WriteFail \/ Crash
  <2>1. half' = half /\ spoilt \cup InHand \subseteq spoilt'
    BY <1>5 DEF WriteFail, Crash, Fail, Die, store, InHand
  <2> QED BY Zenon, <2>1 DEF CutMarked
<1>6. CASE Select \/ NullStatement
  <2>1. half' = half /\ InHand = {} /\ spoilt \subseteq spoilt'
    BY <1>6 DEF Select, NullStatement, Fail, Die, store, InHand, history
  <2> QED BY Zenon, <2>1 DEF CutMarked
<1>7. CASE WriteRow \/ Midnight \/ UNCHANGED vars
  <2>1. half' = half /\ InHand' = InHand /\ spoilt' = spoilt
    BY <1>7 DEF WriteRow, Midnight, vars, store, pass, InHand, Current, type, history
  <2> QED BY Zenon, <2>1 DEF CutMarked
<1>8. CASE SetJmore \/ loopVals \/ verifDate \/ Connect \/ run \/ addVal
  <2>1. half' = half /\ InHand = {} /\ spoilt' = spoilt
    BY <1>8 DEF SetJmore, loopVals, verifDate, Connect, run, addVal, store, InHand, history
  <2> QED BY Zenon, <2>1 DEF CutMarked
<1> QED BY Zenon, <1>1, <1>2, <1>3, <1>4, <1>5, <1>6, <1>7, <1>8 DEF Next, Thread

\* The table and the files hold finitely many rows.
LEMMA FiniteStep ==
  ASSUME FileInv, [Next]_vars, IsFiniteSet(live), IsFiniteSet(disk)
  PROVE  IsFiniteSet(live') /\ IsFiniteSet(disk')
<1>1. CASE live' = live /\ disk' = disk
  BY <1>1
<1>2. CASE (\E r \in Row : r.day = today /\ live' = live \cup {r}) /\ disk' = disk
  <2>1. PICK r \in Row : live' = live \cup {r}
    BY <1>2
  <2> QED BY <1>2, <2>1, FS_AddElement
<1>3. CASE live' = live /\ \E S \in SUBSET Due : disk' = disk \cup S
  <2>1. PICK S \in SUBSET Due : disk' = disk \cup S
    BY <1>3
  <2>2. S \subseteq live
    BY DEF Due, Identified, RowsOf
  <2>3. IsFiniteSet(S)
    BY <2>2, PartFinite
  <2>4. IsFiniteSet(disk \cup S)
    BY Zenon, <2>3, UnionFinite
  <2> QED BY <1>3, <2>1, <2>4
<1>4. CASE live' = live \ RowsOf(live, Current) /\ Due \subseteq disk /\ disk' = disk
  <2>1. live' \subseteq live
    BY <1>4
  <2> QED BY <1>4, <2>1, PartFinite
<1> QED BY <1>1, <1>2, <1>3, <1>4, StoreStep

\* Every known row is in the table, gone from it, or one of the lines that
\* were counted: a set C of lines stands for the first count.
Counted(C) ==
  /\ IsFiniteSet(C) /\ Cardinality(C) <= totaux.all
  /\ known \subseteq C \cup live \cup gone

\* A set C of lines of the files of the days D that a count n found.
Found(C, n, D) ==
  /\ IsFiniteSet(C) /\ Cardinality(C) = n
  /\ C \subseteq Mine(disk \cup half) /\ \A r \in C : r.day \in D

\* What the counts made so far have to do with the rows.
CountInv ==
  /\ IsFiniteSet(live) /\ IsFiniteSet(disk) /\ IsFiniteSet(known) /\ IsFiniteSet(came)
  /\ CutMarked
  /\ totaux \in [all : Nat, month : Nat, day : Nat]
  /\ rq = "all" => known \subseteq live \cup gone \cup disk /\ rdays = Days
  /\ rq \in {"all", "month", "day"} => Mine(live \cup disk) \subseteq known \cup came
  /\ rq \in {"month", "day"} =>
       /\ skipped \/ \E C : Counted(C)
       /\ \E C : Found(C, totaux.all, Days)
  /\ rq = "day" => \E C : Found(C, totaux.month, rmonth)
  /\ TotalCounts

\* Lines that were found are there after a step of the collector.
LEMMA FoundKept ==
  ASSUME NEW C, NEW n, NEW D, Found(C, n, D), UNCHANGED <<rtbl, rid>>,
         disk \subseteq disk', half \subseteq half' \cup disk'
  PROVE  Found(C, n, D)'
<1>1. Mine(disk \cup half) \subseteq Mine(disk \cup half)'
  BY DEF Mine
<1> QED BY Zenon, <1>1 DEF Found

\* Steps of the collector keep what the counts mean.
LEMMA CollectCounts ==
  ASSUME RInv, CountInv, Collect
  PROVE  CountInv'
<1>1. [Next]_vars /\ FileInv
  BY DEF Collect, RInv
<1>2. disk \subseteq disk' /\ \A r \in live : r.id # NoId => r \in live' \cup disk'
  BY <1>1, ArchiveKeeps
<1>3. UNCHANGED <<rq, rtbl, rid, rdays, rmonth, totaux, known, skipped>>
  BY DEF Collect, request
<1>4. gone \subseteq gone'
  BY Zenon DEF Collect
<1>5. ASSUME NEW r \in known, r \in live, r \notin live', rq # "none"
      PROVE  r \in disk' /\ (rq \in {"month", "day", "total"} => r \in gone')
  <2>1. r.tbl = rtbl /\ r.id = rid /\ rid \in Ids
    BY <1>5 DEF RInv, ReadInv
  <2>2. r.id # NoId
    BY <2>1, ConstantsAssumption
  <2>3. r \in Mine(live \ live')
    BY <1>5, <2>1 DEF Mine
  <2>4. gone' = gone \cup {q \in Mine(live \ live') :
                             rq \notin {"param", "sed", "all"} \/ q.day \notin rdays}
    BY <1>5 DEF Collect
  <2> QED BY <1>2, <1>5, <2>2, <2>3, <2>4
<1>6. IsFiniteSet(live') /\ IsFiniteSet(disk')
  BY <1>1, FiniteStep DEF CountInv
<1>7. rq = "all" => known \subseteq live' \cup gone' \cup disk'
  BY <1>2, <1>4, <1>5 DEF CountInv
<1>8. rq \in {"all", "month", "day"} => Mine(live' \cup disk') \subseteq known \cup came'
  <2> SUFFICES ASSUME rq \in {"all", "month", "day"} PROVE Mine(live' \cup disk') \subseteq known \cup came'
    OBVIOUS
  <2>1. came' = came \cup Mine(live' \ live)
    BY Zenon DEF Collect
  <2>2. disk' \subseteq disk \cup live
    <3>1. Due \subseteq live
      BY DEF Due, Identified, RowsOf
    <3> QED BY <1>1, <3>1, StoreStep
  <2>3. Mine(live \cup disk) \subseteq known \cup came
    BY DEF CountInv
  <2> QED BY <2>1, <2>2, <2>3 DEF Mine
<1>9. rq \in {"month", "day"} => skipped \/ (\E C : Counted(C))'
  <2> SUFFICES ASSUME rq \in {"month", "day"}, ~skipped PROVE \E C : Counted(C)'
    OBVIOUS
  <2>1. PICK C : Counted(C)
    BY DEF CountInv
  <2>2. known \subseteq C \cup live' \cup gone'
    BY <1>4, <1>5, <2>1 DEF Counted
  <2>3. Counted(C)'
    BY <1>3, <2>1, <2>2 DEF Counted
  <2> QED BY <2>3
<1>10. TotalCounts'
  <2> SUFFICES ASSUME rq = "total", ~skipped
               PROVE  totaux.all + totaux.day >= Cardinality(known \ gone')
    BY <1>3 DEF TotalCounts
  <2>1. known \ gone' \subseteq known \ gone /\ IsFiniteSet(known \ gone)
    BY <1>4, FS_Subset DEF CountInv
  <2>2. IsFiniteSet(known \ gone') /\ Cardinality(known \ gone') <= Cardinality(known \ gone)
    BY <2>1, FS_Subset
  <2>3. Cardinality(known \ gone') \in Nat /\ Cardinality(known \ gone) \in Nat
    BY <2>1, <2>2, FS_CardinalityType
  <2>4. totaux.all + totaux.day >= Cardinality(known \ gone)
    BY DEF CountInv, TotalCounts
  <2> QED BY <2>2, <2>3, <2>4 DEF CountInv
<1>11. totaux' \in [all : Nat, month : Nat, day : Nat] /\ IsFiniteSet(known')
  BY <1>3 DEF CountInv
<1>12. IsFiniteSet(came')
  <2>1. Mine(live' \ live) \subseteq live'
    BY DEF Mine
  <2>2. IsFiniteSet(came \cup Mine(live' \ live))
    BY Zenon, <1>6, <2>1, PartFinite, UnionFinite DEF CountInv
  <2> QED BY Zenon, <2>2 DEF Collect, CountInv
<1>13. rq' = "all" => rdays' = Days
  BY <1>3 DEF CountInv
<1>14. CutMarked' /\ half \subseteq half' \cup disk'
  BY Zenon, <1>1, CutStep DEF CountInv
<1>15. rq \in {"month", "day"} => (\E C : Found(C, totaux.all, Days))'
  BY Zenon, <1>2, <1>3, <1>14, FoundKept DEF CountInv
<1>16. rq = "day" => (\E C : Found(C, totaux.month, rmonth))'
  BY Zenon, <1>2, <1>3, <1>14, FoundKept DEF CountInv
<1>17. rq' \in {"all", "month", "day"} => Mine(live \cup disk)' \subseteq known' \cup came'
  <2>1. Mine(live \cup disk)' = Mine(live' \cup disk')
    BY Zenon, <1>3 DEF Mine
  <2> QED BY Zenon, <1>3, <1>8, <2>1
<1> QED BY Zenon, <1>3, <1>6, <1>7, <1>9, <1>10, <1>11, <1>12, <1>13, <1>14, <1>15, <1>16, <1>17 DEF CountInv

\* Steps of the request keep what the counts mean.
LEMMA RequestCounts ==
  ASSUME RInv, CountInv, RNext, ~Collect
  PROVE  CountInv'
<1>a. IsFiniteSet(live) /\ IsFiniteSet(disk) /\ headed \subseteq live /\ headed \subseteq half
  BY DEF CountInv, RInv, ReadInv, FileInv, TornKept
<1>b. CutMarked' /\ UNCHANGED <<live, disk, half>>
  <2>1. UNCHANGED vars
    BY Zenon DEF RNext, getIndicesVals, getIndicesTotal, Start, getParam, getIndicesComm,
       FilesFail, End, getModulo, SelectVals, CountAll, CountMonth, CountsFail, CountDay, Respond
  <2>2. UNCHANGED <<live, disk, half, spoilt, pc, hier, site>>
    BY <2>1 DEF vars, store, pass, history
  <2> QED BY Zenon, <2>2 DEF CountInv, CutMarked, InHand, Current, type
<1>1. ASSUME NEW t, NEW i, NEW D, NEW M, NEW next \in {"param", "count", "all"},
             Start(next, t, i, D, M), next = "all" => D = Days
      PROVE  CountInv'
  <2>1. /\ rq' = next /\ rdays' = D /\ rtbl' = t /\ rid' = i
        /\ known' = {r \in live \cup disk : r.tbl = t /\ r.id = i /\ (r \in live \/ r.day \in D)}
        /\ UNCHANGED <<live, disk, gone, totaux, came>>
    BY <1>1 DEF Start, vars, store
  <2>2. IsFiniteSet(live \cup disk) /\ known' \subseteq live \cup disk
    <3>1. IsFiniteSet(live \cup disk)
      BY Zenon, <1>a, UnionFinite
    <3> QED BY <2>1, <3>1
  <2>3. IsFiniteSet(known')
    BY Zenon, <2>2, PartFinite
  <2>4. next = "all" => Mine(live \cup disk)' \subseteq known'
    <3>1. \A r \in disk : r.day \in Days
      BY DEF RInv, FileInv, TypeOK, Row
    <3> QED BY <1>1, <2>1, <3>1 DEF Mine
  <2> QED BY <1>1, <1>a, <1>b, <2>1, <2>2, <2>3, <2>4 DEF CountInv, TotalCounts
<1>2. CASE End
  <2>1. known' = {} /\ came' = {} /\ totaux' = NoTotal /\ rq' = "none"
    BY <1>2 DEF End, Blank
  <2> QED BY <1>a, <1>b, <2>1, FS_EmptySet DEF CountInv, TotalCounts, NoTotal
<1>3. CASE (getParam \/ getIndicesComm \/ getModulo \/ SelectVals) /\ ~End
  <2>1. /\ rq' \in {"sed", "count", "select", "done"}
        /\ UNCHANGED <<known, totaux, came>>
    BY <1>3 DEF getParam, getIndicesComm, getModulo, SelectVals, FilesFail, rhistory
  <2> QED BY Zenon, <1>b, <2>1 DEF CountInv, TotalCounts
<1>4. CASE CountAll
  <2>1. /\ rq = "all" /\ rq' = "month" /\ totaux' = [totaux EXCEPT !.all = Lines(Days)]
        /\ UNCHANGED <<headed, rtbl, rid, known, gone, skipped, came>>
    BY <1>4 DEF CountAll, rhistory
  <2> DEFINE C == {r \in Mine(disk \cup headed) : r.day \in Days}
  <2>2. IsFiniteSet(C) /\ Lines(Days) \in Nat
    BY Zenon, <1>a, LinesFinite
  <2>3. totaux' \in [all : Nat, month : Nat, day : Nat] /\ totaux'.all = Lines(Days)
    BY <2>1, <2>2 DEF CountInv
  <2>5. known \subseteq C \cup live \cup gone
    <3>1. \A r \in disk : r.day \in Days
      BY DEF RInv, FileInv, TypeOK, Row
    <3>2. \A r \in known : r.tbl = rtbl /\ r.id = rid
      BY DEF RInv, ReadInv
    <3> QED BY <2>1, <3>1, <3>2 DEF CountInv, Mine
  <2>6. Counted(C)' /\ Found(C, totaux.all, Days)'
    <3>1. /\ C \subseteq Mine(disk \cup half)' /\ C' = C
          /\ \A r \in C : r.day \in Days
      BY <1>a, <1>b, <2>1 DEF Mine
    <3>2. Cardinality(C) = totaux'.all /\ Cardinality(C) \in Nat
      BY <2>2, <2>3 DEF Lines
    <3> HIDE DEF C
    <3>3. Cardinality(C) <= totaux'.all
      BY <3>2
    <3> QED BY Zenon, <1>b, <2>1, <2>2, <2>5, <3>1, <3>2, <3>3 DEF Counted, Found
  <2>7. (\E X : Counted(X))' /\ (\E X : Found(X, totaux.all, Days))'
    BY Zenon, <2>6
  <2>8. Mine(live \cup disk)' \subseteq known' \cup came'
    BY <1>b, <2>1 DEF CountInv, Mine
  <2> HIDE DEF C
  <2> QED BY Zenon, <1>a, <1>b, <2>1, <2>3, <2>7, <2>8 DEF CountInv, TotalCounts
<1>5. CASE CountMonth
  <2>1. /\ rq = "month" /\ rq' = "day" /\ totaux' = [totaux EXCEPT !.month = Lines(rmonth)]
        /\ UNCHANGED <<headed, rtbl, rid, rmonth, known, gone, skipped, came>>
    BY <1>5 DEF CountMonth, rhistory
  <2> DEFINE C == {r \in Mine(disk \cup headed) : r.day \in rmonth}
  <2>2. IsFiniteSet(C) /\ Lines(rmonth) \in Nat
    BY Zenon, <1>a, LinesFinite
  <2>3. /\ totaux' \in [all : Nat, month : Nat, day : Nat]
        /\ totaux'.all = totaux.all /\ totaux'.month = Lines(rmonth)
    BY <2>1, <2>2 DEF CountInv
  <2>4. Found(C, totaux.month, rmonth)'
    <3>1. /\ C \subseteq Mine(disk \cup half)' /\ C' = C
          /\ \A r \in C : r.day \in rmonth'
      BY <1>a, <1>b, <2>1 DEF Mine
    <3>2. Cardinality(C) = totaux'.month
      BY <2>3 DEF Lines
    <3> HIDE DEF C
    <3> QED BY Zenon, <2>2, <3>1, <3>2 DEF Found
  <2>5. skipped \/ (\E X : Counted(X))'
    BY <1>b, <2>1, <2>3 DEF CountInv, Counted
  <2>6. (\E X : Found(X, totaux.all, Days))' /\ (\E X : Found(X, totaux.month, rmonth))'
    <3>1. PICK X : Found(X, totaux.all, Days)
      BY Zenon, <2>1 DEF CountInv
    <3>2. Found(X, totaux.all, Days)'
      BY <1>b, <2>1, <2>3, <3>1 DEF Found, Mine
    <3> QED BY Zenon, <2>4, <3>2
  <2>7. Mine(live \cup disk)' \subseteq known' \cup came'
    BY <1>b, <2>1 DEF CountInv, Mine
  <2> HIDE DEF C
  <2> QED BY Zenon, <1>a, <1>b, <2>1, <2>3, <2>5, <2>6, <2>7 DEF CountInv, TotalCounts
<1>6. CASE CountsFail
  <2>1. /\ rq \in {"all", "month"} /\ rq' = "day" /\ skipped' = TRUE /\ totaux' = NoTotal
        /\ UNCHANGED <<rtbl, rid, known, came>>
    BY <1>6 DEF CountsFail
  <2>2. totaux' \in [all : Nat, month : Nat, day : Nat] /\ totaux'.month = 0 /\ totaux'.all = 0
    BY <2>1 DEF NoTotal
  <2>3. TotalCounts'
    BY Zenon, <2>1 DEF TotalCounts
  <2>4. \A D : Found({}, 0, D)'
    BY FS_EmptySet DEF Found
  <2>5. (\E X : Found(X, totaux.all, Days))' /\ (\E X : Found(X, totaux.month, rmonth))'
    <3>1. Found({}, totaux.all, Days)' /\ Found({}, totaux.month, rmonth)'
      BY <2>2, <2>4 DEF Found
    <3> QED BY Zenon, <3>1
  <2>6. Mine(live \cup disk)' \subseteq known' \cup came'
    BY <1>b, <2>1 DEF CountInv, Mine
  <2> QED BY Zenon, <1>a, <1>b, <2>1, <2>2, <2>3, <2>5, <2>6 DEF CountInv
<1>7. CASE CountDay /\ ~End
  <2>1. /\ rq = "day" /\ rq' = "total"
        /\ totaux' = [totaux EXCEPT !.day = Cardinality(Mine(live))]
        /\ UNCHANGED <<known, gone, skipped, came>>
    BY <1>7 DEF CountDay, rhistory
  <2>2. IsFiniteSet(Mine(live)) /\ Cardinality(Mine(live)) \in Nat
    <3>1. Mine(live) \subseteq live
      BY DEF Mine
    <3> QED BY Zenon, <1>a, <3>1, PartFinite
  <2>3. /\ totaux' \in [all : Nat, month : Nat, day : Nat]
        /\ totaux'.all = totaux.all /\ totaux'.day = Cardinality(Mine(live))
    BY <2>1, <2>2 DEF CountInv
  <2>4. ~skipped => totaux'.all + totaux'.day >= Cardinality(known \ gone)
    <3> SUFFICES ASSUME ~skipped PROVE totaux.all + Cardinality(Mine(live)) >= Cardinality(known \ gone)
      BY <2>3
    <3>1. PICK C : Counted(C)
      BY <2>1 DEF CountInv
    <3>2. \A r \in known : r.tbl = rtbl /\ r.id = rid
      BY DEF RInv, ReadInv
    <3>3. known \ gone \subseteq C \cup Mine(live)
      BY <3>1, <3>2 DEF Counted, Mine
    <3>4. /\ IsFiniteSet(C \cup Mine(live))
          /\ Cardinality(C \cup Mine(live)) <= Cardinality(C) + Cardinality(Mine(live))
      BY Zenon, <2>2, <3>1, UnionFinite DEF Counted
    <3>5. /\ Cardinality(known \ gone) \in Nat /\ Cardinality(C \cup Mine(live)) \in Nat
          /\ Cardinality(known \ gone) <= Cardinality(C \cup Mine(live))
      BY Zenon, <3>3, <3>4, PartFinite
    <3>6. Cardinality(C) \in Nat /\ Cardinality(C) <= totaux.all
      BY <3>1, FS_CardinalityType DEF Counted
    <3>7. totaux.all \in Nat
      BY DEF CountInv
    <3> QED BY <2>2, <3>4, <3>5, <3>6, <3>7
  <2>5. TotalCounts'
    BY <2>1, <2>4 DEF TotalCounts
  <2> QED BY Zenon, <1>a, <1>b, <2>1, <2>3, <2>5 DEF CountInv
<1> QED BY Zenon, <1>1, <1>2, <1>3, <1>4, <1>5, <1>6, <1>7
     DEF RNext, getIndicesVals, getIndicesTotal, Respond

\* Every step of the collector or of the request keeps the invariant.
LEMMA CountStep == RInv /\ CountInv /\ [RNext]_rvars => CountInv'
<1> SUFFICES ASSUME RInv, CountInv, [RNext]_rvars PROVE CountInv'
  OBVIOUS
<1>1. CASE UNCHANGED rvars
  <2>1. UNCHANGED <<live, disk, half, spoilt, pc, hier, site, rq, rtbl, rid, rdays, rmonth, totaux,
                    known, gone, skipped, came>>
    BY <1>1 DEF rvars, vars, store, pass, history, request, rhistory
  <2>2. /\ \A C : Counted(C)' <=> Counted(C)
        /\ \A C, n, D : Found(C, n, D)' <=> Found(C, n, D)
        /\ Mine(live \cup disk)' = Mine(live \cup disk)
        /\ CutMarked' <=> CutMarked
    BY Zenon, <2>1 DEF Found, Mine, Counted, CutMarked, InHand, Current, type
  <2> QED BY Zenon, <2>1, <2>2 DEF CountInv, TotalCounts
<1> QED BY <1>1, CollectCounts, RequestCounts

\* The counts have their meaning in every reachable state.
THEOREM CountInvariant == RSpec => []CountInv
<1>1. RInit => CountInv
  <2> SUFFICES ASSUME RInit PROVE CountInv
    OBVIOUS
  <2>1. /\ live = {} /\ disk = {} /\ half = {} /\ known = {} /\ came = {} /\ rq = "none"
        /\ totaux = NoTotal
    BY Zenon DEF RInit, Init
  <2>2. IsFiniteSet(live) /\ IsFiniteSet(disk) /\ IsFiniteSet(known) /\ IsFiniteSet(came)
    BY Zenon, <2>1, FS_EmptySet
  <2>3. totaux \in [all : Nat, month : Nat, day : Nat]
    BY <2>1 DEF NoTotal
  <2>4. TotalCounts
    BY Zenon, <2>1 DEF TotalCounts
  <2> QED BY Zenon, <2>1, <2>2, <2>3, <2>4 DEF CountInv, CutMarked
<1> QED BY <1>1, CountStep, RInvariant, PTL DEF RSpec

\* The sums of the counts count nothing that was never stored, nothing of a file
\* outside the month read from the calendar, and nothing twice but rows whose
\* archive was interrupted or is going on.
THEOREM NotInflatedTheorem == RSpec => TotalsNotInflated
<1> DEFINE stored == known \cup came
           ofMonth == {r \in stored : r.day \in rmonth \/ r \in live}
           Right == /\ totaux'.all + totaux'.day <= Cardinality(stored) + Cardinality(Twice)
                    /\ totaux'.month + totaux'.day <= Cardinality(ofMonth) + Cardinality(Twice)
<1>1. ASSUME RInv, CountInv, RNext, rq = "day", rq' = "total" PROVE Right
  <2>1. totaux' = [totaux EXCEPT !.day = Cardinality(Mine(live))]
    BY <1>1 DEF RNext, Collect, request, getIndicesVals, getIndicesTotal, Start, getParam,
       getIndicesComm, getModulo, SelectVals, End, CountAll, CountMonth, CountsFail, CountDay,
       Respond
  <2>2. /\ totaux'.all = totaux.all /\ totaux'.month = totaux.month
        /\ totaux'.day = Cardinality(Mine(live))
    BY <1>1, <2>1 DEF CountInv
  <2>3. PICK C : Found(C, totaux.all, Days)
    BY Zenon, <1>1 DEF CountInv
  <2>4. PICK M : Found(M, totaux.month, rmonth)
    BY Zenon, <1>1 DEF CountInv
  <2>5. Mine(live \cup disk) \subseteq stored /\ half \subseteq live
    BY Zenon, <1>1 DEF CountInv, RInv, FileInv, TornKept
  <2>6. Mine(disk \cup half) \subseteq stored /\ Mine(live) \subseteq stored /\ Twice \subseteq Mine(live)
    BY <2>5 DEF Mine, Twice
  <2>7. Mine(disk \cup half) \cap Mine(live) \subseteq Twice
    BY <1>1 DEF Mine, Twice, CountInv, CutMarked, RInv, FileInv, OverlapExplained
  <2>8. IsFiniteSet(stored) /\ ofMonth \subseteq stored
    BY Zenon, <1>1, UnionFinite DEF CountInv
  <2>9. IsFiniteSet(ofMonth)
    <3> HIDE DEF ofMonth, stored
    <3> QED BY Zenon, <2>8, PartFinite
  <2>10. M \subseteq ofMonth /\ Mine(live) \subseteq ofMonth
    <3>1. \A r \in M : r \in stored /\ r.day \in rmonth
      BY Zenon, <2>4, <2>6 DEF Found
    <3>2. \A r \in Mine(live) : r \in stored /\ r \in live
      BY <2>6 DEF Mine
    <3> QED BY Zenon, <3>1, <3>2
  <2>11. C \subseteq stored /\ C \cap Mine(live) \subseteq Twice /\ M \cap Mine(live) \subseteq Twice
    BY Zenon, <2>3, <2>4, <2>6, <2>7 DEF Found
  <2>12. Cardinality(C) + Cardinality(Mine(live)) <= Cardinality(stored) + Cardinality(Twice)
    <3> HIDE DEF stored
    <3> QED BY Zenon, <2>6, <2>8, <2>11, BothCounted
  <2>13. Cardinality(M) + Cardinality(Mine(live)) <= Cardinality(ofMonth) + Cardinality(Twice)
    <3> HIDE DEF ofMonth
    <3> QED BY Zenon, <2>6, <2>9, <2>10, <2>11, BothCounted
  <2> HIDE DEF stored, ofMonth
  <2> QED BY Zenon, <2>2, <2>3, <2>4, <2>12, <2>13 DEF Found
<1>2. RInv /\ CountInv /\ [RNext]_rvars => [rq = "day" /\ rq' = "total" => Right]_rvars
  <2> HIDE DEF Right
  <2> QED BY Zenon, <1>1
<1> QED BY <1>2, RInvariant, CountInvariant, PTL DEF RSpec, TotalsNotInflated

\* The sum shown as all time values counts every value stored when the request
\* came, except those deleted from the table after the files were counted.
THEOREM TotalTheorem == RSpec => []TotalCounts
<1>1. CountInv => TotalCounts
  BY DEF CountInv
<1> QED BY <1>1, CountInvariant, PTL

=============================================================================

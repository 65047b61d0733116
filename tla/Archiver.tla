------------------------------ MODULE Archiver ------------------------------
(***************************************************************************)
(* The daily archive of RecupIndices: BDD.java copies yesterday's rows of  *)
(* every value table into ./cache/<table>/<day>.csv and then deletes them  *)
(* from the table; Launcher.java decides when, by comparing the day of the *)
(* month with jmore once every CheckEvery rounds of its polling loop.      *)
(*                                                                         *)
(* One Java thread does everything, so the steps below are separated only  *)
(* where something else can come in between: the clock, a failing disk or  *)
(* database, the end of the process.  What the polling loop scrapes is     *)
(* modelled in Collector.tla; here it only adds rows (addVal).             *)
(***************************************************************************)
EXTENDS Integers, Sequences, FiniteSets

CONSTANTS
  Tables,      \* names of the value tables (cfd, futures, actionsvals, ...)
  SITES,       \* the value table of each scraped site; several may share one
  Ids,         \* identifiers present in the reference tables
  NoId,        \* the NULL identifier of a value whose name is not referenced
  DayOfMonth,  \* calendar: day number -> day of the month
  MaxDay,      \* bound: last day of the clock
  MaxRows,     \* bound: number of values recorded
  MaxCrash,    \* bound: number of times the process dies
  CheckEvery   \* rounds of loopVals between two calls of verifDate (1000)

ASSUME ConstantsAssumption ==
  /\ SITES \in Seq(Tables)
  /\ Len(SITES) > 0
  /\ NoId \notin Ids
  /\ MaxRows \in Nat /\ MaxCrash \in Nat
  /\ MaxDay \in Nat \ {0} /\ CheckEvery \in Nat \ {0}

\* All the program needs of the calendar: two consecutive days never have
\* the same day of the month.
ASSUME CalendarAssumption ==
  /\ DayOfMonth \in [0..MaxDay + 1 -> 1..31]
  /\ \A d \in 0..MaxDay : DayOfMonth[d] # DayOfMonth[d + 1]

Days == 0..MaxDay
Row  == [tbl : Tables, id : Ids \cup {NoId}, day : Days, seq : 0..MaxRows]
File == Tables \X Days

VARIABLES
  today,       \* the clock of the machine, in days; day 0 is before the start
  live,        \* rows of the value tables of the database
  cached,      \* files that exist under ./cache
  disk,        \* rows with a complete line in a file
  half,        \* rows of which only the beginning of the line is in a file
  pc,          \* where the thread of Launcher is
  st,          \* init obtained a Statement
  nb,          \* rounds of loopVals since the last call of verifDate
  jmore,       \* day of the month of the next archive, 0 before init sets it
  jour,        \* day read by the verifDate in progress, 0 when init archives
  hier,        \* the day a pass archives
  site,        \* position of the pass in SITES
  rs,          \* rows of the result set not written yet
  cpt,         \* rows taken from the result set
  buf,         \* rows written to fw and not flushed
  nextSeq,     \* number of values recorded so far
  crashes      \* number of times the process died

\* History, read by no action: what the properties refer to.
VARIABLES
  visited,     \* days some pass computed as hier
  spoilt,      \* files whose archiving was cut short by an error or a crash
  late         \* midnight passed while the archive of the day was not over

store   == <<live, cached, disk, half>>
pass    == <<hier, site, rs, cpt, buf>>
history == <<visited, spoilt, late>>
vars    == <<today, store, pc, st, nb, jmore, jour, pass, nextSeq, crashes,
             history>>

type    == SITES[site]
Current == <<type, hier>>
RowsOf(S, f) == {r \in S : r.tbl = f[1] /\ r.day = f[2]}
Identified(S) == {r \in S : r.id # NoId}

\* Files the thread is between opening and being done with.
InHand == IF pc \in {"write", "purge", "delete"} THEN {Current} ELSE {}

Init ==
  /\ today = 1
  /\ live = {} /\ cached = {} /\ disk = {} /\ half = {}
  /\ pc = "down" /\ st = FALSE
  /\ nb = 0 /\ jmore = 0 /\ jour = 0
  /\ hier = 0 /\ site = 1 /\ rs = {} /\ cpt = 0 /\ buf = {}
  /\ nextSeq = 0 /\ crashes = 0
  /\ visited = {} /\ spoilt = {} /\ late = FALSE

-----------------------------------------------------------------------------
(* Launcher: init, the polling loop, verifDate.                            *)

\* init connects to the database and archives, or carries on without it.
Connect ==
  /\ pc = "down"
  /\ \/ st' = TRUE  /\ pc' = "run"
     \/ st' = FALSE /\ pc' = "arm"
  /\ UNCHANGED <<today, store, nb, jmore, jour, pass, nextSeq, crashes,
                 history>>

\* The last lines of init and of verifDate.  init reads the clock after the
\* pass, verifDate uses the calendar it read before the pass.
SetJmore ==
  /\ pc = "arm"
  /\ jmore' = DayOfMonth[(IF jour = 0 THEN today ELSE jour) + 1]
  /\ jour' = 0 /\ pc' = "idle"
  /\ UNCHANGED <<today, store, st, nb, pass, nextSeq, crashes, history>>

\* Indice.addVal inserts a value; the database dates it.  The identifier is
\* NULL when the name is in no reference table.
addVal ==
  /\ pc = "idle" /\ st
  /\ nextSeq < MaxRows
  /\ \E t \in Tables, i \in Ids \cup {NoId} :
       live' = live \cup {[tbl |-> t, id |-> i, day |-> today, seq |-> nextSeq]}
  /\ nextSeq' = nextSeq + 1
  /\ UNCHANGED <<today, cached, disk, half, pc, st, nb, jmore, jour, pass,
                 crashes, history>>

\* The end of a round of the polling loop.
loopVals ==
  /\ pc = "idle"
  /\ nb' = (nb + 1) % CheckEvery
  /\ pc' = IF nb' = 0 THEN "verif" ELSE "idle"
  /\ UNCHANGED <<today, store, st, jmore, jour, pass, nextSeq, crashes,
                 history>>

verifDate ==
  /\ pc = "verif"
  /\ IF DayOfMonth[today] = jmore
       THEN jour' = today /\ pc' = "run"
       ELSE jour' = jour  /\ pc' = "idle"
  /\ UNCHANGED <<today, store, st, nb, jmore, pass, nextSeq, crashes, history>>

-----------------------------------------------------------------------------
(* BDD: the constructor calls run, which calls write for every site.       *)

\* ojd and hier come from one reading of the clock: the pass is about the
\* day before the day on which run starts.
RunFromOjd ==
  /\ pc = "run"
  /\ hier' = today /\ site' = 1 /\ pc' = "query"
  /\ visited' = visited \cup {hier'}
  /\ UNCHANGED <<today, store, st, nb, jmore, jour, rs, cpt, buf, nextSeq,
                 crashes, spoilt, late>>

run ==
  /\ pc = "run"
  /\ hier' = today - 1 /\ site' = 1 /\ pc' = "query"
  /\ visited' = visited \cup {hier'}
  /\ UNCHANGED <<today, store, st, nb, jmore, jour, rs, cpt, buf, nextSeq,
                 crashes, spoilt, late>>

\* write returns: the next site, or the end of run.
EndWrite ==
  /\ rs' = {} /\ cpt' = 0 /\ buf' = {} /\ hier' = hier
  /\ IF site < Len(SITES)
       THEN site' = site + 1 /\ pc' = "query"
       ELSE site' = 1 /\ pc' = "arm"

\* An SQLException or an IOException is caught at the end of write.
Fail ==
  /\ EndWrite
  /\ spoilt' = spoilt \cup {Current}
  /\ UNCHANGED <<visited, late>>

\* The SELECT, joined with the reference table, and the test of the file.
SelectAlways ==
  /\ pc = "query" /\ st
  /\ rs' = Identified(RowsOf(live, Current)) /\ pc' = "open"
  /\ UNCHANGED <<hier, site, cpt, buf, history>>
  /\ UNCHANGED <<today, store, st, nb, jmore, jour, nextSeq, crashes>>

Select ==
  /\ pc = "query" /\ st
  /\ \/ Fail
     \/ /\ Current \in cached
        /\ EndWrite
        /\ UNCHANGED history
     \/ /\ Current \notin cached
        /\ rs' = Identified(RowsOf(live, Current)) /\ pc' = "open"
        /\ UNCHANGED <<hier, site, cpt, buf, history>>
  /\ UNCHANGED <<today, store, st, nb, jmore, jour, nextSeq, crashes>>

\* new FileWriter creates the file, or empties it if there is one.
Open ==
  /\ pc = "open"
  /\ \/ Fail /\ UNCHANGED store
     \/ /\ cached' = cached \cup {Current}
        /\ disk' = disk \ RowsOf(disk, Current)
        /\ half' = half \ RowsOf(half, Current)
        /\ pc' = "write"
        /\ UNCHANGED <<live, pass, history>>
  /\ UNCHANGED <<today, st, nb, jmore, jour, nextSeq, crashes>>

\* One turn of the loop over the result set.
WriteRow ==
  /\ pc = "write"
  /\ \E r \in rs : rs' = rs \ {r} /\ buf' = buf \cup {r}
  /\ cpt' = cpt + 1
  /\ UNCHANGED <<today, store, pc, st, nb, jmore, jour, hier, site, nextSeq,
                 crashes, history>>

\* What a flush leaves in the file: some complete lines and perhaps the
\* beginning of one more.  A line begun is completed before any other.
Flushed(S) ==
  \E H \in SUBSET (buf \ S) :
    /\ \A r, q \in H : r = q
    /\ half \cap buf \subseteq S \cup H
    /\ half \cap H # {} => S = {}
    /\ disk' = disk \cup S
    /\ half' = (half \ RowsOf(half, Current)) \cup H
    /\ UNCHANGED <<live, cached>>

\* The buffer of the FileWriter is full.
Flush ==
  /\ pc = "write"
  /\ \E S \in SUBSET buf : Flushed(S) /\ buf' = buf \ S
  /\ UNCHANGED <<today, pc, st, nb, jmore, jour, hier, site, rs, cpt, nextSeq,
                 crashes, history>>

\* rs.next or fw.write throws; fw is never closed, its buffer is lost.
WriteFailIgnored ==
  /\ pc = "write" /\ pc' = "purge"
  /\ rs' = {} /\ buf' = {}
  /\ UNCHANGED <<today, store, st, nb, jmore, jour, hier, site, cpt, nextSeq, crashes, history>>

WriteFail ==
  /\ pc = "write"
  /\ Fail
  /\ UNCHANGED <<today, store, st, nb, jmore, jour, nextSeq, crashes>>

\* fw.close writes what is left of the buffer, or throws part way.
CloseWithoutFlush ==
  /\ pc = "write" /\ rs = {}
  /\ buf' = {} /\ pc' = "purge"
  /\ UNCHANGED <<store, hier, site, rs, cpt, history>>
  /\ UNCHANGED <<today, st, nb, jmore, jour, nextSeq, crashes>>

Close ==
  /\ pc = "write" /\ rs = {}
  /\ \/ /\ Flushed(buf)
        /\ buf' = {} /\ pc' = "purge"
        /\ UNCHANGED <<hier, site, rs, cpt, history>>
     \/ \E S \in SUBSET buf : Flushed(S) /\ Fail
  /\ UNCHANGED <<today, st, nb, jmore, jour, nextSeq, crashes>>

\* A file without values is removed; tmpDir.delete may return false.
DeleteEmptyFile ==
  /\ pc = "purge" /\ pc' = "delete"
  /\ \/ /\ cpt < 1
        /\ cached' = cached \ {Current}
        /\ disk' = disk \ RowsOf(disk, Current)
        /\ half' = half \ RowsOf(half, Current)
        /\ UNCHANGED live
     \/ UNCHANGED store
  /\ UNCHANGED <<today, st, nb, jmore, jour, pass, nextSeq, crashes, history>>

\* The DELETE has no join: rows without identifier go too.  When it fails,
\* it may have been executed and only its answer lost.
DeleteForgotten ==
  /\ pc = "delete"
  /\ EndWrite
  /\ UNCHANGED <<today, store, st, nb, jmore, jour, nextSeq, crashes, history>>

DeleteRows ==
  /\ pc = "delete"
  /\ \/ /\ live' = live \ RowsOf(live, Current)
        /\ EndWrite
        /\ UNCHANGED history
     \/ /\ live' \in {live, live \ RowsOf(live, Current)}
        /\ Fail
  /\ UNCHANGED <<today, cached, disk, half, st, nb, jmore, jour, nextSeq,
                 crashes>>

-----------------------------------------------------------------------------
(* The environment: the end of the process and the clock.                  *)

Die ==
  /\ pc' = "down" /\ st' = FALSE
  /\ nb' = 0 /\ jmore' = 0 /\ jour' = 0
  /\ hier' = 0 /\ site' = 1 /\ rs' = {} /\ cpt' = 0 /\ buf' = {}
  /\ spoilt' = spoilt \cup InHand
  /\ UNCHANGED <<today, store, nextSeq, visited, late>>

\* A pass started by verifDate when init had no Statement: the
\* NullPointerException of write is caught nowhere and ends the program.
NullStatement ==
  /\ pc = "query" /\ ~st
  /\ Die
  /\ UNCHANGED crashes

Crash ==
  /\ pc # "down"
  /\ crashes < MaxCrash
  /\ crashes' = crashes + 1
  /\ Die

\* The archive of the day is over: jmore already waits for another day.
OnTime == st /\ pc = "idle" /\ jmore # DayOfMonth[today]

Midnight ==
  /\ today < MaxDay
  /\ today' = today + 1
  /\ late' = (late \/ ~OnTime)
  /\ UNCHANGED <<store, pc, st, nb, jmore, jour, pass, nextSeq, crashes,
                 visited, spoilt>>

\* The steps the running thread takes by itself.
Thread ==
  \/ SetJmore \/ loopVals \/ verifDate
  \/ run \/ Select \/ Open \/ WriteRow \/ WriteFail \/ Close
  \/ DeleteEmptyFile \/ DeleteRows \/ NullStatement

Next ==
  \/ Thread
  \/ Connect \/ addVal \/ Flush \/ Crash \/ Midnight

Spec == Init /\ [][Next]_vars

\* The loop of Launcher never waits for anything that may not come: every
\* request has a timeout.  Nothing restarts a dead process.
FairSpec == Spec /\ WF_vars(Thread)

-----------------------------------------------------------------------------
(* Properties.                                                             *)

\* Every variable keeps its type; in particular hier is a day of the
\* calendar whenever run computes it (BDD.run, c.set(..., DAY_OF_MONTH - 1)).
TypeOK ==
  /\ today \in 1..MaxDay
  /\ live \in SUBSET Row /\ disk \in SUBSET Row /\ half \in SUBSET Row
  /\ cached \in SUBSET File /\ spoilt \in SUBSET File
  /\ pc \in {"down", "arm", "idle", "verif", "run", "query", "open", "write",
             "purge", "delete"}
  /\ st \in BOOLEAN /\ late \in BOOLEAN
  /\ nb \in 0..CheckEvery - 1
  /\ jmore \in 0..31 /\ jour \in 0..today
  /\ hier \in Days /\ site \in 1..Len(SITES)
  /\ rs \in SUBSET Row /\ buf \in SUBSET Row
  /\ cpt \in Nat /\ nextSeq \in 0..MaxRows /\ crashes \in 0..MaxCrash
  /\ visited \in SUBSET Days

\* The ledger that the tables and the files amount to.
L == INSTANCE Ledger WITH Row    <- Row,
                          open   <- Identified(live),
                          sealed <- disk

\* The archive keeps its promise: a value with an identifier leaves its table
\* only when its line is complete in a file, and no complete line is ever lost
\* (BDD.write closes the file before the DELETE and never reopens a file).
LedgerSpec == L!LSpec

\* A value is both in its table and in a file only while BDD.write has that
\* file in hand, or after an error or a crash interrupted it there: otherwise
\* a reader that adds files and table counts no value twice.
OverlapExplained ==
  \A r \in live \cap disk : <<r.tbl, r.day>> \in spoilt \cup InHand

\* A line cut by a crash or an error of fw never is the only copy of its
\* value: the row is still in the table (BDD.write skips the DELETE).
TornKept == half \subseteq live

\* A day is skipped only if midnight passed before the archive of the day was
\* over (or init had no database): jmore never runs ahead of the clock or lags
\* behind it by itself (Launcher.init, verifDate).
NoDayMissed == late \/ 0..today - 2 \subseteq visited

\* A step leaves the file and the rows of its day alone.
Frozen(f) ==
  /\ f \in cached'
  /\ RowsOf(disk', f) = RowsOf(disk, f)
  /\ RowsOf(half', f) = RowsOf(half, f)
  /\ RowsOf(live', f) = RowsOf(live, f)

\* Once a file exists and no pass has it in hand, it never changes again, and
\* neither do the rows of its day in the table: an interrupted archive is not
\* resumed, not repaired and not emptied (BDD.write, LE FICHIER EXISTE DEJA).
ExistingFileFreezesItsDay == [][\A f \in cached \ InHand : Frozen(f)]_vars

\* Yesterday's rows leave the table, unless an error interrupts the pass, the
\* archive is overtaken by the next midnight, or the process is stopped or has
\* no database (Launcher.loopVals calls verifDate again and again).
YesterdayLeaves ==
  \A t \in Tables, d \in Days :
    (d = today - 1 /\ RowsOf(live, <<t, d>>) # {})
      ~> (RowsOf(live, <<t, d>>) = {} \/ <<t, d>> \in spoilt \/ late \/ ~st)

=============================================================================

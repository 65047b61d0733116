------------------------------- MODULE Reader -------------------------------
(***************************************************************************)
(* The back-end (com.tempo.test, IndiceDaoImpl) reading the values of one  *)
(* identifier while the collector's archive moves them from the database   *)
(* to the files: Archiver.tla composed with one HTTP request.  Requests    *)
(* share no state, so one at a time is enough.                             *)
(*                                                                         *)
(* The numbers of values stay under the limit of 2000 here, so that        *)
(* nothing is sampled; Sampling.tla is about the sampling.                 *)
(***************************************************************************)
EXTENDS Archiver

CONSTANT Month     \* calendar: day number -> month

ASSUME MonthAssumption == Month \in [0..MaxDay -> Nat]

VARIABLES
  headed,      \* cut lines that go beyond the identifier and its separator
  rq,          \* the next step of the request, none or done
  rtbl, rid,   \* its parameters type and ID
  rdays,       \* days whose files the command names
  rmonth,      \* days of the month that getIndicesTotal read from the calendar
  fileRows,    \* values read from complete lines of the files
  torn,        \* values read from lines that are cut
  dbRows,      \* values read from the table
  totaux       \* counts of getIndicesTotal: all, month, day

\* History, read by no action.
VARIABLES
  known,       \* rows the request could return when it started
  gone,        \* those that left the table after the files were read
  skipped,     \* the files could not be read
  came         \* rows that the table got since then

request == <<rq, rtbl, rid, rdays, rmonth, fileRows, torn, dbRows, totaux>>
rhistory == <<known, gone, skipped, came>>
rvars == <<vars, headed, request, rhistory>>

Mine(S) == {r \in S : r.tbl = rtbl /\ r.id = rid}
InFiles(S) == {r \in S : r.day \in rdays}

NoTotal == [all |-> 0, month |-> 0, day |-> 0]
ThisMonth == {d \in Days : Month[d] = Month[today]}

Blank ==
  /\ rtbl' = CHOOSE t \in Tables : TRUE
  /\ rid' = NoId /\ rdays' = {} /\ rmonth' = {}
  /\ fileRows' = {} /\ torn' = {} /\ dbRows' = {} /\ totaux' = NoTotal
  /\ known' = {} /\ gone' = {} /\ skipped' = FALSE /\ came' = {}

RInit ==
  /\ Init /\ headed = {}
  /\ rq = "none" /\ rtbl = (CHOOSE t \in Tables : TRUE)
  /\ rid = NoId /\ rdays = {} /\ rmonth = {}
  /\ fileRows = {} /\ torn = {} /\ dbRows = {} /\ totaux = NoTotal
  /\ known = {} /\ gone = {} /\ skipped = FALSE /\ came = {}

Start(next, t, i, D, M) ==
  /\ rq = "none" /\ rq' = next
  /\ rtbl' = t /\ rid' = i /\ rdays' = D /\ rmonth' = M
  /\ known' = {r \in live \cup disk : r.tbl = t /\ r.id = i /\ (r \in live \/ r.day \in D)}
  /\ UNCHANGED <<vars, headed, fileRows, torn, dbRows, totaux, gone, skipped, came>>

\* The request ends; an exception that nothing catches is an error 500.
End ==
  /\ rq' = "none" /\ Blank
  /\ UNCHANGED <<vars, headed>>

-----------------------------------------------------------------------------
(* getIndicesVals                                                          *)

\* TIME names the files: all of them, those of the year or month, or none.
getIndicesVals ==
  \E t \in Tables, i \in Ids :
    \/ Start("count", t, i, {}, {})
    \/ \E D \in {Days, ThisMonth} : Start("param", t, i, D, {})

\* getParam counts the lines, getIndicesComm reads them.  What a command that
\* cannot run throws is caught, and the answer goes on without the files; no
\* line at all from the counting command is an error 500.
FilesFail ==
  /\ rq' = "count" /\ skipped' = TRUE
  /\ UNCHANGED <<vars, headed, rtbl, rid, rdays, rmonth, fileRows, torn, dbRows, totaux, known, gone, came>>

getParam ==
  /\ rq = "param"
  /\ \/ FilesFail
     \/ End
     \/ /\ rq' = "sed"
        /\ UNCHANGED <<vars, headed, rtbl, rid, rdays, rmonth, fileRows, torn, dbRows, totaux, rhistory>>

\* A cut line that is matched yields a value with the beginning of a date, or
\* cannot be parsed: an error 500.
getIndicesComm ==
  /\ rq = "sed"
  /\ \/ FilesFail
     \/ /\ rq' = "count"
        /\ fileRows' = InFiles(Mine(disk))
        /\ torn' = InFiles(Mine(headed))
        /\ UNCHANGED <<vars, headed, rtbl, rid, rdays, rmonth, dbRows, totaux, rhistory>>
     \/ InFiles(Mine(headed)) # {} /\ End

\* SELECT COUNT, then the SELECT of the rows.
getModulo ==
  /\ rq = "count"
  /\ \/ End
     \/ /\ rq' = "select"
        /\ UNCHANGED <<vars, headed, rtbl, rid, rdays, rmonth, fileRows, torn, dbRows, totaux, rhistory>>

SelectValsOfToday ==
  /\ rq = "select" /\ rq' = "done"
  /\ dbRows' = {r \in Mine(live) : r.day = today}
  /\ UNCHANGED <<vars, headed, rtbl, rid, rdays, rmonth, fileRows, torn, totaux, rhistory>>

SelectVals ==
  /\ rq = "select"
  /\ \/ End
     \/ /\ rq' = "done"
        /\ dbRows' = Mine(live)
        /\ UNCHANGED <<vars, headed, rtbl, rid, rdays, rmonth, fileRows, torn, totaux, rhistory>>

-----------------------------------------------------------------------------
(* getIndicesTotal: the counts of the files, one after the other, then the *)
(* count of the table.  The calendar is read once, before the first; the   *)
(* count of the year is like the one of the month.                         *)

getIndicesTotal ==
  \E t \in Tables, i \in Ids : Start("all", t, i, Days, ThisMonth)

\* sed prints the lines that begin with the identifier, cut ones included.
Lines(D) == Cardinality({r \in Mine(disk \cup headed) : r.day \in D})

CountAll ==
  /\ rq = "all" /\ rq' = "month"
  /\ totaux' = [totaux EXCEPT !.all = Lines(Days)]
  /\ UNCHANGED <<vars, headed, rtbl, rid, rdays, rmonth, fileRows, torn, dbRows, rhistory>>

CountMonthOfNow ==
  /\ rq = "month" /\ rq' = "day"
  /\ totaux' = [totaux EXCEPT !.month = Lines(ThisMonth)]
  /\ UNCHANGED <<vars, headed, rtbl, rid, rdays, rmonth, fileRows, torn, dbRows, rhistory>>

CountMonth ==
  /\ rq = "month" /\ rq' = "day"
  /\ totaux' = [totaux EXCEPT !.month = Lines(rmonth)]
  /\ UNCHANGED <<vars, headed, rtbl, rid, rdays, rmonth, fileRows, torn, dbRows, rhistory>>

\* Without the files the list has the count of the table only.
CountsFail ==
  /\ rq \in {"all", "month"} /\ rq' = "day"
  /\ skipped' = TRUE
  /\ totaux' = NoTotal
  /\ UNCHANGED <<vars, headed, rtbl, rid, rdays, rmonth, fileRows, torn, dbRows, known, gone, came>>

CountDayOfToday ==
  /\ rq = "day" /\ rq' = "total"
  /\ totaux' = [totaux EXCEPT !.day = Cardinality({r \in Mine(live) : r.day = today})]
  /\ UNCHANGED <<vars, headed, rtbl, rid, rdays, rmonth, fileRows, torn, dbRows, rhistory>>

CountDay ==
  /\ rq = "day"
  /\ \/ End
     \/ /\ rq' = "total"
        /\ totaux' = [totaux EXCEPT !.day = Cardinality(Mine(live))]
        /\ UNCHANGED <<vars, headed, rtbl, rid, rdays, rmonth, fileRows, torn, dbRows, rhistory>>

-----------------------------------------------------------------------------

Respond ==
  /\ rq \in {"done", "total"}
  /\ End

\* Steps of the collector, and what the request's history keeps of them.
Collect ==
  /\ Next
  /\ \E H \in SUBSET (half' \ half) : headed' = (headed \cap half') \cup H
  /\ gone' = IF rq = "none" THEN gone
             ELSE gone \cup {r \in Mine(live \ live') :
                               rq \notin {"param", "sed", "all"} \/ r.day \notin rdays}
  /\ came' = IF rq = "none" THEN came ELSE came \cup Mine(live' \ live)
  /\ UNCHANGED <<request, known, skipped>>

RNext ==
  \/ Collect
  \/ getIndicesVals \/ getParam \/ getIndicesComm \/ getModulo \/ SelectVals
  \/ getIndicesTotal \/ CountAll \/ CountMonth \/ CountsFail \/ CountDay
  \/ Respond

RSpec == RInit /\ [][RNext]_rvars

-----------------------------------------------------------------------------
(* Properties.                                                             *)

\* A value that was stored when the request came is in the answer, unless the
\* archive deleted it from the table after the files were read, or the files
\* could not be read (IndiceDaoImpl.getIndicesVals: files first, then table).
MissingExplained ==
  rq = "done" /\ ~skipped => known \subseteq fileRows \cup dbRows \cup gone

\* The answer has a value twice only if the archive of its day was interrupted
\* or is being written when the table is read (getIndicesVals appends the rows
\* of the table to those of the files).
DoubledExplained ==
  [][rq = "select" /\ rq' = "done" =>
       \A r \in fileRows \cap dbRows' : <<r.tbl, r.day>> \in spoilt \cup InHand]_rvars

\* A value read from a line that is cut comes with the true value, read from
\* the table, unless that was archived and deleted in between (getIndicesComm
\* does not check the number of cells).
TornReadTwice == rq = "done" => torn \subseteq dbRows \cup gone

\* Rows of the table that a file may have a line of: the archive of their day
\* was interrupted, or is going on.
Twice == {r \in Mine(live) : <<r.tbl, r.day>> \in spoilt \cup InHand}

\* The sums shown for all time and for the month count nothing that was not
\* stored when the request came or since, the latter nothing of a file outside
\* the month that was read from the calendar, and nothing twice, except rows
\* whose archive was interrupted or is going on when the table is counted
\* (getIndicesTotal counts the files by several commands, then the table).
TotalsNotInflated ==
  [][rq = "day" /\ rq' = "total" =>
       LET stored == known \cup came
           ofMonth == {r \in stored : r.day \in rmonth \/ r \in live}
       IN  /\ totaux'.all + totaux'.day <= Cardinality(stored) + Cardinality(Twice)
           /\ totaux'.month + totaux'.day <= Cardinality(ofMonth) + Cardinality(Twice)]_rvars

\* The sum that is shown as all time values counts every value stored when the
\* request came, except those deleted from the table after the files were
\* counted (getIndicesTotal, added up in IndicesComponent.getTotal).
TotalCounts ==
  rq = "total" /\ ~skipped =>
    totaux.all + totaux.day >= Cardinality(known \ gone)

=============================================================================

------------------------------- MODULE Totals -------------------------------
(***************************************************************************)
(* The totals that the page shows beside the chart.  getTotal and          *)
(* getIndiceVals are answered at two moments, and getNewVals adds what a   *)
(* poll brings to both the chart and the totals: this module adds to       *)
(* Front.tla the history needed to say when the two still agree.           *)
(***************************************************************************)
EXTENDS Front

\* History: values moved between two answers that should agree.
VARIABLE torn

tvars == <<vars, torn>>

TInit == Init /\ torn = FALSE

Moves == Awaited({"total", "vals"})

\* A value is stored while totals or values are awaited.
Stores ==
  /\ addVal
  /\ torn' = (torn \/ Moves)

\* The files could not be read, or were not asked for.
ServesTable(k) ==
  /\ ServeTable(k)
  /\ torn' = (torn \/ ValsOf(files, net[k].id) # <<>>)

\* A poll is applied while totals or values are awaited.
Polls(k) ==
  /\ OnNew(k)
  /\ torn' = (torn \/ (Moves /\ net[k].ans # <<>>))

\* changeTime asks for the chart again and not for the totals, and polls have
\* not brought all the values yet, or skipped some, or brought once more what
\* MOD had left out after the last value shown.
AsksAgain(t) ==
  /\ changeTime(t)
  /\ torn' = (torn \/ chartOf[1] # indiceSelected
                   \/ Len(Stored(indiceSelected)) # Len(chartDatasets[1]) + left)

TNext ==
  \/ Stores
  \/ \E k \in 1..MaxNet : ServesTable(k) \/ Polls(k)
  \/ \E t \in {"AllTime", "Today"} : AsksAgain(t)
  \/ /\ \/ \E k \in 1..MaxNet : \/ ServeList(k) \/ ServeTotal(k) \/ ServeBoth(k) \/ ServeNew(k)
                                \/ OnList(k) \/ OnTotal(k) \/ OnVals(k) \/ OnError(k)
        \/ Archive \/ Tick
        \/ \E i \in Indices : clickIndice(i)
        \/ ngOnDestroy
     /\ UNCHANGED torn

TSpec == TInit /\ [][TNext]_tvars

-----------------------------------------------------------------------------

\* Once no answer is awaited, the total "All time" on the page is the number of
\* values that answers and polls gave to the chart, and those that thinning out
\* left out of it, which takes more than the limit: however stale or doubled
\* the polls were, unless a request failed, a value came or a poll was applied
\* between the two answers, or changeTime asked for the chart alone before
\* polls had brought everything (getTotal, getIndiceVals, getNewVals).
TotalAgrees ==
  /\ chartDatasets # <<>> /\ numbers # <<>> /\ ~Awaited({"total", "vals"})
  /\ chartOf = <<numbersOf, "AllTime">>
  /\ ~failed /\ ~torn
  => \/ numbers[2] = NaN
     \/ /\ numbers[2] = Len(chartDatasets[1]) + left
        /\ left # 0 => numbers[2] > LIMIT

=============================================================================

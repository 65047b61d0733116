------------------------------- MODULE Front -------------------------------
(***************************************************************************)
(* The page of the front-end: IndicesComponent asks the back-end for the   *)
(* list of indices, for the values and the totals of the selected one, and *)
(* every five seconds for the values that came since the last one shown.   *)
(* Each answer is applied when it arrives, in any order, and also after    *)
(* the component was destroyed, since nothing is unsubscribed.             *)
(*                                                                         *)
(* A request is answered in one step from what is stored at that moment    *)
(* (Reader.tla and Sampling.tla look inside), and applied in another.  A   *)
(* long series is thinned out: the rows of the table exactly as MOD does   *)
(* it, the lines of the files in any way that sed may, which depends on    *)
(* the lines of the other identifiers.                                     *)
(***************************************************************************)
EXTENDS Integers, Sequences, Functions

CONSTANTS
  Indices,    \* the identifiers
  Quoted,     \* those that the collector stores values of
  NoIndice,   \* undefined
  Listings,   \* the lists of identifiers that the back-end may return
  LIMIT,      \* the limit of getModulo and getParam (2000)
  MaxVals,    \* bound: values that the collector stores
  MaxClicks,  \* bound: clicks of the user
  MaxNet      \* bound: requests in flight

\* parseInt of a total that is missing.
NaN == -1
PlusForgotten(x, n) == x
Plus(x, n) == IF x = NaN THEN NaN ELSE x + n

ASSUME FrontAssumption ==
  /\ Quoted \subseteq Indices /\ NoIndice \notin Indices /\ Listings \subseteq Seq(Indices)
  /\ LIMIT \in Nat \ {0} /\ MaxVals \in Nat /\ MaxClicks \in Nat /\ MaxNet \in Nat \ {0}

VARIABLES
  \* the stores: sequences of values [id, date, n], in the order of their dates
  table, files,
  \* the requests in flight, in the order in which they were sent
  net,
  \* the component; chartDatasets is empty or holds one chart
  indiceSelected, timeSelected, chartDatasets, maxDate, numbers,
  timing,     \* the last handle that setInterval returned, 0 if none
  timers,     \* the intervals that are running
  alive,      \* the component is on the page
  clicks,
  \* history
  chartOf,    \* the indice and the time that the chart was asked for
  loaded,     \* the number of values that getIndiceVals gave to the chart
  left,       \* the number of values that this answer was thinned out by
  numbersOf,  \* the indice that the totals were asked for
  reordered,  \* an answer overtook one of the same kind
  failed,     \* a request failed
  mixed,      \* a poll was applied to another chart than the one it extends
  pending     \* values were awaited when the component was destroyed

stores == <<table, files>>
chart == <<chartDatasets, maxDate, chartOf, loaded, left, mixed>>
intervals == <<timing, timers>>
vars == <<stores, net, indiceSelected, timeSelected, chart, numbers, numbersOf,
          intervals, alive, clicks, reordered, failed, pending>>

Last(s) == s[Len(s)]
RemoveAt(s, k) == SubSeq(s, 1, k - 1) \o SubSeq(s, k + 1, Len(s))

\* The elements of s at the positions of I, in their order.
Selected(s, I) ==
  LET upTo[n \in 0..Len(s)] ==
        IF n = 0 THEN <<>>
        ELSE IF n \in I THEN Append(upTo[n - 1], s[n]) ELSE upTo[n - 1]
  IN  upTo
Select(s, I) == Selected(s, I)[Len(s)]

ValsOf(s, id) == Select(s, {i \in DOMAIN s : s[i].id = id})
Stored(id) == ValsOf(files \o table, id)
Awaited(kinds) == \E k \in DOMAIN net : net[k].kind \in kinds

Request(kind, id, time, date) ==
  [kind |-> kind, id |-> id, time |-> time, date |-> date, done |-> FALSE, ans |-> <<>>,
   out |-> 0]   \* history: values that are left out of the answer
getTotal(id) == Request("total", id, "none", 0)
getIndiceVals(id, time) == Request("vals", id, time, 0)
LoadWithoutTotal(id) == <<getIndiceVals(id, timeSelected)>>
Load(id) == <<getTotal(id), getIndiceVals(id, timeSelected)>>
getNewVals == Request("new", indiceSelected, "none", maxDate)

\* ngOnInit sends the first request.
Init ==
  /\ table = <<>> /\ files = <<>>
  /\ net = <<Request("list", NoIndice, "none", 0)>>
  /\ indiceSelected = NoIndice /\ timeSelected = "AllTime"
  /\ chartDatasets = <<>> /\ maxDate = 0 /\ numbers = <<>>
  /\ timing = 0 /\ timers = {} /\ alive = TRUE /\ clicks = 0
  /\ chartOf = <<NoIndice, "none">> /\ loaded = 0 /\ left = 0 /\ numbersOf = NoIndice
  /\ reordered = FALSE /\ failed = FALSE /\ mixed = FALSE
  /\ pending = FALSE

-----------------------------------------------------------------------------
(* The stores.                                                             *)

\* The collector stores a value, in the second of the last one or later.
addVal ==
  /\ Len(table) + Len(files) < MaxVals
  /\ \E id \in Quoted, later \in 0..1 :
       LET all == files \o table
           date == IF all = <<>> THEN 1 ELSE Last(all).date + later
       IN  table' = Append(table, [id |-> id, date |-> date, n |-> Len(all) + 1])
  /\ UNCHANGED <<files, net, indiceSelected, timeSelected, chart, numbers, numbersOf,
                 intervals, alive, clicks, reordered, failed, pending>>

\* The archive moves the first rows to the files.
Archive ==
  /\ \E k \in 1..Len(table) :
       /\ files' = files \o SubSeq(table, 1, k)
       /\ table' = SubSeq(table, k + 1, Len(table))
  /\ UNCHANGED <<net, indiceSelected, timeSelected, chart, numbers, numbersOf, intervals,
                 alive, clicks, reordered, failed, pending>>

-----------------------------------------------------------------------------
(* The back-end answers.                                                   *)

AnswerPart(k, ans, out) ==
  /\ net' = [net EXCEPT ![k].done = TRUE, ![k].ans = ans, ![k].out = out]
  /\ UNCHANGED <<stores, indiceSelected, timeSelected, chart, numbers, numbersOf, intervals,
                 alive, clicks, reordered, failed, pending>>

Answer(k, ans) == AnswerPart(k, ans, 0)

Asked(k, kind) == k \in DOMAIN net /\ net[k].kind = kind /\ ~net[k].done

ServeList(k) ==
  /\ Asked(k, "list")
  /\ \E l \in Listings : Answer(k, l)

\* The counts of the table and of all files; only the first when the commands
\* on the files fail, which leaves the front-end with totals it cannot parse.
ServeTotal(k) ==
  /\ Asked(k, "total")
  /\ LET today == Len(ValsOf(table, net[k].id))
         all == Len(Stored(net[k].id))
     IN  Answer(k, <<today, all>>) \/ Answer(k, <<NaN, NaN>>)

\* getModulo, and getParam's number of commands: the first divisor that brings
\* n values down to the limit.
modulo(n) ==
  CHOOSE m \in 1..n + 1 : n \div m <= LIMIT /\ \A l \in 1..m - 1 : n \div l > LIMIT

\* MOD(LIGNES.NUM, modulo) = 0
EveryModulo(s) == Select(s, {i \in DOMAIN s : i % modulo(Len(s)) = 0})

\* {p;n;n;...}: sed prints a line and skips others, which may be of other
\* identifiers, until the next one; it skips none below the limit.
Thins(I, s) ==
  \A i \in DOMAIN s : \E j \in I : i - modulo(Len(s)) < j /\ j <= i
Thinned(s) == {Select(s, I) : I \in {J \in SUBSET DOMAIN s : Thins(J, s)}}

\* The files and the table.
ServeBoth(k) ==
  /\ Asked(k, "vals") /\ net[k].time # "Today"
  /\ LET f == ValsOf(files, net[k].id)
         t == ValsOf(table, net[k].id)
     IN  \E p \in Thinned(f) :
           LET ans == p \o EveryModulo(t)
           IN  AnswerPart(k, ans, Len(f) + Len(t) - Len(ans))

\* Only the table: for today, or when the files cannot be read.
ServeTable(k) ==
  /\ Asked(k, "vals")
  /\ LET t == ValsOf(table, net[k].id)
         ans == EveryModulo(t)
     IN  AnswerPart(k, ans, Len(t) - Len(ans))

ServeVals(k) == ServeBoth(k) \/ ServeTable(k)

\* DATE > '...': the values of the table after the last one shown.
Since(id, date) == Select(table, {i \in DOMAIN table : table[i].id = id /\ table[i].date > date})
NewSinceOffByOne(req) == Since(req.id, req.date + 1)
NewSince(req) == Since(req.id, req.date)

ServeNew(k) ==
  /\ Asked(k, "new")
  /\ Answer(k, NewSince(net[k]))

-----------------------------------------------------------------------------
(* The component applies an answer.                                        *)

Overtakes(k) == \E j \in 1..k - 1 : net[j].kind = net[k].kind

Arrives(k, kind) == k \in DOMAIN net /\ net[k].kind = kind /\ net[k].done

\* The answer is taken from the network, and reqs are sent.
TakeAndSend(k, reqs) ==
  /\ net' = RemoveAt(net, k) \o reqs
  /\ Len(net') <= MaxNet

\* ngOnInit's callback; with no indice, reading its id throws.
OnList(k) ==
  /\ Arrives(k, "list")
  /\ LET l == net[k].ans
     IN  \/ /\ l # <<>> /\ indiceSelected' = l[1]
            /\ TakeAndSend(k, Load(l[1]))
         \/ /\ l = <<>>
            /\ TakeAndSend(k, <<>>) /\ UNCHANGED indiceSelected
  /\ UNCHANGED <<stores, timeSelected, chart, numbers, numbersOf, intervals, alive, clicks,
                 reordered, failed, pending>>

OnTotal(k) ==
  /\ Arrives(k, "total")
  /\ numbers' = net[k].ans /\ numbersOf' = net[k].id
  /\ reordered' = (reordered \/ Overtakes(k))
  /\ TakeAndSend(k, <<>>)
  /\ UNCHANGED <<stores, indiceSelected, timeSelected, chart, intervals, alive, clicks,
                 failed, pending>>

\* startTiming: a new interval.
StartTimingUnkept(running) ==
  /\ timing' = timing
  /\ timers' = running \cup {timing + 1}

StartTiming(running) ==
  /\ timing' = timing + 1
  /\ timers' = running \cup {timing + 1}

\* getIndiceVals' callback.  On an empty answer getMax throws, before the test
\* of the length: the interval is cleared and none is started.
OnValsWith(k, running, last) ==
  /\ Arrives(k, "vals")
  /\ LET vals == net[k].ans
     IN  /\ chartDatasets' = <<vals>>
         /\ \/ /\ vals # <<>> /\ maxDate' = last
               /\ StartTiming(running)
            \/ /\ vals = <<>> /\ timers' = running
               /\ UNCHANGED <<maxDate, timing>>
  /\ chartOf' = <<net[k].id, net[k].time>> /\ mixed' = FALSE
  /\ loaded' = Len(net[k].ans) /\ left' = net[k].out
  /\ reordered' = (reordered \/ Overtakes(k))
  /\ TakeAndSend(k, <<>>)
  /\ UNCHANGED <<stores, indiceSelected, timeSelected, numbers, numbersOf, alive, clicks,
                 failed, pending>>

OnValsWithoutClear(k) == OnValsWith(k, timers, Last(net[k].ans).date)
OnValsAhead(k) == OnValsWith(k, timers \ {timing}, Last(net[k].ans).date + 1)

OnVals(k) == OnValsWith(k, timers \ {timing}, Last(net[k].ans).date)

\* getNewVals' callback; late says that the poll was for another chart, or for
\* an earlier state of this one.
OnNewWith(k, last) ==
  /\ Arrives(k, "new")
  /\ LET new == net[k].ans
         late == net[k].id # chartOf[1] \/ net[k].date # maxDate
     IN  \/ /\ new # <<>>
            /\ chartDatasets' = <<chartDatasets[1] \o new>>
            /\ maxDate' = last /\ mixed' = (mixed \/ late)
            /\ numbers' = [i \in DOMAIN numbers |-> Plus(numbers[i], Len(new))]
         \/ /\ new = <<>>
            /\ UNCHANGED <<chartDatasets, maxDate, mixed, numbers>>
  /\ TakeAndSend(k, <<>>)
  /\ UNCHANGED <<stores, indiceSelected, timeSelected, chartOf, loaded, left, numbersOf,
                 intervals, alive, clicks, reordered, failed, pending>>

OnNewWithoutMaxDate(k) == OnNewWith(k, maxDate)

OnNew(k) == OnNewWith(k, Last(net[k].ans).date)

\* The request fails; the error callback only logs.
OnError(k) ==
  /\ k \in DOMAIN net /\ ~net[k].done
  /\ TakeAndSend(k, <<>>) /\ failed' = TRUE
  /\ UNCHANGED <<stores, indiceSelected, timeSelected, chart, numbers, numbersOf, intervals,
                 alive, clicks, reordered, pending>>

-----------------------------------------------------------------------------
(* The timer and the user.                                                 *)

\* An interval fires and getNewVals polls, whether or not the last poll is
\* answered and the component is alive.
Tick ==
  /\ timers # {} /\ Len(net) < MaxNet
  /\ net' = Append(net, getNewVals)
  /\ UNCHANGED <<stores, indiceSelected, timeSelected, chart, numbers, numbersOf, intervals,
                 alive, clicks, reordered, failed, pending>>

Click(reqs) ==
  /\ alive /\ clicks < MaxClicks /\ clicks' = clicks + 1
  /\ net' = net \o reqs /\ Len(net') <= MaxNet
  /\ UNCHANGED <<stores, chart, numbers, numbersOf, intervals, alive, reordered, failed, pending>>

\* The list is on the page once its answer came.
clickIndice(indice) ==
  /\ indiceSelected # NoIndice
  /\ indiceSelected' = indice /\ UNCHANGED timeSelected
  /\ Click(Load(indice))

\* The template's *ngIf: it throws when there is a chart and no totals.
TemplateThrows == chartDatasets # <<>> /\ numbers = <<>>
Shown == chartDatasets # <<>> /\ numbers # <<>> /\ numbers[2] > 0

changeTime(time) ==
  /\ Shown /\ (time = "Today" => numbers[1] # 0)
  /\ timeSelected' = time /\ UNCHANGED indiceSelected
  /\ Click(<<getIndiceVals(indiceSelected, time)>>)

ngOnDestroyForgetful ==
  /\ alive /\ alive' = FALSE
  /\ pending' = Awaited({"list", "vals"})
  /\ UNCHANGED <<stores, net, indiceSelected, timeSelected, chart, numbers, numbersOf,
                 intervals, clicks, reordered, failed>>

ngOnDestroy ==
  /\ alive /\ alive' = FALSE
  /\ timers' = timers \ {timing} /\ UNCHANGED timing
  /\ pending' = Awaited({"list", "vals"})
  /\ UNCHANGED <<stores, net, indiceSelected, timeSelected, chart, numbers, numbersOf,
                 clicks, reordered, failed>>

-----------------------------------------------------------------------------

Serve(k) == ServeList(k) \/ ServeTotal(k) \/ ServeVals(k) \/ ServeNew(k)
Apply(k) == OnList(k) \/ OnTotal(k) \/ OnVals(k) \/ OnNew(k)

Next ==
  \/ addVal \/ Archive
  \/ \E k \in 1..MaxNet : Serve(k) \/ Apply(k) \/ OnError(k)
  \/ Tick
  \/ \E i \in Indices : clickIndice(i)
  \/ \E t \in {"AllTime", "Today"} : changeTime(t)
  \/ ngOnDestroy

Spec == Init /\ [][Next]_vars

\* The browser fires its intervals and every request ends with an answer or an
\* error; the oldest request leads the queue, so fairness for it is enough.
FairSpec ==
  /\ Spec
  /\ WF_vars(Serve(1) \/ OnError(1)) /\ WF_vars(Apply(1) \/ OnError(1))
  /\ WF_vars(Tick)

-----------------------------------------------------------------------------
(* Properties.                                                             *)

\* The component's variables: the totals are all there or none is, a poll is only
\* sent once there is a chart to extend, and intervals have the handles given out.
TypeOK ==
  /\ Len(net) <= MaxNet /\ clicks \in 0..MaxClicks
  /\ \A k \in DOMAIN net : net[k].kind \in {"list", "total", "vals", "new"}
  /\ indiceSelected \in Indices \cup {NoIndice}
  /\ timeSelected \in {"AllTime", "Today"}
  /\ Len(chartDatasets) \in 0..1 /\ Len(numbers) \in {0, 2}
  /\ Awaited({"new"}) => chartDatasets # <<>>
  /\ timing \in Nat /\ timers \subseteq 1..timing

\* However the answers arrive, at most one interval runs, and its handle is the
\* one that clearInterval will be given (getIndiceVals, startTiming).
OneTimer == timers \subseteq {timing}

\* After ngOnDestroy an interval runs only if the values or the list were
\* awaited when the component was destroyed.
LeakExplained == ~alive /\ timers # {} => pending

\* The chart is the one that was asked for last, and so are the totals, once
\* none is awaited, unless answers overtook each other or a request failed.
SelectionShown ==
  ~reordered /\ ~failed =>
    /\ indiceSelected # NoIndice /\ ~Awaited({"vals"}) =>
         chartOf = <<indiceSelected, timeSelected>>
    /\ indiceSelected # NoIndice /\ ~Awaited({"total"}) => numbersOf = indiceSelected

\* The chart shows values of one indice, each once and by date, unless a poll
\* sent for an earlier state of the chart was applied to it.
SeriesClean ==
  chartDatasets # <<>> /\ ~mixed =>
    LET c == chartDatasets[1]
    IN  \A i \in DOMAIN c :
          /\ c[i].id = chartOf[1]
          /\ \A j \in 1..i - 1 : c[j] # c[i] /\ c[j].date <= c[i].date

\* A value of the table that is missing inside the chart has the date of another
\* one that is shown: DATE > '...' skips only the values that come in the
\* second of the last one shown.  Or else it is older than the last value that
\* getIndiceVals brought, and MOD left values out: they were more than the limit.
GapExplained ==
  chartDatasets # <<>> /\ ~mixed =>
    LET c == chartDatasets[1]
    IN  \A v \in Range(ValsOf(table, chartOf[1])) \ Range(c) :
          (\E w \in Range(c) : w.date <= v.date) /\ v.date <= maxDate =>
            \/ \E w \in Range(c) : w.date = v.date
            \/ left # 0 /\ loaded + left > LIMIT /\ v.date < c[loaded].date

\* The template throws only while the totals are awaited, or after they failed.
TemplateThrowsExplained == TemplateThrows => failed \/ Awaited({"total"})

\* The page polls and the table has later values than the last one shown.
Behind ==
  timers # {} /\ \E v \in Range(table) : v.id = indiceSelected /\ v.date > maxDate

\* A page that polls is not behind the table for ever, unless requests fail again
\* and again (startTiming, getNewVals).
CatchesUp == []<>~Behind \/ []<><<\E k \in 1..MaxNet : OnError(k)>>_vars

=============================================================================

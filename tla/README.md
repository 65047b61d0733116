# Verification of the market-value collector, its archive and its viewer

This directory holds TLA+ models of the programs of this repository, the TLC
configurations that check them on small instances, and TLAPS proofs of what
matters most for every instance. `PROJECT.json` gives, for every definition,
the lines of code it models, and lists runs, mutants, hazards and theorems.

## The system

| Part | Source | What it does |
| --- | --- | --- |
| Collector | `Java/RecupIndices/src/Recup/Launcher.java`, `Indice.java` | One Java thread. Connects to MariaDB, registers the rows of six web listings (`recupIndices`), then polls the listings for ever (`loopVals`) and inserts each price that changed (`Indice.addVal`). |
| Archive | `Java/RecupIndices/src/Recup/BDD.java`, `Launcher.init`, `Launcher.verifDate` | At start, and when the day of the month reaches `jmore` (tested every 1000 rounds), writes yesterday's rows of each value table to `./cache/<table>/<day>.csv` and deletes them from the table. |
| Back end | `Java/test/src/main/java/com/tempo/test` | Spring Boot. Answers four GET endpoints from the archive files (through `sed`) and from the live tables. |
| Front end | `Front/src/app` | Angular. Shows a list of indices, the chart of one of them, and polls for new values every five seconds. |
| One-shot registration and older archive | `Java/RecupLocal/src/Recup` | Registers one listing and stops; its archive class is a `TimerTask` that nothing schedules. |
| First archive program | `Java/BDD/src/v01/Launcher.java` | Run by hand: archives yesterday of one table, only between the 2nd and the 25th. |
| Timer exercise | `Java/TradingTests/src/v1` | A toy. |
| Server headers | `MariaDB/include/mysql/server` | The C and C++ headers of the MariaDB distribution kept in the repository: mostly declarations, and a few data structures with their code. |
| Database, listings, disk, clock | outside the programs | Modelled from how the code uses them. |

The collector writes the tables, its archive moves rows from the tables to the
files, the back end reads files and tables while that goes on, and the page
asks the back end. Nothing locks anything: the tables and the files are the
only thing the programs share, and what can go wrong lies between two
statements, two commands or two answers. The header structures are a part of
their own: the programs meet them only through the server.

## Modules

| Module | Models | Runs |
| --- | --- | --- |
| `Ledger` | what the archive promises its readers | refined by `Archiver` |
| `Archiver` | `BDD.java`, and when `Launcher` calls it | `archiver_pass`, `archiver_rollover` |
| `Collector` | `recupIndices`, `loopVals`, `Indice.addVal` | `collector_shift` |
| `Reader` | `IndiceDaoImpl` reading beside the archive; extends `Archiver` | `reader` |
| `Sampling` | how long series are thinned out | `sampling` |
| `Front` | `IndicesComponent` and its template | `front_page` |
| `Totals` | the totals beside the chart; extends `Front` | `front_series` |
| `FirstArchive` | `BDD/src/v01/Launcher.java`, several runs at once; refines `Ledger` | `first_archive` |
| `Registrars` | `RecupLocal` registering beside the collector; extends `Collector` | `registrars` |
| `LifoBuffers` | the two buffers of `sql_lifo_buffer.h` on one memory | `lifo_buffers` |
| `LruCache` | what the cache of `hash_filo.h` promises | refined by `HashFilo` |
| `HashFilo` | `hash_filo` (`hash_filo.h`) | `hash_filo` |
| `TranxAllocator` | `Tranx_node_allocator` (`semisync_master.h`) | `tranx_allocator` |
| `MC…` | constants of the runs | |
| `ArchiveProofs` | theorems about `Archiver` and `Reader` | |
| `CollectorProofs` | theorems about `Collector` and `Registrars` | |
| `FrontProofs` | theorems about `Front` and `Totals` | |
| other `…Proofs` | theorems about the module of that name | |

A definition whose name continues that of the next one (`SelectAlways` before
`Select`, `SedOneTooFar` before `Sed`) is a mutant: a plausible mistake in the
code, used to show that a property would notice it. No specification uses it.

### `Archiver` and `Ledger`

One thread does everything, so its program counter `pc` has a value for each
point at which the clock, the disk, the database or the end of the process can
come in between: `run`, `query` (the SELECT and `exists`), `open`
(`new FileWriter`), `write` (the loop over the result set), `purge`
(`tmpDir.delete`), `delete` (the DELETE), `arm` (setting `jmore`), `idle` and
`verif` (the polling loop). `Fail` is the pair of catch blocks of `write`.

- The text of a file is reduced to the rows that have a complete line (`disk`)
  and those of which only the beginning is there (`half`). `Flushed` leaves any
  set of complete lines and the beginning of at most one more. The rows are
  taken in any order, a superset of the `ORDER BY`.
- The SELECT joins with the reference table, so it leaves out rows with a NULL
  identifier (`Identified`); the DELETE does not.
- A pass that `verifDate` starts without a `Statement` ends the program
  (`NullStatement`): the `NullPointerException` is caught nowhere. `Die` is the
  end of the process, and only tables and files survive it.
- `DayOfMonth` is any calendar in which consecutive days have different days
  of the month; that is all the code relies on.
- `spoilt`, `late` and `visited` are history: files whose pass was interrupted,
  midnight having passed before the archive of the day was over, and days that
  some pass was about.

`Ledger` has two sets, `open` and `sealed`, and three steps: record, seal a
copy of what is open, drop what is sealed. `LedgerSpec` instantiates it with
the identified rows of the tables and the complete lines of the files.

### `Collector`

`FetchListing`, `RegisterLine`, `EndListing` are `recupIndices`; `FetchPage`,
`ReadLine`, `EndPage` are `loopVals`. In each, an exception (a fetch, a cell
that cannot be read, an unknown key) ends the site. A site whose registration
fails adds no map, so that `indices` is shorter than `SITES` and map `x`
belongs to a later site: this shift is what `Provenance` is about.

- Names and countries are sequences of words, so `nom+pays` is a concatenation
  here too. `KeysAssumption` says that two lines with the same key have the
  same name; without it two indices would share an entry.
- A reference table and `PAYS` accept a name only once (the code relies on the
  INSERT failing for a known name, and swallows the error); any INSERT may also
  fail for another reason.
- `refErr`, `paysErr`, `shown`, `origin` are history.

### `Reader`

`Reader` extends `Archiver` with one request, whose program counter `rq` has a
value between any two commands or statements: counting and reading the files,
COUNT and SELECT on the table; or the counts of `getIndicesTotal`. Every step
of `Archiver` is a step here (`Collect`). Requests share no state and change
none, so one at a time covers several. `headed` are the cut lines long enough
to match `/^ID;.*/`. The month stands for the year as well. `rmonth` are the days of the month
that `getIndicesTotal` read from the calendar before its first count: midnight
may pass before it counts their files. `known`, `gone`, `skipped` and `came` are
history. The exceptions that the properties name are what the code leaves open:
the files are read before the archive writes, the table after it deletes.

### `Sampling`

The same request, by positions. sed sees a sequence of lines, of which those
with the identifier are TRUE; each cycle prints a matching line and each `n`
skips one line *whatever its identifier*, so sampling starts afresh in every
file. The rows of the table are numbered by date. Rows are added, and archived
into a new file, at any moment of the request. `LIMIT` is the 2000 of the code.

### `Front`

`net` is the sequence of requests in flight; the back end answers one
(`Serve…`), and later the component applies it (`On…`), in any order, also
after `ngOnDestroy`, since nothing unsubscribes. An interval has the handle
`timing` had when it was started; `timers` are those that run. Requests are
answered atomically here: `Reader` and `Sampling` look inside.

- With an empty answer, `getMax` throws before the length is tested: the chart
  is replaced, the interval cleared, `maxDate` kept, no interval started.
- When the commands on the files fail, `getIndicesTotal` answers with one
  number instead of four: the page has `NaN` totals (and hides the chart).
- Two of the four times are kept, and two of the four totals: today and all.
- Dates advance by 0 or 1, so that several values fall in one second.
- A series of more than `LIMIT` values is thinned out: the rows of the table
  exactly as `MOD` does (`EveryModulo`), the lines of the files in any way that
  follows each line left out by less than the divisor (`Thins`), which is what
  `NoStretchLost` of `Sampling` says of sed. Polls are never thinned out.
- `Quoted` are the indices that get values: a second index can be listed and
  clicked on without any.
- `chartOf`, `loaded`, `left`, `numbersOf`, `reordered`, `failed`, `mixed`,
  `pending` and `out` of a request are history; `left` is the number of values
  that thinning left out of the answer on the chart.
- Not here: a value twice in an answer, since an interrupted archive left it in
  file and table (`DoubledExplained` of `Reader`); and rows in another order than
  that of their dates, which the outer SELECT of `getIndicesVals` does not ask
  for and the server gives as it computes `ROW_NUMBER`.

### `FirstArchive`

The program of `BDD/src/v01` is started by hand, so any number of runs may be
going on. `pc` of a run has a value between any two of the clock, the SELECT,
`exists`, `new FileWriter`, the loop, `close` and the DELETE; `Die` is an
exception or the closing of the window at any of them. A line of a file has two
parts, each of which may be flushed alone. Two runs on the same day write the
same lines at the same places, so that each adds to what is there, and the one
that opens last empties the file first (`clash`). Until then every step is one
of `Ledger` (`LedgerUnlessClash`); one run alone implements it, as the later
archive does.

### `Registrars`

The main of `RecupLocal` beside the collector, on the listing of site `Local`.
Both compute identifiers in the INSERT itself (`MAX(ID)+1`), so that a statement is one step;
the two INSERTs of a line are two steps of each program. Two histories say what
a page must have left in the table when it ends: `page`, the page that the
collector polls, and `unsaved`, the entries whose price has no row, since it is
that of the registration or its INSERT failed.

### `Totals`

`Front` with the variable `torn`: something moved between the answer for the
totals and the answer for the chart, or `changeTime` asked for the chart only
when it did not hold every value. Without it, what polls add to both stays equal.

### Structures of the server headers

Pointers are modelled as they are. Each module keeps the abstract content as
history or maps to it, and compares it with what following the pointers, or
reading the bytes, gives.

- `LifoBuffers`: memory by bytes, a forward buffer below a backward one, space
  moving from the second to the first (`gap` is space in the caller's hands).
- `HashFilo`: the hash table is the set of its entries; an insertion may fail;
  the links of an entry are arbitrary before it is added. Every operation holds
  the mutex of the cache, so it is one step.
- `HashFilo` and `TranxAllocator` follow pointers with a recursive function over
  a fixed number of steps (`Steps`), one more than there are entries or blocks,
  and cut the result where the pointers end.
- `TranxAllocator`: a node is its block and its index. The search for the block
  of a node compares addresses up to and including the end of a block, where no
  node of another block can begin, since a block begins with its `next`.
  `allocate_node` moves on to the next block before it asks for memory, and
  `MallocFails` takes back what `moved` did, one node before the end (`upto`).

## What the runs check

Each passing run's properties are also tried on mutants of the code (one per
property, listed in `PROJECT.json`), and each of them is then violated.

| Run | Bounds | Distinct states | Properties |
| --- | --- | --- | --- |
| `archiver_pass` | two sites sharing a table, 3 days, 2 values, 1 crash | 246,272 | `LedgerSpec`, `OverlapExplained`, `TornKept`, `ExistingFileFreezesItsDay`, `YesterdayLeaves` |
| `archiver_rollover` | 6 days, months of 3 days, 2 crashes, no values | 1,325,172 | `NoDayMissed` |
| `collector_shift` | two sites with tables of their own and a common name | 1,321,516 | `Provenance`, `NullIdExplained` |
| `registrars` | two sites feeding one table with a common name, one of them also registered by `RecupLocal`, 2 prices | 2,127,278 | `IdsIdentify`, `CountryKnown`, `PageStored`, `RepeatExplained` |
| `reader` | 3 days over a change of month, 1 value, 1 crash | 2,526,260 | `MissingExplained`, `TornReadTwice`, `DoubledExplained`, `TotalsNotInflated`, `TotalCounts` |
| `sampling` | limit 2, two files of up to 5 lines of the identifier, 7 rows, 2 more | 1,661,517 | `LeastDivisor`, `AnswerBounded`, `NoStretchLost`, `PrintedBounded`, `Answers` |
| `front_page` | 2 indices, 2 values, limit 1, 1 click, 2 requests in flight | 245,475 | `TypeOK`, `OneTimer`, `LeakExplained`, `SeriesClean`, `TemplateThrowsExplained`, `CatchesUp` |
| `front_series` | 2 indices, 3 values of one of them, limit 1, 1 click, 2 requests in flight | 3,591,634 | `SelectionShown`, `GapExplained`, `TotalAgrees` |
| `first_archive` | 2 runs at once, 24th to 26th then 1st and 2nd, 3 values | 466,115 (up to symmetry) | `LossExplained`, `LedgerUnlessClash` |
| `lifo_buffers` | 10 bytes, elements of 2 and of 3 bytes, 2 values | 30,750 | `Intact`, `HeldIntact` |
| `hash_filo` | 3 entries, sizes 0 to 3, any initial links | 35,270 | `LruSpec`, `ChainsAgree` |
| `tranx_allocator` | 5 blocks of 3 nodes, reserve of 0 to 9 nodes | 4,800 | `InSequence`, `TableWhole`, `ReserveKept` |

What they show:

- **Archive.** No identified value is lost by any error or crash, a value is
  in table and file only during or after an interrupted pass, a cut line still
  has its row, and a finished file is never touched again. The other side of
  the last one: an interrupted day is never repaired, and its rows stay in the
  table. A day is skipped only if midnight overtakes its archive, or if the
  program runs without a database.
- **Collector.** Prices are never filed under a wrong name or table, not even
  when a site failed to register. The price of that is that lines are dropped,
  or stored with a NULL identifier, which the archive deletes.
- **Back end.** An answer can miss a value only if it was archived between
  reading files and table, or if the files could not be read; it can hold a
  value twice only around an archive in progress or interrupted. The same for
  the totals: the three counts and the statement together miss or double no
  other value, and the total of the month keeps to the month in which the
  request came.
- **Sampling.** Both divisors are least; the table gives at most `LIMIT` rows
  plus those that came in between, the files at most one line per file more.
- **Page.** At most one interval runs. It outlives the page only when values
  or the list were awaited at its destruction. Chart and totals are those of
  the selection unless answers overtook each other or failed. A series has
  duplicates or foreign values only after a stale poll was applied. A value
  inside it is missing only if it shares its second with one that is shown, or
  if the index had more than `LIMIT` values and the sampling left it out.
- **Totals.** With at most `LIMIT` values, and both asked for together, they
  agree with the chart as long as nothing moved meanwhile; `changeTime` alone
  can set them apart. Above the limit the chart has fewer values than the
  totals say, by those that the sampling left out (`left`). What it left out
  *after* the last value shown is brought by the first poll, and added to the
  totals that had counted it: then they exceed the number of stored values
  (with a limit of 1, they say 4 where 3 are stored). `TotalAgrees` speaks of
  what was given to the chart, and so holds there too.
- **First archive.** Nothing is lost wherever runs stop, as long as none
  empties the file of another; one run alone never does. Two runs at once
  can lose a day only if one empties the file of the other and one of them is
  then cut short.
- **Two registrations.** Identifiers stay unique, a NULL country still needs a
  failed INSERT, an unchanged price is not stored again, and a line that ends a
  page costs only the lines below it: those above are in the table.
- **Header structures.** Buffers, cache and allocator do what their operations
  on sequences would, after any sequence of calls that keeps the callers'
  duties; what was read stays intact as long as the comments promise.

Each exception in a property does happen in the model: leaving it out of the
property gives a counterexample within the bounds of the run (for the stale
poll in `GapExplained`, with three values instead of two).

### Bounds

Two sites are enough for one to meet the file, the missing file or the map of
another; two values of a day to have one line complete and one cut; two files
and two residues for the sampling to restart; two requests in flight for values
to race a poll, a poll another or the values of an earlier click.
`CheckEvery` stands for 1000 and `LIMIT` for 2000; the proofs are about every
value of both. In `front_series`, three values and a limit of 1 are the least
for the table to be thinned out by 2 and by 3, and for a value to be left out
before and after the last one shown. Answers of three clicks overtaking each
other take more requests in flight than two; `SelectionTheorem` covers any
number. `archiver_rollover` needs no values, since no decision about days depends on them. Larger instances that
were explored once without a violation: `Archiver` with two tables and three
sites (46.5 million states); `Collector` with two contents of both listings
(12.7 million); `Reader` with 2 days and 2 values (1.6 million); `Registrars`
with different prices on the two sites (4.4 million); `FirstArchive` with 2 runs
from the 1st to the 4th (0.4 million); `Front` with 3 values and one click
(5.4 million), with 2 values, one click and 3 requests in flight (3.8 million),
with 2 clicks, 3 requests (1.1 million) and 4 requests in flight (5.0 million);
`Totals` with one index and 3 requests in flight (2.2 million).

For the header structures, the bounds let each case happen: a buffer that is
full, empty and meets the other one; a cache of size 0 and 1 and a full one; a
chain with blocks before, at and behind the current one. A 24th, 25th, 26th,
1st and 2nd are the days on which `BDD/v01` decides differently.

`Crash`, `Midnight`, `addVal` and `Click` stop at their bounds (`MaxCrash`,
`MaxDay`, `MaxRows`, `MaxVals`, `MaxClicks`); `Tick` and sends stop at `MaxNet`.
Deadlock is checked except in the `front_…` runs, where a user who stops
clicking, or leaves the page, may leave nothing to do.

### Fairness

- `archiver_pass`: weak fairness of the Java thread. Its loop waits for nothing
  that may not come: jsoup gives up on a listing after its default timeout, and
  a database that does not answer is an error sooner or later. Nothing restarts a dead
  process and nothing forces midnight.
- `sampling`: weak fairness of the request. Its loops are plain computation
  and sed ends with its input.
- `front_page`: the interval fires, and the oldest request is answered or
  fails, and is delivered. An answer that came is delivered; the user need not
  do anything.

## What is proved

Every safety property that a run checks is also a theorem: invariants, action
properties and the refinements of `Ledger` and `LruCache`. The theorems hold for
every value of the constants, under the assumptions named in the modules:

| Assumption | What it says |
| --- | --- |
| `ConstantsAssumption`, `CalendarAssumption`, `MonthAssumption` | sites have tables, bounds are numbers, consecutive days have different days of the month |
| `SitesAssumption`, `KeysAssumption`, `LocalAssumption` | each site has its pages, two lines with one key have one name, `RecupLocal` registers one of the sites |
| `LimitAssumption`, `ContentsAssumption` | the limit is positive; each file holds the lines of the identifier in one stretch, since the archive writes them sorted by it |
| `FrontAssumption` | the limit is positive, at least one request can be in flight |
| `LifoAssumption`, `HashFiloAssumption`, `TranxAssumption` | elements have a first part, entries and blocks are finitely many, a block has nodes |

What holds for numbers up to n (positions in a sequence, steps along pointers,
cardinalities) is proved by the least counterexample: the set of numbers for
which it fails, if not empty, has a least element, and one step down or up gives
a contradiction. The library states that fact for sets, so that no operator has
to be instantiated. This is why `Front` selects from a sequence by positions
(`Selected`, `Select`), and why pointers are followed by recursive functions.

- `ArchiveProofs`, about the archive. `FileInv` adds to `TypeOK`, `TornKept` and
  `OverlapExplained`: a line is in a file that exists and no file is about
  today (`StoreInv`); and while a file is in hand, each identified row of its
  day is in the result set, in the buffer or complete in the file, and complete
  once the file is closed (`PassInv`). That is why the DELETE is safe: no value
  of a past day is added meanwhile. From it: `TypeCorrect`,
  `OverlapTheorem`, `TornKeptTheorem`, `FreezeTheorem`, and `ImplementsLedger`
  (each step is a step of `Ledger` or leaves it alone). `NoDayMissedTheorem`
  rests on `DayInv`: while nothing is late, `jmore` is the day of the month of
  today or of tomorrow, and in the second case yesterday was visited.
- `ArchiveProofs`, about the requests. `RInv` is `FileInv` and, for each point of
  the request, where the values known at its start can be: table, files still to
  be read, values read, or deleted meanwhile (`ReadInv`). `MissingTheorem`,
  `TornTheorem`, `DoubledTheorem`. The totals need cardinalities: `CountInv` says
  which set of rows each count made so far is the size of, so that
  `TotalTheorem` compares a union with the sum of its parts, and
  `NotInflatedTheorem` the sum of two parts with their union and what they share.
- `CollectorProofs`. `IdsTheorem` needs identifiers without gaps (`IdsInv`).
  `ProvenanceTheorem` needs every map entry to carry the name its key was made
  of, whichever site the map is used for (`MapsNamed`), which is where
  `KeysAssumption` comes in. `RepeatTheorem` ties `last` of an entry to the
  value its last INSERT stored (`OriginInv`). `NullIdTheorem` says that the
  names of a map are in the reference table or among the failed INSERTs as long
  as every site is registered (`AlignedInv`). Also `TypeCorrect` and
  `CountryTheorem`. With `RecupLocal` beside the collector, the same for `RSpec`:
  `RIdsTheorem`, `RRepeatTheorem`, `RProvenanceTheorem`; `RCountryTheorem`, where
  a program that comes to its second INSERT has its country (`RCountryInv`); and
  `StoredTheorem`: the unread lines are the end of the page, and the entry of a
  line above them (`PrefixInv`) has the price of the last line with its key,
  which is in the table unless the entry is `unsaved` (`SavedInv`).
- `SamplingProofs`. `TypeCorrect`; `LeastDivisorTheorem`, from the fact that
  every divisor tried before was too small (`DivisorInv`);
  `NoStretchTheorem`, from the same for the lines sed has passed (`SedInv`).
  `AnswerBoundedTheorem` counts the multiples of the divisor among the rows that
  COUNT saw and those added since (`RowsInv`). `PrintedBoundedTheorem` counts the
  printed lines: two of one stretch are `cpt` apart, and there is at most one
  stretch per file (`PrintInv`).
- `FrontProofs`. `FInv` describes the requests in flight: the last request for
  values, and for totals, is the one for the selection, or none is in flight
  and its answer is shown (`SelectionInv`); an interval or an awaited answer
  after the destruction implies `pending` (`TimerInv`); a chart or an awaited
  chart without totals implies awaited totals (`PageInv`). `OneTimerTheorem`,
  `LeakTheorem`, `SelectionTheorem`, `TemplateTheorem`, and with the bounds
  `FrontTypeCorrect`. `SeriesInv` says that values are numbered as they come,
  that each answer in flight is a run of one index that skips only what shares a
  date, came later or was left out above the limit (`Good`), and that the chart
  is such a run up to `maxDate` unless a stale poll was applied (`Clean`):
  `SeriesTheorem`, `GapTheorem`. An answer is first shown to be whole or thinned
  out (`Whole`): up to the limit the divisor is 1 and `Select` finds every
  position (`ModuloOne`, `AllByModulo`, `AllThin`), and an answer with no value
  left out has them all (`SelectLen`). `AgreeInv` says what totals and chart
  have counted, in flight or shown: the values of an answer and those left out
  of it are as many as are stored (`CountJoined`): `TotalAgreesTheorem`.
- `FirstArchiveProofs`, for any number of runs and any calendar. `IInv` says
  that a run that found no file has selected every value of the day (`RunInv`);
  that a file is whole, or spoilt, or a run that writes it has what it lacks
  (`CoverInv`); that a file that was never emptied has one run (`AloneInv`);
  and that a value is in the table or whole in its file unless the file was
  emptied (`KeptInv`). `TypeCorrect`, `LossTheorem`, `OverlapTheorem`,
  `LedgerTheorem`, and `ImplementsLedger` for one run at a time.
- `LifoBuffersProofs`, for every memory and every element size. `Layout` and
  `Intact` are inductive with the types; `ItInv` places the iterator on the
  stack, and `HeldInv` says that what was read lies in its own buffer's space.
  `LayoutTheorem`, `IntactTheorem`, `HeldTheorem`.
- `HashFiloProofs`, for any entries, keys and sizes. `HInv` names the order that
  the links describe, both ways, over the entries of the hash table; each
  operation turns one such order into another. `ChainsTheorem`, and `LruTheorem`:
  the order is that of `LruCache`.
- `TranxAllocatorProofs`, for any blocks, block size and reserve. `Ordered` names
  the chain of blocks that the pointers describe, the place of the current block
  in it and how many nodes are wasted before those in use. Taking blocks out,
  putting one behind the last and turning the chain at the block of a node each
  give another chain (`Pruning`, `AtRear`, `Rotation`), and the nodes in use are
  renumbered by whole blocks (`UseFrom`). `InSequenceTheorem`,
  `TableWholeTheorem`, `ReserveKeptTheorem`.

Proved and in no run: `TypeOK` of `Archiver`, `Collector`, `Sampling` and
`FirstArchive`, `OverlapExplained` of `FirstArchive`, `Layout` of `LifoBuffers`.

Only model-checked: `YesterdayLeaves`, `Answers` and `CatchesUp`, which are
liveness under fairness and out of the prover's reach.

## What is not modelled

- HTML, numbers and dates as text, log messages, labels, maximum and minimum
  of the chart. A cell that cannot be read is an exception at any line.
- The year total and the year and month files beside those of the month and of
  all time; the four times of the page beside "All time" and "Today".
- `getIndices` ignores `type` and always lists `INDICES`; `Front` takes any list.
- Two pages open at once, or two instances of the component: they share only
  the back end, which keeps no state.
- `TradingTests` (prints a constant), routing, header, home page and the
  `DataService` (it passes requests on); the archive class of `RecupLocal`,
  which nothing schedules.
- The rest of a page dropped at an unknown line (`loopVals`): `PageStored`
  says that nothing else is lost; the code promises no more.
- The vendored distribution. By far most lines of the repository are the C and
  C++ headers under `MariaDB/include`: declarations, macros and constants,
  tables that were generated, and accessors of one line, whose classes are
  implemented in files that are not here. There is nothing to model in a
  declaration, so the modules cover a very small share of those lines. Modelled
  are three header structures that have their whole code in the header and whose
  operations interact. Left out though they have code: the linked lists of
  `sql_list.h` and `sql_plist.h` (sequential, and compiled by no program here),
  the destructor of `Tranx_node_allocator`, window functions (their row counts,
  and the `add` of the ranks, are elsewhere, and they compute with doubles),
  `Diagnostics_area`, `String` and `Discrete_interval`.
- HeidiSQL and Apache Commons: binaries, archives and documentation.

## Plan

Done: the programs of the repository, with their proofs, and three structures of
the server headers. Next, in this order:

1. Collector and archive in one module: the identifiers the collector assigns
   and the join of the archive, and which NULL rows the DELETE takes.
2. The page on top of `Reader` instead of an atomic back end: what the user
   sees across a midnight.
3. `Discrete_interval` and its list (`structs.h`) at the width of `ulonglong`.

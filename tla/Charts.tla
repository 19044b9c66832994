-------------------------------- MODULE Charts --------------------------------
(***************************************************************************)
(* The chart reads of the snapshot store: the index a snapshot leaves when *)
(* it is ingested, the projection of numeric fields over a range of an     *)
(* axis, its sampling, the windows a long history is split into, and the   *)
(* exact summaries; and the pages of history and latest.                   *)
(*                                                                         *)
(* A chart of a long history is many reads, each in a transaction of its   *)
(* own; a client's walk over pages is one read per request.  The collector *)
(* ingests between any two of them.                                        *)
(*                                                                         *)
(* A row's id is its place in `rows`.  A state is what each field of a     *)
(* flat object holds: a number, nothing, or a list.  An Option is a set of *)
(* at most one element.                                                    *)
(***************************************************************************)
EXTENDS Integers, Sequences, FiniteSets, SequencesExt

CONSTANTS
  Paths,            \* the fields a state may have
  Shots,            \* the snapshots that may be ingested
  ChartRequests,    \* SnapshotQueryRequest
  Listings,         \* SnapshotHistoryRequest, SnapshotLatestRequest
  MaxRows,
  MaxObjectFields,  \* MAX_OBJECT_FIELDS
  MaxSourceFields,  \* MAX_SOURCE_FIELDS
  MaxScanRows,      \* MAX_QUERY_SCAN_ROWS
  MaxOutputPoints,  \* MAX_QUERY_OUTPUT_POINTS
  MaxWindows,       \* MAX_QUERY_WINDOWS
  MaxPageBytes      \* MAX_SNAPSHOT_PAGE_BYTES less the envelope

Nothing == -1

List == -2

ASSUME ChartsAssumption ==
  /\ MaxScanRows \in Nat \ {0, 1} /\ MaxWindows \in Nat \ {0}
  /\ MaxOutputPoints \in Nat \ {0} /\ MaxPageBytes \in Nat
  /\ Paths \subseteq Int
  /\ \A shot \in Shots : /\ shot.source \in Int /\ shot.event \in BOOLEAN
                         /\ shot.state \in [Paths -> Nat \cup {Nothing, List}]
                         /\ shot.step \subseteq Int /\ \A m, n \in shot.step : m = n
  /\ \A request \in ChartRequests : /\ request.paths \subseteq Paths /\ IsFiniteSet(request.paths)
                                    /\ request.from \cup request.to \subseteq Int /\ request.max \in Nat
                                    /\ Cardinality(request.paths) <= MaxOutputPoints * 5
                                    /\ {"runs", "sources", "paths", "axis", "from", "to", "max"} \subseteq DOMAIN request
  /\ \A listing \in Listings : listing.limit \in Nat \ {0}

VARIABLES
  rows,    \* table snapshots, with the rows of the chart index that belong to each
  fields,  \* chart_fields: [run, source, path, first]
  chart,   \* a chart request in progress, and its answer
  walk     \* a client's walk over the pages of history or latest

chartVars == <<rows, fields, chart, walk>>

NoChart == [at |-> "idle"]

NoWalk == [at |-> "idle"]

ChartsInit == rows = <<>> /\ fields = {} /\ chart = NoChart /\ walk = NoWalk

-------------------------------------------------------------------------------
(* The index.                                                              *)

Numeric(state) == {p \in DOMAIN state : state[p] >= 0}

Present(state) == {p \in DOMAIN state : state[p] # Nothing}

TooWide(state) == Cardinality(Present(state)) > MaxObjectFields

Discovered(state) == IF TooWide(state) THEN {} ELSE Numeric(state)

Skipped(state) ==
  IF TooWide(state) THEN DOMAIN state ELSE {p \in DOMAIN state : state[p] = List}

KnownTo(run, source) == {f \in fields : f.run = run /\ f.source = source}

(* Of the fields a Source shows for the first time, in path order, as many *)
(* as still fit.                                                           *)
Admitted(known, state) ==
  LET new == Discovered(state) \ known IN
  {p \in new : Cardinality(known) + Cardinality({q \in new : q < p}) < MaxSourceFields}

Indexed(known, state) == Admitted(known, state) \cup known

Insert(shot, observed) ==
  LET known == {f.path : f \in KnownTo(shot.run, shot.source)}
      new == Admitted(known, shot.state)
      paths == Indexed(known, shot.state) IN
  /\ rows' = Append(rows,
       [run |-> shot.run, source |-> shot.source, observed |-> observed, step |-> shot.step,
        state |-> shot.state, charted |-> ~shot.event, size |-> shot.size,
        values |-> [p \in DOMAIN shot.state |->
                      IF p \in paths /\ shot.state[p] >= 0 THEN shot.state[p] ELSE Nothing],
        exclusions |-> Skipped(shot.state) \cup ((Discovered(shot.state) \ known) \ new)])
  /\ fields' = IF shot.event THEN fields
               ELSE fields \cup {[run |-> shot.run, source |-> shot.source, path |-> p,
                                  first |-> Len(rows) + 1] : p \in new}

(* `delay` dates the observation from the one ingested before it.          *)
Ingest(shot, delay) ==
  /\ Len(rows) < MaxRows
  /\ Insert(shot, IF rows = <<>> THEN 0 ELSE rows[Len(rows)].observed + delay)
  /\ UNCHANGED <<chart, walk>>

-------------------------------------------------------------------------------
(* The projection.                                                         *)

Ids == 1 .. Len(rows)

Baseline(run) == Min({rows[i].observed : i \in {j \in Ids : rows[j].charted /\ rows[j].run = run}})

AxisOf(i, axis) ==
  CASE axis = "wall_time" -> {rows[i].observed}
    [] axis = "elapsed" -> {rows[i].observed - Baseline(rows[i].run)}
    [] OTHER -> rows[i].step

InRange(n, from, to) == (\A low \in from : n >= low) /\ (\A high \in to : n <= high)

InScope(request, run, source) ==
  run \in request.runs /\ (request.sources = {} \/ source \in request.sources)

(* The rows the projection's SQL selects, whose number its budget bounds.  *)
Scanned(request) ==
  {i \in Ids : /\ rows[i].charted /\ InScope(request, rows[i].run, rows[i].source)
               /\ \E n \in AxisOf(i, request.axis) : InRange(n, request.from, request.to)}

AxisAt(i, axis) == CHOOSE n \in AxisOf(i, axis) : TRUE

-------------------------------------------------------------------------------
(* ORDER BY.                                                               *)

(* The elements of S by a key that tells them apart: the k-th is the one   *)
(* that k - 1 others come before.                                          *)
OrderedBy(S, key) ==
  [k \in 1 .. Cardinality(S) |-> CHOOSE i \in S : Cardinality({j \in S : key[j] < key[i]}) = k - 1]

Descending(S) == OrderedBy(S, [i \in S |-> -i])

(* A Source's rows are of one session here: its sequences grow as the ids. *)
Before(axis, i, j) ==
  LET a == AxisAt(i, axis)
      b == AxisAt(j, axis) IN
  \/ a < b
  \/ a = b /\ rows[i].observed < rows[j].observed
  \/ a = b /\ rows[i].observed = rows[j].observed /\ i < j

Ordered(S, axis) == OrderedBy(S, [i \in S |-> Cardinality({j \in S : Before(axis, j, i)})])

GroupsOf(S) == {<<rows[i].run, rows[i].source>> : i \in S}

Group(S, key) == {i \in S : <<rows[i].run, rows[i].source>> = key}

ValidChart(request) ==
  /\ request.runs # {} /\ request.paths # {} /\ request.max > 0
  /\ \A low \in request.from, high \in request.to : low <= high

KnownField(request, path) ==
  \E f \in fields : f.path = path /\ InScope(request, f.run, f.source)

OverBudget(request) ==
  \/ Cardinality(Scanned(request)) > MaxScanRows
  \/ Cardinality(Scanned(request)) * Cardinality(request.paths) > MaxOutputPoints * 10

Excludes(i, path) == path \in rows[i].exclusions

FirstIndexed(key, path) == {f.first : f \in {g \in KnownTo(key[1], key[2]) : g.path = path}}

(* A null that may stand for a value the index left out.                   *)
Uncovered(ids, key, path) ==
  \E i \in ids : /\ Excludes(i, path) /\ rows[i].values[path] = Nothing
                 /\ \A first \in FirstIndexed(key, path) : i < first

-------------------------------------------------------------------------------
(* Sampling: `count` positions of 1..length, a missing one moved in where  *)
(* two numeric ones would be joined across it, from the last one back.     *)

Spread(length, count) ==
  [k \in 1 .. count |-> IF count = 1 THEN length ELSE ((k - 1) * (length - 1)) \div (count - 1) + 1]

(* A plausible slip: evenly spaced positions, and no more.                 *)
SpreadOnly(length, count, missing) == Spread(length, count)

SamplePositions(length, count, missing) ==
  LET even == Spread(length, count)
      at[k \in 1 .. count] ==
        LET gaps == {g \in missing : even[k] < g /\ g < at[k + 1]} IN
        IF k < count /\ even[k] \notin missing /\ at[k + 1] \notin missing /\ gaps # {}
        THEN Max(gaps) ELSE even[k]
  IN at

Sampled(points, path, count) ==
  LET missing == {k \in DOMAIN points : rows[points[k]].values[path] = Nothing}
      positions == SamplePositions(Len(points), count, missing) IN
  [k \in 1 .. count |-> points[positions[k]]]

AtMost(m, n) == IF m < n THEN m ELSE n

AtLeast(m, n) == IF m > n THEN m ELSE n

-------------------------------------------------------------------------------
(* query_page: one transaction.  A series is the ids of its points.        *)

Failed(why) == [is |-> why, series |-> <<>>]

SeriesKeys(request, S) ==
  {key \in GroupsOf(S) \X request.paths : FirstIndexed(key[1], key[2]) # {}}

QueryPage(request) ==
  LET S == Scanned(request)
      keys == SeriesKeys(request, S)
      Count(key) == AtMost(Cardinality(Group(S, key)), request.max) IN
  IF ~ValidChart(request) \/ \E p \in request.paths : ~KnownField(request, p)
  THEN Failed("invalid")
  ELSE IF OverBudget(request) THEN Failed("scan")
  ELSE IF \E key \in GroupsOf(S), p \in request.paths : Uncovered(Group(S, key), key, p)
  THEN Failed("invalid")
  ELSE IF FoldSet(LAMBDA key, sum : sum + Count(key[1]), 0, keys) > MaxOutputPoints
  THEN Failed("invalid")
  ELSE [is |-> "ok",
        series |-> [key \in keys |->
          Sampled(Ordered(Group(S, key[1]), request.axis), key[2], Count(key[1]))]]

(* query_controlled: the request as it stands, and in windows if it scans  *)
(* too much.                                                               *)
Ask(request) ==
  /\ chart.at = "idle"
  /\ LET page == QueryPage(request) IN
     chart' = [at |-> IF page.is = "scan" THEN "bounds" ELSE "done",
               request |-> request, since |-> Len(rows), is |-> page.is, series |-> page.series,
               windows |-> <<>>, reads |-> 0, span |-> 0]
  /\ UNCHANGED <<rows, fields, walk>>

Ceiling(a, b) == (a + b - 1) \div b

PageRows(request) == AtMost(MaxScanRows \div 2, (MaxOutputPoints * 5) \div Cardinality(request.paths))

Partition(low, high, pages) ==
  LET span == high - low + 1 IN
  [k \in 1 .. pages |-> <<low + (span * (k - 1)) \div pages, low + (span * k) \div pages - 1>>]

QueryBounds ==
  /\ chart.at = "bounds"
  /\ LET axes == {AxisAt(i, chart.request.axis) : i \in Scanned(chart.request)}
         count == Cardinality(Scanned(chart.request))
         low == Min(axes)
         high == Max(axes)
         span == high - low + 1
         pages == AtMost(AtMost(AtLeast(Ceiling(count, PageRows(chart.request)), 2), MaxWindows), span) IN
     chart' = [chart EXCEPT !.at = "window", !.windows = Partition(low, high, pages), !.span = span]
  /\ UNCHANGED <<rows, fields, walk>>

Gives(outcome) == chart' = [chart EXCEPT !.at = "done", !.is = outcome]

WindowRequest(window) ==
  [chart.request EXCEPT
     !.from = {window[1]}, !.to = {window[2]},
     !.max = AtLeast(Ceiling(chart.request.max * (window[2] - window[1] + 1), chart.span), 2)]

Merged(series, part) ==
  [key \in DOMAIN series \cup DOMAIN part |->
     (IF key \in DOMAIN series THEN series[key] ELSE <<>>)
     \o (IF key \in DOMAIN part THEN part[key] ELSE <<>>)]

Points(series) == FoldSet(LAMBDA key, sum : sum + Len(series[key]), 0, DOMAIN series)

ReadWindow ==
  /\ chart.at = "window" /\ chart.windows # <<>>
  /\ LET window == Head(chart.windows)
         middle == window[1] + (window[2] - window[1]) \div 2
         page == QueryPage(WindowRequest(window))
         merged == Merged(chart.series, page.series) IN
     IF chart.reads = MaxWindows THEN Gives("invalid")
     ELSE IF page.is = "scan" /\ window[1] < window[2]
     THEN chart' = [chart EXCEPT !.reads = @ + 1,
            !.windows = <<<<window[1], middle>>, <<middle + 1, window[2]>>>> \o Tail(@)]
     ELSE IF page.is # "ok" THEN Gives(page.is)
     ELSE IF Points(merged) > MaxOutputPoints * 2 THEN Gives("invalid")
     ELSE chart' = [chart EXCEPT !.reads = @ + 1, !.windows = Tail(@), !.series = merged]
  /\ UNCHANGED <<rows, fields, walk>>

Merge ==
  /\ chart.at = "window" /\ chart.windows = <<>>
  /\ LET final == [key \in DOMAIN chart.series |->
           Sampled(chart.series[key], key[2], AtMost(chart.request.max, Len(chart.series[key])))] IN
     IF Points(final) > MaxOutputPoints THEN Gives("invalid")
     ELSE chart' = [chart EXCEPT !.at = "done", !.is = "ok", !.series = final]
  /\ UNCHANGED <<rows, fields, walk>>

(* The client goes away, or the deadline passes: the next checkpoint ends  *)
(* the read.                                                               *)
Cancel ==
  /\ chart.at \in {"bounds", "window"}
  /\ Gives("cancelled")
  /\ UNCHANGED <<rows, fields, walk>>

-------------------------------------------------------------------------------
(* table_summary: exact statistics of one projection, or an error.         *)

Percentile95(count) == Ceiling(95 * count, 100)

SummaryRow(ids, path) ==
  LET Later(i) == {j \in ids : \/ rows[i].observed < rows[j].observed
                               \/ rows[i].observed = rows[j].observed /\ i < j}
      newest == {i \in ids : Later(i) = {}}
      numeric == {i \in ids : rows[i].values[path] # Nothing}
      Below(i) == {j \in numeric : \/ rows[j].values[path] < rows[i].values[path]
                                   \/ rows[j].values[path] = rows[i].values[path] /\ j < i}
      sorted == OrderedBy(numeric, [i \in numeric |-> Cardinality(Below(i))])
      At(k) == IF numeric = {} THEN {} ELSE {rows[sorted[k]].values[path]} IN
  [observations |-> Cardinality(ids), count |-> Cardinality(numeric),
   missing |-> Cardinality(ids) - Cardinality(numeric),
   current |-> {rows[i].values[path] : i \in newest} \ {Nothing},
   minimum |-> At(1), p95 |-> At(Percentile95(Len(sorted))), maximum |-> At(Len(sorted)),
   sum |-> FoldSet(LAMBDA i, sum : sum + rows[i].values[path], 0, numeric),
   snapshot |-> newest]

TableSummary(request) ==
  LET S == Scanned(request)
      keys == {key \in GroupsOf(Ids) : InScope(request, key[1], key[2])} IN
  IF \/ ~ValidChart(request) \/ OverBudget(request)
     \/ \E p \in request.paths : ~KnownField(request, p)
     \/ \E key \in keys, p \in request.paths : Uncovered(Group(S, key), key, p)
  THEN Failed("invalid")
  ELSE [is |-> "ok", series |-> [key \in keys \X request.paths |-> SummaryRow(Group(S, key[1]), key[2])]]

Summarize(request) ==
  /\ chart.at = "idle"
  /\ LET summary == TableSummary(request) IN
     chart' = [at |-> "summary", request |-> request, since |-> Len(rows),
               is |-> summary.is, series |-> summary.series]
  /\ UNCHANGED <<rows, fields, walk>>

-------------------------------------------------------------------------------
(* history and latest, a page at a time.                                   *)

(* page: rows until the limit or the byte budget; a first row over the     *)
(* budget is an error.                                                     *)
Fits(ids, n) == FoldLeft(LAMBDA sum, i : sum + rows[i].size, 0, SubSeq(ids, 1, n)) <= MaxPageBytes

Fitting(ids, limit) == Max({0} \cup {k \in 1 .. AtMost(limit, Len(ids)) : Fits(ids, k)})

(* A plausible slip: a page shorter than its limit taken for the last one. *)
PageUntilShort(ids, limit) ==
  LET n == Fitting(ids, limit) IN
  [rows |-> SubSeq(ids, 1, n), more |-> n = limit /\ n < Len(ids), is |-> IF n = 0 /\ ids # <<>> THEN "invalid" ELSE "ok"]

Page(ids, limit) ==
  LET n == Fitting(ids, limit) IN
  [rows |-> SubSeq(ids, 1, n), more |-> n < Len(ids), is |-> IF n = 0 /\ ids # <<>> THEN "invalid" ELSE "ok"]

History(request, before) ==
  Page(Descending({i \in Ids : /\ rows[i].run = request.run
                               /\ request.sources = {} \/ rows[i].source \in request.sources
                               /\ \A id \in before : i < id
                               /\ InRange(rows[i].observed, request.from, request.to)}),
       request.limit)

(* snapshot_heads: the row of each Source ingested last, events aside.     *)
StatesOf(run, source) == {i \in Ids : rows[i].charted /\ rows[i].run = run /\ rows[i].source = source}

HeadOf(run, source) == {i \in StatesOf(run, source) : \A j \in StatesOf(run, source) : j <= i}

Latest(request, after) ==
  LET listed == {s \in {rows[i].source : i \in Ids} :
                   /\ request.sources = {} \/ s \in request.sources
                   /\ \A id \in after : s > id
                   /\ HeadOf(request.run, s) # {}} IN
  Page(OrderedBy(UNION {HeadOf(request.run, s) : s \in listed}, [i \in Ids |-> rows[i].source]), request.limit)

NextKey(kind, page) ==
  IF ~page.more THEN {} ELSE {IF kind = "history" THEN Last(page.rows) ELSE rows[Last(page.rows)].source}

Turn(request, key, seen, since) ==
  LET page == IF request.kind = "history" THEN History(request, key) ELSE Latest(request, key) IN
  walk' = [at |-> IF page.is = "ok" /\ page.more THEN "walking" ELSE page.is,
           request |-> request, seen |-> seen \o page.rows, since |-> since,
           key |-> IF page.is = "ok" THEN NextKey(request.kind, page) ELSE {}]

FirstPage(request) ==
  /\ walk.at = "idle"
  /\ Turn(request, {}, <<>>, Len(rows))
  /\ UNCHANGED <<rows, fields, chart>>

NextPage ==
  /\ walk.at = "walking"
  /\ Turn(walk.request, walk.key, walk.seen, walk.since)
  /\ UNCHANGED <<rows, fields, chart>>

ChartsNext ==
  \/ \E shot \in Shots, delay \in Int : Ingest(shot, delay)
  \/ \E request \in ChartRequests : Ask(request) \/ Summarize(request)
  \/ QueryBounds \/ ReadWindow \/ Merge \/ Cancel
  \/ \E listing \in Listings : FirstPage(listing)
  \/ NextPage

ChartsSpec == ChartsInit /\ [][ChartsNext]_chartVars

-------------------------------------------------------------------------------
Old == 1 .. chart.since

(* elapsed is counted from a Run's first observation: one that is observed *)
(* earlier than it, and ingested between two windows, moves the windows.   *)
Steady ==
  chart.request.axis = "elapsed" =>
    \A run \in chart.request.runs :
      LET charted == {i \in Ids : rows[i].charted /\ rows[i].run = run} IN
      charted # {} =>
        charted \cap Old # {} /\ Baseline(run) = Min({rows[i].observed : i \in charted \cap Old})

TrueTo(key, path, shown) ==
  LET axis == chart.request.axis
      group == Group(Scanned(chart.request), key) IN
  /\ Len(shown) \in 1 .. chart.request.max
  /\ \A k \in DOMAIN shown : shown[k] \in group
  /\ \A k \in 1 .. Len(shown) - 1 : Before(axis, shown[k], shown[k + 1])
  /\ \A i \in group \cap Old : ~Before(axis, Last(shown), i)
  /\ \A k \in 1 .. Len(shown) - 1 :
       \/ rows[shown[k]].values[path] = Nothing
       \/ rows[shown[k + 1]].values[path] = Nothing
       \/ \A i \in group \cap Old :
            Before(axis, shown[k], i) /\ Before(axis, i, shown[k + 1]) => rows[i].state[path] >= 0
  /\ \A k \in DOMAIN shown : rows[shown[k]].values[path] = Nothing => rows[shown[k]].state[path] < 0

(* A chart that is answered, in one read or in many with ingestion between *)
(* them, shows for each series a selection, in order, of the observations  *)
(* in range: the latest of those stored when it was asked for, no line     *)
(* drawn over an observation that had no number, and no null where the     *)
(* snapshot did hold one; and it has a series for every Source that had a  *)
(* number (snapshot_store/query.rs, sample_positions and Projected::       *)
(* excludes).  An answered summary is what the states themselves say.      *)
AnswersAreTrueToTheStates ==
  chart.at \in {"done", "summary"} /\ chart.is = "ok" /\ Steady =>
    LET S == Scanned(chart.request) \cap Old
        Number(i, p) == rows[i].state[p] >= 0 IN
    IF chart.at = "done"
    THEN
      /\ \A key \in DOMAIN chart.series : TrueTo(key[1], key[2], chart.series[key])
      /\ \A i \in S, p \in chart.request.paths :
           Number(i, p) => <<<<rows[i].run, rows[i].source>>, p>> \in DOMAIN chart.series
    ELSE
      \A key \in DOMAIN chart.series :
        LET row == chart.series[key]
            ids == Group(S, key[1])
            p == key[2]
            numeric == {i \in ids : Number(i, p)}
            Reaching(v) == Cardinality({i \in numeric : rows[i].state[p] <= v})
            values == {rows[i].state[p] : i \in numeric} IN
        /\ row.count = Cardinality(numeric) /\ row.count + row.missing = Cardinality(ids)
        /\ row.p95 = {v \in values : /\ 20 * Reaching(v) >= 19 * row.count
                                     /\ \A w \in values : w < v => 20 * Reaching(w) < 19 * row.count}
        /\ row.minimum = {v \in values : \A w \in values : v <= w}
        /\ row.maximum = {v \in values : \A w \in values : v >= w}
        /\ \A i \in row.snapshot : /\ \A j \in ids : rows[j].observed <= rows[i].observed
                                   /\ row.current = {rows[i].state[p]} \ {Nothing, List}

(* A client that follows next_before_id reads every snapshot its query     *)
(* selects, newest first, once and once only, whatever is ingested         *)
(* meanwhile and wherever the byte budget cuts a page; one that follows    *)
(* next_source_id reads each Source it could have read at the start once,  *)
(* a state and never an event, and nothing older than that Source's head   *)
(* was (snapshot_store.rs page).                                           *)
WalksAreComplete ==
  walk.at \in {"walking", "ok"} =>
    LET request == walk.request
        start == {i \in 1 .. walk.since :
                    /\ rows[i].run = request.run
                    /\ request.sources = {} \/ rows[i].source \in request.sources}
        wanted == {i \in start : InRange(rows[i].observed, request.from, request.to)}
        states == {i \in start : rows[i].charted}
        seen == [k \in DOMAIN walk.seen |-> rows[walk.seen[k]].source] IN
    IF request.kind = "history"
    THEN /\ IsPrefix(walk.seen, Descending(wanted))
         /\ walk.at = "ok" => Len(walk.seen) = Cardinality(wanted)
    ELSE /\ \A k \in 1 .. Len(seen) - 1 : seen[k] < seen[k + 1]
         /\ walk.at = "ok" => {rows[i].source : i \in states} \subseteq ToSet(seen)
         /\ \A k \in DOMAIN seen :
              /\ rows[walk.seen[k]].charted
              /\ \A i \in states : rows[i].source = seen[k] => i <= walk.seen[k]
===============================================================================

----------------------------- MODULE MCAlgorithms -----------------------------
(* The read algorithms of the store and the alert engine on small inputs.  *)
(* They share nothing, so a behaviour exercises one concern, its focus.    *)
EXTENDS Charts, Tables, Expressions, AlertDispatch

VARIABLE focus

Shot(run, source, step, state) ==
  [run |-> run, source |-> source, step |-> step, event |-> FALSE, size |-> 1,
   state |-> [p \in Paths |-> IF p \in DOMAIN state THEN state[p] ELSE Nothing]]

Chart(axis, paths, max) ==
  [runs |-> {1}, sources |-> {}, paths |-> paths, axis |-> axis, from |-> {}, to |-> {}, max |-> max]

(* windows: long histories of one field, with gaps, and rows that arrive   *)
(* while the windows are read.  axes: two Runs on elapsed and logical      *)
(* axes, and clocks that step back.  coverage: fields the index has no     *)
(* room for (objects too wide, too many fields, lists) and the tracker's   *)
(* own events.                                                             *)
ShotsOf(f) ==
  CASE f = "windows" -> {Shot(1, 1, {}, <<1>>), Shot(1, 1, {}, <<Nothing>>)}
    [] f = "axes" -> {Shot(1, 1, {2}, <<1>>), Shot(1, 1, {}, <<Nothing>>), Shot(2, 1, {1}, <<1>>)}
    [] f = "coverage" ->
         {Shot(1, s, {}, <<a, b, Nothing>>) : s \in {1, 2}, a \in {1, Nothing}, b \in {3, Nothing}}
         \cup {Shot(1, 1, {}, <<1, 3, 4>>), Shot(1, 1, {}, <<1, List, Nothing>>),
               [Shot(1, 1, {}, <<1, 3, Nothing>>) EXCEPT !.event = TRUE]}
    [] f = "statistics" -> {Shot(1, 1, {}, <<v>>) : v \in {0, 2, 5, Nothing}}
    [] f = "pages" -> {[Shot(1, 1, {}, <<1>>) EXCEPT !.size = size] : size \in {1, 2, 4}}
                      \cup {Shot(1, source, {}, <<1>>) : source \in {2, 3}}
                      \cup {[Shot(1, 1, {}, <<1>>) EXCEPT !.event = TRUE]}
    [] OTHER -> {}

DelaysOf(f, shot) ==
  CASE f = "windows" -> {0, 2} [] f = "axes" -> {-3, 1} [] f = "pages" /\ shot.source = 2 -> {-1} [] OTHER -> {1}

RowsIn(f) == CASE f = "windows" -> 5 [] f \in {"axes", "pages"} -> 4 [] OTHER -> 3

ChartsOf(f) ==
  CASE f = "windows" -> {Chart("wall_time", {1}, n) : n \in 1 .. 4}
    [] f = "axes" -> {[Chart(axis, {1}, 3) EXCEPT !.runs = {1, 2}] : axis \in {"elapsed", "step"}}
                     \cup {[Chart("elapsed", {1}, 3) EXCEPT !.from = {1}, !.to = {3}],
                           [Chart("wall_time", {1}, 3) EXCEPT !.from = {2}, !.to = {1}]}
    [] f = "coverage" -> {Chart("wall_time", {1}, 2), Chart("wall_time", {2}, 2), Chart("wall_time", {1, 2}, 1),
                          [Chart("wall_time", {2}, 2) EXCEPT !.sources = {2}]}
    [] OTHER -> {}

SummariesOf(f) ==
  CASE f = "coverage" -> {Chart("wall_time", {1}, 1), Chart("wall_time", {2}, 1)}
    [] f = "statistics" -> {Chart("wall_time", {1}, 1)}
    [] OTHER -> {}

Listing(kind, limit) == [kind |-> kind, run |-> 1, sources |-> {}, from |-> {}, to |-> {}, limit |-> limit]

ListingsOf(f) ==
  IF f # "pages" THEN {}
  ELSE {Listing(kind, limit) : kind \in {"history", "latest"}, limit \in {1, 2}}
       \cup {[Listing("history", 1) EXCEPT !.sources = {1, 2}, !.from = {0}], [Listing("latest", 1) EXCEPT !.sources = {1, 3}]}

ChartFocuses == {"windows", "axes", "coverage", "statistics", "pages"}

AllShots == UNION {ShotsOf(f) : f \in ChartFocuses}

AllCharts == UNION {ChartsOf(f) \cup SummariesOf(f) : f \in ChartFocuses}

AllListings == ListingsOf("pages")

Others == UNCHANGED <<tableVars, alertVars, dispatchVars, focus>>

MCIngest ==
  /\ chart.at \notin {"done", "summary"} /\ walk.at \in {"idle", "walking"} /\ Len(rows) < RowsIn(focus)
  /\ \E shot \in ShotsOf(focus) : \E delay \in DelaysOf(focus, shot) : Ingest(shot, delay)
  /\ Others

MCAsk == (\E request \in ChartsOf(focus) : Ask(request)) /\ Others
MCQueryBounds == QueryBounds /\ Others
MCReadWindow == ReadWindow /\ Others
MCMerge == Merge /\ Others
MCCancel == Cancel /\ Others
MCSummarize == (\E request \in SummariesOf(focus) : Summarize(request)) /\ Others
MCFirstPage == (\E request \in ListingsOf(focus) : FirstPage(request)) /\ Others
MCNextPage == NextPage /\ Others

-------------------------------------------------------------------------------
Token(negative, digits, point, exponent) ==
  [negative |-> negative, digits |-> digits, point |-> point, exponent |-> exponent]

Whole(n) == Number(IntegerToken(n))

Object(fs) == [kind |-> "object", fields |-> fs]

Array(items) == [kind |-> "array", rows |-> items]

Row(value) == [key |-> "", value |-> value]

TextOrder == <<"", "0", "1", "a", "b", "id", "v", "x">>

TextHolds == [t \in {"", "0", "1", "a", "b", "id", "v", "x"} |-> IF t = "a" THEN {"a"} ELSE {}]

TextWritten(value) ==
  IF value.kind = "number" THEN {TextOrder[d + 2] : d \in ToSet(value.token.digits)} ELSE {}

Ask0 ==
  [mode |-> "rows", sources |-> <<1>>, filters |-> <<>>, search |-> {}, sort |-> {}, columns |-> {},
   identity |-> <<>>, by |-> <<>>, measures |-> <<>>, order |-> {}, limit |-> 2]

By(path, direction) == {[path |-> path, direction |-> direction]}

Only(path, op, text, number) == <<[path |-> path, op |-> op, text |-> text, number |-> number]>>

(* Every way of writing small numbers: a sign, a point, an exponent that   *)
(* fits in 64 bits, one that does not, and one that the point carries over *)
(* the limit.                                                              *)
Mantissas == {<<<<0>>, 1>>, <<<<1>>, 1>>, <<<<1, 1>>, 2>>, <<<<1, 0>>, 2>>, <<<<1, 1>>, 1>>, <<<<0, 1>>, 1>>}

Exponents ==
  {{}} \cup {{[negative |-> FALSE, digits |-> d]} : d \in {<<0>>, <<0, 1>>, <<1, 1>>, <<1, 0, 0>>, <<1, 1, 1>>}}
       \cup {{[negative |-> TRUE, digits |-> d]} : d \in {<<1>>, <<1, 1>>, <<1, 0, 0>>, <<1, 0, 1>>}}

Tokens == {Token(negative, m[1], m[2], e) : negative \in BOOLEAN, m \in Mantissas, e \in Exponents}

NumberRows == {Array(<<Row(Object([v |-> Number(a)])), Row(Object([v |-> Number(b)]))>>) :
                 a \in Tokens, b \in {t \in Tokens : ~t.negative}}

NumberReads == {[Ask0 EXCEPT !.sort = By("v", "asc")],
                [Ask0 EXCEPT !.mode = "groups", !.by = <<"v">>, !.measures = <<[op |-> "min", path |-> {"v"}]>>]}

(* Two Sources that hold values of every kind and are captured again       *)
(* between pages.                                                          *)
Values == {Object([v |-> Whole(1)]), Object([v |-> Text("a")]), Object([x |-> Whole(0)]), Whole(2), Null,
           Object([v |-> [kind |-> "array", items |-> <<Text("a")>>]])}

MixedReads ==
  {[Ask0 EXCEPT !.sources = <<1, 2>>, !.sort = sort, !.limit = limit] :
     sort \in {{}} \cup {By("v", d) : d \in {"asc", "desc"}}, limit \in {1, 2}}
  \cup {[Ask0 EXCEPT !.sources = <<1, 2>>, !.filters = filters, !.search = search, !.limit = 1] :
          filters \in {Only("v", "gt", "0", {IntegerToken(0)}), Only("v", "eq", "a", {}), Only("v", "lt", "a", {})},
          search \in {{}, {"a"}}}
  \cup {[Ask0 EXCEPT !.sources = <<1, 2>>, !.search = {"1"}, !.limit = 1]}

(* Records: three Sources with different numbers of rows.                  *)
Record(id, v) == Row(Object([id |-> Whole(id), v |-> Whole(v)]))

RecordReads ==
  {[Ask0 EXCEPT !.mode = "records", !.sources = <<1, 2, 3>>, !.identity = <<"id">>, !.sort = sort, !.limit = limit] :
     sort \in {{}, By("v", "desc")}, limit \in 1 .. 3}

Categories == {Object([v |-> Whole(0), x |-> Whole(-1)]), Object([v |-> Text("a"), x |-> Whole(2)]),
               Object([v |-> Whole(0), x |-> Text("b")]), Object([v |-> Null])}

GroupReads ==
  {[Ask0 EXCEPT !.mode = "groups", !.sources = <<1, 2>>, !.by = <<"v">>, !.order = order, !.limit = limit,
                !.measures = <<[op |-> "count", path |-> {}], [op |-> "sum", path |-> {"x"}],
                               [op |-> "min", path |-> {"x"}], [op |-> "max", path |-> {"x"}]>>] :
     order \in {{}} \cup {{[measure |-> 3, direction |-> d]} : d \in {"asc", "desc"}}, limit \in {1, 3}}

MCCapture ==
  /\ UNCHANGED <<chartVars, alertVars, dispatchVars, focus>>
  /\ view.at \in {"idle", "reading"}
  /\ \/ focus = "numbers" /\ stored[1] = <<>> /\ \E held \in NumberRows : Capture(1, held)
     \/ /\ focus = "rows" /\ stored[1] = <<>>
        /\ \E a, b \in Values : Capture(1, Array(<<Row(a), Row(b)>>))
     \/ /\ focus = "rows" /\ stored[1] # <<>> /\ Len(stored[2]) < 2
        /\ \E a \in IF stored[2] = <<>> THEN Values ELSE {Whole(2), Object([v |-> Whole(0)])} :
             Capture(2, [kind |-> "object", rows |-> <<[key |-> "a", value |-> a]>>])
     \/ /\ focus = "records" /\ view.at = "idle"
        /\ \E s \in 1 .. 3, n \in {0, 1, 3}, v \in {0, 1} :
             /\ s > 1 => v = 0
             /\ stored[s] = <<>> /\ \A t \in 1 .. s - 1 : stored[t] # <<>>
             /\ Capture(s, Array([k \in 1 .. n |-> Record((2 * k + s) % 3, (k + v) % 2)]))
     \/ /\ focus = "records" /\ view.at = "reading" /\ Len(stored[1]) = 1
        /\ Capture(1, Array(<<Record(1, 1), Record(1, 0)>>))
     \/ /\ focus = "groups" /\ stored[1] = <<>>
        /\ \E a, b \in Categories, c \in {Object([v |-> Whole(0), x |-> Text("b")]), Object([v |-> Null])} :
             Capture(1, Array(<<Row(a), Row(b), Row(c)>>))
     \/ /\ focus = "groups" /\ stored[1] # <<>> /\ stored[2] = <<>>
        /\ \E a, b \in Categories : Capture(2, Array(<<Row(a), Row(b)>>))

ReadsOf(f) == CASE f = "numbers" -> NumberReads [] f = "rows" -> MixedReads [] f = "records" -> RecordReads
                [] f = "groups" -> GroupReads [] OTHER -> {}

MCOpenView == (\E request \in ReadsOf(focus) : OpenView(request)) /\ UNCHANGED <<chartVars, alertVars, dispatchVars, focus>>
MCTurnPage == TurnPage /\ UNCHANGED <<chartVars, alertVars, dispatchVars, focus>>

-------------------------------------------------------------------------------
Loss(window) == [op |-> "metric", name |-> "loss", window |-> window]

Lit(n) == [op |-> "number", value |-> <<n, 1>>]

Call(name, arg) == [op |-> "call", name |-> name, args |-> <<arg>>]

Test(left, which, right) == [op |-> "binary", which |-> which, left |-> left, right |-> right]

Last2 == {[by |-> "points", n |-> 2]}

Rule(condition) ==
  [name |-> "r", condition |-> condition, mode |-> "edge", forSteps |-> 1, forDuration |-> 0, partial |-> FALSE,
   axis |-> "wall_time", cooldown |-> 0, maxFires |-> {}, recovery |-> TRUE]

LastStep == IF log = <<>> THEN 0 ELSE Last(log).step

Now == IF log = <<>> THEN 0 ELSE Last(log).at

High == Test(Loss({}), ">", Lit(1))

(* Persistence, edges, recoveries and cooldowns; a second rule, and a rule *)
(* that is removed and added again.                                        *)
PersistenceRules ==
  {[Rule(High) EXCEPT !.forSteps = 2], [Rule(High) EXCEPT !.forSteps = 2, !.mode = "level"],
   [Rule(High) EXCEPT !.maxFires = {1}], [Rule(High) EXCEPT !.mode = "level", !.cooldown = 2]}

(* The watchdog, durations, and a clock that steps back.                   *)
TimeRules ==
  {[Rule(Test(Call("age", Loss({})), ">=", Lit(1))) EXCEPT !.forDuration = 2],
   [Rule(Call("no_data", [op |-> "duration", value |-> 2])) EXCEPT !.mode = "level", !.cooldown = 3],
   [Rule(Test(High, "and", Test([op |-> "call", name |-> "elapsed", args |-> <<>>], ">=", Lit(1))))
      EXCEPT !.forSteps = 2, !.forDuration = 1]}

(* Every function, over windows that fill, that overflow the capacity and  *)
(* that hold what is not finite.                                           *)
SeriesRules ==
  {Rule(Test(Call(f, Loss(Last2)), ">", Lit(0))) :
     f \in {"mean", "sum", "median", "min", "max", "first", "last", "count", "diff", "pct_change", "rate",
            "slope", "var", "ema", "isinf"}}
  \cup {Rule(Call(f, Loss(Last2))) : f \in {"increasing", "decreasing", "stalled"}}
  \cup {Rule(Call("isnan", Loss({}))), [Rule(Test(Call("diff", Loss({})), "<", Lit(0))) EXCEPT !.axis = "step"],
        [Rule(Call("mean", Loss({[by |-> "points", n |-> 3]}))) EXCEPT !.partial = TRUE],
        [Rule(Test(Call("slope", Loss(Last2)), "!=", Lit(1))) EXCEPT !.axis = "step"],
        Rule(Test(Call("max", Loss({[by |-> "duration", n |-> 2]})), ">", Lit(1))),
        Rule(Test(High, "or", [op |-> "unary", which |-> "not", arg |-> Call("has", Loss({}))])),
        Rule(Test(Test(Loss({}), "/", Loss({})), "==", Lit(1))),
        Rule(Test(Test([op |-> "unary", which |-> "-", arg |-> Loss({})], "%", Lit(2)), "<=",
                  Test([op |-> "call", name |-> "step", args |-> <<>>], "-", Lit(2))))}

SecondRule == [Rule(Call("has", Loss({}))) EXCEPT !.name = "s"]

AllRules == PersistenceRules \cup TimeRules \cup SeriesRules \cup {SecondRule}

RulesOf(f) == CASE f = "persistence" -> PersistenceRules [] f = "watchdog" -> TimeRules
                [] f = "series" -> SeriesRules [] OTHER -> {}

Measurements(f) ==
  {<<>>, [loss |-> <<2, 1>>]}
  \cup (IF f = "watchdog" THEN {} ELSE {[loss |-> <<0, 1>>]})
  \cup (IF f = "series" THEN {[loss |-> NotNumeric], [loss |-> NaN]} ELSE {})

AllMeasurements == Measurements("watchdog") \cup Measurements("series")

Delays == IF focus = "watchdog" THEN {-1, 2} ELSE {1}

ChangesRules ==
  /\ focus = "persistence" /\ Len(log) = 3
  /\ \A k \in DOMAIN engine.rules : engine.rules[k].rule = [Rule(High) EXCEPT !.forSteps = 2]

MCAddRule ==
  /\ UNCHANGED <<chartVars, tableVars, dispatchVars, focus>>
  /\ \/ log = <<>> /\ engine.rules = <<>> /\ \E rule \in RulesOf(focus) : AddRule(rule)
     \/ ChangesRules /\ AddRule([Rule(High) EXCEPT !.forSteps = 2])
     \/ ChangesRules /\ engine.rules # <<>> /\ AddRule(SecondRule)

MCRemoveRule == ChangesRules /\ RemoveRule("r") /\ UNCHANGED <<chartVars, tableVars, dispatchVars, focus>>

Fed == engine.rules # <<>> /\ (focus = "series" => Len(log) < 4) /\ UNCHANGED <<chartVars, tableVars, dispatchVars, focus>>

MCStep ==
  /\ \E d \in Delays, by \in (IF focus = "persistence" THEN {-1, 0, 1} ELSE {1}), m \in Measurements(focus) :
       /\ by <= 0 => m # <<>>
       /\ LastStep + by >= 0
       /\ Step(LastStep + by, Now + d, m)
  /\ Fed

MCTick == (\E d \in Delays : Tick(LastStep, Now + d)) /\ Fed

-------------------------------------------------------------------------------
(* Two channels, one for critical alerts only.                             *)
Endpoint(name, levels) == [name |-> name, min |-> "warning", levels |-> levels, tags |-> {}]

TwoEndpoints == {Endpoint("all", {}), Endpoint("urgent", {"critical"})}

Event(key, level, size) == [key |-> key, level |-> level, channels |-> {}, tags |-> {}, size |-> size]

ThreeEvents == {Event("k", "warning", 1), Event("l", "warning", 2), Event("m", "critical", 2)}

(* limits: one caller and one channel through full buckets, windows that   *)
(* pass, retries, and queues that are full.  shutdown: two callers and two *)
(* channels, closed at any moment.                                         *)
MCBegin ==
  \E t \in Client, e \in Events :
    /\ \/ focus = "limits" /\ e.level = "warning" /\ t = (CHOOSE u \in Client : TRUE)
       \/ focus = "shutdown" /\ e.key = (CASE sends = 0 -> "m" [] sends = 1 -> "l" [] OTHER -> "none")
    /\ Begin(t, e)

MCDispatch ==
  /\ UNCHANGED <<chartVars, tableVars, alertVars, focus>>
  /\ \/ MCBegin
     \/ \E t \in Client :
          \/ \E c \in Channels : Reserve(t, c)
          \/ TrySend(t) \/ RefusedBytes(t) \/ RefusedCount(t) \/ SendReturns(t)
          \/ focus \in {"limits", "shutdown"} /\ sends > 0 /\ Flush(t)
          \/ focus = "shutdown" /\ (closed => \A c \in Channels : worker[c].at = "gone") /\ CloseStores(t)
          \/ CloseCancels(t) \/ CloseReturns(t)
     \/ \E c \in Channels :
          \/ Recv(c) \/ Wake(c) \/ PostAgain(c) \/ ReleaseBytes(c)
          \/ Break(c) \/ DiscardBytes(c) \/ DiscardCount(c) \/ DrainNext(c)
          \/ focus = "limits" /\ \E delay \in Backoffs : Retry(c, delay)
          \/ \E sent \in BOOLEAN : Delivered(c, sent)
     \/ focus = "limits" /\ ClockAdvances

-------------------------------------------------------------------------------
MCInit ==
  /\ ChartsInit /\ TablesInit(1 .. 3) /\ AlertsInit /\ DispatchInit
  /\ focus \in {"windows", "axes", "coverage", "statistics", "pages", "numbers", "rows", "records", "groups",
                "persistence", "watchdog", "series", "limits", "shutdown"}

MCNext ==
  \/ MCIngest \/ MCAsk \/ MCQueryBounds \/ MCReadWindow \/ MCMerge \/ MCCancel \/ MCSummarize
  \/ MCFirstPage \/ MCNextPage
  \/ MCCapture \/ MCOpenView \/ MCTurnPage
  \/ MCAddRule \/ MCRemoveRule \/ MCStep \/ MCTick
  \/ MCDispatch

MCSpec == MCInit /\ [][MCNext]_<<chartVars, tableVars, alertVars, dispatchVars, focus>>
===============================================================================

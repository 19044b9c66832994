------------------------------ MODULE Expressions -----------------------------
(***************************************************************************)
(* The conditions of alert rules: expressions over the metric series, in   *)
(* three-valued logic, and how they read what the engine retains.          *)
(*                                                                         *)
(* An f64 is a fraction <<n, d>> with d > 0, or <<n, 0>> when it is not    *)
(* finite: <<0, 0>> is NaN.  Time is in seconds.  An Option is a set of at *)
(* most one element.                                                       *)
(***************************************************************************)
EXTENDS Alerts, SequencesExt

-------------------------------------------------------------------------------
(* Values.                                                                 *)

Unknown == [is |-> "unknown"]

Real(q) == [is |-> "number", value |-> q]

NaN == <<0, 0>>

IsFinite(q) == q[2] > 0

Frac(n, d) == IF d < 0 THEN <<-n, -d>> ELSE <<n, d>>

Plus(a, b) == <<a[1] * b[2] + b[1] * a[2], a[2] * b[2]>>

Opposite(a) == <<-a[1], a[2]>>

Times(a, b) == <<a[1] * b[1], a[2] * b[2]>>

Over(a, b) == Frac(a[1] * b[2], a[2] * b[1])

IsLess(a, b) == a[1] * b[2] < b[1] * a[2]

IsSame(a, b) == a[1] * b[2] = b[1] * a[2]

Total(values) == FoldLeft(Plus, <<0, 1>>, values)

Mean(values) == Over(Total(values), <<Len(values), 1>>)

Least(values) == CHOOSE q \in ToSet(values) : \A r \in ToSet(values) : ~IsLess(r, q)

Greatest(values) == CHOOSE q \in ToSet(values) : \A r \in ToSet(values) : ~IsLess(q, r)

(* Tri: Kleene's three values.                                             *)
Not(t) == CASE t = "true" -> "false" [] t = "false" -> "true" [] OTHER -> "unknown"

And(s, t) == IF "false" \in {s, t} THEN "false" ELSE IF {s, t} = {"true"} THEN "true" ELSE "unknown"

Or(s, t) == Not(And(Not(s), Not(t)))

Bool(t) == [is |-> "bool", tri |-> t]

Tri(b) == Bool(IF b THEN "true" ELSE "false")

Truth(v) ==
  CASE v.is = "bool" -> v.tri
    [] v.is = "number" -> IF ~IsFinite(v.value) THEN "unknown" ELSE IF v.value[1] = 0 THEN "false" ELSE "true"
    [] OTHER -> "unknown"

(* Evaluated::number: a duration reads as seconds.                         *)
NumberIn(v) == CASE v.is = "number" -> {v.value} [] v.is = "duration" -> {<<v.value, 1>>} [] OTHER -> {}

ValuesIn(v) ==
  CASE v.is = "number" -> <<v.value>>
    [] v.is = "series" -> [k \in DOMAIN v.samples |-> v.samples[k].value]
    [] OTHER -> <<>>

-------------------------------------------------------------------------------
(* Expressions over a context: the step's metrics, the samples it adds     *)
(* (pending) and the series retained before it.                            *)

SeriesIn(context, name) == IF name \in DOMAIN context.series THEN context.series[name] ELSE <<>>

PendingIn(context, name) == IF name \in DOMAIN context.pending THEN <<context.pending[name]>> ELSE <<>>

CurrentValue(name, context) ==
  LET carried == SeriesIn(context, name) IN
  CASE name \in DOMAIN context.pending -> Real(context.pending[name].value)
    [] name \in DOMAIN context.metrics /\ context.metrics[name] # NotNumeric -> Real(context.metrics[name])
    [] context.tick /\ carried # <<>> -> Real(Last(carried).value)
    [] OTHER -> Unknown

WindowOf(name, window, context) ==
  LET samples == SeriesIn(context, name) \o PendingIn(context, name)
      start == context.now - window.n
      covered == samples # <<>> /\ samples[1].at <= start IN
  IF window.by = "points"
  THEN IF Len(samples) < window.n /\ ~context.partial THEN Unknown
       ELSE [is |-> "series",
             samples |-> SubSeq(samples, (IF Len(samples) > window.n THEN Len(samples) - window.n ELSE 0) + 1, Len(samples))]
  ELSE IF ~covered /\ ~context.partial THEN Unknown
       ELSE [is |-> "series", samples |-> SelectSeq(samples, LAMBDA sample : sample.at >= start)]

MetricValue(name, window, context) ==
  IF window = {} THEN CurrentValue(name, context)
  ELSE WindowOf(name, CHOOSE w \in window : TRUE, context)

Truncated(q) == IF q[1] >= 0 THEN q[1] \div q[2] ELSE -((-q[1]) \div q[2])

Arithmetic(operation, a, b) ==
  CASE ~IsFinite(a) -> Unknown
    [] ~IsFinite(b) -> IF b = NaN \/ operation \notin {"/", "%"} THEN Unknown
                       ELSE Real(IF operation = "/" THEN <<0, 1>> ELSE a)
    [] operation = "+" -> Real(Plus(a, b))
    [] operation = "-" -> Real(Plus(a, Opposite(b)))
    [] operation = "*" -> Real(Times(a, b))
    [] b[1] = 0 -> Unknown
    [] operation = "/" -> Real(Over(a, b))
    [] OTHER -> Real(Plus(a, Opposite(Times(b, <<Truncated(Over(a, b)), 1>>))))

Comparison(operation, a, b) ==
  CASE ~IsFinite(a) \/ ~IsFinite(b) -> Bool("unknown")
    [] operation = "==" -> Tri(IsSame(a, b))
    [] operation = "!=" -> Tri(~IsSame(a, b))
    [] operation = "<" -> Tri(IsLess(a, b))
    [] operation = "<=" -> Tri(~IsLess(b, a))
    [] operation = ">" -> Tri(IsLess(b, a))
    [] OTHER -> Tri(~IsLess(a, b))

EvaluateBinary(operation, left, right) ==
  LET both == NumberIn(left) \X NumberIn(right)
      pair == CHOOSE p \in both : TRUE IN
  CASE operation = "and" -> Bool(And(Truth(left), Truth(right)))
    [] operation = "or" -> Bool(Or(Truth(left), Truth(right)))
    [] operation \in {"+", "-", "*", "/", "%"} ->
         IF both = {} THEN Unknown ELSE Arithmetic(operation, pair[1], pair[2])
    [] OTHER -> IF both = {} THEN Bool("unknown") ELSE Comparison(operation, pair[1], pair[2])

(* rate and slope: coordinates that repeat or go back are unknown.         *)
Trend(v, axis, rate) ==
  LET samples == v.samples
      At(k) == IF axis = "step" THEN samples[k].step ELSE samples[k].at
      n == Len(samples)
      xs == [k \in DOMAIN samples |-> <<At(k) - At(1), 1>>]
      ys == ValuesIn(v)
      Off(seq, k) == Plus(seq[k], Opposite(Mean(seq))) IN
  CASE v.is # "series" -> Unknown
    [] \E k \in 1 .. n - 1 : At(k + 1) <= At(k) -> Unknown
    [] rate -> Real(Over(Plus(ys[n], Opposite(ys[1])), xs[n]))
    [] OTHER -> Real(Over(Total([k \in 1 .. n |-> Times(Off(xs, k), Off(ys, k))]),
                          Total([k \in 1 .. n |-> Times(Off(xs, k), Off(xs, k))])))

(* The functions of a series of finite numbers.  std and zscore take a     *)
(* square root and are not here.                                           *)
OverValues(name, v, parameter, axis) ==
  LET values == ValuesIn(v)
      n == Len(values)
      sorted == SortSeq(values, IsLess)
      half == n \div 2
      alpha == IF parameter = {} THEN <<1, 5>> ELSE CHOOSE q \in parameter : TRUE
      epsilon == IF parameter = {} THEN <<0, 1>> ELSE CHOOSE q \in parameter : TRUE
      Smooth(ema, q) == Plus(Times(alpha, q), Times(Plus(<<1, 1>>, Opposite(alpha)), ema))
      Change == Plus(values[n], Opposite(values[1])) IN
  CASE v = Unknown -> Unknown
    [] name = "count" -> Real(<<n, 1>>)
    [] n = 0 \/ (\E k \in 1 .. n : ~IsFinite(values[k])) -> Unknown
    [] name = "sum" -> Real(Total(values))
    [] name = "mean" -> Real(Mean(values))
    [] name = "median" -> Real(IF n % 2 = 0 THEN Mean(<<sorted[half], sorted[half + 1]>>) ELSE sorted[half + 1])
    [] name = "min" -> Real(Least(values))
    [] name = "max" -> Real(Greatest(values))
    [] name = "first" -> Real(values[1])
    [] name = "last" -> Real(values[n])
    [] name = "ema" -> IF ~IsFinite(alpha) \/ IsLess(alpha, <<0, 1>>) \/ IsLess(<<1, 1>>, alpha) THEN Unknown
                       ELSE Real(FoldLeft(Smooth, values[1], Tail(values)))
    [] n < 2 -> Unknown
    [] name = "diff" -> Real(Change)
    [] name = "pct_change" -> IF values[1][1] = 0 THEN Unknown ELSE Real(Over(Change, values[1]))
    [] name \in {"rate", "slope"} -> Trend(v, axis, name = "rate")
    [] name = "var" -> Real(Mean([k \in 1 .. n |-> LET off == Plus(values[k], Opposite(Mean(values))) IN Times(off, off)]))
    [] name = "increasing" -> Tri(\A k \in 1 .. n - 1 : IsLess(values[k], values[k + 1]))
    [] name = "decreasing" -> Tri(\A k \in 1 .. n - 1 : IsLess(values[k + 1], values[k]))
    [] name = "stalled" -> Tri(IF IsFinite(epsilon) THEN ~IsLess(epsilon, Plus(Greatest(values), Opposite(Least(values))))
                               ELSE epsilon[1] > 0)
    [] OTHER -> Unknown

TimeCalls == {"no_data", "age", "elapsed"}

RECURSIVE TouchesTime(_)
TouchesTime(expr) ==
  CASE expr.op = "call" -> expr.name \in TimeCalls \/ \E k \in DOMAIN expr.args : TouchesTime(expr.args[k])
    [] expr.op = "unary" -> TouchesTime(expr.arg)
    [] expr.op = "binary" -> TouchesTime(expr.left) \/ TouchesTime(expr.right)
    [] OTHER -> FALSE

Arity(name) == CASE name \in {"step", "elapsed"} -> {0} [] name \in {"ema", "stalled"} -> {1, 2} [] OTHER -> {1}

RECURSIVE ValidExpr(_)
ValidExpr(expr) ==
  CASE expr.op = "metric" -> \A w \in expr.window : w.by = "points" => w.n <= Capacity
    [] expr.op = "unary" -> ValidExpr(expr.arg)
    [] expr.op = "binary" -> ValidExpr(expr.left) /\ ValidExpr(expr.right)
    [] expr.op = "call" ->
         LET Bare == expr.args[1].op = "metric" /\ expr.args[1].window = {} IN
         /\ Len(expr.args) \in Arity(expr.name)
         /\ expr.name \in {"has", "age"} => Bare
         /\ expr.name \in {"rate", "slope"} => expr.args[1].op = "metric" /\ expr.args[1].window # {}
         /\ expr.name = "no_data" => \/ expr.args[1].op = "duration" /\ expr.args[1].value > 0
                                     \/ expr.args[1].op = "number" /\ IsFinite(expr.args[1].value) /\ expr.args[1].value[1] > 0
         /\ expr.name = "diff" /\ Capacity < 2 => ~Bare
         /\ \A k \in DOMAIN expr.args : ValidExpr(expr.args[k])
    [] OTHER -> TRUE

RECURSIVE Evaluate(_, _)
EvaluateCall(name, args, context) ==
  LET Arg(k) == Evaluate(args[k], context)
      first == IF name = "diff" /\ args[1].op = "metric" /\ args[1].window = {}
               THEN MetricValue(args[1].name, {[by |-> "points", n |-> 2]}, context) ELSE Arg(1)
      metric == args[1].name
      seen == SeriesIn(context, metric) \o PendingIn(context, metric)
      quiet == IF context.last = {} THEN context.started ELSE CHOOSE t \in context.last : TRUE
      Is(Test(_)) == IF NumberIn(first) = {} THEN Bool("unknown") ELSE Tri(\E q \in NumberIn(first) : Test(q)) IN
  CASE name = "step" -> Real(<<context.step, 1>>)
    [] name = "elapsed" -> Real(<<context.now - context.started, 1>>)
    [] name = "no_data" ->
         Tri(\E q \in NumberIn(Arg(1)) : IsFinite(q) /\ ~IsLess(<<context.now - quiet, 1>>, q))
    [] name = "isnan" -> Is(LAMBDA q : q = NaN)
    [] name = "isinf" -> Is(LAMBDA q : ~IsFinite(q) /\ q # NaN)
    [] name = "has" -> Tri(metric \in DOMAIN context.metrics \/ (context.tick /\ SeriesIn(context, metric) # <<>>))
    [] name = "age" -> IF seen = <<>> THEN Unknown ELSE Real(<<context.now - Last(seen).at, 1>>)
    [] OTHER -> OverValues(name, first, IF Len(args) = 2 THEN NumberIn(Arg(2)) ELSE {}, context.axis)

EvaluateUnary(operation, v) ==
  IF operation = "not" THEN Bool(Not(Truth(v)))
  ELSE IF NumberIn(v) = {} THEN Unknown
  ELSE LET q == CHOOSE x \in NumberIn(v) : TRUE IN Real(IF operation = "-" THEN Opposite(q) ELSE q)

Evaluate(expr, context) ==
  CASE expr.op = "number" -> Real(expr.value)
    [] expr.op = "duration" -> [is |-> "duration", value |-> expr.value]
    [] expr.op = "metric" -> MetricValue(expr.name, expr.window, context)
    [] expr.op = "unary" -> EvaluateUnary(expr.which, Evaluate(expr.arg, context))
    [] expr.op = "binary" -> EvaluateBinary(expr.which, Evaluate(expr.left, context), Evaluate(expr.right, context))
    [] OTHER -> EvaluateCall(expr.name, expr.args, context)

(* What the condition of a rule says in a context.                         *)
TruthIn(condition, context) == Truth(Evaluate(condition, context))

-------------------------------------------------------------------------------
(* The same from the log alone.                                            *)

(* Every sample ever logged, up to input k.                                *)
LoggedSeries(k) ==
  LET Numeric(m) == {j \in 1 .. k : m \in DOMAIN log[j].metrics /\ log[j].metrics[m] # NotNumeric}
      named == {m \in UNION {DOMAIN log[j].metrics : j \in 1 .. k} : Numeric(m) # {}} IN
  [m \in named |-> LET js == SetToSortSeq(Numeric(m), <) IN
     [i \in DOMAIN js |-> [at |-> log[js[i]].at, step |-> log[js[i]].step, value |-> log[js[i]].metrics[m]]]]

FullContext(rule, k) ==
  LET steps == {j \in 1 .. k : ~log[j].tick} IN
  [step |-> log[k].step, now |-> log[k].at, started |-> engine.started,
   last |-> {log[j].at : j \in {i \in steps : \A h \in steps : h <= i}},
   metrics |-> log[k].metrics, series |-> LoggedSeries(k), pending |-> <<>>,
   partial |-> rule.partial, axis |-> rule.axis, tick |-> log[k].tick]

RECURSIVE TimeWindowed(_)
TimeWindowed(expr) ==
  CASE expr.op = "metric" -> \E w \in expr.window : w.by = "duration"
    [] expr.op = "call" -> \E k \in DOMAIN expr.args : TimeWindowed(expr.args[k])
    [] expr.op = "unary" -> TimeWindowed(expr.arg)
    [] expr.op = "binary" -> TimeWindowed(expr.left) \/ TimeWindowed(expr.right)
    [] OTHER -> FALSE

ClockRunsForward == \A k \in 1 .. Len(log) - 1 : log[k].at <= log[k + 1].at

(* A verdict is what the condition says of every sample ever logged, or    *)
(* unknown when the retained ones do not cover a time window: the bounded  *)
(* series, and reading them before the samples of a step are applied, show *)
(* in no verdict while the clock runs forward (alert/mod.rs prepare,       *)
(* apply; expression/eval.rs metric_value).                                *)
VerdictsReadTheHistory ==
  \A r \in DOMAIN engine.rules :
    LET rule == engine.rules[r].rule
        k == Len(log)
        verdict == log[k].verdict[rule.name] IN
    (k > engine.rules[r].born /\ ClockRunsForward /\ verdict # "skip") =>
      \/ verdict = TruthIn(rule.condition, FullContext(rule, k))
      \/ verdict = "unknown" /\ TimeWindowed(rule.condition)
===============================================================================

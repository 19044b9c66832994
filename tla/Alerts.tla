-------------------------------- MODULE Alerts --------------------------------
(***************************************************************************)
(* The alert engine of the tracker: the metric series it retains and the   *)
(* state it keeps for each rule (consecutive, since_ns, firing, fires,     *)
(* last_fire_ns), moved by committed steps and by the watchdog's ticks.    *)
(* What a condition says of a context is given: the module Expressions.    *)
(*                                                                         *)
(* A step or a tick is prepared and applied under the tracker's lock, so   *)
(* each is one action.  Time is in seconds.  An Option is a set of at most *)
(* one element.                                                            *)
(***************************************************************************)
EXTENDS Integers, Sequences, FiniteSets

CONSTANTS
  Rules,           \* the rules a program may add: AlertRule
  MetricSets,      \* the metrics a step may have: functions on names
  NotNumeric,      \* a metric that numeric_value does not read
  Valid(_),        \* Expr::validate accepts a condition
  ReadsClock(_),   \* touches_time
  Says(_, _),      \* evaluate(condition, context).truth()
  Capacity,        \* alert_window
  MaxRules,        \* 256
  MaxSeries,       \* max_metrics, the series budget
  MaxInputs        \* bounds the log

ASSUME AlertsAssumption ==
  /\ Capacity \in Nat \ {0} /\ MaxRules \in Nat /\ MaxInputs \in Nat
  /\ \A rule \in Rules : {rule.forSteps, rule.forDuration, rule.cooldown} \cup rule.maxFires \subseteq Nat

VARIABLES
  engine,  \* rules with their state, in order; series; last_observed_at_ns
  log      \* what the engine was given and what it answered

alertVars == <<engine, log>>

-------------------------------------------------------------------------------
(* Rules.                                                                  *)

Fresh == [consecutive |-> 0, fires |-> 0, firing |-> FALSE, lastFire |-> {}, lastStep |-> {}, since |-> {}]

ValidRule(rule) ==
  /\ rule.forSteps > 0
  /\ Valid(rule.condition)
  /\ rule.forDuration > 0 => ReadsClock(rule.condition)

AlertsInit ==
  /\ engine = [rules |-> <<>>, series |-> <<>>, last |-> {}, started |-> 0]
  /\ log = <<>>

AddRule(rule) ==
  /\ Len(engine.rules) < MaxRules
  /\ \A k \in DOMAIN engine.rules : engine.rules[k].rule.name # rule.name
  /\ ValidRule(rule)
  /\ engine' = [engine EXCEPT !.rules = Append(@, [rule |-> rule, state |-> Fresh, born |-> Len(log)])]
  /\ UNCHANGED log

(* retain: the rules but the one of that name, which has no second.        *)
RemoveRule(name) ==
  /\ \E k \in DOMAIN engine.rules :
       /\ engine.rules[k].rule.name = name
       /\ engine' = [engine EXCEPT !.rules = SubSeq(@, 1, k - 1) \o SubSeq(@, k + 1, Len(@))]
  /\ UNCHANGED log

(* A plausible slip: every evaluation that is true counts.                 *)
CountedAlways(state, step, tick) == [state EXCEPT !.consecutive = @ + 1, !.lastStep = {step}]

(* A step counts once for a rule.                                          *)
Counted(state, step, tick) ==
  IF tick \/ step \in state.lastStep THEN state
  ELSE [state EXCEPT !.consecutive = @ + 1, !.lastStep = {step}]

MayFire(rule, state, now, tick) ==
  /\ state.consecutive >= rule.forSteps \/ (tick /\ rule.forSteps = 1)
  /\ \A since \in state.since : now - since >= rule.forDuration
  /\ ~(rule.mode = "edge" /\ state.firing)
  /\ \A last \in state.lastFire : now - last >= rule.cooldown
  /\ \A limit \in rule.maxFires : state.fires < limit

(* What one verdict makes of a rule's state, and what it reports.          *)
Judged(rule, state, verdict, step, now, tick) ==
  CASE verdict = "skip" -> [state |-> state, fired |-> FALSE, recovered |-> FALSE]
    [] verdict = "unknown" -> [state |-> [state EXCEPT !.since = {}], fired |-> FALSE, recovered |-> FALSE]
    [] verdict = "false" ->
         [state |-> [state EXCEPT !.consecutive = 0, !.since = {}, !.firing = FALSE],
          fired |-> FALSE, recovered |-> state.firing /\ rule.recovery]
    [] OTHER ->
         LET counted == Counted(state, step, tick)
             ready == [counted EXCEPT !.since = IF @ = {} THEN {now} ELSE @]
             fires == MayFire(rule, ready, now, tick) IN
         [state |-> IF fires THEN [ready EXCEPT !.firing = TRUE, !.fires = @ + 1, !.lastFire = {now}] ELSE ready,
          fired |-> fires, recovered |-> FALSE]

(* A tick leaves rules alone that do not read the clock.                   *)
Verdict(rule, step, now, metrics, samples, last, tick) ==
  LET truth == Says(rule.condition,
        [step |-> step, now |-> now, started |-> engine.started, last |-> last, metrics |-> metrics,
         series |-> engine.series, pending |-> samples, partial |-> rule.partial, axis |-> rule.axis,
         tick |-> tick]) IN
  CASE tick /\ ~ReadsClock(rule.condition) -> "skip"
    [] truth \in {"true", "false"} -> truth
    [] OTHER -> "unknown"

(* A plausible slip: a full series loses its oldest sample too soon.       *)
NewestButOne(all) == SubSeq(all, (IF Len(all) >= Capacity THEN Len(all) - Capacity + 1 ELSE 0) + 1, Len(all))

Newest(all) == SubSeq(all, (IF Len(all) > Capacity THEN Len(all) - Capacity ELSE 0) + 1, Len(all))

Retained(samples) ==
  [m \in DOMAIN engine.series \cup DOMAIN samples |->
     Newest((IF m \in DOMAIN engine.series THEN engine.series[m] ELSE <<>>)
           \o (IF m \in DOMAIN samples THEN <<samples[m]>> ELSE <<>>))]

(* prepare and apply; a batch over the series budget is dropped whole.     *)
Process(step, now, metrics, tick) ==
  LET rules == engine.rules
      NamesOf(ids) == {rules[k].rule.name : k \in ids}
      PlaceOf(name) == CHOOSE k \in DOMAIN rules : rules[k].rule.name = name
      last == IF tick THEN engine.last ELSE {now} IN
  \E samples \in {[m \in {n \in DOMAIN metrics : metrics[n] # NotNumeric} |->
                     [at |-> now, step |-> step, value |-> metrics[m]]]} :
  \E verdict \in {[k \in DOMAIN rules |-> Verdict(rules[k].rule, step, now, metrics, samples, last, tick)]} :
  \E outcome \in {[k \in DOMAIN rules |-> Judged(rules[k].rule, rules[k].state, verdict[k], step, now, tick)]} :
    /\ Len(log) < MaxInputs
    /\ Cardinality(DOMAIN Retained(samples)) <= MaxSeries
    /\ engine' = [engine EXCEPT !.series = Retained(samples), !.last = last,
                    !.rules = [k \in DOMAIN rules |-> [rules[k] EXCEPT !.state = outcome[k].state]]]
    /\ log' = Append(log, [tick |-> tick, step |-> step, at |-> now, metrics |-> metrics,
                           verdict |-> [name \in NamesOf(DOMAIN rules) |-> verdict[PlaceOf(name)]],
                           fired |-> NamesOf({k \in DOMAIN rules : outcome[k].fired}),
                           recovered |-> NamesOf({k \in DOMAIN rules : outcome[k].recovered})])

Step(step, now, metrics) == Process(step, now, metrics, FALSE)

Tick(step, now) == Process(step, now, <<>>, TRUE)

AlertsNext ==
  \/ \E rule \in Rules : AddRule(rule) \/ RemoveRule(rule.name)
  \/ \E step \in Nat, now \in Int : Tick(step, now) \/ \E metrics \in MetricSets : Step(step, now, metrics)

AlertsSpec == AlertsInit /\ [][AlertsNext]_alertVars

-------------------------------------------------------------------------------
(* The same from the log h alone, for a rule r with the log it began at.   *)

Was(h, r, verdict) == {j \in r.born + 1 .. Len(h) : h[j].verdict[r.rule.name] = verdict}

Fires(h, r) == {j \in r.born + 1 .. Len(h) : r.rule.name \in h[j].fired}

(* The steps it was true of, since it was last false: each counts once,    *)
(* where it was first heard.                                               *)
Heard(h, r) == {j \in Was(h, r, "true") : ~h[j].tick}

Steps(h, r) ==
  {j \in Heard(h, r) : /\ \A i \in Heard(h, r) : i < j => h[i].step # h[j].step
                       /\ \A f \in Was(h, r, "false") : f < j}

(* A step that is committed again after another one.                       *)
Returns(h, r) ==
  LET committed == {j \in r.born + 1 .. Len(h) : ~h[j].tick} IN
  \E i, g, j \in committed : i < g /\ g < j /\ h[i].step = h[j].step /\ h[g].step # h[j].step

(* Since when it has been true without a gap.                              *)
Unbroken(h, r) == {j \in Was(h, r, "true") : \A g \in Was(h, r, "false") \cup Was(h, r, "unknown") : g < j}

Onset(h, r) == {j \in Unbroken(h, r) : \A i \in Unbroken(h, r) : j <= i}

Lasted(h, r) == Cardinality(Steps(h, r)) >= r.rule.forSteps \/ (h[Len(h)].tick /\ r.rule.forSteps = 1)

MayAlert(h, r) ==
  LET now == h[Len(h)]
      past == Fires(h, r) \ {Len(h)} IN
  /\ Len(h) \in Was(h, r, "true")
  /\ \A j \in Onset(h, r) : now.at - h[j].at >= r.rule.forDuration
  /\ r.rule.mode = "edge" => \A j \in past : \E f \in Was(h, r, "false") : j < f
  /\ \A j \in past : now.at - h[j].at >= r.rule.cooldown
  /\ \A limit \in r.rule.maxFires : Cardinality(past) < limit

RecoveryDue(h, r) ==
  /\ r.rule.recovery /\ Len(h) \in Was(h, r, "false")
  /\ \E j \in Fires(h, r) : \A f \in Was(h, r, "false") : f < j \/ f = Len(h)

(* An alert is sent exactly when the whole log calls for it: a rule fires  *)
(* when it has held for for_steps distinct steps since it was last false,  *)
(* and without a gap for for_duration, unless it still fires, cools down   *)
(* or is exhausted; and it recovers once for each fire that ended.  A rule *)
(* that is removed and added again starts afresh (alert/mod.rs prepare).   *)
(* The engine knows only the last step it counted: where a step comes back *)
(* after another, for_steps is left out.                                   *)
AlertsAreJustified ==
  \A n \in DOMAIN engine.rules :
    LET r == engine.rules[n]
        fired == r.rule.name \in log[Len(log)].fired IN
    Len(log) > r.born =>
      /\ fired => MayAlert(log, r)
      /\ ~Returns(log, r) => (fired <=> MayAlert(log, r) /\ Lasted(log, r))
      /\ r.rule.name \in log[Len(log)].recovered <=> RecoveryDue(log, r)
===============================================================================

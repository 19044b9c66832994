----------------------------- MODULE TrackerProofs -----------------------------
(***************************************************************************)
(* The tracker's safety properties for any number of threads, steps,       *)
(* alerts and queue sizes, whatever the sink and the clock do.             *)
(*                                                                         *)
(* The invariant has three parts, each about its own variables and proved  *)
(* from the parts before it: who holds the mutex and what its batch adds   *)
(* to the log; who is closing the tracker and what is left of the          *)
(* watchdog; where the alerts are.                                         *)
(***************************************************************************)
EXTENDS Tracker, FiniteSetTheorems, TLAPS

AnyThread == Thread \cup {Watchdog}

Holding == {"capture", "send", "enqueue"}

Final(events) == \E i \in DOMAIN events : events[i].final

(* The mutex holder is the one thread between lock and unlock.             *)
OneHolder ==
  /\ lock \in AnyThread \cup {Nobody}
  /\ pc \in [AnyThread -> Places]
  /\ \A t \in AnyThread : pc[t] \in Holding <=> lock = t
  /\ lock # Nobody => prepared \in Batches
  /\ lock = Nobody => prepared = NoBatch
  /\ \A t \in AnyThread : pc[t] = "enqueue" => prepared.alerts > 0

(* Under the monotonic policy the next step follows the last committed     *)
(* one, and an open step is a patch of it or not behind the next one.      *)
Ordered(s) ==
  /\ s.last_committed_step # None => s.next_step = s.last_committed_step + 1
  /\ s.open_step # None => s.open_step >= s.next_step \/ s.open_step = s.last_committed_step

(* The records `events', the first of which has number n + 1, end in a     *)
(* terminal record or have none, and go from step `low' to step `high'.    *)
Numbered(events, n) ==
  \A i \in DOMAIN events : /\ events[i].commit = n + i
                           /\ events[i].final => i = Len(events)

Climbs(events, low, high) ==
  /\ \A i \in DOMAIN events : low <= events[i].step /\ events[i].step <= high
  /\ \A i, j \in DOMAIN events : i < j => events[i].step <= events[j].step
  /\ low <= high

(* The batch goes on where the state s is.                                 *)
Continuation(batch, s) ==
  /\ Numbered(batch.events, s.commits)
  /\ batch.next.commits = s.commits + Len(batch.events)
  /\ batch.next.finished <=> Final(batch.events)
  /\ Monotonic => /\ Ordered(batch.next)
                  /\ Climbs(batch.events, event_step(s), event_step(batch.next))

(* The state has counted the log's records, and stands at or past their    *)
(* steps; a batch not yet captured continues both, and only the finishing  *)
(* thread's is terminal.                                                   *)
LogInv ==
  /\ state \in States /\ log \in Seq(Records)
  /\ Numbered(log, 0) /\ state.commits = Len(log) /\ (state.finished <=> Final(log))
  /\ Monotonic => Ordered(state) /\ Climbs(log, 0, event_step(state))
  /\ lock # Nobody /\ prepared.next.finished => lock # Watchdog
  /\ lock # Nobody /\ pc[lock] = "capture" => ~state.finished /\ Continuation(prepared, state)
  /\ lock # Nobody /\ pc[lock] # "capture" => state = prepared.next

(* finish after its batch is captured, and the places where the watchdog   *)
(* is known to have ended.                                                 *)
ClosingPlaces == {"stop_watchdog", "join", "submit", "await", "set_stop", "reap"}

QuietPlaces == {"submit", "await", "set_stop", "reap"}

DropPlaces == {"drop", "drop_join", "drop_queue", "drop_self"}

NoWatchdog == ~watchdog /\ pc[Watchdog] \in {"none", "gone"}

(* One thread closes the tracker, once, after the state is finished and    *)
(* while nobody can take the mutex for another batch; it goes on without a *)
(* watchdog, and the worker is told to stop last.                          *)
CloseInv ==
  /\ {handles, watchdog, told, stop, late, flushed} \subseteq BOOLEAN
  /\ outcome \in {"none", "delivered", "incomplete"}
  /\ pc[Watchdog] \notin ClosingPlaces \cup {"check", "lock_finish"}
  /\ \A t \in AnyThread : pc[t] \in ClosingPlaces =>
       /\ state.finished /\ lock = Nobody /\ outcome = "none"
       /\ \A u \in AnyThread : pc[u] \in ClosingPlaces => u = t
       /\ pc[t] # "stop_watchdog" => ~watchdog
       /\ pc[t] \in QuietPlaces => NoWatchdog
       /\ stop <=> pc[t] = "reap"
  /\ outcome # "none" => state.finished /\ lock = Nobody /\ NoWatchdog /\ stop
  /\ handles => \A t \in AnyThread : pc[t] \notin DropPlaces
  /\ ~handles => \A t \in Thread : pc[t] \in DropPlaces \cup {"idle"}
  /\ handles /\ ~watchdog => \/ pc[Watchdog] \in {"none", "gone"}
                             \/ \E t \in Thread : pc[t] = "join"
  /\ stop /\ handles => outcome # "none" \/ \E t \in Thread : pc[t] = "reap"

(* Nobody can send an alert, or a flush, any more.                         *)
Settled ==
  /\ state.finished /\ lock = Nobody
  /\ \A t \in AnyThread : pc[t] \notin {"stop_watchdog", "join", "submit"}

Answered == reply \in {"complete", "incomplete"}

Working == {"loop", "recv", "sink_send", "count", "release", "sink_flush"}

Sending == \E t \in AnyThread : pc[t] = "enqueue"

(* Where every alert is.  A flush is the last message ever queued, and its *)
(* answer comes after everything before it is done.                        *)
QueueInv ==
  /\ queue \in Seq({"event", "flush"}) /\ Len(queue) <= QueueCapacity
  /\ {accepted, completed, dropped, refused} \subseteq Nat
  /\ bytes \in 0 .. MaxQueueBytes
  /\ worker \in Working \cup {"drain", "sink_close", "gone", "panicked"}
  /\ reply \in {"none", "complete", "incomplete", "lost"}
  /\ worker # "panicked" =>
       /\ accepted = completed + dropped + Queued + OneIf(worker \in {"sink_send", "count"})
                     + OneIf(Sending)
       /\ bytes = Queued + OneIf(worker \in {"sink_send", "count", "release"})
  /\ worker = "panicked" => accepted >= completed + dropped + OneIf(Sending)
  /\ worker \in Working => dropped = refused
  /\ worker \in {"drain", "sink_close", "gone"} => stop
  /\ worker \in {"sink_flush", "sink_close", "gone", "panicked"} => queue = <<>>
  /\ \A i \in DOMAIN queue : queue[i] = "flush" => i = Len(queue) /\ Settled
  /\ worker = "sink_flush" => Settled
  /\ Answered => /\ Settled /\ queue = <<>> /\ worker \notin {"sink_send", "count", "release", "sink_flush"}
                 /\ accepted = completed + dropped /\ dropped = refused
  /\ flushed => reply = "complete"
  /\ outcome = "delivered" => reply = "complete"

TrackerInv == OneHolder /\ LogInv /\ CloseInv /\ QueueInv

-------------------------------------------------------------------------------
(* What a call prepares, step by step.                                     *)

(* A batch without a terminal record that continues the state s.           *)
GoodBatch(batch, s) ==
  /\ batch \in Batches
  /\ Numbered(batch.events, s.commits)
  /\ batch.next.commits = s.commits + Len(batch.events)
  /\ ~batch.next.finished
  /\ \A i \in DOMAIN batch.events : ~batch.events[i].final
  /\ Monotonic => /\ Ordered(batch.next)
                  /\ Climbs(batch.events, event_step(s), event_step(batch.next))

(* Steps are naturals, absent or not, and so is the step of an event.      *)
LEMMA StepsAreNatural ==
  ASSUME NEW s \in States
  PROVE  /\ event_step(s) \in 0 .. MaxStep
         /\ s.next_step \in 0 .. MaxStep /\ s.commits \in Nat
         /\ s.open_step # None => s.open_step \in 0 .. MaxStep
         /\ s.last_committed_step # None => s.last_committed_step \in 0 .. MaxStep - 1
<1>1. /\ s.next_step \in 0 .. MaxStep /\ s.commits \in Nat
      /\ s.open_step \in 0 .. MaxStep \cup {None}
      /\ s.last_committed_step \in 0 .. MaxStep - 1 \cup {None}
  BY DEF States
<1>2. 0 .. MaxStep - 1 \subseteq 0 .. MaxStep
  BY TrackerAssumption
<1>3. event_step(s) \in 0 .. MaxStep
  BY <1>1, <1>2 DEF event_step
<1> QED BY <1>1, <1>3

(* An appended record keeps a batch good if it is the next one, of the     *)
(* step where the batch stands, and the new state stands there or later.   *)
LEMMA AppendIsGood ==
  ASSUME NEW s \in States, NEW batch, GoodBatch(batch, s),
         NEW r \in Records, r.commit = batch.next.commits + 1, ~r.final,
         r.step = event_step(batch.next),
         NEW n \in States, n.commits = batch.next.commits + 1, ~n.finished,
         Monotonic => Ordered(n) /\ event_step(n) = r.step,
         NEW a \in Nat
  PROVE  GoodBatch([next |-> n, events |-> Append(batch.events, r), alerts |-> a], s)
<1> DEFINE events == batch.events
           all == Append(events, r)
           new == [next |-> n, events |-> all, alerts |-> a]
<1>1. /\ batch.next \in States /\ events \in Seq(Records) /\ s.commits \in Nat
      /\ batch.next.commits = s.commits + Len(events)
      /\ Numbered(events, s.commits) /\ \A i \in DOMAIN events : ~events[i].final
  BY DEF GoodBatch, Batches, States
<1> HIDE DEF events
<1>2. /\ all \in Seq(Records) /\ Len(events) \in Nat /\ Len(all) = Len(events) + 1
      /\ DOMAIN events = 1 .. Len(events) /\ DOMAIN all = 1 .. Len(events) + 1
      /\ all[Len(events) + 1] = r
      /\ \A i \in DOMAIN events : all[i] = events[i]
  BY <1>1
<1>3. \A i \in DOMAIN all : i \in DOMAIN events \/ i = Len(events) + 1
  BY <1>2
<1> HIDE DEF all
<1>4. new \in Batches
  BY <1>2 DEF Batches
<1>5. ASSUME NEW i \in DOMAIN all
      PROVE  all[i].commit = s.commits + i /\ ~all[i].final
  <2>1. CASE i \in DOMAIN events
    BY <1>1, <1>2, <2>1 DEF Numbered
  <2>2. CASE i = Len(events) + 1
    <3>1. all[i] = r /\ r.commit = (s.commits + Len(events)) + 1
      BY <1>1, <1>2, <2>2
    <3>2. (s.commits + Len(events)) + 1 = s.commits + i
      BY <1>1, <1>2, <2>2, SMTT(30)
    <3>3. ~r.final
      OBVIOUS
    <3> QED BY <3>1, <3>2, <3>3
  <2> QED BY <1>3, <2>1, <2>2
<1>6. Numbered(all, s.commits) /\ n.commits = s.commits + Len(all)
  BY <1>1, <1>2, <1>5 DEF Numbered
<1>7. ASSUME Monotonic PROVE Ordered(n) /\ Climbs(all, event_step(s), event_step(n))
  <2>1. event_step(s) \in Nat /\ event_step(batch.next) \in Nat
    BY <1>1, StepsAreNatural
  <2>2. \A i \in DOMAIN events : events[i].step \in Nat
    <3>1. \A i \in DOMAIN events : events[i] \in Records
      BY <1>1
    <3> QED BY <3>1, TrackerAssumption DEF Records
  <2>3. Climbs(events, event_step(s), event_step(batch.next))
    BY <1>7 DEF GoodBatch, events
  <2>4. event_step(n) = event_step(batch.next) /\ r.step = event_step(batch.next)
    BY <1>7
  <2>5. \A i \in DOMAIN all : event_step(s) <= all[i].step /\ all[i].step <= event_step(n)
    BY <1>2, <1>3, <2>1, <2>3, <2>4 DEF Climbs
  <2>6. \A i, j \in DOMAIN all : i < j => all[i].step <= all[j].step
    <3> SUFFICES ASSUME NEW i \in DOMAIN all, NEW j \in DOMAIN all, i < j
                 PROVE  all[i].step <= all[j].step
      OBVIOUS
    <3>1. i \in DOMAIN events
      BY <1>2
    <3>2. CASE j \in DOMAIN events
      BY <1>2, <2>3, <3>1, <3>2 DEF Climbs
    <3>3. CASE j = Len(events) + 1
      BY <1>2, <2>3, <2>4, <3>1, <3>3 DEF Climbs
    <3> QED BY <1>3, <3>2, <3>3
  <2> QED BY <1>7, <2>3, <2>4, <2>5, <2>6 DEF Climbs
<1> QED BY <1>4, <1>5, <1>6, <1>7 DEF GoodBatch, all, events

(* prepare_commit keeps a batch good while its open step is not the last   *)
(* possible one.                                                           *)
LEMMA CommitIsGood ==
  ASSUME NEW s \in States, NEW batch, GoodBatch(batch, s), NEW a \in Nat,
         batch.next.open_step # MaxStep
  PROVE  /\ GoodBatch(PrepareCommit(batch, a), s)
         /\ PrepareCommit(batch, a).next.open_step = None
         /\ batch.next.open_step # None =>
              LET step == batch.next.open_step
              IN /\ PrepareCommit(batch, a).next.last_committed_step = step
                 /\ Monotonic => PrepareCommit(batch, a).next.next_step = step + 1
<1> DEFINE b == batch.next
           step == b.open_step
           n == [b EXCEPT !.open_step = None, !.commits = @ + 1,
                          !.next_step = IF @ > step + 1 THEN @ ELSE step + 1,
                          !.last_committed_step = step]
           r == Record("observation", b, step)
<1>1. b \in States /\ batch.alerts \in Nat /\ ~b.finished
  BY DEF GoodBatch, Batches
<1>2. CASE step = None
  BY <1>2 DEF PrepareCommit
<1>3. CASE step # None
  <2>1. PrepareCommit(batch, a) =
          [next |-> n, events |-> Append(batch.events, r), alerts |-> batch.alerts + a]
    BY <1>3 DEF PrepareCommit
  <2>2. step \in 0 .. MaxStep - 1 /\ step + 1 \in 0 .. MaxStep
        /\ b.next_step \in 0 .. MaxStep /\ b.commits \in Nat
    BY <1>1, <1>3, StepsAreNatural, TrackerAssumption
  <2>3. /\ n.open_step = None /\ n.commits = b.commits + 1 /\ ~n.finished
        /\ n.next_step = IF b.next_step > step + 1 THEN b.next_step ELSE step + 1
        /\ n.last_committed_step = step
    BY <1>1 DEF States
  <2>4. n \in States
    <3>1. /\ n.next_step \in 0 .. MaxStep /\ n.commits \in Nat /\ n.finished \in BOOLEAN
          /\ n.open_step \in 0 .. MaxStep \cup {None}
          /\ n.last_committed_step \in 0 .. MaxStep - 1 \cup {None}
      BY <1>1, <2>2, <2>3, TrackerAssumption DEF States
    <3>2. n = [f \in {"next_step", "open_step", "last_committed_step", "commits", "finished"} |->
                 n[f]]
      BY <1>1 DEF States
    <3> HIDE DEF n
    <3> QED BY <3>1, <3>2 DEF States
  <2>5. r \in Records /\ r.commit = b.commits + 1 /\ ~r.final /\ r.step = step
    <3>1. step \in 0 .. MaxStep /\ b.commits + 1 \in Nat \ {0}
      BY <2>2, TrackerAssumption
    <3> QED BY <3>1 DEF Record, Records
  <2>6. event_step(b) = step /\ event_step(n) = step
    BY <1>3, <2>3 DEF event_step
  <2>7. ASSUME Monotonic PROVE n.next_step = step + 1
    <3>1. Ordered(b)
      BY <2>7 DEF GoodBatch
    <3> QED BY <1>3, <2>2, <2>3, <3>1 DEF Ordered
  <2>8. Monotonic => Ordered(n) /\ event_step(n) = r.step
    BY <2>3, <2>5, <2>6, <2>7 DEF Ordered
  <2>9. batch.alerts + a \in Nat
    BY <1>1
  <2> HIDE DEF n, r
  <2>10. GoodBatch(PrepareCommit(batch, a), s)
    BY <1>1, <2>1, <2>3, <2>4, <2>5, <2>6, <2>8, <2>9, AppendIsGood
  <2> QED BY <2>1, <2>3, <2>7, <2>10
<1> QED BY <1>2, <1>3

(* prepare_event keeps a batch good.                                       *)
LEMMA EventIsGood ==
  ASSUME NEW s \in States, NEW batch, GoodBatch(batch, s), NEW a \in Nat
  PROVE  GoodBatch(PrepareEvent(batch, a), s)
<1> DEFINE b == batch.next
           n == [b EXCEPT !.commits = @ + 1]
           r == Record("event", b, event_step(b))
<1>1. b \in States /\ batch.alerts \in Nat /\ ~b.finished /\ b.commits \in Nat
  BY DEF GoodBatch, Batches, States
<1>2. PrepareEvent(batch, a) =
        [next |-> n, events |-> Append(batch.events, r), alerts |-> batch.alerts + a]
  BY DEF PrepareEvent
<1>3. /\ n.open_step = b.open_step /\ n.commits = b.commits + 1 /\ ~n.finished
      /\ n.next_step = b.next_step /\ n.last_committed_step = b.last_committed_step
  BY <1>1 DEF States
<1>4. n \in States
  BY <1>1 DEF States
<1>5. event_step(b) \in 0 .. MaxStep
  BY <1>1, StepsAreNatural
<1>6. r \in Records /\ r.commit = b.commits + 1 /\ ~r.final /\ r.step = event_step(b)
  BY <1>1, <1>5 DEF Record, Records
<1>7. event_step(n) = event_step(b)
  BY <1>3 DEF event_step
<1>8. Monotonic => Ordered(n) /\ event_step(n) = r.step
  BY <1>3, <1>6, <1>7 DEF Ordered, GoodBatch
<1>9. batch.alerts + a \in Nat
  BY <1>1
<1> HIDE DEF n, r
<1> QED BY <1>1, <1>2, <1>3, <1>4, <1>6, <1>8, <1>9, AppendIsGood

(* Opening a step that the policy allows keeps a batch good.               *)
LEMMA OpeningIsGood ==
  ASSUME NEW s \in States, NEW batch, GoodBatch(batch, s), NEW target \in 0 .. MaxStep,
         Monotonic => /\ event_step(batch.next) <= target
                      /\ \/ target >= batch.next.next_step
                         \/ target = batch.next.last_committed_step
  PROVE  /\ GoodBatch([batch EXCEPT !.next.open_step = target], s)
         /\ [batch EXCEPT !.next.open_step = target].next.open_step = target
         /\ [batch EXCEPT !.next.open_step = target].next.next_step = batch.next.next_step
<1> DEFINE b == batch.next
           n == [b EXCEPT !.open_step = target]
           new == [batch EXCEPT !.next.open_step = target]
<1>1. batch \in Batches /\ b \in States /\ ~b.finished
  BY DEF GoodBatch, Batches
<1>2. new.next = n /\ new.events = batch.events /\ new.alerts = batch.alerts
  BY <1>1 DEF Batches
<1>3. /\ n.open_step = target /\ n.commits = b.commits /\ ~n.finished
      /\ n.next_step = b.next_step /\ n.last_committed_step = b.last_committed_step
  BY <1>1 DEF States
<1>4. n \in States /\ new \in Batches
  BY <1>1 DEF States, Batches
<1>5. event_step(n) = target
  BY <1>3, TrackerAssumption DEF event_step
<1> HIDE DEF n, new
<1>6. ASSUME Monotonic PROVE Ordered(n) /\ Climbs(batch.events, event_step(s), event_step(n))
  <2>1. event_step(b) \in Nat /\ event_step(s) \in Nat
    BY <1>1, StepsAreNatural
  <2>2. \A i \in DOMAIN batch.events : batch.events[i].step \in Nat
    <3>1. \A i \in DOMAIN batch.events : batch.events[i] \in Records
      BY <1>1 DEF Batches
    <3> QED BY <3>1, TrackerAssumption DEF Records
  <2>3. Ordered(b) /\ Climbs(batch.events, event_step(s), event_step(b))
    BY <1>6 DEF GoodBatch
  <2>4. event_step(b) <= target /\ (target >= b.next_step \/ target = b.last_committed_step)
    BY <1>6
  <2>5. Ordered(n)
    BY <1>3, <2>3, <2>4 DEF Ordered
  <2>6. Climbs(batch.events, event_step(s), target)
    BY <2>1, <2>2, <2>3, <2>4 DEF Climbs
  <2> QED BY <1>5, <2>5, <2>6
<1>7. GoodBatch(new, s)
  BY <1>1, <1>2, <1>3, <1>4, <1>6 DEF GoodBatch
<1> QED BY <1>2, <1>3, <1>7 DEF new

(* What log, flush, artifact, alert and the watchdog prepare is good.      *)
LEMMA FreshIsGood ==
  ASSUME state \in States, ~state.finished, Monotonic => Ordered(state)
  PROVE  GoodBatch(Fresh, state) /\ Fresh.next = state
<1>1. Fresh.next = state /\ Fresh.events = <<>> /\ Fresh.alerts = 0
  BY DEF Fresh
<1>2. Fresh \in Batches
  BY DEF Fresh, Batches
<1>3. DOMAIN Fresh.events = {} /\ Len(Fresh.events) = 0
  BY <1>1
<1>4. event_step(state) \in Nat /\ state.commits \in Nat
  BY StepsAreNatural
<1>5. Numbered(Fresh.events, state.commits) /\ Climbs(Fresh.events, event_step(state), event_step(state))
  BY <1>3, <1>4 DEF Numbered, Climbs
<1>6. Fresh.next.commits = state.commits + Len(Fresh.events)
  BY <1>1, <1>3, <1>4
<1> QED BY <1>1, <1>2, <1>3, <1>5, <1>6 DEF GoodBatch

(* What log and record_span prepare: a commit at most before the selected  *)
(* step is opened and one after it.                                        *)
LEMMA LoggedIsGood ==
  ASSUME state \in States, ~state.finished, Monotonic => Ordered(state),
         NEW batch \in Logged
  PROVE  GoodBatch(batch, state)
<1> DEFINE Targets ==
             {x \in {resolve_step(state, step) : step \in {None} \cup 0 .. MaxStep - 1} :
                ~Rejected(state, x) /\ ~(Supersedes(state, x) /\ Exhausted(state))}
           Sel(x, n) == IF Supersedes(state, x) THEN PrepareCommit(Fresh, n) ELSE Fresh
           Op(x, n) == [Sel(x, n) EXCEPT !.next.open_step = x]
           Batch(x, n, m, c) == IF c THEN PrepareCommit(Op(x, n), m) ELSE Op(x, n)
<1>1. PICK n \in 0 .. MaxAlerts, m \in 0 .. MaxAlerts, commit \in BOOLEAN, target \in Targets :
        batch = Batch(target, n, m, commit) /\ ~(batch.next.next_step > MaxStep)
  BY DEF Logged
<1>2. n \in Nat /\ m \in Nat
  BY TrackerAssumption
<1>3. ~Rejected(state, target) /\ ~(Supersedes(state, target) /\ Exhausted(state))
  OBVIOUS
<1>4. target \in 0 .. MaxStep
  <2>1. PICK step \in {None} \cup 0 .. MaxStep - 1 : target = resolve_step(state, step)
    OBVIOUS
  <2>2. step # None => step \in 0 .. MaxStep
    BY TrackerAssumption
  <2> QED BY <2>1, <2>2, StepsAreNatural DEF resolve_step
<1> HIDE DEF Targets
<1>5. GoodBatch(Fresh, state) /\ Fresh.next = state
  BY FreshIsGood
<1> DEFINE sel == Sel(target, n)
<1>6. /\ GoodBatch(sel, state)
      /\ Monotonic => /\ event_step(sel.next) <= target
                      /\ target >= sel.next.next_step \/ target = sel.next.last_committed_step
  <2>1. CASE Supersedes(state, target)
    <3>1. state.open_step # None /\ target # state.open_step /\ state.open_step # MaxStep
      BY <1>3, <2>1 DEF Supersedes, Exhausted
    <3>2. state.open_step \in Nat
      BY <3>1, StepsAreNatural
    <3>3. /\ GoodBatch(PrepareCommit(Fresh, n), state)
          /\ PrepareCommit(Fresh, n).next.open_step = None
          /\ PrepareCommit(Fresh, n).next.last_committed_step = state.open_step
          /\ Monotonic => PrepareCommit(Fresh, n).next.next_step = state.open_step + 1
      BY <1>2, <1>5, <3>1, CommitIsGood
    <3>4. sel = PrepareCommit(Fresh, n)
      BY <2>1
    <3> HIDE DEF sel
    <3>5. event_step(sel.next) = state.open_step
      BY <3>1, <3>3, <3>4 DEF event_step
    <3>6. Monotonic => target > state.open_step
      BY <1>3, <1>4, <3>1, <3>2 DEF Rejected
    <3>7. Monotonic => target >= state.open_step + 1
      BY <1>4, <3>2, <3>6
    <3> QED BY <1>4, <3>2, <3>3, <3>4, <3>5, <3>6, <3>7
  <2>2. CASE ~Supersedes(state, target)
    <3>1. sel = Fresh /\ sel.next = state
      BY <1>5, <2>2
    <3> HIDE DEF sel
    <3>2. ASSUME Monotonic
          PROVE  /\ event_step(state) <= target
                 /\ target >= state.next_step \/ target = state.last_committed_step
      <4>1. state.next_step \in Nat /\ target \in Nat
            /\ (state.last_committed_step # None => state.last_committed_step \in Nat)
            /\ (state.open_step # None => state.open_step \in Nat)
        BY <1>4, StepsAreNatural
      <4>2. Ordered(state)
        BY <3>2
      <4>3. CASE state.open_step # None
        <5>1. target = state.open_step
          BY <2>2, <4>3 DEF Supersedes
        <5> QED BY <4>1, <4>2, <4>3, <5>1 DEF Ordered, event_step
      <4>4. CASE state.open_step = None
        <5>1. target >= state.next_step \/ target = state.last_committed_step
          BY <1>3, <3>2, <4>1, <4>4 DEF Rejected
        <5>2. CASE state.last_committed_step = None
          <6>1. event_step(state) = state.next_step
            BY <4>4, <5>2 DEF event_step
          <6> QED BY <4>1, <5>1, <5>2, <6>1, TrackerAssumption
        <5>3. CASE state.last_committed_step # None
          <6>1. event_step(state) = state.last_committed_step
                /\ state.next_step = state.last_committed_step + 1
            BY <4>2, <4>4, <5>3 DEF event_step, Ordered
          <6> QED BY <4>1, <5>1, <5>3, <6>1
        <5> QED BY <5>2, <5>3
      <4> QED BY <4>3, <4>4
    <3> QED BY <1>5, <3>1, <3>2
  <2> QED BY <2>1, <2>2
<1> HIDE DEF sel
<1> DEFINE op == [sel EXCEPT !.next.open_step = target]
<1>7. GoodBatch(op, state) /\ op.next.open_step = target
  BY <1>4, <1>6, OpeningIsGood
<1>8. batch = IF commit THEN PrepareCommit(op, m) ELSE op
  BY <1>1 DEF sel
<1> HIDE DEF op
<1>9. CASE ~commit
  BY <1>7, <1>8, <1>9
<1>10. CASE commit
  <2>1. target # MaxStep
    <3> SUFFICES ASSUME target = MaxStep PROVE FALSE
      OBVIOUS
    <3>1. op.next \in States /\ op.next.open_step = MaxStep
      BY <1>7 DEF GoodBatch, Batches
    <3>2. MaxStep # None /\ MaxStep + 1 > MaxStep
      BY TrackerAssumption
    <3>3. batch.next.next_step =
            IF op.next.next_step > MaxStep + 1 THEN op.next.next_step ELSE MaxStep + 1
      BY <1>8, <1>10, <3>1, <3>2 DEF PrepareCommit, States
    <3>4. op.next.next_step \in 0 .. MaxStep
      BY <3>1, StepsAreNatural
    <3> QED BY <1>1, <3>2, <3>3, <3>4, TrackerAssumption
  <2> QED BY <1>2, <1>7, <1>8, <1>10, <2>1, CommitIsGood
<1> QED BY <1>9, <1>10

(* Whatever a call other than finish prepares is good.                     *)
LEMMA PreparedIsGood ==
  ASSUME state \in States, ~state.finished, Monotonic => Ordered(state),
         NEW batch \in Logged \cup Flushed \cup Noted \cup Ticked
  PROVE  GoodBatch(batch, state)
<1>1. GoodBatch(Fresh, state) /\ Fresh.next = state
  BY FreshIsGood
<1>2. \A n \in 0 .. MaxAlerts : n \in Nat
  BY TrackerAssumption
<1>3. CASE batch \in Logged
  BY <1>3, LoggedIsGood
<1>4. CASE batch \in Flushed
  <2>1. state.open_step # MaxStep
    BY <1>4 DEF Flushed, Exhausted
  <2>2. PICK n \in 0 .. MaxAlerts : batch = PrepareCommit(Fresh, n)
    BY <1>4 DEF Flushed
  <2> QED BY <1>1, <1>2, <2>1, <2>2, CommitIsGood
<1>5. CASE batch \in Noted
  <2>1. PICK n \in 0 .. 1 : batch = PrepareEvent(Fresh, n)
    BY <1>5 DEF Noted
  <2> QED BY <1>1, <2>1, EventIsGood
<1>6. CASE batch \in Ticked
  <2>1. CASE batch = Fresh
    BY <1>1, <2>1
  <2>2. CASE batch # Fresh
    <3>1. PICK n \in 1 .. MaxAlerts : batch = PrepareEvent(Fresh, n)
      BY <1>6, <2>2 DEF Ticked
    <3>2. n \in Nat
      BY TrackerAssumption
    <3> QED BY <1>1, <3>1, <3>2, EventIsGood
  <2> QED BY <2>1, <2>2
<1> QED BY <1>3, <1>4, <1>5, <1>6

(* A good batch is one to go on with.                                      *)
LEMMA GoodContinues ==
  ASSUME NEW s \in States, NEW batch, GoodBatch(batch, s)
  PROVE  batch \in Batches /\ Continuation(batch, s) /\ ~batch.next.finished
BY DEF GoodBatch, Continuation, Final

(* What finish prepares continues the state too, and ends in the one       *)
(* terminal record.                                                        *)
LEMMA FinishedIsGood ==
  ASSUME state \in States, ~state.finished, Monotonic => Ordered(state),
         NEW batch \in Finished
  PROVE  batch \in Batches /\ Continuation(batch, state)
<1> DEFINE Before(n) == PrepareEvent(PrepareCommit(Fresh, n), 0)
<1>1. /\ ~Exhausted(state)
      /\ \E n \in 0 .. MaxAlerts : batch = [Before(n) EXCEPT !.next.finished = TRUE,
                                             !.events[Len(Before(n).events)].final = TRUE]
  BY DEF Finished
<1>2. PICK n \in 0 .. MaxAlerts : batch = [Before(n) EXCEPT !.next.finished = TRUE,
                                          !.events[Len(Before(n).events)].final = TRUE]
  BY <1>1
<1>3. n \in Nat /\ 0 \in Nat /\ state.open_step # MaxStep
  BY <1>1, TrackerAssumption DEF Exhausted
<1>4. GoodBatch(Fresh, state) /\ Fresh.next = state
  BY FreshIsGood
<1> DEFINE committed == PrepareCommit(Fresh, n)
           before == PrepareEvent(committed, 0)
           k == Len(before.events)
<1>5. GoodBatch(committed, state)
  BY <1>3, <1>4, CommitIsGood
<1> HIDE DEF committed
<1>6. GoodBatch(before, state)
  BY <1>3, <1>5, EventIsGood
<1>7. before.events # <<>>
  <2>1. committed.events \in Seq(Records)
    BY <1>5 DEF GoodBatch, Batches
  <2>2. before.events = Append(committed.events, Record("event", committed.next, event_step(committed.next)))
    BY DEF PrepareEvent
  <2> QED BY <2>1, <2>2
<1>8. batch = [before EXCEPT !.next.finished = TRUE, !.events[k].final = TRUE]
  BY <1>2 DEF committed
<1> HIDE DEF before
<1>9. /\ before \in Batches /\ before.next \in States /\ before.events \in Seq(Records)
      /\ before.alerts \in Nat
  BY <1>6 DEF GoodBatch, Batches
<1>10. k \in Nat /\ k \in DOMAIN before.events /\ DOMAIN before.events = 1 .. k
  BY <1>7, <1>9
<1> HIDE DEF k
<1> DEFINE next == [before.next EXCEPT !.finished = TRUE]
           last == [before.events[k] EXCEPT !.final = TRUE]
           events == [before.events EXCEPT ![k] = last]
<1>11. batch.next = next /\ batch.events = events /\ batch.alerts = before.alerts
  BY <1>8, <1>9 DEF Batches
<1>12. /\ next \in States /\ next.commits = before.next.commits /\ next.finished
       /\ next.open_step = before.next.open_step /\ next.next_step = before.next.next_step
       /\ next.last_committed_step = before.next.last_committed_step
  BY <1>9 DEF States
<1>13. before.events[k] \in Records
  BY <1>9, <1>10
<1>14. /\ last \in Records /\ last.final /\ last.commit = before.events[k].commit
       /\ last.step = before.events[k].step
  BY <1>13 DEF Records
<1> HIDE DEF last
<1>15. /\ events \in Seq(Records) /\ Len(events) = k /\ DOMAIN events = 1 .. k
       /\ events[k] = last /\ \A i \in 1 .. k : i # k => events[i] = before.events[i]
  <2>1. events \in [1 .. k -> Records]
    BY <1>9, <1>10, <1>14
  <2>2. events \in Seq(Records) /\ Len(events) = k /\ DOMAIN events = 1 .. k
    <3> HIDE DEF events
    <3> QED BY <1>10, <2>1
  <2> QED BY <1>9, <1>10, <2>2
<1> HIDE DEF events, next
<1>16. batch \in Batches
  <2>1. batch = [f \in {"next", "events", "alerts"} |-> batch[f]]
    BY <1>8, <1>9 DEF Batches
  <2> QED BY <1>9, <1>11, <1>12, <1>15, <2>1 DEF Batches
<1>17. \A i \in 1 .. k : /\ events[i].commit = before.events[i].commit
                         /\ events[i].step = before.events[i].step
                         /\ events[i].final <=> i = k
  BY <1>6, <1>10, <1>14, <1>15 DEF GoodBatch
<1>18. Numbered(events, state.commits) /\ Final(events)
  BY <1>6, <1>10, <1>15, <1>17 DEF GoodBatch, Numbered, Final
<1>19. next.commits = state.commits + Len(events)
  BY <1>6, <1>12, <1>15 DEF GoodBatch, k
<1>20. event_step(next) = event_step(before.next)
  BY <1>12 DEF event_step
<1>21. ASSUME Monotonic PROVE Ordered(next) /\ Climbs(events, event_step(state), event_step(next))
  <2>1. Ordered(before.next) /\ Climbs(before.events, event_step(state), event_step(before.next))
    BY <1>6, <1>21 DEF GoodBatch
  <2>2. Ordered(next)
    BY <1>12, <2>1 DEF Ordered
  <2> QED BY <1>10, <1>15, <1>17, <1>20, <2>1, <2>2 DEF Climbs
<1> QED BY <1>11, <1>12, <1>16, <1>18, <1>19, <1>21 DEF Continuation

-------------------------------------------------------------------------------
(* The mutex and the log.                                                  *)

HolderInv == OneHolder /\ LogInv

(* A thread that moves outside the mutex, or while it sends alerts, leaves *)
(* holder and log as they are.                                             *)
LEMMA MoveKeepsHolder ==
  ASSUME HolderInv, UNCHANGED tracker, NEW t \in AnyThread, NEW label \in Places,
         pc' = [pc EXCEPT ![t] = label],
         pc[t] \in Holding <=> label \in Holding,
         pc[t] # "capture", label # "capture", label = "enqueue" => prepared.alerts > 0
  PROVE  HolderInv'
<1>1. OneHolder /\ LogInv /\ pc \in [AnyThread -> Places]
  BY DEF HolderInv, OneHolder
<1>2. state' = state /\ lock' = lock /\ prepared' = prepared /\ log' = log
  BY DEF tracker
<1>3. \A u \in AnyThread : /\ pc'[u] \in Holding <=> pc[u] \in Holding
                           /\ pc'[u] = "capture" <=> pc[u] = "capture"
                           /\ pc'[u] = "enqueue" => prepared.alerts > 0
  BY <1>1 DEF OneHolder
<1>4. pc' \in [AnyThread -> Places]
  BY <1>1
<1>5. OneHolder'
  BY <1>1, <1>2, <1>3, <1>4 DEF OneHolder
<1>6. lock # Nobody => lock \in AnyThread
  BY <1>1 DEF OneHolder
<1>7. LogInv'
  BY <1>1, <1>2, <1>3, <1>6 DEF LogInv
<1> QED BY <1>5, <1>7 DEF HolderInv

(* So does whatever moves no thread.                                       *)
LEMMA IdleKeepsHolder ==
  ASSUME HolderInv, UNCHANGED <<tracker, pc>>
  PROVE  HolderInv'
<1>1. state' = state /\ lock' = lock /\ prepared' = prepared /\ log' = log /\ pc' = pc
  BY DEF tracker
<1> QED BY <1>1 DEF HolderInv, OneHolder, LogInv

(* Where a call returns to.                                                *)
LEMMA ReturnMoves ==
  ASSUME NEW t, Return(t)
  PROVE  \E label \in {"idle", "wait", "drop_self"} : pc' = [pc EXCEPT ![t] = label]
BY DEF Return, Goto

(* The thread that takes the mutex has a batch that continues the state.   *)
LEMMA PrepareKeepsHolder ==
  ASSUME HolderInv, NEW t \in AnyThread, Prepare(t), pc[Watchdog] # "lock_finish"
  PROVE  HolderInv'
<1>1. OneHolder /\ LogInv /\ pc \in [AnyThread -> Places]
  BY DEF HolderInv, OneHolder
<1>2. /\ lock = Nobody /\ lock' = t /\ pc' = [pc EXCEPT ![t] = "capture"]
      /\ state' = state /\ log' = log /\ ~state.finished
      /\ prepared' \in IF pc[t] = "lock_finish" THEN Finished
                        ELSE IF t = Watchdog THEN Ticked ELSE Logged \cup Flushed \cup Noted
  BY DEF Prepare, Goto, Active
<1>3. state \in States /\ (Monotonic => Ordered(state)) /\ state.commits = Len(log)
  BY <1>1 DEF LogInv
<1>4. /\ prepared' \in Batches /\ Continuation(prepared', state)
      /\ prepared'.next.finished => t # Watchdog
  <2>1. CASE pc[t] = "lock_finish"
    <3>1. prepared' \in Finished /\ t # Watchdog
      BY <1>2, <2>1
    <3> QED BY <1>2, <1>3, <3>1, FinishedIsGood
  <2>2. CASE pc[t] # "lock_finish"
    <3>1. prepared' \in Logged \cup Flushed \cup Noted \cup Ticked
      BY <1>2, <2>2
    <3>2. GoodBatch(prepared', state)
      BY <1>2, <1>3, <3>1, PreparedIsGood
    <3> QED BY <1>3, <3>2, GoodContinues
  <2> QED BY <2>1, <2>2
<1>5. t # Nobody
  BY TrackerAssumption DEF AnyThread
<1>6. \A u \in AnyThread : pc[u] \notin Holding
  <2>1. \A u \in AnyThread : u # Nobody
    BY TrackerAssumption DEF AnyThread
  <2> QED BY <1>1, <1>2, <2>1 DEF OneHolder
<1>7. pc' \in [AnyThread -> Places] /\ pc'[t] = "capture"
      /\ \A u \in AnyThread : u # t => pc'[u] = pc[u]
  BY <1>1, <1>2 DEF Places
<1>8. OneHolder'
  BY <1>1, <1>2, <1>4, <1>5, <1>6, <1>7 DEF OneHolder, Holding
<1>9. LogInv'
  BY <1>1, <1>2, <1>4, <1>5, <1>7 DEF LogInv
<1> QED BY <1>8, <1>9 DEF HolderInv

(* The log with a captured batch behind it.                                *)
LEMMA CaptureKeepsHolder ==
  ASSUME HolderInv, NEW t \in AnyThread, Capture(t)
  PROVE  HolderInv'
<1>1. OneHolder /\ LogInv /\ pc \in [AnyThread -> Places]
  BY DEF HolderInv, OneHolder
<1>2. /\ pc[t] = "capture" /\ log' = log \o prepared.events /\ state' = prepared.next
      /\ pc' = [pc EXCEPT ![t] = "send"] /\ lock' = lock /\ prepared' = prepared
  BY DEF Capture, Goto
<1>3. lock = t /\ t # Nobody /\ prepared \in Batches
  BY <1>1, <1>2, TrackerAssumption DEF OneHolder, Holding, AnyThread
<1>4. /\ ~state.finished /\ Continuation(prepared, state)
      /\ state \in States /\ log \in Seq(Records) /\ Numbered(log, 0)
      /\ state.commits = Len(log) /\ (state.finished <=> Final(log))
      /\ Monotonic => Ordered(state) /\ Climbs(log, 0, event_step(state))
      /\ prepared.next.finished => lock # Watchdog
  BY <1>1, <1>2, <1>3 DEF LogInv
<1> DEFINE n == Len(log)
           events == prepared.events
           m == Len(events)
           all == log \o events
<1>5. prepared.next \in States /\ events \in Seq(Records)
  BY <1>3 DEF Batches
<1> HIDE DEF events
<1>6. /\ n \in Nat /\ m \in Nat /\ DOMAIN log = 1 .. n /\ DOMAIN events = 1 .. m
      /\ all \in Seq(Records) /\ Len(all) = n + m /\ DOMAIN all = 1 .. n + m
      /\ \A i \in 1 .. n : all[i] = log[i]
      /\ \A i \in 1 .. m : all[n + i] = events[i]
  BY <1>4, <1>5
<1>7. \A i \in DOMAIN all : i \in 1 .. n \/ (i - n \in 1 .. m /\ all[i] = events[i - n])
  <2> SUFFICES ASSUME NEW i \in DOMAIN all, i \notin 1 .. n
               PROVE  i - n \in 1 .. m /\ all[i] = events[i - n]
    OBVIOUS
  <2>1. i - n \in 1 .. m /\ n + (i - n) = i
    BY <1>6
  <2> QED BY <1>6, <2>1
<1> HIDE DEF all, n, m
<1>8. \A i \in 1 .. n : ~log[i].final
  BY <1>4, <1>6 DEF Final
<1>9. /\ Numbered(events, n) /\ prepared.next.commits = n + m
      /\ prepared.next.finished <=> Final(events)
  BY <1>4 DEF Continuation, n, m, events
<1>10. Numbered(all, 0)
  <2> SUFFICES ASSUME NEW i \in DOMAIN all
               PROVE  all[i].commit = 0 + i /\ (all[i].final => i = Len(all))
    BY DEF Numbered
  <2>1. CASE i \in 1 .. n
    <3>1. all[i] = log[i] /\ log[i].commit = 0 + i /\ ~log[i].final
      BY <1>4, <1>6, <1>8, <2>1 DEF Numbered
    <3> QED BY <3>1
  <2>2. CASE i - n \in 1 .. m /\ all[i] = events[i - n]
    <3>1. all[i].commit = n + (i - n) /\ (all[i].final => i - n = m)
      BY <1>6, <1>9, <2>2 DEF Numbered, m
    <3>2. i \in Nat /\ n + (i - n) = 0 + i /\ (i - n = m => i = n + m)
      BY <1>6
    <3> QED BY <1>6, <3>1, <3>2
  <2> QED BY <1>7, <2>1, <2>2
<1>11. Final(all) <=> Final(events)
  <2>1. ASSUME NEW i \in DOMAIN all, all[i].final PROVE Final(events)
    <3>1. i \notin 1 .. n
      BY <1>6, <1>8, <2>1
    <3> QED BY <1>6, <1>7, <2>1, <3>1 DEF Final
  <2>2. ASSUME NEW i \in DOMAIN events, events[i].final PROVE Final(all)
    <3>1. n + i \in DOMAIN all /\ all[n + i] = events[i]
      BY <1>6
    <3> QED BY <2>2, <3>1 DEF Final
  <2> QED BY <2>1, <2>2 DEF Final
<1>12. ASSUME Monotonic PROVE Ordered(prepared.next) /\ Climbs(all, 0, event_step(prepared.next))
  <2> DEFINE low == event_step(state)
             high == event_step(prepared.next)
  <2>1. low \in Nat /\ high \in Nat
    BY <1>4, <1>5, StepsAreNatural
  <2>2. Climbs(log, 0, low) /\ Climbs(events, low, high) /\ Ordered(prepared.next)
    BY <1>4, <1>12 DEF Continuation, events
  <2>3. /\ \A i \in 1 .. n : log[i].step \in Nat
        /\ \A i \in 1 .. m : events[i].step \in Nat
    <3>1. (\A i \in 1 .. n : log[i] \in Records) /\ (\A i \in 1 .. m : events[i] \in Records)
      BY <1>4, <1>5, <1>6
    <3> QED BY <3>1, TrackerAssumption DEF Records
  <2> HIDE DEF low, high
  <2>4. \A i \in 1 .. n : 0 <= all[i].step /\ all[i].step <= low
    BY <1>6, <2>2 DEF Climbs
  <2>5. \A i \in DOMAIN all : i \notin 1 .. n => low <= all[i].step /\ all[i].step <= high
    BY <1>6, <1>7, <2>2 DEF Climbs
  <2>6. \A i \in DOMAIN all : all[i].step \in Nat
    BY <1>6, <1>7, <2>3
  <2>7. low <= high
    BY <2>2 DEF Climbs
  <2>8. \A i \in DOMAIN all : 0 <= all[i].step /\ all[i].step <= high
    BY <1>6, <2>1, <2>4, <2>5, <2>6, <2>7
  <2>9. ASSUME NEW i \in DOMAIN all, NEW j \in DOMAIN all, i < j
        PROVE  all[i].step <= all[j].step
    <3>1. CASE j \in 1 .. n
      <4>1. i \in 1 .. n
        BY <1>6, <2>9, <3>1
      <4> QED BY <1>6, <2>2, <2>9, <3>1, <4>1 DEF Climbs
    <3>2. CASE i \in 1 .. n /\ j \notin 1 .. n
      BY <1>6, <2>1, <2>4, <2>5, <2>6, <3>2
    <3>3. CASE i \notin 1 .. n /\ j \notin 1 .. n
      <4>1. /\ i - n \in 1 .. m /\ all[i] = events[i - n]
            /\ j - n \in 1 .. m /\ all[j] = events[j - n]
        BY <1>7, <3>3
      <4>2. i - n < j - n
        BY <1>6, <2>9
      <4> QED BY <1>6, <2>2, <4>1, <4>2 DEF Climbs
    <3> QED BY <3>1, <3>2, <3>3
  <2>10. 0 <= high
    BY <2>1
  <2> QED BY <2>2, <2>8, <2>9, <2>10 DEF Climbs, high
<1>13. /\ pc' \in [AnyThread -> Places] /\ pc'[t] = "send"
       /\ \A u \in AnyThread : /\ pc'[u] \in Holding <=> pc[u] \in Holding
                               /\ pc'[u] = "enqueue" => pc[u] = "enqueue"
  BY <1>1, <1>2 DEF Places, Holding
<1>14. OneHolder'
  BY <1>1, <1>2, <1>3, <1>13 DEF OneHolder
<1>15. log' = all /\ state' = prepared.next /\ Len(all) = n + m
  BY <1>2, <1>6 DEF all, events
<1>16. LogInv'
  BY <1>2, <1>3, <1>4, <1>5, <1>6, <1>9, <1>10, <1>11, <1>12, <1>13, <1>15 DEF LogInv
<1> QED BY <1>14, <1>16 DEF HolderInv

(* The mutex is given back.                                                *)
LEMMA UnlockKeepsHolder ==
  ASSUME HolderInv, NEW t \in AnyThread, pc[t] \in Holding, lock' = Nobody, prepared' = NoBatch,
         UNCHANGED <<state, log>>, NEW label \in Places \ Holding, pc' = [pc EXCEPT ![t] = label]
  PROVE  HolderInv'
<1>1. OneHolder /\ LogInv /\ pc \in [AnyThread -> Places]
  BY DEF HolderInv, OneHolder
<1>2. \A u \in AnyThread : u # Nobody
  BY TrackerAssumption DEF AnyThread
<1>3. \A u \in AnyThread : pc'[u] \notin Holding
  BY <1>1 DEF OneHolder
<1>4. pc' \in [AnyThread -> Places] /\ \A u \in AnyThread : pc'[u] # "enqueue"
  BY <1>1, <1>3 DEF Holding
<1>5. OneHolder'
  BY <1>2, <1>3, <1>4 DEF OneHolder
<1>6. LogInv'
  BY <1>1 DEF LogInv
<1> QED BY <1>5, <1>6 DEF HolderInv

(* An alert of the batch has been sent.                                    *)
LEMMA SentKeepsHolder ==
  ASSUME HolderInv, NEW t \in AnyThread, pc[t] = "enqueue", UNCHANGED <<state, lock, log>>,
         prepared' = [prepared EXCEPT !.alerts = @ - 1], pc' = [pc EXCEPT ![t] = "send"]
  PROVE  HolderInv'
<1>1. OneHolder /\ LogInv /\ pc \in [AnyThread -> Places]
  BY DEF HolderInv, OneHolder
<1>2. lock = t /\ t # Nobody /\ prepared \in Batches /\ prepared.alerts > 0
  BY <1>1, TrackerAssumption DEF OneHolder, Holding, AnyThread
<1>3. prepared' \in Batches /\ prepared'.next = prepared.next /\ prepared'.events = prepared.events
  BY <1>2 DEF Batches
<1>4. /\ pc' \in [AnyThread -> Places] /\ pc'[t] = "send"
      /\ \A u \in AnyThread : pc'[u] \in Holding <=> pc[u] \in Holding
  BY <1>1 DEF Places, Holding
<1>5. \A u \in AnyThread : pc'[u] # "enqueue"
  <2>1. \A u \in AnyThread : pc'[u] = "enqueue" => u = t
    BY <1>1, <1>2, <1>4 DEF OneHolder, Holding
  <2> QED BY <1>4, <2>1
<1>6. OneHolder'
  BY <1>1, <1>2, <1>3, <1>4, <1>5 DEF OneHolder
<1>7. LogInv'
  BY <1>1, <1>2, <1>3, <1>4 DEF LogInv
<1> QED BY <1>6, <1>7 DEF HolderInv

(* Every step keeps the mutex and the log right.                           *)
LEMMA HolderNext ==
  ASSUME HolderInv, CloseInv, [Next]_vars
  PROVE  HolderInv'
<1>1. OneHolder /\ pc \in [AnyThread -> Places] /\ Watchdog \in AnyThread
      /\ pc[Watchdog] # "lock_finish"
  BY DEF HolderInv, OneHolder, CloseInv, AnyThread
<1>2. ASSUME NEW t \in AnyThread, Acquire(t) PROVE HolderInv'
  <2>1. CASE CheckFinished(t)
    <3>1. PICK label \in {"idle", "lock_finish"} : pc' = [pc EXCEPT ![t] = label]
      BY <2>1 DEF CheckFinished, Goto
    <3>2. UNCHANGED tracker /\ pc[t] = "check"
      BY <2>1 DEF CheckFinished
    <3> QED BY <3>1, <3>2, MoveKeepsHolder DEF Places, Holding
  <2>2. CASE Prepare(t)
    BY <1>1, <2>2, PrepareKeepsHolder
  <2>3. CASE Refuse(t)
    <3>1. \E label \in {"gone", "idle", "wait", "drop_self"} : pc' = [pc EXCEPT ![t] = label]
      BY <2>3, ReturnMoves DEF Refuse, Goto
    <3>2. PICK label \in {"gone", "idle", "wait", "drop_self"} : pc' = [pc EXCEPT ![t] = label]
      BY <3>1
    <3>3. UNCHANGED tracker /\ pc[t] \in {"lock", "lock_finish"}
      BY <2>3 DEF Refuse
    <3> QED BY <3>2, <3>3, MoveKeepsHolder DEF Places, Holding
  <2> QED BY <1>2, <2>1, <2>2, <2>3 DEF Acquire
<1>3. ASSUME NEW t \in AnyThread, Step(t) PROVE HolderInv'
  <2>1. CASE Capture(t)
    BY <2>1, CaptureKeepsHolder
  <2>2. CASE CaptureFails(t)
    <3>1. \E label \in {"gone", "idle", "wait", "drop_self"} : pc' = [pc EXCEPT ![t] = label]
      BY <2>2, ReturnMoves DEF CaptureFails, Goto
    <3>2. PICK label \in {"gone", "idle", "wait", "drop_self"} : pc' = [pc EXCEPT ![t] = label]
      BY <3>1
    <3>3. pc[t] \in Holding /\ lock' = Nobody /\ prepared' = NoBatch /\ UNCHANGED <<state, log>>
      BY <2>2 DEF CaptureFails, Holding
    <3> QED BY <3>2, <3>3, UnlockKeepsHolder DEF Places, Holding
  <2>3. CASE Count(t)
    <3>1. /\ pc' = [pc EXCEPT ![t] = "enqueue"] /\ UNCHANGED tracker /\ pc[t] = "send"
          /\ prepared.alerts > 0
      BY <2>3 DEF Count, Goto
    <3> QED BY <3>1, MoveKeepsHolder DEF Places, Holding
  <2>4. CASE Enqueue(t) \/ Discard(t)
    <3>1. /\ pc[t] = "enqueue" /\ UNCHANGED <<state, lock, log>>
          /\ prepared' = [prepared EXCEPT !.alerts = @ - 1] /\ pc' = [pc EXCEPT ![t] = "send"]
      BY <2>4 DEF Enqueue, Discard, Goto
    <3> QED BY <3>1, SentKeepsHolder
  <2>5. CASE Unlock(t)
    <3>1. \E label \in {"stop_watchdog", "idle", "wait", "drop_self"} :
             pc' = [pc EXCEPT ![t] = label]
      BY <2>5, ReturnMoves DEF Unlock, Goto
    <3>2. PICK label \in {"stop_watchdog", "idle", "wait", "drop_self"} :
             pc' = [pc EXCEPT ![t] = label]
      BY <3>1
    <3>3. pc[t] \in Holding /\ lock' = Nobody /\ prepared' = NoBatch /\ UNCHANGED <<state, log>>
      BY <2>5 DEF Unlock, Holding
    <3> QED BY <3>2, <3>3, UnlockKeepsHolder DEF Places, Holding
  <2>6. ASSUME \/ Told(t) \/ TakeWatchdog(t) \/ JoinWatchdog(t) \/ DropSelf(t) \/ DropQueue(t)
               \/ Submit(t) \/ SubmitFails(t) \/ Await(t) \/ SetStop(t) \/ Reap(t)
        PROVE  HolderInv'
    <3> DEFINE to == {"gone", "drop_join", "drop_queue", "join", "submit", "wait", "idle", "await",
                      "set_stop", "reap"}
    <3>1. \E label \in to : pc' = [pc EXCEPT ![t] = label]
      BY <2>6 DEF Told, TakeWatchdog, JoinWatchdog, DropSelf, DropQueue, Submit, SubmitFails, Await,
                  SetStop, Reap, Goto
    <3>2. PICK label \in to : pc' = [pc EXCEPT ![t] = label]
      BY <3>1
    <3>3. UNCHANGED tracker /\ pc[t] \notin Holding
      BY <2>6 DEF Told, TakeWatchdog, JoinWatchdog, DropSelf, DropQueue, Submit, SubmitFails, Await,
                  SetStop, Reap, Holding
    <3>4. label \in Places \ Holding /\ label \notin {"capture", "enqueue"}
      BY DEF Places, Holding
    <3>5. pc[t] # "capture"
      BY <3>3 DEF Holding
    <3> QED BY <3>2, <3>3, <3>4, <3>5, MoveKeepsHolder
  <2> QED BY <1>3, <2>1, <2>2, <2>3, <2>4, <2>5, <2>6 DEF Step
<1>4. ASSUME NEW t \in AnyThread, Choose(t) PROVE HolderInv'
  <2>1. CASE Call(t) \/ CallFinish(t) \/ DropHandle(t) \/ Interval(t)
    <3>1. \E label \in {"lock", "check", "drop", "idle", "gone"} : pc' = [pc EXCEPT ![t] = label]
      BY <2>1 DEF Call, CallFinish, DropHandle, Interval, Goto
    <3>2. PICK label \in {"lock", "check", "drop", "idle", "gone"} : pc' = [pc EXCEPT ![t] = label]
      BY <3>1
    <3>3. UNCHANGED tracker /\ pc[t] \in {"idle", "wait"}
      BY <2>1 DEF Call, CallFinish, DropHandle, Interval
    <3> QED BY <3>2, <3>3, MoveKeepsHolder DEF Places, Holding
  <2>2. CASE AddTimeRule(t)
    <3>1. /\ pc' = [pc EXCEPT ![Watchdog] = "wait"] /\ UNCHANGED tracker /\ lock = Nobody
      BY <2>2 DEF AddTimeRule
    <3>2. pc[Watchdog] \notin Holding
      BY <1>1, <3>1, TrackerAssumption DEF OneHolder
    <3>3. pc[Watchdog] # "capture"
      BY <3>2 DEF Holding
    <3> QED BY <1>1, <3>1, <3>2, <3>3, MoveKeepsHolder DEF Places, Holding
  <2> QED BY <1>4, <2>1, <2>2 DEF Choose
<1>5. ASSUME WorkerStep \/ SinkStep \/ DeadlinePasses \/ UNCHANGED vars PROVE HolderInv'
  <2>1. UNCHANGED <<tracker, pc>>
    BY <1>5 DEF WorkerStep, SinkStep, DeadlinePasses, vars, LookAtStop, Receive, ReceiveNothing,
                Complete, Release, Drain, Drained, SinkSends, SinkFlushes, SinkCloses, SinkPanics
  <2> QED BY <2>1, IdleKeepsHolder
<1> QED BY <1>2, <1>3, <1>4, <1>5 DEF Next, Finale, AnyThread

-------------------------------------------------------------------------------
(* The end of the tracker.                                                 *)

(* Every step keeps what is known of the closing thread and the watchdog.  *)
LEMMA CloseNext ==
  ASSUME HolderInv, CloseInv, [Next]_vars
  PROVE  CloseInv'
<1> USE DEF ClosingPlaces, QuietPlaces, DropPlaces, NoWatchdog, Goto, tracker, threads, closing
<1>0. /\ pc \in [AnyThread -> Places] /\ Watchdog \in AnyThread /\ Watchdog \notin Thread
      /\ Nobody \notin AnyThread /\ Thread \subseteq AnyThread
      /\ \A t \in AnyThread : pc[t] \in Holding <=> lock = t
      /\ \A t \in AnyThread : t \in Thread \/ t = Watchdog
  BY TrackerAssumption DEF HolderInv, OneHolder, AnyThread
<1>1. ASSUME NEW t \in AnyThread, Call(t) PROVE CloseInv'
  BY <1>0, <1>1 DEF Call, CloseInv, Return, Holding
<1>2. ASSUME NEW t \in AnyThread, CallFinish(t) PROVE CloseInv'
  BY <1>0, <1>2 DEF CallFinish, CloseInv, Return, Holding
<1>3. ASSUME NEW t \in AnyThread, CheckFinished(t) PROVE CloseInv'
  BY <1>0, <1>3 DEF CheckFinished, CloseInv, Return, Holding
<1>4. ASSUME NEW t \in AnyThread, Prepare(t) PROVE CloseInv'
  BY <1>0, <1>4 DEF Prepare, CloseInv, Holding, Active
<1>5. ASSUME NEW t \in AnyThread, Refuse(t) PROVE CloseInv'
  BY <1>0, <1>5 DEF Refuse, CloseInv, Return, Holding
<1>6. ASSUME NEW t \in AnyThread, Capture(t) PROVE CloseInv'
  BY <1>0, <1>6 DEF Capture, CloseInv, Return, Holding
<1>7. ASSUME NEW t \in AnyThread, CaptureFails(t) PROVE CloseInv'
  BY <1>0, <1>7 DEF CaptureFails, CloseInv, Return, Holding
<1>8. ASSUME NEW t \in AnyThread, Unlock(t) PROVE CloseInv'
  <2>1. pc[t] = "send" /\ lock = t /\ t # Nobody
    BY <1>0, <1>8 DEF Unlock, Holding
  <2>2. state = prepared.next /\ (prepared.next.finished => t # Watchdog)
    BY <2>1 DEF HolderInv, LogInv
  <2>3. outcome = "none" /\ \A u \in AnyThread : pc[u] \notin ClosingPlaces
    BY <2>1 DEF CloseInv
  <2>4. CASE prepared.next.finished
    <3>1. /\ pc' = [pc EXCEPT ![t] = "stop_watchdog"] /\ lock' = Nobody
          /\ UNCHANGED <<state, threads, stop, closing>>
      BY <1>8, <2>4 DEF Unlock
    <3>2. handles /\ ~stop
      BY <1>0, <2>1, <2>2, <2>3, <2>4 DEF CloseInv
    <3> QED BY <1>0, <2>1, <2>2, <2>3, <2>4, <3>1, <3>2 DEF CloseInv
  <2>5. CASE ~prepared.next.finished
    BY <1>0, <1>8, <2>1, <2>2, <2>3, <2>5 DEF Unlock, CloseInv, Return
  <2> QED BY <2>4, <2>5
<1>9. ASSUME NEW t \in AnyThread, Count(t) PROVE CloseInv'
  BY <1>0, <1>9 DEF Count, CloseInv, Return, Holding
<1>10. ASSUME NEW t \in AnyThread, Enqueue(t) PROVE CloseInv'
  BY <1>0, <1>10 DEF Enqueue, CloseInv, Return, Holding
<1>11. ASSUME NEW t \in AnyThread, Discard(t) PROVE CloseInv'
  BY <1>0, <1>11 DEF Discard, CloseInv, Return, Holding
<1>12. ASSUME NEW t \in AnyThread, AddTimeRule(t) PROVE CloseInv'
  BY <1>0, <1>12 DEF AddTimeRule, CloseInv, Active
<1>13. ASSUME NEW t \in AnyThread, Interval(t) PROVE CloseInv'
  BY <1>0, <1>13 DEF Interval, CloseInv, Return, Holding
<1>14. ASSUME NEW t \in AnyThread, Told(t) PROVE CloseInv'
  BY <1>0, <1>14 DEF Told, CloseInv, Return, Holding
<1>15. ASSUME NEW t \in AnyThread, TakeWatchdog(t) PROVE CloseInv'
  <2>1. /\ watchdog' = FALSE /\ told' = (told \/ watchdog) /\ told' \in BOOLEAN
        /\ UNCHANGED <<state, lock, handles, stop, closing>>
    BY <1>15 DEF TakeWatchdog, CloseInv
  <2>2. CASE pc[t] = "drop"
    <3>1. PICK label \in {"drop_join", "drop_queue"} : pc' = [pc EXCEPT ![t] = label]
      BY <1>15, <2>2 DEF TakeWatchdog
    <3>2. ~handles
      BY <2>2 DEF CloseInv
    <3> QED BY <1>0, <2>1, <2>2, <3>1, <3>2, ZenonT(40) DEF CloseInv
  <2>3. CASE pc[t] = "stop_watchdog"
    <3>1. t \in Thread /\ handles
      BY <1>0, <2>3 DEF CloseInv
    <3>2. CASE watchdog
      <4>1. pc' = [pc EXCEPT ![t] = "join"]
        BY <1>15, <2>3, <3>2 DEF TakeWatchdog
      <4> QED BY <1>0, <2>1, <2>3, <3>1, <4>1, ZenonT(40) DEF CloseInv
    <3>3. CASE ~watchdog
      <4>1. pc' = [pc EXCEPT ![t] = "submit"]
        BY <1>15, <2>3, <3>3 DEF TakeWatchdog
      <4>2. pc[Watchdog] \in {"none", "gone"}
        BY <1>0, <2>3, <3>1, <3>3 DEF CloseInv
      <4> QED BY <1>0, <2>1, <2>3, <3>1, <4>1, <4>2, ZenonT(40) DEF CloseInv
    <3> QED BY <3>2, <3>3
  <2> QED BY <1>15, <2>2, <2>3 DEF TakeWatchdog
<1>16. ASSUME NEW t \in AnyThread, JoinWatchdog(t) PROVE CloseInv'
  BY <1>0, <1>16 DEF JoinWatchdog, CloseInv, Return, Holding
<1>17. ASSUME NEW t \in AnyThread, DropHandle(t) PROVE CloseInv'
  BY <1>0, <1>17, ZenonT(40) DEF DropHandle, CloseInv, Return, Holding
<1>18. ASSUME NEW t \in AnyThread, DropSelf(t) PROVE CloseInv'
  BY <1>0, <1>18, ZenonT(40) DEF DropSelf, CloseInv, Return, Holding
<1>19. ASSUME NEW t \in AnyThread, DropQueue(t) PROVE CloseInv'
  BY <1>0, <1>19 DEF DropQueue, CloseInv, Return, Holding
<1>20. ASSUME NEW t \in AnyThread, Submit(t) PROVE CloseInv'
  BY <1>0, <1>20 DEF Submit, CloseInv, Return, Holding
<1>21. ASSUME NEW t \in AnyThread, SubmitFails(t) PROVE CloseInv'
  BY <1>0, <1>21 DEF SubmitFails, CloseInv, Return, Holding
<1>22. ASSUME NEW t \in AnyThread, Await(t) PROVE CloseInv'
  BY <1>0, <1>22 DEF Await, CloseInv, Return, Holding
<1>23. ASSUME NEW t \in AnyThread, SetStop(t) PROVE CloseInv'
  BY <1>0, <1>23 DEF SetStop, CloseInv, Return, Holding
<1>24. ASSUME NEW t \in AnyThread, Reap(t) PROVE CloseInv'
  BY <1>0, <1>24 DEF Reap, CloseInv, Return, Holding
<1>25. ASSUME DeadlinePasses PROVE CloseInv'
  BY <1>0, <1>25 DEF DeadlinePasses, CloseInv
<1>26. ASSUME WorkerStep \/ SinkStep \/ UNCHANGED vars PROVE CloseInv'
  <2>1. UNCHANGED <<tracker, pc, threads, stop, closing>>
    BY <1>26 DEF WorkerStep, SinkStep, vars, LookAtStop, Receive, ReceiveNothing,
                Complete, Release, Drain, Drained, SinkSends, SinkFlushes, SinkCloses, SinkPanics
  <2> QED BY <2>1 DEF CloseInv
<1> QED
  <2>1. ASSUME NEW t \in AnyThread, Acquire(t) \/ Step(t) \/ Choose(t) PROVE CloseInv'
    BY <2>1, <1>1, <1>2, <1>3, <1>4, <1>5, <1>6, <1>7, <1>8, <1>9, <1>10, <1>11, <1>12, <1>13,
       <1>14, <1>15, <1>16, <1>17, <1>18, <1>19, <1>20, <1>21, <1>22, <1>23, <1>24
       DEF Acquire, Step, Choose
  <2> QED BY <2>1, <1>25, <1>26 DEF Next, Finale, AnyThread

-------------------------------------------------------------------------------
(* The alerts.                                                             *)

Message == {"event", "flush"}

EventsAt(q) == {i \in DOMAIN q : q[i] = "event"}

(* A queue holds a number of events.                                       *)
LEMMA EventsAreFinite ==
  ASSUME NEW q \in Seq(Message)
  PROVE  IsFiniteSet(EventsAt(q)) /\ Cardinality(EventsAt(q)) \in Nat
<1>1. Len(q) \in Nat /\ DOMAIN q = 1 .. Len(q)
  OBVIOUS
<1>2. IsFiniteSet(1 .. Len(q))
  BY <1>1, FS_Interval
<1>3. IsFiniteSet(EventsAt(q))
  BY <1>1, <1>2, FS_Subset DEF EventsAt
<1> QED BY <1>3, FS_CardinalityType

(* An appended event is one more.                                          *)
LEMMA EventsAppended ==
  ASSUME NEW q \in Seq(Message), NEW m \in Message
  PROVE  Cardinality(EventsAt(Append(q, m))) = Cardinality(EventsAt(q)) + OneIf(m = "event")
<1> DEFINE n == Len(q) + 1
           r == Append(q, m)
<1>1. /\ Len(q) \in Nat /\ DOMAIN q = 1 .. Len(q) /\ DOMAIN r = 1 .. n
      /\ r[n] = m /\ \A i \in 1 .. Len(q) : r[i] = q[i]
  OBVIOUS
<1>2. n \notin EventsAt(q) /\ n \in Nat
  BY <1>1 DEF EventsAt
<1>3. \A i \in 1 .. n : i = n \/ i \in 1 .. Len(q)
  BY <1>1
<1>4. IsFiniteSet(EventsAt(q)) /\ Cardinality(EventsAt(q)) \in Nat
  BY EventsAreFinite
<1>5. CASE m = "event"
  <2>1. EventsAt(r) = EventsAt(q) \cup {n}
    <3>1. n \in 1 .. n /\ 1 .. Len(q) \subseteq 1 .. n
      BY <1>1
    <3> HIDE DEF r, n
    <3> QED BY <1>1, <1>3, <1>5, <3>1 DEF EventsAt
  <2>2. Cardinality(EventsAt(q) \cup {n}) = Cardinality(EventsAt(q)) + 1
    BY <1>2, <1>4, FS_AddElement
  <2> QED BY <1>5, <2>1, <2>2 DEF OneIf
<1>6. CASE m # "event"
  <2>1. EventsAt(r) = EventsAt(q)
    <3>1. 1 .. Len(q) \subseteq 1 .. n
      BY <1>1
    <3> HIDE DEF r, n
    <3> QED BY <1>1, <1>3, <1>6, <3>1 DEF EventsAt
  <2> QED BY <1>4, <1>6, <2>1 DEF OneIf
<1> QED BY <1>5, <1>6

(* A received event is one less.                                           *)
LEMMA EventsReceived ==
  ASSUME NEW q \in Seq(Message), q # <<>>
  PROVE  Cardinality(EventsAt(q)) = Cardinality(EventsAt(Tail(q))) + OneIf(Head(q) = "event")
<1> DEFINE n == Len(q)
           r == Tail(q)
           rest == EventsAt(q) \ {1}
           f == [i \in EventsAt(r) |-> i + 1]
<1>1. /\ n \in Nat \ {0} /\ DOMAIN q = 1 .. n /\ Head(q) = q[1]
      /\ r \in Seq(Message) /\ DOMAIN r = 1 .. n - 1 /\ \A i \in 1 .. n - 1 : r[i] = q[i + 1]
  OBVIOUS
<1> HIDE DEF n, r
<1>2. /\ IsFiniteSet(EventsAt(q)) /\ Cardinality(EventsAt(q)) \in Nat
      /\ IsFiniteSet(EventsAt(r)) /\ Cardinality(EventsAt(r)) \in Nat
  BY <1>1, EventsAreFinite
<1>3. f \in [EventsAt(r) -> rest]
  BY <1>1 DEF EventsAt
<1>4. \A a, b \in EventsAt(r) : f[a] = f[b] => a = b
  BY <1>1 DEF EventsAt
<1>5. ASSUME NEW j \in rest PROVE \E i \in EventsAt(r) : f[i] = j
  <2>1. j \in 1 .. n /\ j # 1 /\ q[j] = "event"
    BY <1>1 DEF EventsAt
  <2>2. j - 1 \in 1 .. n - 1 /\ (j - 1) + 1 = j
    BY <1>1, <2>1
  <2>3. j - 1 \in EventsAt(r)
    BY <1>1, <2>1, <2>2 DEF EventsAt
  <2> QED BY <2>2, <2>3
<1> HIDE DEF f, rest
<1>6. f \in Bijection(EventsAt(r), rest)
  BY <1>3, <1>4, <1>5 DEF Bijection, Injection, Surjection, IsInjective
<1>7. Cardinality(rest) = Cardinality(EventsAt(r))
  BY <1>2, <1>6, FS_Bijection DEF ExistsBijection
<1>8. Cardinality(rest) = IF 1 \in EventsAt(q) THEN Cardinality(EventsAt(q)) - 1
                          ELSE Cardinality(EventsAt(q))
  BY <1>2, FS_RemoveElement DEF rest
<1>9. 1 \in EventsAt(q) <=> Head(q) = "event"
  BY <1>1 DEF EventsAt
<1> QED BY <1>2, <1>7, <1>8, <1>9 DEF OneIf, r

(* Once nobody can send an alert or a flush, nobody ever can again.        *)
LEMMA SettledStays ==
  ASSUME HolderInv, CloseInv, Settled, [Next]_vars
  PROVE  Settled'
<1> USE DEF Settled, Goto, tracker, threads, closing
<1>1. /\ pc \in [AnyThread -> Places] /\ Watchdog \in AnyThread
      /\ state.finished /\ lock = Nobody
      /\ \A t \in AnyThread : pc[t] \notin Holding
      /\ \A t \in AnyThread : pc[t] \notin {"stop_watchdog", "join", "submit"}
  BY TrackerAssumption DEF HolderInv, OneHolder, AnyThread
<1>2. ASSUME NEW t \in AnyThread, Acquire(t) PROVE Settled'
  BY <1>1, <1>2 DEF Acquire, CheckFinished, Prepare, Refuse, Active, Return
<1>3. ASSUME NEW t \in AnyThread, Step(t) PROVE Settled'
  <2>1. \/ Told(t) \/ TakeWatchdog(t) \/ JoinWatchdog(t) \/ DropSelf(t) \/ DropQueue(t)
        \/ Submit(t) \/ SubmitFails(t) \/ Await(t) \/ SetStop(t) \/ Reap(t)
    BY <1>1, <1>3 DEF Step, Capture, CaptureFails, Count, Enqueue, Discard, Unlock, Holding
  <2> QED BY <1>1, <2>1 DEF Told, TakeWatchdog, JoinWatchdog, DropSelf, DropQueue, Submit,
                            SubmitFails, Await, SetStop, Reap
<1>4. ASSUME NEW t \in AnyThread, Choose(t) PROVE Settled'
  BY <1>1, <1>4 DEF Choose, Call, CallFinish, AddTimeRule, DropHandle, Interval, Active
<1>5. ASSUME WorkerStep \/ SinkStep \/ DeadlinePasses \/ UNCHANGED vars PROVE Settled'
  <2>1. UNCHANGED <<tracker, pc>>
    BY <1>5 DEF WorkerStep, SinkStep, DeadlinePasses, vars, LookAtStop, Receive, ReceiveNothing,
                Complete, Release, Drain, Drained, SinkSends, SinkFlushes, SinkCloses, SinkPanics
  <2> QED BY <1>1, <2>1
<1> QED BY <1>2, <1>3, <1>4, <1>5 DEF Next, Finale, AnyThread

(* Steps that touch neither the queue nor its counters.                    *)
LEMMA QueueKept ==
  ASSUME QueueInv, UNCHANGED <<queue, counters, worker, reply, refused>>,
         flushed' => reply = "complete", outcome' = "delivered" => reply = "complete",
         stop => stop', Sending' <=> Sending, Settled => Settled'
  PROVE  QueueInv'
<1>1. /\ queue' = queue /\ accepted' = accepted /\ completed' = completed /\ dropped' = dropped
      /\ bytes' = bytes /\ worker' = worker /\ reply' = reply /\ refused' = refused
  BY DEF counters
<1>2. Queued' = Queued /\ OneIf(Sending)' = OneIf(Sending)
  BY <1>1 DEF Queued, OneIf
<1> QED BY <1>1, <1>2 DEF QueueInv, Answered

(* A thread that is not sending an alert moves to a place where it is not  *)
(* sending one either.                                                     *)
LEMMA MoveKeepsQueue ==
  ASSUME HolderInv, QueueInv, UNCHANGED <<queue, counters, worker, reply, refused>>,
         flushed' => reply = "complete", outcome' = "delivered" => reply = "complete",
         stop => stop', Settled => Settled',
         NEW t \in AnyThread, pc[t] # "enqueue",
         NEW label, label # "enqueue", pc' = [pc EXCEPT ![t] = label]
  PROVE  QueueInv'
<1>1. pc \in [AnyThread -> Places]
  BY DEF HolderInv, OneHolder
<1>2. Sending' <=> Sending
  BY <1>1 DEF Sending
<1> QED BY <1>2, QueueKept

(* While a thread sends it holds the mutex, so that nothing is settled and *)
(* no other thread sends.                                                  *)
LEMMA SenderHolds ==
  ASSUME HolderInv, NEW t \in AnyThread, pc[t] \in {"send", "enqueue"}
  PROVE  /\ ~Settled
         /\ \A u \in AnyThread : pc[u] = "enqueue" => u = t
         /\ pc \in [AnyThread -> Places]
         /\ prepared \in Batches
BY TrackerAssumption DEF HolderInv, OneHolder, Holding, Settled, AnyThread

(* The alert is accepted and on its way into the queue.                    *)
LEMMA CountKeepsQueue ==
  ASSUME HolderInv, QueueInv, NEW t \in AnyThread, Count(t)
  PROVE  QueueInv'
<1>1. /\ pc[t] = "send" /\ accepted' = accepted + 1 /\ pc' = [pc EXCEPT ![t] = "enqueue"]
      /\ queue' = queue /\ completed' = completed /\ dropped' = dropped /\ bytes' = bytes
      /\ worker' = worker /\ reply' = reply /\ refused' = refused
      /\ flushed' = flushed /\ outcome' = outcome /\ stop' = stop
  BY DEF Count, Goto, closing
<1>2. ~Settled /\ ~Sending /\ Sending'
  BY <1>1, SenderHolds DEF Sending
<1>3. /\ OneIf(Sending) = 0 /\ OneIf(Sending)' = 1
      /\ Queued' = Queued /\ Queued \in Nat
  <2>1. Queued \in Nat
    BY EventsAreFinite DEF QueueInv, Queued, EventsAt, Message
  <2> QED BY <1>1, <1>2, <2>1 DEF OneIf, Queued
<1>4. OneIf(worker \in {"sink_send", "count"})' = OneIf(worker \in {"sink_send", "count"})
      /\ OneIf(worker \in {"sink_send", "count"}) \in Nat
  BY <1>1 DEF OneIf
<1>5. /\ worker # "panicked" =>
           accepted = completed + dropped + Queued + OneIf(worker \in {"sink_send", "count"}) + 0
      /\ worker = "panicked" => accepted >= completed + dropped + 0
      /\ accepted \in Nat /\ completed \in Nat /\ dropped \in Nat
  BY <1>3 DEF QueueInv
<1>6. /\ accepted' \in Nat
      /\ worker' # "panicked" =>
           accepted' = completed' + dropped' + Queued' + OneIf(worker \in {"sink_send", "count"})'
                         + OneIf(Sending)'
      /\ worker' = "panicked" => accepted' >= completed' + dropped' + OneIf(Sending)'
  BY <1>1, <1>3, <1>4, <1>5
<1>7. ~Answered /\ worker # "sink_flush" /\ \A i \in DOMAIN queue : queue[i] # "flush"
  BY <1>2 DEF QueueInv
<1>8. OneIf(worker \in {"sink_send", "count", "release"})' =
        OneIf(worker \in {"sink_send", "count", "release"})
  BY <1>1 DEF OneIf
<1> QED BY <1>1, <1>3, <1>6, <1>7, <1>8 DEF QueueInv, Answered

(* An alert enters the queue, while the worker is not told to stop.        *)
LEMMA EnqueueKeepsQueue ==
  ASSUME HolderInv, QueueInv, NEW t \in AnyThread, Enqueue(t)
  PROVE  QueueInv'
<1>1. /\ pc[t] = "enqueue" /\ pc' = [pc EXCEPT ![t] = "send"]
      /\ bytes < MaxQueueBytes /\ ~stop /\ Len(queue) < QueueCapacity
      /\ worker \notin {"gone", "panicked"}
      /\ queue' = Append(queue, "event") /\ bytes' = bytes + 1
      /\ accepted' = accepted /\ completed' = completed /\ dropped' = dropped
      /\ worker' = worker /\ reply' = reply /\ refused' = refused
      /\ flushed' = flushed /\ outcome' = outcome /\ stop' = stop
  BY DEF Enqueue, Goto, HasRoom, Connected, closing
<1>2. ~Settled /\ Sending /\ ~Sending'
  BY <1>1, SenderHolds DEF Sending
<1>3. queue \in Seq(Message) /\ queue' \in Seq(Message) /\ Len(queue') <= QueueCapacity
  <2>1. queue \in Seq(Message)
    BY DEF QueueInv, Message
  <2> QED BY <1>1, <2>1, TrackerAssumption DEF Message
<1>4. Queued \in Nat /\ Queued' = Queued + 1
  <2>1. Queued = Cardinality(EventsAt(queue)) /\ Queued' = Cardinality(EventsAt(queue'))
    BY DEF Queued, EventsAt
  <2> QED BY <1>1, <1>3, <2>1, EventsAreFinite, EventsAppended DEF OneIf, Message
<1>5. OneIf(Sending) = 1 /\ OneIf(Sending)' = 0
  BY <1>2 DEF OneIf
<1> DEFINE a == OneIf(worker \in {"sink_send", "count"})
           b == OneIf(worker \in {"sink_send", "count", "release"})
<1>6. a' = a /\ b' = b /\ a \in Nat /\ b \in Nat
  BY <1>1 DEF OneIf
<1>7. /\ accepted = completed + dropped + Queued + a + 1 /\ bytes = Queued + b
      /\ accepted \in Nat /\ completed \in Nat /\ dropped \in Nat /\ bytes \in 0 .. MaxQueueBytes
  BY <1>1, <1>5 DEF QueueInv
<1> HIDE DEF a, b
<1>8. /\ accepted' = completed' + dropped' + Queued' + a' + OneIf(Sending)'
      /\ bytes' = Queued' + b' /\ bytes' \in 0 .. MaxQueueBytes
  <2>1. accepted' = completed' + dropped' + Queued' + a' + OneIf(Sending)'
    BY <1>1, <1>4, <1>5, <1>6, <1>7
  <2>2. bytes' = Queued' + b'
    BY <1>1, <1>4, <1>6, <1>7, TrackerAssumption
  <2>3. bytes' \in 0 .. MaxQueueBytes
    BY <1>1, <1>7, TrackerAssumption
  <2> QED BY <2>1, <2>2, <2>3
<1>9. /\ ~Answered /\ worker # "sink_flush" /\ worker \in Working
      /\ \A i \in DOMAIN queue : queue[i] # "flush"
  BY <1>1, <1>2 DEF QueueInv
<1>10. \A i \in DOMAIN queue' : queue'[i] # "flush"
  BY <1>1, <1>3, <1>9
<1> QED BY <1>1, <1>3, <1>8, <1>9, <1>10 DEF QueueInv, Answered, Working, Message, a, b

(* An alert is turned away at the queue's entrance.                        *)
LEMMA DiscardKeepsQueue ==
  ASSUME HolderInv, QueueInv, NEW t \in AnyThread, Discard(t)
  PROVE  QueueInv'
<1>1. /\ pc[t] = "enqueue" /\ pc' = [pc EXCEPT ![t] = "send"]
      /\ dropped' = dropped + 1 /\ refused' = refused + 1
      /\ queue' = queue /\ bytes' = bytes /\ accepted' = accepted /\ completed' = completed
      /\ worker' = worker /\ reply' = reply
      /\ flushed' = flushed /\ outcome' = outcome /\ stop' = stop
  BY DEF Discard, Goto, closing
<1>2. ~Settled /\ Sending /\ ~Sending'
  BY <1>1, SenderHolds DEF Sending
<1>3. Queued \in Nat /\ Queued' = Queued
  <2>1. Queued \in Nat
    BY EventsAreFinite DEF QueueInv, Queued, EventsAt, Message
  <2> QED BY <1>1, <2>1 DEF Queued
<1>4. OneIf(Sending) = 1 /\ OneIf(Sending)' = 0
  BY <1>2 DEF OneIf
<1> DEFINE a == OneIf(worker \in {"sink_send", "count"})
           b == OneIf(worker \in {"sink_send", "count", "release"})
<1>5. a' = a /\ b' = b /\ a \in Nat
  BY <1>1 DEF OneIf
<1>6. /\ worker # "panicked" => accepted = completed + dropped + Queued + a + 1
      /\ worker = "panicked" => accepted >= completed + dropped + 1
      /\ accepted \in Nat /\ completed \in Nat /\ dropped \in Nat /\ refused \in Nat
  BY <1>4 DEF QueueInv
<1>7. /\ worker # "panicked" =>
           accepted' = completed' + dropped' + Queued' + a' + OneIf(Sending)'
      /\ worker = "panicked" => accepted' >= completed' + dropped' + OneIf(Sending)'
      /\ dropped' \in Nat /\ refused' \in Nat
  BY <1>1, <1>3, <1>4, <1>5, <1>6
<1>8. ~Answered /\ worker # "sink_flush" /\ \A i \in DOMAIN queue : queue[i] # "flush"
  BY <1>2 DEF QueueInv
<1> QED BY <1>1, <1>3, <1>5, <1>7, <1>8 DEF QueueInv, Answered

(* The flush enters the queue: the finishing thread is alone, and the      *)
(* worker, not told to stop yet, takes it last.                            *)
LEMMA SubmitKeepsQueue ==
  ASSUME HolderInv, CloseInv, QueueInv, NEW t \in AnyThread, Submit(t)
  PROVE  QueueInv'
<1>1. /\ pc[t] = "submit" /\ pc' = [pc EXCEPT ![t] = "await"]
      /\ Len(queue) < QueueCapacity /\ worker \notin {"gone", "panicked"}
      /\ queue' = Append(queue, "flush") /\ bytes' = bytes
      /\ accepted' = accepted /\ completed' = completed /\ dropped' = dropped
      /\ worker' = worker /\ reply' = reply /\ refused' = refused
      /\ flushed' = flushed /\ outcome' = outcome /\ stop' = stop
      /\ state' = state /\ lock' = lock
  BY DEF Submit, Goto, HasRoom, Connected, closing, counters, tracker
<1>2. pc \in [AnyThread -> Places]
  BY DEF HolderInv, OneHolder
<1>3. ~stop /\ Settled' /\ ~Settled
  <2>1. /\ state.finished /\ lock = Nobody /\ ~stop
        /\ \A u \in AnyThread : pc[u] \in {"stop_watchdog", "join", "submit"} => u = t
    BY <1>1 DEF CloseInv, ClosingPlaces
  <2> QED BY <1>1, <1>2, <2>1 DEF Settled
<1>4. Sending' <=> Sending
  BY <1>1, <1>2 DEF Sending
<1>5. /\ queue \in Seq(Message) /\ queue' \in Seq(Message) /\ Len(queue') <= QueueCapacity
      /\ Len(queue') = Len(queue) + 1 /\ DOMAIN queue = 1 .. Len(queue)
      /\ DOMAIN queue' = 1 .. Len(queue) + 1 /\ \A i \in DOMAIN queue : queue'[i] = queue[i]
  <2>1. queue \in Seq(Message)
    BY DEF QueueInv, Message
  <2> QED BY <1>1, <2>1, TrackerAssumption DEF Message
<1>6. Queued' = Queued
  <2>1. Queued = Cardinality(EventsAt(queue)) /\ Queued' = Cardinality(EventsAt(queue'))
    BY DEF Queued, EventsAt
  <2>2. Cardinality(EventsAt(queue)) \in Nat
    BY <1>5, EventsAreFinite
  <2> QED BY <1>1, <1>5, <2>1, <2>2, EventsAppended DEF OneIf, Message
<1>7. OneIf(Sending)' = OneIf(Sending)
  BY <1>4 DEF OneIf
<1>8. /\ ~Answered /\ worker # "sink_flush" /\ worker \in Working
      /\ \A i \in DOMAIN queue : queue[i] # "flush"
  BY <1>1, <1>3 DEF QueueInv
<1>9. \A i \in DOMAIN queue' : queue'[i] = "flush" => i = Len(queue')
  <2> SUFFICES ASSUME NEW i \in DOMAIN queue', queue'[i] = "flush" PROVE i = Len(queue')
    OBVIOUS
  <2>1. i \notin DOMAIN queue
    BY <1>5, <1>8
  <2> QED BY <1>5, <2>1
<1> QED BY <1>1, <1>3, <1>5, <1>6, <1>7, <1>8, <1>9 DEF QueueInv, Answered, Working, Message

(* The worker takes the messages in their order: behind an event there is  *)
(* at most the flush left, behind the flush nothing.                       *)
LEMMA TailOfQueue ==
  ASSUME QueueInv, queue # <<>>
  PROVE  /\ Tail(queue) \in Seq(Message) /\ Len(Tail(queue)) <= QueueCapacity
         /\ Head(queue) \in Message
         /\ Queued \in Nat /\ Cardinality(EventsAt(Tail(queue))) \in Nat
         /\ Queued = Cardinality(EventsAt(Tail(queue))) + OneIf(Head(queue) = "event")
         /\ \A i \in DOMAIN Tail(queue) :
              Tail(queue)[i] = "flush" => i = Len(Tail(queue)) /\ Settled
         /\ Head(queue) = "flush" => Tail(queue) = <<>> /\ Settled
<1>1. queue \in Seq(Message) /\ Len(queue) <= QueueCapacity
      /\ \A i \in DOMAIN queue : queue[i] = "flush" => i = Len(queue) /\ Settled
  BY DEF QueueInv, Message
<1> DEFINE r == Tail(queue)
<1>2. /\ r \in Seq(Message) /\ Len(r) = Len(queue) - 1 /\ Len(queue) \in Nat \ {0}
      /\ Head(queue) = queue[1] /\ Head(queue) \in Message /\ 1 \in DOMAIN queue
      /\ DOMAIN r = 1 .. Len(queue) - 1 /\ DOMAIN queue = 1 .. Len(queue)
      /\ \A i \in DOMAIN r : r[i] = queue[i + 1]
  BY <1>1
<1>3. /\ Queued = Cardinality(EventsAt(queue)) /\ Queued \in Nat
      /\ Cardinality(EventsAt(r)) \in Nat
      /\ Queued = Cardinality(EventsAt(r)) + OneIf(Head(queue) = "event")
  <2>1. Queued = Cardinality(EventsAt(queue))
    BY DEF Queued, EventsAt
  <2> QED BY <1>1, <1>2, <2>1, EventsAreFinite, EventsReceived
<1>4. Len(r) <= QueueCapacity
  BY <1>1, <1>2, TrackerAssumption
<1>5. ASSUME NEW i \in DOMAIN r, r[i] = "flush" PROVE i = Len(r) /\ Settled
  <2>1. i + 1 \in DOMAIN queue /\ queue[i + 1] = "flush"
    BY <1>2, <1>5
  <2>2. i + 1 = Len(queue) /\ Settled
    BY <1>1, <2>1
  <2> QED BY <1>2, <2>2
<1>6. ASSUME Head(queue) = "flush" PROVE r = <<>> /\ Settled
  <2>1. Len(queue) = 1 /\ Settled
    BY <1>1, <1>2, <1>6
  <2> QED BY <1>1, <1>2, <2>1
<1> QED BY <1>2, <1>3, <1>4, <1>5, <1>6

(* The loop of the worker keeps the accounts.                              *)
LEMMA WorkerKeepsQueue ==
  ASSUME HolderInv, QueueInv, WorkerStep
  PROVE  QueueInv'
<1>1. UNCHANGED <<tracker, pc>> /\ flushed' = flushed /\ outcome' = outcome /\ stop' = stop
      /\ accepted' = accepted /\ refused' = refused
  BY DEF WorkerStep, LookAtStop, Receive, ReceiveNothing, Complete, Release, Drain, Drained, closing,
         counters
<1>2. (Settled' <=> Settled) /\ (Sending' <=> Sending) /\ OneIf(Sending)' = OneIf(Sending)
      /\ OneIf(Sending) \in Nat
  BY <1>1 DEF Settled, Sending, tracker, OneIf
<1>3. /\ accepted \in Nat /\ completed \in Nat /\ dropped \in Nat /\ refused \in Nat
      /\ bytes \in 0 .. MaxQueueBytes /\ MaxQueueBytes \in Nat
  BY TrackerAssumption DEF QueueInv
<1>4. Queued \in Nat
  BY EventsAreFinite DEF QueueInv, Queued, EventsAt, Message
<1>5. CASE LookAtStop \/ ReceiveNothing \/ Drained
  <2>1. /\ queue' = queue /\ completed' = completed /\ dropped' = dropped /\ bytes' = bytes
        /\ reply' = reply
        /\ worker \in {"loop", "recv", "drain"} /\ worker' \in {"loop", "recv", "drain", "sink_close"}
        /\ worker' \in Working => worker \in Working
        /\ worker' \in {"drain", "sink_close"} => stop
        /\ worker' = "sink_close" => queue = <<>>
    BY <1>5 DEF LookAtStop, ReceiveNothing, Drained, counters, QueueInv, Working
  <2>2. Queued' = Queued
    BY <2>1 DEF Queued
  <2>3. /\ OneIf(worker \in {"sink_send", "count"}) = 0
        /\ OneIf(worker \in {"sink_send", "count"})' = 0
        /\ OneIf(worker \in {"sink_send", "count", "release"}) = 0
        /\ OneIf(worker \in {"sink_send", "count", "release"})' = 0
    BY <2>1 DEF OneIf
  <2>4. accepted = completed + dropped + Queued + 0 + OneIf(Sending) /\ bytes = Queued + 0
    BY <2>1, <2>3 DEF QueueInv
  <2>5. /\ accepted' = completed' + dropped' + Queued' + 0 + OneIf(Sending)'
        /\ bytes' = Queued' + 0
    BY <1>1, <1>2, <2>1, <2>2, <2>4
  <2>6. worker # "sink_flush" /\ worker' \notin {"gone", "panicked", "sink_flush"}
    BY <2>1
  <2> QED BY <1>1, <1>2, <2>1, <2>3, <2>5, <2>6 DEF QueueInv, Answered, Working
<1>6. CASE Complete
  <2>1. /\ worker = "count" /\ worker' = "release" /\ completed' = completed + 1
        /\ queue' = queue /\ dropped' = dropped /\ bytes' = bytes /\ reply' = reply
    BY <1>6 DEF Complete
  <2>2. Queued' = Queued
    BY <2>1 DEF Queued
  <2>3. /\ OneIf(worker \in {"sink_send", "count"}) = 1
        /\ OneIf(worker \in {"sink_send", "count"})' = 0
        /\ OneIf(worker \in {"sink_send", "count", "release"}) = 1
        /\ OneIf(worker \in {"sink_send", "count", "release"})' = 1
    BY <2>1 DEF OneIf
  <2>4. accepted = completed + dropped + Queued + 1 + OneIf(Sending)
    BY <2>1, <2>3 DEF QueueInv
  <2>5. /\ accepted' = completed' + dropped' + Queued' + 0 + OneIf(Sending)'
        /\ completed' \in Nat
    BY <1>1, <1>2, <1>3, <1>4, <2>1, <2>2, <2>4
  <2>6. ~Answered /\ worker \in Working
    BY <2>1 DEF QueueInv, Working
  <2> QED BY <1>1, <1>2, <2>1, <2>2, <2>3, <2>5, <2>6 DEF QueueInv, Answered, Working
<1>7. CASE Release
  <2>1. /\ worker = "release" /\ worker' = "loop" /\ bytes' = bytes - 1
        /\ queue' = queue /\ dropped' = dropped /\ completed' = completed /\ reply' = reply
    BY <1>7 DEF Release
  <2>2. Queued' = Queued
    BY <2>1 DEF Queued
  <2>3. /\ OneIf(worker \in {"sink_send", "count"}) = 0
        /\ OneIf(worker \in {"sink_send", "count"})' = 0
        /\ OneIf(worker \in {"sink_send", "count", "release"}) = 1
        /\ OneIf(worker \in {"sink_send", "count", "release"})' = 0
    BY <2>1 DEF OneIf
  <2>4. bytes = Queued + 1
    BY <2>1, <2>3 DEF QueueInv
  <2>5. bytes' = Queued' + 0 /\ bytes' \in 0 .. MaxQueueBytes
    BY <1>3, <1>4, <2>1, <2>2, <2>4, TrackerAssumption
  <2>6. ~Answered /\ worker \in Working
    BY <2>1 DEF QueueInv, Working
  <2> QED BY <1>1, <1>2, <2>1, <2>2, <2>3, <2>5, <2>6 DEF QueueInv, Answered, Working
<1>8. CASE Receive
  <2>1. /\ worker = "recv" /\ queue # <<>> /\ queue' = Tail(queue)
        /\ worker' = IF Head(queue) = "event" THEN "sink_send" ELSE "sink_flush"
        /\ dropped' = dropped /\ completed' = completed /\ bytes' = bytes /\ reply' = reply
    BY <1>8 DEF Receive, counters
  <2>2. Queued' = Cardinality(EventsAt(Tail(queue)))
    BY <2>1 DEF Queued, EventsAt
  <2>3. /\ OneIf(worker \in {"sink_send", "count"}) = 0
        /\ OneIf(worker \in {"sink_send", "count"})' = OneIf(Head(queue) = "event")
        /\ OneIf(worker \in {"sink_send", "count", "release"}) = 0
        /\ OneIf(worker \in {"sink_send", "count", "release"})' = OneIf(Head(queue) = "event")
        /\ OneIf(Head(queue) = "event") \in Nat
    BY <2>1 DEF OneIf
  <2>4. Queued = Queued' + OneIf(Head(queue) = "event") /\ Queued' \in Nat
    BY <2>1, <2>2, TailOfQueue
  <2>5. accepted = completed + dropped + Queued + 0 + OneIf(Sending) /\ bytes = Queued + 0
    BY <2>1, <2>3 DEF QueueInv
  <2>6. /\ accepted' = completed' + dropped' + Queued' + OneIf(Head(queue) = "event") + OneIf(Sending)'
        /\ bytes' = Queued' + OneIf(Head(queue) = "event")
    BY <1>1, <1>2, <1>3, <1>4, <2>1, <2>3, <2>4, <2>5
  <2>7. ~Answered /\ worker \in Working /\ worker' \in Working
    BY <2>1 DEF QueueInv, Working
  <2>8. /\ queue' \in Seq(Message) /\ Len(queue') <= QueueCapacity
        /\ \A i \in DOMAIN queue' : queue'[i] = "flush" => i = Len(queue') /\ Settled
        /\ worker' = "sink_flush" => queue' = <<>> /\ Settled
    BY <2>1, TailOfQueue DEF Message
  <2>9. /\ worker' \in {"sink_send", "sink_flush"} /\ (stop' <=> stop)
    BY <1>1, <2>1
  <2> QED BY <1>1, <1>2, <2>1, <2>3, <2>6, <2>7, <2>8, <2>9 DEF QueueInv, Answered, Message
<1>9. CASE Drain
  <2>1. /\ worker = "drain" /\ worker' = "drain" /\ queue # <<>> /\ queue' = Tail(queue)
        /\ completed' = completed
        /\ Head(queue) = "event" => dropped' = dropped + 1 /\ bytes' = bytes - 1 /\ reply' = reply
        /\ Head(queue) # "event" => dropped' = dropped /\ bytes' = bytes /\ reply' = "lost"
    BY <1>9 DEF Drain
  <2>2. Queued' = Cardinality(EventsAt(Tail(queue)))
    BY <2>1 DEF Queued, EventsAt
  <2>3. /\ OneIf(worker \in {"sink_send", "count"}) = 0
        /\ OneIf(worker \in {"sink_send", "count"})' = 0
        /\ OneIf(worker \in {"sink_send", "count", "release"}) = 0
        /\ OneIf(worker \in {"sink_send", "count", "release"})' = 0
    BY <2>1 DEF OneIf
  <2>4. Queued = Queued' + OneIf(Head(queue) = "event") /\ Queued' \in Nat
    BY <2>1, <2>2, TailOfQueue
  <2>5. accepted = completed + dropped + Queued + 0 + OneIf(Sending) /\ bytes = Queued + 0
    BY <2>1, <2>3 DEF QueueInv
  <2>6. /\ accepted' = completed' + dropped' + Queued' + 0 + OneIf(Sending)'
        /\ bytes' = Queued' + 0 /\ bytes' \in 0 .. MaxQueueBytes /\ dropped' \in Nat
    <3> DEFINE e == OneIf(Head(queue) = "event")
    <3>1. e \in Nat /\ dropped' = dropped + e /\ bytes' = bytes - e
      BY <1>3, <2>1 DEF OneIf
    <3>2. Queued = Queued' + e /\ Queued' \in Nat
      BY <2>4
    <3> HIDE DEF e
    <3>3. bytes' = Queued' + 0
      BY <2>5, <3>1, <3>2
    <3>4. bytes' \in 0 .. MaxQueueBytes
      <4>1. bytes' \in Nat
        <5>1. Queued' \in Nat
          BY <3>2
        <5>2. \A q \in Nat : q + 0 \in Nat
          OBVIOUS
        <5> QED BY <3>3, <5>1, <5>2
      <4>0. bytes \in 0 .. MaxQueueBytes /\ MaxQueueBytes \in Nat
        BY <1>3
      <4>2. e \in Nat /\ bytes' = bytes - e
        BY <3>1
      <4>3. bytes - e <= bytes
        BY <4>0, <4>2
      <4> QED BY <4>0, <4>1, <4>2, <4>3
    <3>5. dropped' \in Nat
      BY <1>3, <3>1
    <3>6. accepted' = completed' + dropped' + Queued' + 0 + OneIf(Sending)'
      BY <1>1, <1>2, <1>3, <2>1, <2>5, <3>1, <3>2
    <3> QED BY <3>3, <3>4, <3>5, <3>6
  <2>7. ~Answered /\ ~Answered' /\ reply' \in {"none", "lost"} /\ ~flushed /\ outcome # "delivered"
    BY <2>1 DEF QueueInv, Answered
  <2>8. /\ queue' \in Seq(Message) /\ Len(queue') <= QueueCapacity
        /\ \A i \in DOMAIN queue' : queue'[i] = "flush" => i = Len(queue') /\ Settled
    BY <2>1, TailOfQueue DEF Message
  <2>9. stop' /\ worker' \notin Working
    BY <1>1, <2>1 DEF QueueInv, Working
  <2> QED BY <1>1, <1>2, <2>1, <2>3, <2>6, <2>7, <2>8, <2>9 DEF QueueInv, Message
<1> QED BY <1>5, <1>6, <1>7, <1>8, <1>9 DEF WorkerStep

(* The sink's calls return or panic.                                       *)
LEMMA SinkKeepsQueue ==
  ASSUME HolderInv, QueueInv, SinkStep
  PROVE  QueueInv'
<1>1. UNCHANGED <<tracker, pc>> /\ flushed' = flushed /\ outcome' = outcome /\ stop' = stop
      /\ accepted' = accepted /\ completed' = completed /\ dropped' = dropped /\ bytes' = bytes
      /\ refused' = refused
  BY DEF SinkStep, SinkSends, SinkFlushes, SinkCloses, SinkPanics, closing, counters
<1>2. (Settled' <=> Settled) /\ (Sending' <=> Sending) /\ OneIf(Sending)' = OneIf(Sending)
      /\ OneIf(Sending) \in Nat
  BY <1>1 DEF Settled, Sending, tracker, OneIf
<1>3. /\ accepted \in Nat /\ completed \in Nat /\ dropped \in Nat
      /\ Queued \in Nat
  BY EventsAreFinite DEF QueueInv, Queued, EventsAt, Message
<1>4. CASE SinkSends
  <2>1. /\ worker = "sink_send" /\ worker' = "count" /\ queue' = queue /\ reply' = reply
    BY <1>4 DEF SinkSends
  <2>2. Queued' = Queued
    BY <2>1 DEF Queued
  <2>3. /\ OneIf(worker \in {"sink_send", "count"})' = OneIf(worker \in {"sink_send", "count"})
        /\ OneIf(worker \in {"sink_send", "count", "release"})' =
             OneIf(worker \in {"sink_send", "count", "release"})
    BY <2>1 DEF OneIf
  <2> QED BY <1>1, <1>2, <2>1, <2>2, <2>3 DEF QueueInv, Answered, Working
<1>5. CASE SinkFlushes
  <2>1. /\ worker = "sink_flush" /\ worker' = "loop" /\ queue' = queue
        /\ reply' \in {"complete", "incomplete"}
    BY <1>5 DEF SinkFlushes
  <2>2. queue = <<>> /\ Settled /\ ~Answered /\ ~flushed /\ outcome # "delivered"
    BY <2>1 DEF QueueInv, Answered
  <2>3. ~Sending
    BY <2>2, TrackerAssumption DEF Settled, Sending, HolderInv, OneHolder, Holding, AnyThread
  <2>4. OneIf(Sending) = 0 /\ Queued' = Queued /\ Queued = 0
    <3>1. EventsAt(queue) = {}
      BY <2>2 DEF EventsAt
    <3> QED BY <2>1, <2>3, <3>1, FS_EmptySet DEF OneIf, Queued, EventsAt
  <2>5. /\ OneIf(worker \in {"sink_send", "count"}) = 0
        /\ OneIf(worker \in {"sink_send", "count"})' = 0
        /\ OneIf(worker \in {"sink_send", "count", "release"}) = 0
        /\ OneIf(worker \in {"sink_send", "count", "release"})' = 0
    BY <2>1 DEF OneIf
  <2>6. accepted = completed + dropped + 0 + 0 + 0 /\ bytes = 0 /\ dropped = refused
    BY <2>1, <2>4, <2>5 DEF QueueInv, Working
  <2>7. accepted = completed + dropped
    BY <1>3, <2>6
  <2> QED BY <1>1, <1>2, <2>1, <2>2, <2>4, <2>5, <2>6, <2>7 DEF QueueInv, Answered, Working
<1>6. CASE SinkCloses
  <2>1. /\ worker = "sink_close" /\ worker' = "gone" /\ queue' = queue /\ reply' = reply
    BY <1>6 DEF SinkCloses
  <2>2. Queued' = Queued
    BY <2>1 DEF Queued
  <2>3. /\ OneIf(worker \in {"sink_send", "count"})' = OneIf(worker \in {"sink_send", "count"})
        /\ OneIf(worker \in {"sink_send", "count", "release"})' =
             OneIf(worker \in {"sink_send", "count", "release"})
    BY <2>1 DEF OneIf
  <2> QED BY <1>1, <1>2, <2>1, <2>2, <2>3 DEF QueueInv, Answered, Working
<1>7. CASE SinkPanics
  <2>1. /\ worker \in {"sink_send", "sink_flush", "sink_close"} /\ worker' = "panicked"
        /\ queue' = <<>> /\ reply' = IF reply = "none" THEN "lost" ELSE reply
    BY <1>7 DEF SinkPanics
  <2>2. OneIf(worker \in {"sink_send", "count"}) \in Nat
    BY DEF OneIf
  <2>3. accepted = completed + dropped + Queued + OneIf(worker \in {"sink_send", "count"})
                     + OneIf(Sending)
    BY <2>1 DEF QueueInv
  <2>4. accepted' >= completed' + dropped' + OneIf(Sending)'
    BY <1>1, <1>2, <1>3, <2>2, <2>3
  <2>5. /\ queue' \in Seq(Message) /\ Len(queue') = 0 /\ Len(queue') <= QueueCapacity
        /\ DOMAIN queue' = {}
    BY <2>1, TrackerAssumption
  <2>6. /\ Answered' <=> Answered
        /\ reply' \in {"none", "complete", "incomplete", "lost"}
        /\ reply = "complete" => reply' = "complete"
    BY <2>1 DEF Answered, QueueInv
  <2>7. /\ worker' \notin Working \cup {"drain", "sink_close", "gone"}
    BY <2>1 DEF Working
  <2> QED BY <1>1, <1>2, <2>1, <2>4, <2>5, <2>6, <2>7 DEF QueueInv, Message, Answered
<1> QED BY <1>4, <1>5, <1>6, <1>7 DEF SinkStep

(* Every step keeps the accounts.                                          *)
LEMMA QueueNext ==
  ASSUME HolderInv, CloseInv, QueueInv, [Next]_vars
  PROVE  QueueInv'
<1>1. /\ pc \in [AnyThread -> Places] /\ Watchdog \in AnyThread
      /\ lock = Nobody => \A t \in AnyThread : pc[t] # "enqueue"
      /\ Settled => Settled'
  BY SettledStays, TrackerAssumption DEF HolderInv, OneHolder, AnyThread, Holding
<1>2. /\ flushed => reply = "complete"
      /\ outcome = "delivered" => reply = "complete"
  BY DEF QueueInv
<1>3. ASSUME NEW t \in AnyThread, NEW label, label # "enqueue", pc[t] # "enqueue",
             pc' = [pc EXCEPT ![t] = label],
             UNCHANGED <<queue, counters, worker, reply, refused, closing>>, stop => stop'
      PROVE  QueueInv'
  <2>1. flushed' = flushed /\ outcome' = outcome
    BY <1>3 DEF closing
  <2> QED BY <1>1, <1>2, <1>3, <2>1, MoveKeepsQueue
<1>4. ASSUME NEW t \in AnyThread, Acquire(t) PROVE QueueInv'
  <2>1. \E label \in {"idle", "lock_finish", "capture", "gone", "wait", "drop_self"} :
          pc' = [pc EXCEPT ![t] = label]
    BY <1>4, ReturnMoves DEF Acquire, CheckFinished, Prepare, Refuse, Goto
  <2>2. pc[t] # "enqueue" /\ UNCHANGED <<queue, counters, worker, reply, refused, closing, stop>>
    BY <1>4 DEF Acquire, CheckFinished, Prepare, Refuse
  <2> QED BY <1>3, <1>4, <2>1, <2>2
<1>5. ASSUME NEW t \in AnyThread, Step(t) PROVE QueueInv'
  <2>1. CASE Count(t)
    BY <2>1, CountKeepsQueue
  <2>2. CASE Enqueue(t)
    BY <2>2, EnqueueKeepsQueue
  <2>3. CASE Discard(t)
    BY <2>3, DiscardKeepsQueue
  <2>4. CASE Submit(t)
    BY <2>4, SubmitKeepsQueue
  <2>5. CASE \/ Capture(t) \/ CaptureFails(t) \/ Unlock(t) \/ Told(t) \/ TakeWatchdog(t)
             \/ JoinWatchdog(t) \/ DropSelf(t) \/ DropQueue(t) \/ SubmitFails(t) \/ SetStop(t)
    <3>1. \E label \in {"idle", "send", "gone", "wait", "drop_self", "stop_watchdog", "drop_join",
                       "drop_queue", "join", "submit", "set_stop", "reap"} :
            pc' = [pc EXCEPT ![t] = label]
      BY <2>5, ReturnMoves DEF Capture, CaptureFails, Unlock, Told, TakeWatchdog, JoinWatchdog,
                               DropSelf, DropQueue, SubmitFails, SetStop, Goto
    <3>2. /\ pc[t] # "enqueue" /\ UNCHANGED <<queue, counters, worker, reply, refused, closing>>
          /\ stop => stop'
      BY <2>5 DEF Capture, CaptureFails, Unlock, Told, TakeWatchdog, JoinWatchdog, DropSelf,
                  DropQueue, SubmitFails, SetStop
    <3> QED BY <1>3, <3>1, <3>2
  <2>6. CASE Await(t)
    <3>1. /\ pc[t] = "await" /\ pc' = [pc EXCEPT ![t] = "set_stop"]
          /\ UNCHANGED <<queue, counters, worker, reply, refused>> /\ stop' = stop
          /\ flushed' => reply = "complete"
          /\ outcome' = outcome
      BY <2>6 DEF Await, Goto
    <3> QED BY <1>1, <1>2, <3>1, MoveKeepsQueue
  <2>7. CASE Reap(t)
    <3>1. /\ pc[t] = "reap" /\ pc' = [pc EXCEPT ![t] = "idle"]
          /\ UNCHANGED <<queue, counters, worker, reply, refused>> /\ stop' = stop
          /\ flushed' = flushed /\ (outcome' = "delivered" => flushed)
      BY <2>7 DEF Reap, Goto
    <3> QED BY <1>1, <1>2, <3>1, MoveKeepsQueue
  <2> QED BY <1>5, <2>1, <2>2, <2>3, <2>4, <2>5, <2>6, <2>7 DEF Step
<1>6. ASSUME NEW t \in AnyThread, Choose(t) PROVE QueueInv'
  <2>1. CASE Call(t) \/ CallFinish(t) \/ DropHandle(t) \/ Interval(t)
    <3>1. \E label \in {"lock", "check", "drop", "idle", "gone"} : pc' = [pc EXCEPT ![t] = label]
      BY <2>1 DEF Call, CallFinish, DropHandle, Interval, Goto
    <3>2. pc[t] # "enqueue" /\ UNCHANGED <<queue, counters, worker, reply, refused, closing, stop>>
      BY <2>1 DEF Call, CallFinish, DropHandle, Interval
    <3> QED BY <1>3, <3>1, <3>2
  <2>2. CASE AddTimeRule(t)
    <3>1. /\ pc' = [pc EXCEPT ![Watchdog] = "wait"] /\ lock = Nobody
          /\ UNCHANGED <<queue, counters, worker, reply, refused, closing, stop>>
      BY <2>2 DEF AddTimeRule
    <3> QED BY <1>1, <1>3, <3>1
  <2> QED BY <1>6, <2>1, <2>2 DEF Choose
<1>7. CASE DeadlinePasses \/ UNCHANGED vars
  <2>1. UNCHANGED <<queue, counters, worker, reply, refused, pc, stop>>
        /\ flushed' = flushed /\ outcome' = outcome
    BY <1>7 DEF DeadlinePasses, vars, closing
  <2>2. Sending' <=> Sending
    BY <2>1 DEF Sending
  <2> QED BY <1>1, <1>2, <2>1, <2>2, QueueKept
<1>8. CASE WorkerStep
  BY <1>8, WorkerKeepsQueue
<1>9. CASE SinkStep
  BY <1>9, SinkKeepsQueue
<1> QED BY <1>4, <1>5, <1>6, <1>7, <1>8, <1>9 DEF Next, Finale, AnyThread

-------------------------------------------------------------------------------
(* The invariant, and what follows from it.                                *)

(* The new tracker satisfies the invariant.                                *)
LEMMA TrackerInit == Init => TrackerInv
<1> SUFFICES ASSUME Init PROVE TrackerInv
  OBVIOUS
<1> USE DEF Init
<1>1. /\ Nobody \notin AnyThread /\ Watchdog \in AnyThread /\ Watchdog \notin Thread
      /\ \A t \in AnyThread : t \in Thread \/ t = Watchdog
  BY TrackerAssumption DEF AnyThread
<1>2. /\ pc \in [AnyThread -> {"idle", "wait", "none"}]
      /\ pc[Watchdog] = IF watchdog THEN "wait" ELSE "none"
      /\ \A t \in Thread : pc[t] = "idle"
  BY <1>1 DEF AnyThread
<1>3. OneHolder
  BY <1>1, <1>2 DEF OneHolder, Holding, Places
<1>4. LogInv
  <2>1. state \in States /\ log \in Seq(Records)
    BY TrackerAssumption DEF States
  <2>2. Numbered(log, 0) /\ state.commits = Len(log) /\ (state.finished <=> Final(log))
    BY DEF Numbered, Final
  <2>3. Ordered(state) /\ event_step(state) = 0
    BY DEF Ordered, event_step
  <2>4. Climbs(log, 0, event_step(state))
    BY <2>3 DEF Climbs
  <2> QED BY <2>1, <2>2, <2>3, <2>4 DEF LogInv
<1>5. CloseInv
  BY <1>1, <1>2 DEF CloseInv, ClosingPlaces, QuietPlaces, DropPlaces, NoWatchdog
<1>6. QueueInv
  <2>1. Queued = 0
    <3>1. EventsAt(queue) = {}
      BY DEF EventsAt
    <3> QED BY <3>1, FS_EmptySet DEF Queued, EventsAt
  <2>2. OneIf(Sending) = 0
    BY <1>2 DEF Sending, OneIf
  <2>3. /\ OneIf(worker \in {"sink_send", "count"}) = 0
        /\ OneIf(worker \in {"sink_send", "count", "release"}) = 0
    BY DEF OneIf
  <2>4. queue \in Seq({"event", "flush"}) /\ Len(queue) = 0 /\ DOMAIN queue = {}
    OBVIOUS
  <2>5. Len(queue) <= QueueCapacity /\ bytes \in 0 .. MaxQueueBytes
    BY <2>4, TrackerAssumption
  <2> QED BY <2>1, <2>2, <2>3, <2>4, <2>5 DEF QueueInv, Working, Answered
<1> QED BY <1>3, <1>4, <1>5, <1>6 DEF TrackerInv

(* Each part is kept because the parts before it hold.                     *)
LEMMA TrackerNext == TrackerInv /\ [Next]_vars => TrackerInv'
<1> SUFFICES ASSUME TrackerInv, [Next]_vars PROVE TrackerInv'
  OBVIOUS
<1>1. HolderInv /\ CloseInv /\ QueueInv
  BY DEF TrackerInv, HolderInv
<1> QED BY <1>1, HolderNext, CloseNext, QueueNext DEF TrackerInv, HolderInv

(* Threads that race, captures that fail and calls that are refused leave  *)
(* the producer's records numbered without a hole, ended by the terminal   *)
(* one, and in the order of their steps; the tracker keeps its types.      *)
THEOREM RecordsStayInOrder == Spec => []RecordsAreInOrder
<1>1. ASSUME TrackerInv PROVE RecordsAreInOrder
  <2>1. OneHolder /\ LogInv /\ CloseInv /\ QueueInv
    BY <1>1 DEF TrackerInv
  <2>2. (prepared = NoBatch) = (lock = Nobody)
    BY <2>1, NoBatchAssumption DEF OneHolder
  <2>3. TypeOK
    BY <2>1, <2>2 DEF OneHolder, LogInv, CloseInv, QueueInv, Working, AnyThread, TypeOK
  <2>4. Len(log) \in Nat /\ DOMAIN log = 1 .. Len(log)
    BY <2>1 DEF LogInv
  <2>5. RecordsAreNumbered
    <3>1. \A i \in DOMAIN log : 0 + i = i
      BY <2>4
    <3>2. lock = Nobody => state.finished = Final(log)
      <4>1. state.finished \in BOOLEAN /\ Final(log) \in BOOLEAN
        BY <2>1 DEF LogInv, States, Final
      <4>2. state.finished <=> Final(log)
        BY <2>1 DEF LogInv
      <4>3. \A a, b \in BOOLEAN : (a <=> b) => a = b
        OBVIOUS
      <4> QED BY <4>1, <4>2, <4>3
    <3> QED BY <2>1, <3>1, <3>2 DEF LogInv, Numbered, Final, RecordsAreNumbered
  <2>6. StepsNeverGoBack
    BY <2>1 DEF LogInv, Climbs, StepsNeverGoBack
  <2> QED BY <2>3, <2>5, <2>6 DEF RecordsAreInOrder
<1> QED BY <1>1, TrackerInit, TrackerNext, PTL DEF Spec

(* No alert is lost track of between the sending thread, the channel and   *)
(* the worker, and the byte budget is what they hold.                      *)
THEOREM AlertsStayCounted == Spec => []AlertsAreCounted
<1>1. ASSUME TrackerInv PROVE AlertsAreCounted
  <2>1. QueueInv /\ DOMAIN pc = AnyThread
    BY <1>1 DEF TrackerInv, OneHolder
  <2>2. OneIf(Sending) = OneIf(\E t \in DOMAIN pc : pc[t] = "enqueue") /\ OneIf(Sending) \in Nat
    BY <2>1 DEF Sending, OneIf
  <2>3. accepted \in Nat /\ completed \in Nat /\ dropped \in Nat /\ Queued \in Nat
    BY <2>1, EventsAreFinite DEF QueueInv, Queued, EventsAt, Message
  <2>4. OneIf(worker \in {"sink_send", "count"}) \in Nat
    BY DEF OneIf
  <2>5. completed + dropped <= accepted
    <3> DEFINE sent == OneIf(Sending)
               held == OneIf(worker \in {"sink_send", "count"})
    <3>1. worker = "panicked" => accepted >= completed + dropped + sent
      BY <2>1 DEF QueueInv
    <3>2. worker # "panicked" => accepted = completed + dropped + Queued + held + sent
      BY <2>1 DEF QueueInv
    <3>3. sent \in Nat /\ held \in Nat
      BY <2>2, <2>4
    <3> HIDE DEF sent, held
    <3> QED BY <2>3, <3>1, <3>2, <3>3
  <2> QED BY <2>1, <2>2, <2>5 DEF QueueInv, AlertsAreCounted
<1> QED BY <1>1, TrackerInit, TrackerNext, PTL DEF Spec

(* finish does not report a complete delivery that was none, however late  *)
(* the sink answers and whatever the worker dropped when told to stop; and *)
(* it leaves no watchdog, none that can be started, and a worker that has  *)
(* been told to stop.                                                      *)
THEOREM CompleteMeansDelivered == Spec => []FinishIsTruthful
<1>1. ASSUME TrackerInv PROVE FinishIsTruthful
  <2>1. QueueInv
    BY <1>1 DEF TrackerInv
  <2>2. ASSUME outcome = "delivered"
        PROVE  queue = <<>> /\ accepted = completed + dropped /\ dropped = refused
    BY <2>1, <2>2 DEF QueueInv, Answered
  <2>3. outcome # "none" => ~watchdog /\ pc[Watchdog] \in {"none", "gone"} /\ stop
    BY <1>1 DEF TrackerInv, CloseInv, NoWatchdog
  <2> QED BY <2>2, <2>3 DEF FinishIsTruthful
<1> QED BY <1>1, TrackerInit, TrackerNext, PTL DEF Spec

===============================================================================

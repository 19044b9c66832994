-------------------------------- MODULE Tracker -------------------------------
(***************************************************************************)
(* Tracker of rvx-tracker and its AlertQueue: calls from several threads   *)
(* and the watchdog assemble steps under one mutex and capture them with a *)
(* producer; the alerts they raise go through a bounded queue to a worker  *)
(* that calls a foreign sink; finish, and the drop of the last handle,     *)
(* shut all of it down against a deadline.                                 *)
(*                                                                         *)
(* A record is what the properties tell apart of a snapshot: its kind,     *)
(* step, commit number and whether it carries a terminal status.  Whether  *)
(* a call exceeds a budget, a capture is refused or a rule fires depends   *)
(* on data left out, and is a choice.                                      *)
(***************************************************************************)
EXTENDS Integers, Sequences, FiniteSets

CONSTANTS
  Thread,         \* threads of the traced program
  Watchdog,       \* the watchdog thread
  Nobody,         \* the state mutex is free
  None,           \* an absent step
  NoBatch,        \* no PreparedBatch
  Monotonic,      \* step_policy
  MaxStep,        \* i64::MAX
  MaxRecords,     \* bound: what the producer accepts in all
  MaxAlerts,      \* bound: the alerts one commit or tick raises
  QueueCapacity,  \* delivery_queue_capacity
  MaxQueueBytes   \* max_state_bytes, in alerts

ASSUME TrackerAssumption ==
  /\ Watchdog \notin Thread
  /\ Nobody \notin Thread \cup {Watchdog}
  /\ None \notin Nat
  /\ Monotonic \in BOOLEAN
  /\ MaxStep \in Nat
  /\ MaxRecords \in Nat
  /\ MaxAlerts \in Nat
  /\ QueueCapacity \in Nat \ {0}
  /\ MaxQueueBytes \in Nat

VARIABLES
  state,       \* TrackerState
  lock,        \* holder of its mutex
  prepared,    \* the holder's PreparedBatch; its alerts are those not yet sent
  log,         \* the records the producer has captured
  pc,          \* place of every thread
  handles,     \* the program still holds the tracker
  watchdog,    \* the Watchdog handle is still owned by the tracker
  told,        \* its stop message has been sent
  queue,       \* the worker's channel: "event" and "flush" messages
  accepted, completed, dropped, bytes, stop,  \* Counters
  worker,      \* place of the worker thread
  reply,       \* the answer to the flush message, if any
  late,        \* the deadline of close has passed
  flushed,     \* local of close
  outcome,     \* what close returned
  refused      \* history: alerts that never entered the queue

tracker  == <<state, lock, prepared, log>>
threads  == <<handles, watchdog, told>>
counters == <<accepted, completed, dropped, bytes>>
closing  == <<late, flushed, outcome>>

vars == <<tracker, pc, threads, queue, counters, stop, worker, reply, closing, refused>>

Init ==
  /\ state = [next_step |-> 0, open_step |-> None, last_committed_step |-> None,
              commits |-> 0, finished |-> FALSE]
  /\ lock = Nobody
  /\ prepared = NoBatch
  /\ log = <<>>
  /\ handles = TRUE
  /\ watchdog \in BOOLEAN       \* whether the rules given to new have a time rule
  /\ pc = [t \in Thread \cup {Watchdog} |->
            IF t \in Thread THEN "idle" ELSE IF watchdog THEN "wait" ELSE "none"]
  /\ told = FALSE
  /\ queue = <<>>
  /\ accepted = 0 /\ completed = 0 /\ dropped = 0 /\ bytes = 0
  /\ stop = FALSE
  /\ worker = "loop"
  /\ reply = "none"
  /\ late = FALSE
  /\ flushed = FALSE
  /\ outcome = "none"
  /\ refused = 0

Goto(t, label) == pc' = [pc EXCEPT ![t] = label]

(* A call returns: to the program, or to the watchdog's timer by way of    *)
(* the drop of its strong reference, which may be the last one.            *)
Return(t) ==
  Goto(t, IF t # Watchdog THEN "idle" ELSE IF handles THEN "wait" ELSE "drop_self")

-------------------------------------------------------------------------------
(* What a call prepares.                                                   *)

resolve_step(s, step) ==
  IF step # None THEN step ELSE IF s.open_step # None THEN s.open_step ELSE s.next_step

event_step(s) ==
  IF s.open_step # None THEN s.open_step
  ELSE IF s.last_committed_step # None THEN s.last_committed_step ELSE s.next_step

(* step_decision = Reject: behind the open step or, when none is open,     *)
(* behind the next one without being a patch of the last one.              *)
Rejected(s, target) ==
  /\ Monotonic
  /\ IF s.open_step # None THEN target < s.open_step
     ELSE target < s.next_step /\ target # s.last_committed_step

(* step_decision = CommitOpen.                                             *)
Supersedes(s, target) == s.open_step # None /\ target # s.open_step

Record(kind, s, step) ==
  [kind |-> kind, step |-> step, commit |-> s.commits + 1, final |-> FALSE]

(* The cursor cannot move past the open step.                              *)
Exhausted(s) == s.open_step = MaxStep

(* prepare_commit, raising `alerts' alerts.                                *)
PrepareCommit(batch, alerts) ==
  LET s    == batch.next
      step == s.open_step
  IN IF step = None THEN batch
     ELSE [next   |-> [s EXCEPT !.open_step = None,
                                !.commits = @ + 1,
                                !.next_step = IF @ > step + 1 THEN @ ELSE step + 1,
                                !.last_committed_step = step],
           events |-> Append(batch.events, Record("observation", s, step)),
           alerts |-> batch.alerts + alerts]

(* prepare_event.                                                          *)
PrepareEvent(batch, alerts) ==
  LET s == batch.next
  IN [next   |-> [s EXCEPT !.commits = @ + 1],
      events |-> Append(batch.events, Record("event", s, event_step(s))),
      alerts |-> batch.alerts + alerts]

Fresh == [next |-> state, events |-> <<>>, alerts |-> 0]

(* log and record_span: a step is selected and opened, and the log call    *)
(* may commit it.                                                          *)
Logged ==
  {batch \in
     {LET selected == IF Supersedes(state, target) THEN PrepareCommit(Fresh, n) ELSE Fresh
          opened   == [selected EXCEPT !.next.open_step = target]
      IN IF commit THEN PrepareCommit(opened, m) ELSE opened :
        n \in 0 .. MaxAlerts, m \in 0 .. MaxAlerts, commit \in BOOLEAN,
        target \in {x \in {resolve_step(state, step) : step \in {None} \cup 0 .. MaxStep - 1} :
                      ~Rejected(state, x) /\ ~(Supersedes(state, x) /\ Exhausted(state))}} :
     ~(batch.next.next_step > MaxStep)}

Flushed == IF Exhausted(state) THEN {} ELSE {PrepareCommit(Fresh, n) : n \in 0 .. MaxAlerts}

(* artifact, without an alert, and manual_alert.                           *)
Noted == {PrepareEvent(Fresh, n) : n \in 0 .. 1}

(* tick_alerts: an event if a time rule fires, else nothing.               *)
Ticked == {Fresh} \cup {PrepareEvent(Fresh, n) : n \in 1 .. MaxAlerts}

(* finish_status: the open step and then a record of the terminal status.  *)
Finished ==
  {LET batch == PrepareEvent(PrepareCommit(Fresh, n), 0)
   IN [batch EXCEPT !.next.finished = TRUE, !.events[Len(batch.events)].final = TRUE] :
     n \in IF Exhausted(state) THEN {} ELSE 0 .. MaxAlerts}

-------------------------------------------------------------------------------
(* transact.                                                               *)

(* A call other than finish: Prepare or Refuse decide which.               *)
Call(t) ==
  /\ t \in Thread
  /\ handles
  /\ pc[t] = "idle"
  /\ Goto(t, "lock")
  /\ UNCHANGED <<tracker, threads, queue, counters, stop, worker, reply, closing, refused>>

CallFinish(t) ==
  /\ t \in Thread
  /\ handles
  /\ pc[t] = "idle"
  /\ Goto(t, "check")
  /\ UNCHANGED <<tracker, threads, queue, counters, stop, worker, reply, closing, refused>>

(* finish_status looks whether there is anything to do, and lets go of the *)
(* mutex again.                                                            *)
CheckFinished(t) ==
  /\ pc[t] = "check"
  /\ lock = Nobody
  /\ Goto(t, IF state.finished THEN "idle" ELSE "lock_finish")
  /\ UNCHANGED <<tracker, threads, queue, counters, stop, worker, reply, closing, refused>>

(* Mutant: a tracker that has been finished meanwhile is not noticed.      *)
ActiveAlways == TRUE

(* ensure_active.                                                          *)
Active == ~state.finished

(* The mutex is taken and the batch prepared on a copy of the state.       *)
Prepare(t) ==
  /\ pc[t] \in {"lock", "lock_finish"}
  /\ lock = Nobody
  /\ Active
  /\ \E batch \in IF pc[t] = "lock_finish" THEN Finished
                  ELSE IF t = Watchdog THEN Ticked ELSE Logged \cup Flushed \cup Noted :
       prepared' = batch
  /\ lock' = t
  /\ Goto(t, "capture")
  /\ UNCHANGED <<state, log, threads, queue, counters, stop, worker, reply, closing, refused>>

(* The call is refused: finished already, its step rejected, a budget      *)
(* exceeded, the step cursor exhausted.                                    *)
Refuse(t) ==
  /\ pc[t] \in {"lock", "lock_finish"}
  /\ lock = Nobody
  /\ IF t = Watchdog /\ state.finished THEN Goto(t, "gone") ELSE Return(t)
  /\ UNCHANGED <<tracker, threads, queue, counters, stop, worker, reply, closing, refused>>

(* The producer takes the records, and the new state is published (and the *)
(* producer sealed with it): nobody looks at either without the mutex.     *)
Capture(t) ==
  /\ pc[t] = "capture"
  /\ Len(log) + Len(prepared.events) <= MaxRecords
  /\ log' = log \o prepared.events
  /\ state' = prepared.next
  /\ Goto(t, "send")
  /\ UNCHANGED <<lock, prepared, threads, queue, counters, stop, worker, reply, closing, refused>>

(* Mutant: the state has been replaced before the capture fails.           *)
CaptureFailsLate(t) ==
  /\ pc[t] = "capture"
  /\ prepared.events # <<>>
  /\ lock' = Nobody
  /\ prepared' = NoBatch
  /\ state' = prepared.next
  /\ Return(t)
  /\ UNCHANGED <<log, threads, queue, counters, stop, worker, reply, closing, refused>>

(* capture_batch refuses the batch: it is forgotten.                       *)
CaptureFails(t) ==
  /\ pc[t] = "capture"
  /\ prepared.events # <<>>
  /\ lock' = Nobody
  /\ prepared' = NoBatch
  /\ \/ Return(t)
     \/ t = Watchdog /\ handles /\ Goto(t, "gone")   \* the producer is sealed
  /\ UNCHANGED <<state, log, threads, queue, counters, stop, worker, reply, closing, refused>>

(* All alerts are sent: the mutex is free.  finish goes on without it.     *)
Unlock(t) ==
  /\ pc[t] = "send"
  /\ prepared.alerts = 0
  /\ lock' = Nobody
  /\ prepared' = NoBatch
  /\ IF prepared.next.finished THEN Goto(t, "stop_watchdog") ELSE Return(t)
  /\ UNCHANGED <<state, log, threads, queue, counters, stop, worker, reply, closing, refused>>

-------------------------------------------------------------------------------
(* AlertQueue::send, for one alert of the batch.  The mutex lets one       *)
(* thread send at a time, and the worker only frees what send needs, so    *)
(* that the reservation and try_send are one step.                         *)

(* Mutant: the alert is counted once it is in the queue.                   *)
CountLate(t) ==
  /\ pc[t] = "send"
  /\ prepared.alerts > 0
  /\ Goto(t, "enqueue")
  /\ UNCHANGED <<tracker, threads, queue, counters, stop, worker, reply, closing, refused>>

Count(t) ==
  /\ pc[t] = "send"
  /\ prepared.alerts > 0
  /\ accepted' = accepted + 1
  /\ Goto(t, "enqueue")
  /\ UNCHANGED <<tracker, threads, queue, completed, dropped, bytes, stop, worker, reply, closing,
                 refused>>

(* The receiver is dropped with the worker's closure.                      *)
Connected == worker \notin {"gone", "panicked"}

HasRoom == Connected /\ Len(queue) < QueueCapacity

Enqueue(t) ==
  /\ pc[t] = "enqueue"
  /\ bytes < MaxQueueBytes
  /\ ~stop
  /\ HasRoom
  /\ queue' = Append(queue, "event")
  /\ bytes' = bytes + 1
  /\ prepared' = [prepared EXCEPT !.alerts = @ - 1]
  /\ Goto(t, "send")
  /\ UNCHANGED <<state, lock, log, threads, accepted, completed, dropped, stop, worker, reply,
                 closing, refused>>

(* No budget, no room or no receiver; the reservation is undone.  An alert *)
(* that cannot be encoded ends here too, and is not told apart.            *)
Discard(t) ==
  /\ pc[t] = "enqueue"
  /\ bytes >= MaxQueueBytes \/ stop \/ ~HasRoom
  /\ dropped' = dropped + 1
  /\ refused' = refused + 1
  /\ prepared' = [prepared EXCEPT !.alerts = @ - 1]
  /\ Goto(t, "send")
  /\ UNCHANGED <<state, lock, log, threads, queue, accepted, completed, bytes, stop, worker, reply,
                 closing>>

-------------------------------------------------------------------------------
(* The watchdog.                                                           *)

(* add_alert_rule with the first time rule.  It holds both mutexes; whoever*)
(* else takes the watchdog's holds nothing while it waits for it.          *)
AddTimeRule(t) ==
  /\ t \in Thread
  /\ handles
  /\ pc[t] = "idle"
  /\ lock = Nobody
  /\ Active
  /\ ~watchdog
  /\ watchdog' = TRUE
  /\ pc' = [pc EXCEPT ![Watchdog] = "wait"]
  /\ UNCHANGED <<tracker, handles, told, queue, counters, stop, worker, reply, closing, refused>>

(* The interval passes: a tick, unless the tracker is already being        *)
(* dropped and the weak reference cannot be upgraded.                      *)
Interval(t) ==
  /\ t = Watchdog
  /\ pc[t] = "wait"
  /\ ~told
  /\ Goto(t, IF handles THEN "lock" ELSE "gone")
  /\ UNCHANGED <<tracker, threads, queue, counters, stop, worker, reply, closing, refused>>

Told(t) ==
  /\ t = Watchdog
  /\ pc[t] = "wait"
  /\ told
  /\ Goto(t, "gone")
  /\ UNCHANGED <<tracker, threads, queue, counters, stop, worker, reply, closing, refused>>

(* stop_watchdog, from finish or from drop.                                *)
TakeWatchdog(t) ==
  /\ pc[t] \in {"stop_watchdog", "drop"}
  /\ watchdog' = FALSE
  /\ told' = (told \/ watchdog)
  /\ Goto(t, IF pc[t] = "drop" THEN (IF watchdog THEN "drop_join" ELSE "drop_queue")
             ELSE (IF watchdog THEN "join" ELSE "submit"))
  /\ UNCHANGED <<tracker, handles, queue, counters, stop, worker, reply, closing, refused>>

JoinWatchdog(t) ==
  /\ pc[t] \in {"join", "drop_join"}
  /\ pc[Watchdog] = "gone"
  /\ Goto(t, IF pc[t] = "join" THEN "submit" ELSE "drop_queue")
  /\ UNCHANGED <<tracker, threads, queue, counters, stop, worker, reply, closing, refused>>

(* The program lets go of the tracker.  A tick in progress owns it too:    *)
(* then it is dropped by the watchdog.                                     *)
DropHandle(t) ==
  /\ t \in Thread
  /\ handles
  /\ \A u \in Thread : pc[u] = "idle"
  /\ handles' = FALSE
  /\ Goto(t, IF pc[Watchdog] \in {"none", "wait", "gone"} THEN "drop" ELSE "idle")
  /\ UNCHANGED <<tracker, watchdog, told, queue, counters, stop, worker, reply, closing, refused>>

(* Mutant: the watchdog waits for itself.                                  *)
DropSelfJoins(t) ==
  /\ pc[t] = "drop_self"
  /\ watchdog' = FALSE
  /\ told' = (told \/ watchdog)
  /\ Goto(t, IF watchdog THEN "drop_join" ELSE "drop_queue")
  /\ UNCHANGED <<tracker, handles, queue, counters, stop, worker, reply, closing, refused>>

(* Drop on the watchdog's own thread, which it does not join.              *)
DropSelf(t) ==
  /\ pc[t] = "drop_self"
  /\ watchdog' = FALSE
  /\ told' = (told \/ watchdog)
  /\ Goto(t, "drop_queue")
  /\ UNCHANGED <<tracker, handles, queue, counters, stop, worker, reply, closing, refused>>

(* Drop of the AlertQueue: the worker is told, and not waited for.         *)
DropQueue(t) ==
  /\ pc[t] = "drop_queue"
  /\ stop' = TRUE
  /\ Goto(t, IF t = Watchdog THEN "wait" ELSE "idle")
  /\ UNCHANGED <<tracker, threads, queue, counters, worker, reply, closing, refused>>

-------------------------------------------------------------------------------
(* AlertQueue::close, on the thread that finished the tracker.             *)

Closers == {t \in Thread : pc[t] \in {"submit", "await", "set_stop", "reap"}}

DeadlinePasses ==
  /\ Closers # {}
  /\ ~late
  /\ late' = TRUE
  /\ UNCHANGED <<tracker, pc, threads, queue, counters, stop, worker, reply, flushed, outcome,
                 refused>>

Submit(t) ==
  /\ pc[t] = "submit"
  /\ HasRoom
  /\ queue' = Append(queue, "flush")
  /\ Goto(t, "await")
  /\ UNCHANGED <<tracker, threads, counters, stop, worker, reply, closing, refused>>

(* Mutant: a full queue is tried until there is room.                      *)
SubmitForever(t) ==
  /\ pc[t] = "submit"
  /\ ~Connected
  /\ Goto(t, "set_stop")
  /\ UNCHANGED <<tracker, threads, queue, counters, stop, worker, reply, closing, refused>>

SubmitFails(t) ==
  /\ pc[t] = "submit"
  /\ ~Connected \/ (~HasRoom /\ late)
  /\ Goto(t, "set_stop")
  /\ UNCHANGED <<tracker, threads, queue, counters, stop, worker, reply, closing, refused>>

(* Mutant: no answer in time is taken for a complete flush.                *)
AwaitAssumes(t) ==
  /\ pc[t] = "await"
  /\ reply # "none" \/ late
  /\ flushed' = (reply \in {"none", "complete"})
  /\ Goto(t, "set_stop")
  /\ UNCHANGED <<tracker, threads, queue, counters, stop, worker, reply, late, outcome, refused>>

Await(t) ==
  /\ pc[t] = "await"
  /\ reply # "none" \/ late
  /\ flushed' = (reply = "complete")
  /\ Goto(t, "set_stop")
  /\ UNCHANGED <<tracker, threads, queue, counters, stop, worker, reply, late, outcome, refused>>

SetStop(t) ==
  /\ pc[t] = "set_stop"
  /\ stop' = TRUE
  /\ Goto(t, "reap")
  /\ UNCHANGED <<tracker, threads, queue, counters, worker, reply, closing, refused>>

(* The worker is joined when it has ended by the deadline, else abandoned. *)
Reap(t) ==
  /\ pc[t] = "reap"
  /\ ~Connected \/ late
  /\ outcome' = IF flushed /\ worker = "gone" THEN "delivered" ELSE "incomplete"
  /\ Goto(t, "idle")
  /\ UNCHANGED <<tracker, threads, queue, counters, stop, worker, reply, late, flushed, refused>>

-------------------------------------------------------------------------------
(* The worker.                                                             *)

LookAtStop ==
  /\ worker = "loop"
  /\ worker' = IF stop THEN "drain" ELSE "recv"
  /\ UNCHANGED <<tracker, pc, threads, queue, counters, stop, reply, closing, refused>>

Receive ==
  /\ worker = "recv"
  /\ queue # <<>>
  /\ queue' = Tail(queue)
  /\ worker' = IF Head(queue) = "event" THEN "sink_send" ELSE "sink_flush"
  /\ UNCHANGED <<tracker, pc, threads, counters, stop, reply, closing, refused>>

(* Nothing for 10 ms.  A disconnected channel is found here too, but stop  *)
(* is set before its sender is dropped, so that the loop ends alike.       *)
ReceiveNothing ==
  /\ worker = "recv"
  /\ queue = <<>>
  /\ worker' = "loop"
  /\ UNCHANGED <<tracker, pc, threads, queue, counters, stop, reply, closing, refused>>

SinkSends ==
  /\ worker = "sink_send"
  /\ worker' = "count"
  /\ UNCHANGED <<tracker, pc, threads, queue, counters, stop, reply, closing, refused>>

Complete ==
  /\ worker = "count"
  /\ completed' = completed + 1
  /\ worker' = "release"
  /\ UNCHANGED <<tracker, pc, threads, queue, accepted, dropped, bytes, stop, reply, closing,
                 refused>>

Release ==
  /\ worker = "release"
  /\ bytes' = bytes - 1
  /\ worker' = "loop"
  /\ UNCHANGED <<tracker, pc, threads, queue, accepted, completed, dropped, stop, reply, closing,
                 refused>>

SinkFlushes ==
  /\ worker = "sink_flush"
  /\ reply' \in {"complete", "incomplete"}
  /\ worker' = "loop"
  /\ UNCHANGED <<tracker, pc, threads, queue, counters, stop, closing, refused>>

(* What is queued when stop is seen is dropped, the flush with its reply.  *)
Drain ==
  /\ worker = "drain"
  /\ queue # <<>>
  /\ queue' = Tail(queue)
  /\ IF Head(queue) = "event"
     THEN dropped' = dropped + 1 /\ bytes' = bytes - 1 /\ reply' = reply
     ELSE reply' = "lost" /\ UNCHANGED <<dropped, bytes>>
  /\ UNCHANGED <<tracker, pc, threads, accepted, completed, stop, worker, closing, refused>>

Drained ==
  /\ worker = "drain"
  /\ queue = <<>>
  /\ worker' = "sink_close"
  /\ UNCHANGED <<tracker, pc, threads, queue, counters, stop, reply, closing, refused>>

SinkCloses ==
  /\ worker = "sink_close"
  /\ worker' = "gone"
  /\ UNCHANGED <<tracker, pc, threads, queue, counters, stop, reply, closing, refused>>

(* A call of the sink panics: the thread ends, and the channel and the     *)
(* reply of a flush in it go with it.                                      *)
SinkPanics ==
  /\ worker \in {"sink_send", "sink_flush", "sink_close"}
  /\ worker' = "panicked"
  /\ queue' = <<>>
  /\ reply' = IF reply = "none" THEN "lost" ELSE reply
  /\ UNCHANGED <<tracker, pc, threads, counters, stop, closing, refused>>

-------------------------------------------------------------------------------

(* The program is done with the tracker, and no thread of it is left.      *)
Finale ==
  /\ ~handles
  /\ \A t \in Thread : pc[t] = "idle"
  /\ pc[Watchdog] \in {"none", "gone"}
  /\ ~Connected
  /\ UNCHANGED vars

Acquire(t) == CheckFinished(t) \/ Prepare(t) \/ Refuse(t)

Step(t) ==
  \/ Capture(t) \/ CaptureFails(t) \/ Count(t) \/ Enqueue(t) \/ Discard(t) \/ Unlock(t)
  \/ Told(t) \/ TakeWatchdog(t) \/ JoinWatchdog(t) \/ DropSelf(t) \/ DropQueue(t)
  \/ Submit(t) \/ SubmitFails(t) \/ Await(t) \/ SetStop(t) \/ Reap(t)

(* What the program, or the clock, does or not.                            *)
Choose(t) == Call(t) \/ CallFinish(t) \/ AddTimeRule(t) \/ DropHandle(t) \/ Interval(t)

WorkerStep ==
  LookAtStop \/ Receive \/ ReceiveNothing \/ Complete \/ Release \/ Drain \/ Drained

SinkStep == SinkSends \/ SinkFlushes \/ SinkCloses \/ SinkPanics

Next ==
  \/ \E t \in Thread \cup {Watchdog} : Acquire(t) \/ Step(t) \/ Choose(t)
  \/ WorkerStep \/ SinkStep \/ DeadlinePasses \/ Finale

(* Threads run and the clock advances; a mutex that is free again and      *)
(* again is obtained (parking_lot hands it over fairly from time to time). *)
(* Nothing is assumed of the sink: its calls may never return.             *)
Fairness ==
  /\ \A t \in Thread \cup {Watchdog} : WF_vars(Step(t)) /\ SF_vars(Acquire(t))
  /\ WF_vars(WorkerStep)
  /\ WF_vars(DeadlinePasses)

Spec == Init /\ [][Next]_vars /\ Fairness

-------------------------------------------------------------------------------
(* Properties.                                                             *)

Places == {"none", "idle", "check", "lock", "lock_finish", "capture", "send", "enqueue",
           "stop_watchdog", "join", "submit", "await", "set_stop", "reap", "wait", "gone",
           "drop", "drop_join", "drop_self", "drop_queue"}

Records ==
  [kind : {"observation", "event"}, step : 0 .. MaxStep, commit : Nat \ {0}, final : BOOLEAN]

States ==
  [next_step : 0 .. MaxStep, open_step : 0 .. MaxStep \cup {None},
   last_committed_step : 0 .. MaxStep - 1 \cup {None}, commits : Nat, finished : BOOLEAN]

(* An absent batch is not a batch.                                         *)
Batches == [next : States, events : Seq(Records), alerts : Nat]

ASSUME NoBatchAssumption == NoBatch \notin Batches

(* Types of the tracker: no counter of the queue below zero, no step       *)
(* cursor past i64::MAX, a prepared batch exactly while the mutex is held. *)
TypeOK ==
  /\ state \in States
  /\ lock \in Thread \cup {Watchdog, Nobody}
  /\ (prepared = NoBatch) = (lock = Nobody)
  /\ lock # Nobody => prepared \in Batches
  /\ log \in Seq(Records)
  /\ pc \in [Thread \cup {Watchdog} -> Places]
  /\ {handles, watchdog, told, stop, late, flushed} \subseteq BOOLEAN
  /\ queue \in Seq({"event", "flush"}) /\ Len(queue) <= QueueCapacity
  /\ {accepted, completed, dropped, refused} \subseteq Nat
  /\ bytes \in 0 .. MaxQueueBytes
  /\ worker \in {"loop", "recv", "sink_send", "count", "release", "sink_flush", "drain",
                 "sink_close", "gone", "panicked"}
  /\ reply \in {"none", "complete", "incomplete", "lost"}
  /\ outcome \in {"none", "delivered", "incomplete"}

(* A capture that fails, or two calls that race, leave no hole and no      *)
(* repetition in the commit numbers: between calls the state has counted   *)
(* exactly the records that the producer took, the terminal one is the     *)
(* last, and it is there exactly when the tracker is finished.             *)
RecordsAreNumbered ==
  /\ \A i \in DOMAIN log : log[i].commit = i /\ (log[i].final => i = Len(log))
  /\ lock = Nobody => /\ state.commits = Len(log)
                      /\ state.finished = (\E i \in DOMAIN log : log[i].final)

(* Under the monotonic policy no record is about an earlier step than a    *)
(* record before it, whichever threads logged, alerted or flushed.         *)
StepsNeverGoBack ==
  Monotonic => \A i, j \in DOMAIN log : i < j => log[i].step <= log[j].step

(* The record log as the tracker's readers may take it: numbered without a *)
(* hole, ended by its terminal record, and in the order of its steps.      *)
RecordsAreInOrder == TypeOK /\ RecordsAreNumbered /\ StepsNeverGoBack

Queued == Cardinality({i \in DOMAIN queue : queue[i] = "event"})

OneIf(condition) == IF condition THEN 1 ELSE 0

(* Every alert handed to the queue is completed, dropped or still on its   *)
(* way, pending never underflows, what is reserved of the byte budget is   *)
(* what the queue and the worker hold, and a worker that has drained       *)
(* leaves nothing behind.                                                  *)
AlertsAreCounted ==
  /\ completed + dropped <= accepted
  /\ worker # "panicked" =>
       /\ accepted = completed + dropped + Queued + OneIf(worker \in {"sink_send", "count"})
                     + OneIf(\E t \in DOMAIN pc : pc[t] = "enqueue")
       /\ bytes = Queued + OneIf(worker \in {"sink_send", "count", "release"})
  /\ worker \in {"sink_close", "gone"} => queue = <<>>

(* When finish reports complete delivery, the sink got every alert but     *)
(* those refused at the queue's entrance: the stop that ends the worker    *)
(* dropped none.  Whatever it reports, no watchdog runs then or can be     *)
(* started, and the worker has been told to end.                           *)
FinishIsTruthful ==
  /\ outcome = "delivered" => queue = <<>> /\ completed + refused = accepted /\ dropped = refused
  /\ outcome # "none" => ~watchdog /\ pc[Watchdog] \in {"none", "gone"} /\ stop

(* Every call returns, finish too, even when the sink never does: the      *)
(* deadline is enforced on every wait, and no two threads wait for each    *)
(* other.                                                                  *)
CallsReturn == \A t \in Thread : (pc[t] # "idle") ~> (pc[t] = "idle")

(* The worker, once told, ends or is held by the sink; the watchdog ends   *)
(* with the tracker, on whichever thread that is dropped.                  *)
ThreadsEnd ==
  /\ stop ~> [](worker \in {"sink_send", "sink_flush", "sink_close", "gone", "panicked"})
  /\ (~handles) ~> (pc[Watchdog] \in {"none", "gone"})

===============================================================================

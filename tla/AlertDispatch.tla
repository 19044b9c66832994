----------------------------- MODULE AlertDispatch ----------------------------
(***************************************************************************)
(* The HTTP Dispatcher behind the tracker's alert queue: callers of send,  *)
(* flush and close, and one worker per channel that suppresses duplicates, *)
(* limits the rate, posts and retries.                                     *)
(*                                                                         *)
(* The workers share one thread and yield only where they await; callers   *)
(* run beside them, so the two locks (stats and the channel's bytes), the  *)
(* queue and the cancel flag are where steps meet.  Dropping a Pending     *)
(* takes the two locks one after the other and is two steps.  An attempt   *)
(* ends in success, in failure or in what may pass, a lost answer too.     *)
(* A token is Minute units, so that a unit of time refills RateLimit.      *)
(***************************************************************************)
EXTENDS Integers, Sequences, FiniteSets, SequencesExt

CONSTANTS
  Client,          \* threads that hold the dispatcher
  Channels,        \* enabled channels: [name, min, levels, tags]
  Events,          \* alert events: [key, level, channels, tags, size]; key is level, rule and message
  Minute,
  RateLimit,       \* rate_limit_per_minute, 0 for none
  DedupWindow,     \* dedup_window_seconds
  MaxRetries,      \* max_retries
  QueueSize,       \* queue_capacity
  PendingBytes,    \* max_pending_bytes
  Backoffs,        \* the delays before a retry
  MaxEvents, LastInstant,   \* bounds: events sent, and time
  Idle

ASSUME DispatchAssumption ==
  /\ {Minute, QueueSize, PendingBytes} \subseteq Nat \ {0}
  /\ {RateLimit, DedupWindow, MaxRetries, MaxEvents, LastInstant} \subseteq Nat
  /\ \A e \in Events : e.size \in Nat \ {0}
  /\ Idle \notin [event : Events, number : Nat]
  /\ Backoffs \subseteq Nat

VARIABLES
  stats,    \* DeliveryStats
  closed, cancel,
  bytes,    \* of each channel
  inbox,    \* the queue of each channel: a sequence of Pendings
  sealed,   \* its receiver was closed
  worker,
  caller,
  thread,   \* Shared.thread still holds the join handle
  clock,
  sends,
  fates,    \* history: what became of each Pending of a channel, by its number
  started,  \* history: when each channel began its deliveries
  flushed   \* history: how much had been accepted when a flush last reported success

dispatchVars ==
  <<stats, closed, cancel, bytes, inbox, sealed, worker, caller, thread, clock, sends, fates, started, flushed>>

NoWork == [at |-> "recv", held |-> Idle, attempt |-> 0, until |-> 0,
           tokens |-> RateLimit * Minute, refill |-> 0, dedup |-> {}]

DispatchInit ==
  /\ stats = [accepted |-> 0, pending |-> 0, completed |-> 0, dropped |-> 0, failed |-> 0, suppressed |-> 0]
  /\ closed = FALSE /\ cancel = FALSE
  /\ bytes = [c \in Channels |-> 0]
  /\ inbox = [c \in Channels |-> <<>>] /\ sealed = [c \in Channels |-> FALSE]
  /\ worker = [c \in Channels |-> NoWork]
  /\ caller = [t \in Client |-> [at |-> "idle"]]
  /\ thread = TRUE
  /\ clock = 0 /\ sends = 0
  /\ fates = [c \in Channels |-> <<>>] /\ started = [c \in Channels |-> <<>>]
  /\ flushed = 0

Rank(level) ==
  CASE level = "info" -> 0 [] level = "warning" -> 1 [] level = "error" -> 2 [] level = "critical" -> 3

Accepts(c, e) ==
  /\ e.channels = {} \/ c.name \in e.channels
  /\ IF c.levels = {} THEN Rank(e.level) >= Rank(c.min) ELSE e.level \in c.levels
  /\ c.tags = {} \/ e.tags \cap c.tags # {}

(* Shared::finish for a Pending that ended.                                *)
Finish(s, dropped, failed, suppressed) ==
  [s EXCEPT !.pending = @ - 1,
            !.dropped = IF dropped THEN @ + 1 ELSE @,
            !.completed = IF dropped THEN @ ELSE @ + 1,
            !.failed = IF failed THEN @ + 1 ELSE @,
            !.suppressed = IF suppressed THEN @ + 1 ELSE @]

Fate(c, p, fate) == fates' = [fates EXCEPT ![c][p.number].fate = fate, ![c][p.number].at = clock]

-------------------------------------------------------------------------------
(* Callers.                                                                *)

Place(t, record) == caller' = [caller EXCEPT ![t] = record]

Begin(t, e) ==
  /\ caller[t].at = "idle" /\ sends < MaxEvents
  /\ sends' = sends + 1
  /\ Place(t, [at |-> "send", event |-> e, left |-> {c \in Channels : Accepts(c, e)}])
  /\ UNCHANGED <<stats, closed, cancel, bytes, inbox, sealed, worker, thread, clock, fates, started, flushed>>

(* Mutant: it is not counted as dropped.                                   *)
TurnedAwayUncounted == [stats EXCEPT !.accepted = @ + 1]

(* The counters after an alert that a channel does not take in.            *)
TurnedAway == [stats EXCEPT !.accepted = @ + 1, !.dropped = @ + 1]

(* Under both locks: counted, and refused or reserved, for one channel     *)
(* after the other (in any order: they share only the counters).           *)
Reserve(t, c) ==
  /\ caller[t].at = "send" /\ c \in caller[t].left
  /\ LET e == caller[t].event
         p == [event |-> e, number |-> Len(fates[c]) + 1]
         left == caller[t].left \ {c}
         refused == closed \/ e.size > PendingBytes - bytes[c]
     IN /\ fates' = [fates EXCEPT ![c] = Append(@, [key |-> e.key, at |-> clock,
                                                    fate |-> IF refused THEN "dropped" ELSE "pending"])]
        /\ IF refused
           THEN /\ stats' = TurnedAway
                /\ Place(t, [at |-> "send", event |-> e, left |-> left])
                /\ UNCHANGED bytes
           ELSE /\ stats' = [stats EXCEPT !.accepted = @ + 1, !.pending = @ + 1]
                /\ bytes' = [bytes EXCEPT ![c] = @ + e.size]
                /\ Place(t, [at |-> "try", event |-> e, left |-> left, channel |-> c, held |-> p])
  /\ UNCHANGED <<closed, cancel, inbox, sealed, worker, thread, clock, sends, started, flushed>>

TrySend(t) ==
  /\ caller[t].at = "try"
  /\ LET c == caller[t].channel
         fits == Len(inbox[c]) < QueueSize /\ ~sealed[c]
     IN /\ inbox' = IF fits THEN [inbox EXCEPT ![c] = Append(@, caller[t].held)] ELSE inbox
        /\ Place(t, [caller[t] EXCEPT !.at = IF fits THEN "send" ELSE "refused"])
  /\ UNCHANGED <<stats, closed, cancel, bytes, sealed, worker, thread, clock, sends, fates, started, flushed>>

(* The Pending that try_send gave back is dropped.                         *)
RefusedBytes(t) ==
  /\ caller[t].at = "refused"
  /\ bytes' = [bytes EXCEPT ![caller[t].channel] = @ - caller[t].event.size]
  /\ Place(t, [caller[t] EXCEPT !.at = "uncounted"])
  /\ UNCHANGED <<stats, closed, cancel, inbox, sealed, worker, thread, clock, sends, fates, started, flushed>>

RefusedCount(t) ==
  /\ caller[t].at = "uncounted"
  /\ stats' = Finish(stats, TRUE, FALSE, FALSE)
  /\ Fate(caller[t].channel, caller[t].held, "dropped")
  /\ Place(t, [caller[t] EXCEPT !.at = "send"])
  /\ UNCHANGED <<closed, cancel, bytes, inbox, sealed, worker, thread, clock, sends, started, flushed>>

SendReturns(t) ==
  /\ caller[t].at = "send" /\ caller[t].left = {}
  /\ Place(t, [at |-> "idle"])
  /\ UNCHANGED <<stats, closed, cancel, bytes, inbox, sealed, worker, thread, clock, sends, fates, started, flushed>>

(* A flush that reports success; one that runs into its deadline, or finds *)
(* that something has failed or been dropped, changes nothing.             *)
Flush(t) ==
  /\ caller[t].at = "idle"
  /\ stats.pending = 0 /\ stats.failed = 0 /\ stats.dropped = 0
  /\ flushed' = stats.accepted
  /\ UNCHANGED <<stats, closed, cancel, bytes, inbox, sealed, worker, caller, thread, clock, sends, fates, started>>

CloseStores(t) ==
  /\ caller[t].at = "idle"
  /\ closed' = TRUE
  /\ Place(t, [at |-> "close"])
  /\ UNCHANGED <<stats, cancel, bytes, inbox, sealed, worker, thread, clock, sends, fates, started, flushed>>

(* The first close takes the handle and waits; another returns at once.    *)
CloseCancels(t) ==
  /\ caller[t].at = "close"
  /\ cancel' = TRUE
  /\ thread' = FALSE
  /\ Place(t, [at |-> IF thread THEN "join" ELSE "idle"])
  /\ UNCHANGED <<stats, closed, bytes, inbox, sealed, worker, clock, sends, fates, started, flushed>>

(* The thread has ended, or the shutdown timeout has passed.               *)
CloseReturns(t) ==
  /\ caller[t].at = "join"
  /\ Place(t, [at |-> "idle"])
  /\ UNCHANGED <<stats, closed, cancel, bytes, inbox, sealed, worker, thread, clock, sends, fates, started, flushed>>

-------------------------------------------------------------------------------
(* Workers.                                                                *)

Becomes(c, work) == worker' = [worker EXCEPT ![c] = work]

Advance(c, at) == Becomes(c, [worker[c] EXCEPT !.at = at])

(* The tokens after the refill at `clock`.                                 *)
Refilled(c) ==
  LET full == RateLimit * Minute
      more == worker[c].tokens + (clock - worker[c].refill) * RateLimit
  IN IF more < full THEN more ELSE full

Begins(c) == started' = [started EXCEPT ![c] = Append(@, clock)]

(* A duplicate of what was delivered within the window is suppressed; a    *)
(* delivery takes a token, or waits for what is missing of one.            *)
Recv(c) ==
  /\ worker[c].at = "recv" /\ ~cancel /\ inbox[c] # <<>>
  /\ inbox' = [inbox EXCEPT ![c] = Tail(@)]
  /\ LET p == Head(inbox[c])
         recent == {d \in worker[c].dedup : clock - d.at < DedupWindow}
         taken == [worker[c] EXCEPT !.held = p, !.dedup = recent, !.attempt = 0]
         tokens == Refilled(c)
         paced == [taken EXCEPT !.refill = clock, !.tokens = IF tokens < Minute THEN tokens ELSE tokens - Minute]
     IN \/ /\ \E d \in recent : d.key = p.event.key
           /\ stats' = Finish(stats, FALSE, FALSE, TRUE)
           /\ Fate(c, p, "suppressed")
           /\ Becomes(c, [taken EXCEPT !.at = "release"])
           /\ UNCHANGED started
        \/ /\ \A d \in recent : d.key # p.event.key
           /\ UNCHANGED <<stats, fates>>
           /\ IF RateLimit = 0
              THEN Becomes(c, [taken EXCEPT !.at = "post"]) /\ Begins(c)
              ELSE IF tokens < Minute
              THEN /\ Becomes(c, [paced EXCEPT !.at = "wait",
                                 !.until = clock + (Minute - tokens + RateLimit - 1) \div RateLimit])
                   /\ UNCHANGED started
              ELSE Becomes(c, [paced EXCEPT !.at = "post"]) /\ Begins(c)
  /\ UNCHANGED <<closed, cancel, bytes, sealed, caller, thread, clock, sends, flushed>>

Wake(c) ==
  /\ worker[c].at = "wait" /\ ~cancel /\ clock >= worker[c].until
  /\ Becomes(c, [worker[c] EXCEPT !.at = "post", !.tokens = 0, !.refill = clock])
  /\ Begins(c)
  /\ UNCHANGED <<stats, closed, cancel, bytes, inbox, sealed, caller, thread, clock, sends, fates, flushed>>

(* An attempt whose answer is awaited fails in a way that may pass.        *)
Retry(c, delay) ==
  /\ worker[c].at = "post" /\ ~cancel /\ worker[c].attempt < MaxRetries
  /\ Becomes(c, [worker[c] EXCEPT !.at = "backoff", !.attempt = @ + 1, !.until = clock + delay])
  /\ UNCHANGED <<stats, closed, cancel, bytes, inbox, sealed, caller, thread, clock, sends, fates, started, flushed>>

PostAgain(c) ==
  /\ worker[c].at = "backoff" /\ ~cancel /\ clock >= worker[c].until
  /\ Advance(c, "post")
  /\ UNCHANGED <<stats, closed, cancel, bytes, inbox, sealed, caller, thread, clock, sends, fates, started, flushed>>

(* The keys that count as delivered once an attempt has ended.             *)
Remembered(c, p, sent) ==
  LET dedup == worker[c].dedup
  IN IF ~sent \/ DedupWindow = 0 THEN dedup
     ELSE (IF Cardinality(dedup) >= QueueSize THEN {} ELSE dedup) \cup {[key |-> p.event.key, at |-> clock]}

(* The endpoint's last word, good or bad.                                  *)
Delivered(c, sent) ==
  /\ worker[c].at = "post" /\ ~cancel
  /\ LET p == worker[c].held
     IN /\ stats' = Finish(stats, FALSE, ~sent, FALSE)
        /\ Fate(c, p, IF sent THEN "delivered" ELSE "failed")
        /\ Becomes(c, [worker[c] EXCEPT !.at = "release", !.dedup = Remembered(c, p, sent)])
  /\ UNCHANGED <<closed, cancel, bytes, inbox, sealed, caller, thread, clock, sends, started, flushed>>

(* A finished Pending is dropped and gives its bytes back.                 *)
ReleaseBytes(c) ==
  /\ worker[c].at = "release"
  /\ bytes' = [bytes EXCEPT ![c] = @ - worker[c].held.event.size]
  /\ Becomes(c, [worker[c] EXCEPT !.at = "recv", !.held = Idle])
  /\ UNCHANGED <<stats, closed, cancel, inbox, sealed, caller, thread, clock, sends, fates, started, flushed>>

(* Cancelled at any await, even with an answer on its way: what the worker *)
(* holds is dropped, and then the queue is closed.                         *)
Break(c) ==
  /\ cancel /\ worker[c].at \in {"recv", "wait", "post", "backoff"}
  /\ IF worker[c].held = Idle
     THEN Advance(c, "drain") /\ sealed' = [sealed EXCEPT ![c] = TRUE]
     ELSE Advance(c, "discard") /\ UNCHANGED sealed
  /\ UNCHANGED <<stats, closed, cancel, bytes, inbox, caller, thread, clock, sends, fates, started, flushed>>

DiscardBytes(c) ==
  /\ worker[c].at = "discard"
  /\ bytes' = [bytes EXCEPT ![c] = @ - worker[c].held.event.size]
  /\ Advance(c, "uncounted")
  /\ UNCHANGED <<stats, closed, cancel, inbox, sealed, caller, thread, clock, sends, fates, started, flushed>>

DiscardCount(c) ==
  /\ worker[c].at = "uncounted"
  /\ stats' = Finish(stats, TRUE, FALSE, FALSE)
  /\ Fate(c, worker[c].held, "dropped")
  /\ Becomes(c, [worker[c] EXCEPT !.at = "drain", !.held = Idle])
  /\ sealed' = [sealed EXCEPT ![c] = TRUE]
  /\ UNCHANGED <<closed, cancel, bytes, inbox, caller, thread, clock, sends, started, flushed>>

DrainNext(c) ==
  /\ worker[c].at = "drain"
  /\ IF inbox[c] = <<>>
     THEN Advance(c, "gone") /\ UNCHANGED inbox
     ELSE /\ inbox' = [inbox EXCEPT ![c] = Tail(@)]
          /\ Becomes(c, [worker[c] EXCEPT !.at = "discard", !.held = Head(inbox[c])])
  /\ UNCHANGED <<stats, closed, cancel, bytes, sealed, caller, thread, clock, sends, fates, started, flushed>>

ClockAdvances ==
  /\ clock < LastInstant
  /\ clock' = clock + 1
  /\ UNCHANGED <<stats, closed, cancel, bytes, inbox, sealed, worker, caller, thread, sends, fates, started, flushed>>

-------------------------------------------------------------------------------
Calling(t) ==
  \/ \E e \in Events : Begin(t, e)
  \/ \E c \in Channels : Reserve(t, c)
  \/ TrySend(t) \/ RefusedBytes(t) \/ RefusedCount(t) \/ SendReturns(t)
  \/ Flush(t) \/ CloseStores(t) \/ CloseCancels(t) \/ CloseReturns(t)

Working(c) ==
  \/ Recv(c) \/ Wake(c) \/ PostAgain(c) \/ ReleaseBytes(c)
  \/ \E delay \in Backoffs : Retry(c, delay)
  \/ \E sent \in BOOLEAN : Delivered(c, sent)
  \/ Break(c) \/ DiscardBytes(c) \/ DiscardCount(c) \/ DrainNext(c)

DispatchNext ==
  (\E t \in Client : Calling(t)) \/ (\E c \in Channels : Working(c)) \/ ClockAdvances

DispatchSpec == DispatchInit /\ [][DispatchNext]_dispatchVars

-------------------------------------------------------------------------------
(* The Pendings of a channel that hold bytes, wherever they are.           *)
Reserved(c) ==
  Range(inbox[c])
  \cup {caller[t].held : t \in {u \in Client : caller[u].at \in {"try", "refused"} /\ caller[u].channel = c}}
  \cup (IF worker[c].held # Idle /\ worker[c].at # "uncounted" THEN {worker[c].held} ELSE {})

(* The Pendings of all channels that came to one of these ends.            *)
Ended(ends) == UNION {{c} \X {n \in DOMAIN fates[c] : fates[c][n].fate \in ends} : c \in Channels}

(* Their bytes, one by one.                                                *)
Bytes(ps) == UNION {{p} \X (1 .. p.event.size) : p \in ps}

(* Each alert a channel accepts is settled once: whatever refusals,        *)
(* retries, cancellations and closes come between, the counters add up,    *)
(* the bytes reserved are those of the Pendings that exist, and a worker   *)
(* that is gone leaves none in its queue.                                  *)
PendingsAddUp ==
  /\ stats.pending = Cardinality(Ended({"pending"}))
  /\ stats.accepted = stats.pending + stats.completed + stats.dropped
  /\ \A c \in Channels :
       /\ bytes[c] = Cardinality(Bytes(Reserved(c)))
       /\ bytes[c] <= PendingBytes
       /\ worker[c].at = "gone" => inbox[c] = <<>>

(* An alert is suppressed only for one with the same key that the same     *)
(* channel delivered within the window.                                    *)
SuppressedWereDelivered ==
  \A c \in Channels : \A n \in DOMAIN fates[c] :
    fates[c][n].fate = "suppressed" =>
      \E k \in DOMAIN fates[c] :
        /\ fates[c][k].fate = "delivered" /\ fates[c][k].key = fates[c][n].key
        /\ fates[c][n].at - fates[c][k].at \in 0 .. DedupWindow - 1

(* A channel begins no more deliveries, in any span of time, than a full   *)
(* bucket and what flows in during the span.                               *)
RateHolds ==
  RateLimit > 0 =>
    \A c \in Channels : \A i, j \in DOMAIN started[c] :
      i < j => (j - i + 1 - RateLimit) * Minute <= (started[c][j] - started[c][i]) * RateLimit

(* The dispatcher tells the truth about the alerts it was given: each is   *)
(* settled once and for the reason it reports, and when flush reports      *)
(* success everything accepted until then was delivered or repeated what   *)
(* was (alert-http send, worker, Pending::drop, flush).                    *)
DispatchIsHonest ==
  /\ PendingsAddUp /\ SuppressedWereDelivered /\ RateHolds
  /\ flushed <= Cardinality(Ended({"delivered", "suppressed"}))

===============================================================================

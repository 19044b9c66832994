--------------------------- MODULE SnapshotProducer ---------------------------
(***************************************************************************)
(* SnapshotProducer of rvx-snapshots: the bounded, thread-safe history a   *)
(* traced process keeps of its own full-state snapshots.                   *)
(*                                                                         *)
(* One mutex guards the state.  capture_batch holds it over its whole      *)
(* append loop, and the loop evicts one entry at a time; both are modelled *)
(* step by step, with `todo' the part of the batch still to be appended.   *)
(* While todo is not empty the mutex is held: nothing else runs.           *)
(***************************************************************************)
EXTENDS SnapshotProtocol

CONSTANTS
  Size,          \* accounted bytes of a snapshot with the given state
  MaxSnapshots,  \* BufferLimits.max_snapshots
  MaxBytes,      \* BufferLimits.max_bytes
  MaxBatch,      \* MAX_BATCH_SNAPSHOTS
  NoObservation  \* latest_observation = None

Entry == [sequence : Nat, state : State]

ASSUME ProducerAssumption ==
  /\ Size \in [State -> Nat \ {0}]
  /\ MaxSnapshots \in Nat \ {0}
  /\ MaxBytes \in Nat \ {0}
  /\ MaxBatch \in Nat \ {0}
  /\ NoObservation \notin Entry

VARIABLES
  snapshots,           \* the retained entries, oldest first
  buffered_bytes,
  dropped_snapshots,
  next_sequence,
  sealed,
  latest_observation,  \* kept even when its entry has been evicted
  todo,                \* states of the running capture_batch not yet appended
  captured,            \* history: every entry ever appended, in order, with
                       \*   `start', the bytes accounted to the ones before it
  released,            \* history: entries let go by seal_and_release_history
  published            \* history: oldest_sequence when the mutex was taken

vars == <<snapshots, buffered_bytes, dropped_snapshots, next_sequence, sealed,
          latest_observation, todo, captured, released, published>>

Idle == todo = <<>>

(* Mutant: an empty buffer has lost its place in the sequence.             *)
OldestIsZeroWhenEmpty == IF snapshots = <<>> THEN 0 ELSE Head(snapshots).sequence

oldest_sequence ==
  IF snapshots = <<>> THEN next_sequence ELSE Head(snapshots).sequence

latest_bytes ==
  IF latest_observation = NoObservation THEN 0 ELSE Size[latest_observation.state]

(* The latest observation is accounted separately once its entry is gone.  *)
pinned_bytes ==
  IF /\ latest_observation # NoObservation
     /\ snapshots = <<>> \/ latest_observation.sequence < Head(snapshots).sequence
    THEN Size[latest_observation.state]
    ELSE 0

(* The guard of the eviction loop for the entry about to be appended.      *)
NeedsEviction(state) ==
  \/ Len(snapshots) >= MaxSnapshots
  \/ buffered_bytes + Size[state]
       + (IF state \in EventState THEN pinned_bytes ELSE 0) > MaxBytes

(* Mutant: the observations of the batch itself are forgotten.             *)
EventsFitBeforeBatch(batch) ==
  \A i \in DOMAIN batch :
    batch[i] \in EventState => latest_bytes + Size[batch[i]] <= MaxBytes

(* An event is appended beside the observation current at that point: the  *)
(* one before it in the batch, or else the producer's.  Both must fit.     *)
EventsFit(batch) ==
  \A i \in DOMAIN batch :
    batch[i] \in EventState =>
      /\ (\A j \in 1 .. i-1 : batch[j] \in EventState)
           => latest_bytes + Size[batch[i]] <= MaxBytes
      /\ \A j \in 1 .. i-1 :
           (batch[j] \notin EventState /\ \A k \in j+1 .. i-1 : batch[k] \in EventState)
             => Size[batch[j]] + Size[batch[i]] <= MaxBytes

(* Mutant: a sealed producer still captures.                               *)
CaptureAllowedWhenSealed(batch) ==
  /\ Len(batch) \in 1 .. MaxBatch
  /\ \A i \in DOMAIN batch : Size[batch[i]] <= MaxBytes
  /\ next_sequence + Len(batch) <= MaxSequence
  /\ EventsFit(batch)

CaptureAllowed(batch) ==
  /\ ~sealed
  /\ Len(batch) \in 1 .. MaxBatch
  /\ \A i \in DOMAIN batch : Size[batch[i]] <= MaxBytes
  /\ next_sequence + Len(batch) <= MaxSequence
  /\ EventsFit(batch)

Init ==
  /\ snapshots = <<>>
  /\ buffered_bytes = 0
  /\ dropped_snapshots = 0
  /\ next_sequence = 0
  /\ sealed = FALSE
  /\ latest_observation = NoObservation
  /\ todo = <<>>
  /\ captured = <<>>
  /\ released = 0
  /\ published = 0

(* capture_batch, up to the append loop.  A batch that fails a check is    *)
(* returned to the caller with nothing changed.                            *)
BeginCapture(batch) ==
  /\ Idle
  /\ CaptureAllowed(batch)
  /\ todo' = batch
  /\ published' = oldest_sequence
  /\ UNCHANGED <<snapshots, buffered_bytes, dropped_snapshots, next_sequence,
                 sealed, latest_observation, captured, released>>

(* Mutant: pop_back for pop_front.                                         *)
EvictNewest ==
  /\ ~Idle
  /\ NeedsEviction(Head(todo))
  /\ snapshots # <<>>
  /\ snapshots' = SubSeq(snapshots, 1, Len(snapshots) - 1)
  /\ buffered_bytes' = buffered_bytes - Size[snapshots[Len(snapshots)].state]
  /\ dropped_snapshots' = dropped_snapshots + 1
  /\ UNCHANGED <<next_sequence, sealed, latest_observation, todo, captured,
                 released, published>>

(* One turn of the eviction loop.  On an empty buffer it changes nothing   *)
(* and tests its condition again.                                          *)
EvictOldest ==
  /\ ~Idle
  /\ NeedsEviction(Head(todo))
  /\ IF snapshots = <<>>
       THEN UNCHANGED <<snapshots, buffered_bytes, dropped_snapshots>>
       ELSE /\ snapshots' = Tail(snapshots)
            /\ buffered_bytes' = buffered_bytes - Size[Head(snapshots).state]
            /\ dropped_snapshots' = dropped_snapshots + 1
  /\ UNCHANGED <<next_sequence, sealed, latest_observation, todo, captured,
                 released, published>>

(* Append the entry there is room for.  The last one publishes the new     *)
(* next_sequence and returns, releasing the mutex.                         *)
AppendEntry ==
  LET state == Head(todo)
      entry == [sequence |-> Len(captured), state |-> state]
      start == IF captured = <<>> THEN 0
               ELSE captured[Len(captured)].start + Size[captured[Len(captured)].state]
  IN /\ ~Idle
     /\ ~NeedsEviction(state)
     /\ snapshots' = Append(snapshots, entry)
     /\ buffered_bytes' = buffered_bytes + Size[state]
     /\ latest_observation' = IF state \in EventState THEN latest_observation ELSE entry
     /\ todo' = Tail(todo)
     /\ captured' = Append(captured, [state |-> state, start |-> start])
     /\ next_sequence' = IF Tail(todo) = <<>> THEN Len(captured) + 1 ELSE next_sequence
     /\ UNCHANGED <<dropped_snapshots, sealed, released, published>>

(* seal: history stays readable.                                           *)
Seal ==
  /\ Idle
  /\ sealed' = TRUE
  /\ UNCHANGED <<snapshots, buffered_bytes, dropped_snapshots, next_sequence,
                 latest_observation, todo, captured, released, published>>

SealAndReleaseHistory ==
  /\ Idle
  /\ sealed' = TRUE
  /\ buffered_bytes' = 0
  /\ latest_observation' = NoObservation
  /\ snapshots' = <<>>
  /\ released' = released + Len(snapshots)
  /\ UNCHANGED <<dropped_snapshots, next_sequence, todo, captured, published>>

Batches == UNION {[1 .. n -> State] : n \in 1 .. MaxBatch}

Next ==
  \/ \E batch \in Batches : BeginCapture(batch)
  \/ EvictOldest
  \/ AppendEntry
  \/ Seal
  \/ SealAndReleaseHistory

Spec == Init /\ [][Next]_vars

-------------------------------------------------------------------------------
(* Values of the right kind, and a sequence counter inside its range.      *)
TypeOK ==
  /\ snapshots \in Seq(Entry)
  /\ buffered_bytes \in Int
  /\ dropped_snapshots \in Nat
  /\ next_sequence \in 0 .. MaxSequence
  /\ sealed \in BOOLEAN
  /\ latest_observation \in Entry \cup {NoObservation}
  /\ todo \in Seq(State)
  /\ captured \in Seq([state : State, start : Nat])
  /\ released \in Nat
  /\ published \in Nat

(* The eviction loop of capture_batch always has something to evict while  *)
(* its condition holds: the checks made before the loop rule out the       *)
(* endless turn on an empty buffer, with the mutex held, for every mix of  *)
(* observations and events in the batch.                                   *)
NeverSpins ==
  ~Idle /\ NeedsEviction(Head(todo)) => snapshots # <<>>

(* Retention: what is kept is the unbroken tail of what was captured, with *)
(* the contents it was captured with, and the eviction counter accounts    *)
(* for everything before it.                                               *)
RetainedIsTail ==
  /\ dropped_snapshots + released + Len(snapshots) = Len(captured)
  /\ \A i \in DOMAIN snapshots :
       /\ snapshots[i].sequence = Len(captured) - Len(snapshots) + i - 1
       /\ snapshots[i].state = captured[snapshots[i].sequence + 1].state

(* Both limits of the buffer hold at every moment, with the pinned latest  *)
(* observation counted: eviction of its entry does not make it free.       *)
WithinBudget ==
  /\ Len(snapshots) <= MaxSnapshots
  /\ buffered_bytes >= 0
  /\ buffered_bytes + pinned_bytes <= MaxBytes

(* latest() answers with the newest observation ever captured: neither     *)
(* eviction nor any number of later events hides it, only release does.    *)
LatestIsNewestObservation ==
  IF latest_observation = NoObservation
    THEN sealed \/ \A i \in DOMAIN captured : captured[i].state \in EventState
    ELSE /\ latest_observation.sequence < Len(captured)
         /\ captured[latest_observation.sequence + 1].state = latest_observation.state
         /\ latest_observation.state \notin EventState
         /\ \A i \in DOMAIN captured :
              i > latest_observation.sequence + 1 => captured[i].state \in EventState

(* What the producer keeps is right as a whole, inside the range of        *)
(* sequences: capture_batch lets in what it can number and make room for,  *)
(* and loses nothing it does not count.                                    *)
RetentionIsSound == TypeOK /\ RetainedIsTail /\ WithinBudget /\ LatestIsNewestObservation

(* Every page history() can return, for every cursor a consumer may hold   *)
(* and every limit, passes the consumer's own validation; it starts at the *)
(* cursor, or else at the oldest retained entry with the loss reported.    *)
PagesAreWellFormed ==
  Idle =>
    \A session \in Session, after \in 0 .. next_sequence, limit \in 1 .. PageLimit :
      LET page == HistoryPage(session, snapshots, oldest_sequence, after, limit)
      IN /\ ValidPage(page)
         /\ page.next <= next_sequence
         /\ page.dropped = NotDropped => page.oldest <= after
         /\ page.snapshots # <<>> =>
              page.snapshots[1].sequence = Larger(after, oldest_sequence)
         /\ page.snapshots = <<>> => page.next = next_sequence

(* The producer as its consumers see it, through the mutex: a capture in   *)
(* progress has not happened yet.                                          *)
Window ==
  INSTANCE RetentionWindow WITH
    log    <- [i \in 1 .. next_sequence |-> captured[i].state],
    oldest <- IF Idle THEN oldest_sequence ELSE published,
    closed <- sealed

(* The step-by-step producer implements the atomic retention window: a     *)
(* batch appears whole or not at all, evictions only move the window       *)
(* forward, and its newest entry can always still be pulled.               *)
ImplementsWindow == Window!Spec

===============================================================================

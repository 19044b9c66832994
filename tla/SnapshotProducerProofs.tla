------------------------ MODULE SnapshotProducerProofs ------------------------
(***************************************************************************)
(* The producer's promises for every buffer limit, batch size and size of  *)
(* snapshot.                                                               *)
(*                                                                         *)
(* The argument: retained entries are the tail of the captured ones, so    *)
(* buffered_bytes is the difference of two offsets (BytesAddUp), and an    *)
(* eviction that uncovers the pinned observation pays for it with the very *)
(* entry it drops.  The checks capture_batch makes once, before its loop,  *)
(* stay true of the rest of the batch as the loop runs (InLoop).           *)
(***************************************************************************)
EXTENDS SnapshotProducer, SequenceTheorems, TLAPS

Captured == [state : State, start : Nat]

(* Bytes accounted to everything captured so far.                          *)
Total ==
  IF captured = <<>> THEN 0
  ELSE captured[Len(captured)].start + Size[captured[Len(captured)].state]

BytesAddUp ==
  /\ \A i \in DOMAIN captured : captured[i].start + Size[captured[i].state] <= Total
  /\ \A i \in 1 .. Len(captured) - 1 :
       captured[i + 1].start = captured[i].start + Size[captured[i].state]
  /\ buffered_bytes =
       IF snapshots = <<>> THEN 0
       ELSE Total - captured[Len(captured) - Len(snapshots) + 1].start

InLoop ==
  /\ Idle => next_sequence = Len(captured)
  /\ ~Idle =>
       /\ ~sealed
       /\ next_sequence <= Len(captured)
       /\ Len(captured) + Len(todo) <= next_sequence + MaxBatch
       /\ Len(captured) + Len(todo) <= MaxSequence
       /\ \A i \in DOMAIN todo : Size[todo[i]] <= MaxBytes
       /\ EventsFit(todo)
       /\ published <= Len(captured) - Len(snapshots)

ProducerInv ==
  /\ TypeOK
  /\ RetainedIsTail
  /\ BytesAddUp
  /\ WithinBudget
  /\ LatestIsNewestObservation
  /\ InLoop

(* What Append does.                                                       *)
LEMMA Appending ==
  ASSUME NEW T, NEW s \in Seq(T), NEW x \in T, NEW n, n = Append(s, x)
  PROVE  /\ n \in Seq(T) /\ Len(n) = Len(s) + 1 /\ n # <<>>
         /\ Len(s) \in Nat /\ DOMAIN s = 1 .. Len(s) /\ DOMAIN n = 1 .. Len(s) + 1
         /\ \A i \in 1 .. Len(s) : n[i] = s[i]
         /\ n[Len(s) + 1] = x
OBVIOUS

(* What concatenation does.                                                *)
LEMMA Joining ==
  ASSUME NEW T, NEW s \in Seq(T), NEW t \in Seq(T)
  PROVE  /\ s \o t \in Seq(T) /\ Len(s \o t) = Len(s) + Len(t)
         /\ \A i \in 1 .. Len(s) : (s \o t)[i] = s[i]
         /\ \A i \in Len(s) + 1 .. Len(s) + Len(t) : (s \o t)[i] = t[i - Len(s)]
OBVIOUS

(* What a sequence of a type has.                                          *)
LEMMA SeqTypes ==
  ASSUME NEW T, NEW s \in Seq(T)
  PROVE  /\ Len(s) \in Nat /\ DOMAIN s = 1 .. Len(s)
         /\ \A i \in 1 .. Len(s) : s[i] \in T
         /\ s = <<>> <=> Len(s) = 0
         /\ s # <<>> => Head(s) = s[1]
OBVIOUS

(* What Tail does.                                                         *)
LEMMA Dropping ==
  ASSUME NEW T, NEW s \in Seq(T), s # <<>>, NEW n, n = Tail(s)
  PROVE  /\ n \in Seq(T) /\ Len(n) = Len(s) - 1
         /\ Len(s) \in Nat \ {0} /\ DOMAIN s = 1 .. Len(s) /\ DOMAIN n = 1 .. Len(s) - 1
         /\ n = <<>> <=> Len(s) = 1
         /\ Head(s) = s[1] /\ s[1] \in T
         /\ \A i \in 1 .. Len(s) - 1 : n[i] = s[i + 1]
<1>1. /\ Len(s) \in Nat /\ DOMAIN s = 1 .. Len(s) /\ Head(s) = s[1]
      /\ Len(s) # 0 /\ \A i \in 1 .. Len(s) : s[i] \in T
  BY SeqTypes
<1>2. n \in Seq(T) /\ Len(n) = Len(s) - 1
  OBVIOUS
<1>3. \A i \in 1 .. Len(s) - 1 : n[i] = s[i + 1]
  OBVIOUS
<1>4. DOMAIN n = 1 .. Len(n) /\ (n = <<>> <=> Len(n) = 0)
  BY <1>2, SeqTypes
<1> QED BY <1>1, <1>2, <1>3, <1>4

(* The typed view of a state that later steps work from.                   *)
LEMMA StateTypes ==
  ASSUME ProducerInv
  PROVE  /\ snapshots \in Seq(Entry) /\ captured \in Seq(Captured) /\ todo \in Seq(State)
         /\ Len(snapshots) \in Nat /\ Len(captured) \in Nat /\ Len(todo) \in Nat
         /\ DOMAIN snapshots = 1 .. Len(snapshots)
         /\ DOMAIN captured = 1 .. Len(captured)
         /\ DOMAIN todo = 1 .. Len(todo)
         /\ \A i \in 1 .. Len(snapshots) :
              /\ snapshots[i] \in Entry
              /\ snapshots[i].sequence \in Nat /\ snapshots[i].state \in State
         /\ \A i \in 1 .. Len(captured) :
              captured[i].state \in State /\ captured[i].start \in Nat
         /\ \A i \in 1 .. Len(todo) : todo[i] \in State
         /\ \A s \in State : Size[s] \in Nat \ {0}
         /\ Total \in Nat
         /\ latest_observation # NoObservation =>
              /\ latest_observation \in Entry
              /\ latest_observation.sequence \in Nat /\ latest_observation.state \in State
<1>1. /\ snapshots \in Seq(Entry) /\ captured \in Seq(Captured) /\ todo \in Seq(State)
      /\ latest_observation \in Entry \cup {NoObservation}
  BY DEF ProducerInv, TypeOK, Captured
<1>2. /\ Len(snapshots) \in Nat /\ DOMAIN snapshots = 1 .. Len(snapshots)
      /\ \A i \in 1 .. Len(snapshots) : snapshots[i] \in Entry
  BY <1>1, SeqTypes
<1>3. /\ Len(captured) \in Nat /\ DOMAIN captured = 1 .. Len(captured)
      /\ \A i \in 1 .. Len(captured) : captured[i] \in Captured
      /\ captured = <<>> <=> Len(captured) = 0
  BY <1>1, SeqTypes
<1>4. /\ Len(todo) \in Nat /\ DOMAIN todo = 1 .. Len(todo)
      /\ \A i \in 1 .. Len(todo) : todo[i] \in State
  BY <1>1, SeqTypes
<1>5. \A s \in State : Size[s] \in Nat \ {0}
  BY ProducerAssumption
<1>6. \A e \in Entry : e.sequence \in Nat /\ e.state \in State
  BY DEF Entry
<1>7. \A i \in 1 .. Len(captured) : captured[i].state \in State /\ captured[i].start \in Nat
  BY <1>3 DEF Captured
<1>8. Total \in Nat
  BY <1>3, <1>5, <1>7 DEF Total
<1> QED BY <1>1, <1>2, <1>3, <1>4, <1>5, <1>6, <1>7, <1>8

(* The retained entries as entries of the capture log.                     *)
LEMMA Retained ==
  ASSUME ProducerInv
  PROVE  LET L == Len(captured)
             S == Len(snapshots)
         IN /\ S <= L
            /\ \A i \in 1 .. S : /\ snapshots[i].sequence = L - S + i - 1
                                 /\ snapshots[i].state = captured[L - S + i].state
            /\ oldest_sequence = IF S = 0 THEN next_sequence ELSE L - S
            /\ Idle => oldest_sequence = L - S
            /\ pinned_bytes =
                 IF latest_observation # NoObservation /\ latest_observation.sequence < L - S
                   THEN Size[latest_observation.state] ELSE 0
<1> DEFINE L == Len(captured)
           S == Len(snapshots)
<1>1. L \in Nat /\ S \in Nat /\ DOMAIN snapshots = 1 .. S
  BY StateTypes
<1>2. dropped_snapshots \in Nat /\ released \in Nat /\ snapshots \in Seq(Entry)
  BY DEF ProducerInv, TypeOK
<1>3. dropped_snapshots + released + S = L
  BY DEF ProducerInv, RetainedIsTail
<1>4. S <= L
  BY <1>1, <1>2, <1>3
<1>5. \A i \in 1 .. S : /\ snapshots[i].sequence = L - S + i - 1
                        /\ snapshots[i].state = captured[snapshots[i].sequence + 1].state
  BY <1>1 DEF ProducerInv, RetainedIsTail
<1>6. \A i \in 1 .. S : snapshots[i].sequence + 1 = L - S + i
  BY <1>1, <1>5
<1>7. (S = 0 <=> snapshots = <<>>) /\ (S # 0 => Head(snapshots).sequence = L - S)
  <2>1. S = 0 <=> snapshots = <<>>
    BY <1>2, SeqTypes
  <2>2. S # 0 => Head(snapshots) = snapshots[1] /\ 1 \in 1 .. S
    BY <1>1, <1>2, <2>1, SeqTypes
  <2>3. S # 0 => snapshots[1].sequence = L - S
    BY <1>1, <1>5, <2>2
  <2> QED BY <2>1, <2>2, <2>3
<1>8. oldest_sequence = IF S = 0 THEN next_sequence ELSE L - S
  BY <1>7 DEF oldest_sequence
<1>9. Idle => oldest_sequence = L - S
  BY <1>1, <1>8 DEF ProducerInv, InLoop
<1>10. pinned_bytes =
         IF latest_observation # NoObservation /\ latest_observation.sequence < L - S
           THEN Size[latest_observation.state] ELSE 0
  <2>1. latest_observation # NoObservation =>
          latest_observation.sequence < L /\ latest_observation.sequence \in Nat
    BY StateTypes DEF ProducerInv, LatestIsNewestObservation
  <2>2. CASE S = 0
    BY <2>1, <2>2, <1>1, <1>7 DEF pinned_bytes
  <2>3. CASE S # 0
    BY <2>3, <1>7 DEF pinned_bytes
  <2> QED BY <2>2, <2>3
<1> QED BY <1>4, <1>5, <1>6, <1>8, <1>9, <1>10

-------------------------------------------------------------------------------
(* The checks made before the loop rule out a turn on an empty buffer.     *)
LEMMA LoopHasWork ==
  ASSUME ProducerInv
  PROVE  NeverSpins
<1> SUFFICES ASSUME ~Idle, snapshots = <<>>, NeedsEviction(Head(todo)) PROVE FALSE
  BY DEF NeverSpins
<1> DEFINE s == Head(todo)
<1>1. /\ todo \in Seq(State) /\ todo # <<>>
  BY StateTypes DEF Idle
<1>2. s = todo[1] /\ 1 \in DOMAIN todo /\ s \in State
  BY <1>1, SeqTypes
<1>3. Size[s] \in Nat /\ Size[s] <= MaxBytes /\ MaxBytes \in Nat /\ MaxSnapshots \in Nat \ {0}
  BY <1>2, StateTypes, ProducerAssumption DEF ProducerInv, InLoop
<1>4. Len(snapshots) = 0 /\ buffered_bytes = 0
  BY DEF ProducerInv, BytesAddUp
<1>5. pinned_bytes = latest_bytes
  BY DEF pinned_bytes, latest_bytes
<1>6. s \in EventState => latest_bytes + Size[s] <= MaxBytes
  <2>1. EventsFit(todo)
    BY DEF ProducerInv, InLoop
  <2>2. \A j \in 1 .. 1 - 1 : todo[j] \in EventState
    OBVIOUS
  <2> QED BY <2>1, <2>2, <1>2 DEF EventsFit
<1>7. latest_bytes \in Nat
  BY StateTypes DEF latest_bytes
<1> QED BY <1>3, <1>4, <1>5, <1>6, <1>7 DEF NeedsEviction

(* The empty producer.                                                     *)
LEMMA InitProducer == Init => ProducerInv
<1> SUFFICES ASSUME Init PROVE ProducerInv
  OBVIOUS
<1> USE ProducerAssumption, ProtocolAssumption DEF Init
<1>1. TypeOK
  <2>1. snapshots \in Seq(Entry) /\ todo \in Seq(State)
        /\ captured \in Seq([state : State, start : Nat])
    OBVIOUS
  <2>2. next_sequence \in 0 .. MaxSequence
    OBVIOUS
  <2>3. sealed \in BOOLEAN
    OBVIOUS
  <2> QED BY <2>1, <2>2, <2>3 DEF TypeOK
<1>2. RetainedIsTail
  BY DEF RetainedIsTail
<1>3. BytesAddUp
  BY DEF BytesAddUp
<1>4. WithinBudget
  BY DEF WithinBudget, pinned_bytes
<1>5. LatestIsNewestObservation
  BY DEF LatestIsNewestObservation
<1>6. InLoop
  BY DEF InLoop, Idle
<1> QED BY <1>1, <1>2, <1>3, <1>4, <1>5, <1>6 DEF ProducerInv

(* Entering capture_batch.                                                 *)
LEMMA BeginKeeps ==
  ASSUME ProducerInv, NEW batch \in Batches, BeginCapture(batch)
  PROVE  ProducerInv'
<1> USE DEF BeginCapture
<1>1. batch \in Seq(State) /\ Len(batch) \in 1 .. MaxBatch /\ batch # <<>>
  <2>1. PICK n \in 1 .. MaxBatch : batch \in [1 .. n -> State]
    BY DEF Batches
  <2>2. MaxBatch \in Nat
    BY ProducerAssumption
  <2>3. batch \in Seq(State) /\ Len(batch) = n
    BY <2>1, <2>2
  <2> QED BY <2>2, <2>3
<1>2. published' \in Nat
  BY StateTypes, Retained DEF ProducerInv, TypeOK
<1>3. TypeOK'
  BY <1>1, <1>2 DEF ProducerInv, TypeOK
<1>4. RetainedIsTail' /\ BytesAddUp' /\ WithinBudget' /\ LatestIsNewestObservation'
  BY DEF ProducerInv, RetainedIsTail, BytesAddUp, Total, WithinBudget, pinned_bytes,
         LatestIsNewestObservation
<1>5. next_sequence = Len(captured) /\ published' = Len(captured) - Len(snapshots)
  BY Retained DEF ProducerInv, InLoop
<1>6. EventsFit(todo)'
  BY DEF CaptureAllowed, EventsFit, latest_bytes
<1>7. InLoop'
  <2>1. Len(captured) \in Nat /\ Len(snapshots) \in Nat /\ Len(captured) <= Len(captured)
    BY StateTypes
  <2>2. /\ ~sealed /\ Len(captured) + Len(batch) <= MaxSequence
        /\ \A i \in DOMAIN batch : Size[batch[i]] <= MaxBytes
    BY <1>5 DEF CaptureAllowed
  <2> QED BY <1>1, <1>5, <1>6, <2>1, <2>2, ProducerAssumption DEF InLoop, Idle
<1> QED BY <1>3, <1>4, <1>7 DEF ProducerInv

(* Sealing keeps the history.                                              *)
LEMMA SealKeeps ==
  ASSUME ProducerInv, Seal
  PROVE  ProducerInv'
<1> USE DEF Seal
<1>1. TypeOK'
  BY DEF ProducerInv, TypeOK
<1>2. RetainedIsTail' /\ BytesAddUp' /\ WithinBudget' /\ LatestIsNewestObservation'
  BY DEF ProducerInv, RetainedIsTail, BytesAddUp, Total, WithinBudget, pinned_bytes,
         LatestIsNewestObservation
<1>3. InLoop'
  BY DEF ProducerInv, InLoop, Idle
<1> QED BY <1>1, <1>2, <1>3 DEF ProducerInv

(* Releasing the history.                                                  *)
LEMMA ReleaseKeeps ==
  ASSUME ProducerInv, SealAndReleaseHistory
  PROVE  ProducerInv'
<1> USE DEF SealAndReleaseHistory
<1>1. /\ Len(snapshots) \in Nat /\ Len(captured) \in Nat /\ snapshots' = <<>>
      /\ Len(snapshots') = 0 /\ DOMAIN snapshots' = {}
  BY StateTypes
<1>2. TypeOK'
  BY <1>1 DEF ProducerInv, TypeOK
<1>3. RetainedIsTail'
  BY <1>1 DEF ProducerInv, TypeOK, RetainedIsTail
<1>4. BytesAddUp'
  BY <1>1 DEF ProducerInv, BytesAddUp, Total
<1>5. WithinBudget'
  BY <1>1, ProducerAssumption DEF WithinBudget, pinned_bytes
<1>6. LatestIsNewestObservation'
  BY DEF LatestIsNewestObservation
<1>7. InLoop'
  BY DEF ProducerInv, InLoop, Idle
<1> QED BY <1>2, <1>3, <1>4, <1>5, <1>6, <1>7 DEF ProducerInv

(* One turn of the eviction loop: the entry dropped is the front of the    *)
(* window, and if it was the pinned observation its bytes stay accounted.  *)
LEMMA EvictKeeps ==
  ASSUME ProducerInv, EvictOldest
  PROVE  ProducerInv'
<1> DEFINE L == Len(captured)
           S == Len(snapshots)
           front == captured[L - S + 1]
<1>1. snapshots # <<>>
  BY LoopHasWork DEF EvictOldest, NeverSpins
<1>2. /\ snapshots' = Tail(snapshots)
      /\ buffered_bytes' = buffered_bytes - Size[Head(snapshots).state]
      /\ dropped_snapshots' = dropped_snapshots + 1
      /\ UNCHANGED <<next_sequence, sealed, latest_observation, todo, captured,
                     released, published>>
  BY <1>1 DEF EvictOldest
<1>3. /\ snapshots \in Seq(Entry) /\ L \in Nat /\ S \in Nat \ {0}
      /\ DOMAIN snapshots = 1 .. S
  BY <1>1, StateTypes, SeqTypes
<1>4. /\ snapshots' \in Seq(Entry) /\ Len(snapshots') = S - 1
      /\ DOMAIN snapshots' = 1 .. S - 1
      /\ snapshots' = <<>> <=> S = 1
      /\ Head(snapshots) = snapshots[1]
      /\ \A i \in 1 .. S - 1 : snapshots'[i] = snapshots[i + 1]
  BY <1>1, <1>2, <1>3, Dropping
<1>5. /\ S <= L
      /\ \A i \in 1 .. S : /\ snapshots[i].sequence = L - S + i - 1
                            /\ snapshots[i].state = captured[L - S + i].state
      /\ pinned_bytes =
           IF latest_observation # NoObservation /\ latest_observation.sequence < L - S
             THEN Size[latest_observation.state] ELSE 0
  BY Retained
<1>6. /\ L - S + 1 \in 1 .. L
      /\ front.state \in State /\ front.start \in Nat /\ Size[front.state] \in Nat \ {0}
      /\ Head(snapshots).state = front.state
  <2>1. L - S + 1 \in 1 .. L /\ 1 \in 1 .. S
    BY <1>3, <1>5
  <2>2. front.state \in State /\ front.start \in Nat /\ Size[front.state] \in Nat \ {0}
    BY <2>1, StateTypes
  <2>3. snapshots[1].state = front.state
    BY <2>1, <1>5
  <2> QED BY <2>1, <2>2, <2>3, <1>4
<1>7. /\ buffered_bytes = Total - front.start /\ Total \in Nat
      /\ front.start + Size[front.state] <= Total
      /\ S = 1 => Total = front.start + Size[front.state]
      /\ S > 1 => captured[L - S + 2].start = front.start + Size[front.state]
  <2>1. Total \in Nat /\ DOMAIN captured = 1 .. L
    BY StateTypes
  <2>2. buffered_bytes = Total - front.start
    BY <1>1 DEF ProducerInv, BytesAddUp
  <2>3. front.start + Size[front.state] <= Total
    BY <1>6, <2>1 DEF ProducerInv, BytesAddUp
  <2>4. S = 1 => Total = front.start + Size[front.state]
    <3> HAVE S = 1
    <3>1. L - S + 1 = L /\ captured # <<>>
      BY <1>3, <1>5, <1>6
    <3> QED BY <3>1 DEF Total
  <2>5. S > 1 => captured[L - S + 2].start = front.start + Size[front.state]
    <3> HAVE S > 1
    <3>1. L - S + 1 \in 1 .. L - 1 /\ (L - S + 1) + 1 = L - S + 2
      BY <1>3, <1>5
    <3> QED BY <3>1 DEF ProducerInv, BytesAddUp
  <2> QED BY <2>1, <2>2, <2>3, <2>4, <2>5
<1>8. TypeOK'
  <2>1. buffered_bytes' \in Int
    <3>1. buffered_bytes \in Int
      BY DEF ProducerInv, TypeOK
    <3>2. buffered_bytes' = buffered_bytes - Size[front.state]
      BY <1>2, <1>6
    <3>3. Size[front.state] \in Int
      BY <1>6
    <3> HIDE DEF front
    <3> QED BY <3>1, <3>2, <3>3
  <2> QED BY <1>2, <1>4, <2>1 DEF ProducerInv, TypeOK
<1>9. RetainedIsTail'
  <2>1. /\ dropped_snapshots \in Nat /\ released \in Nat
        /\ dropped_snapshots + released + S = L
    BY DEF ProducerInv, TypeOK, RetainedIsTail
  <2>2. dropped_snapshots' + released' + Len(snapshots') = Len(captured')
    BY <2>1, <1>2, <1>3, <1>4
  <2>3. ASSUME NEW i \in 1 .. S - 1
        PROVE  /\ snapshots'[i].sequence = L - (S - 1) + i - 1
               /\ snapshots'[i].state = captured[snapshots'[i].sequence + 1].state
    <3>1. snapshots'[i] = snapshots[i + 1] /\ i + 1 \in 1 .. S /\ i \in Nat
      BY <1>3, <1>4
    <3>2. /\ snapshots[i + 1].sequence = L - S + (i + 1) - 1
          /\ snapshots[i + 1].state = captured[L - S + (i + 1)].state
      BY <3>1, <1>5
    <3>3. L - S + (i + 1) - 1 = L - (S - 1) + i - 1 /\ L - S + (i + 1) = L - (S - 1) + i - 1 + 1
      BY <3>1, <1>3
    <3> QED BY <3>1, <3>2, <3>3
  <2> QED BY <2>2, <2>3, <1>2, <1>4 DEF RetainedIsTail
<1>10. BytesAddUp'
  <2>1. Total' = Total
    BY <1>2 DEF Total
  <2>2. buffered_bytes' = IF snapshots' = <<>> THEN 0
                          ELSE Total - captured[L - (S - 1) + 1].start
    <3>1. buffered_bytes' = Total - front.start - Size[front.state]
      BY <1>2, <1>6, <1>7
    <3>2. CASE S = 1
      BY <3>1, <3>2, <1>4, <1>6, <1>7
    <3>3. CASE S # 1
      <4>1. S > 1 /\ L - (S - 1) + 1 = L - S + 2
        BY <3>3, <1>3
      <4>2. captured[L - (S - 1) + 1].start = front.start + Size[front.state]
        BY <4>1, <1>7
      <4>3. snapshots' # <<>>
        BY <3>3, <1>4
      <4>4. Total \in Int /\ front.start \in Int /\ Size[front.state] \in Int
        BY <1>6, <1>7
      <4> HIDE DEF L, S, front
      <4>5. Total - front.start - Size[front.state] = Total - (front.start + Size[front.state])
        BY <4>4
      <4> QED BY <3>1, <4>2, <4>3, <4>5
    <3> QED BY <3>2, <3>3
  <2> QED BY <2>1, <2>2, <1>2, <1>4 DEF ProducerInv, BytesAddUp
<1>11. LatestIsNewestObservation'
  BY <1>2 DEF ProducerInv, LatestIsNewestObservation
<1>12. InLoop'
  <2>1. EventsFit(todo)' = EventsFit(todo)
    BY <1>2 DEF EventsFit, latest_bytes
  <2>2. published \in Nat
    BY DEF ProducerInv, TypeOK
  <2>3. published <= L - S => published <= L - (S - 1)
    BY <2>2, <1>3
  <2> QED BY <2>1, <2>3, <1>2, <1>4 DEF ProducerInv, InLoop, Idle
<1>13. WithinBudget'
  <2>1. latest_observation # NoObservation =>
          /\ latest_observation.sequence \in Nat /\ latest_observation.state \in State
          /\ Size[latest_observation.state] \in Nat
          /\ latest_observation.sequence < L
          /\ captured[latest_observation.sequence + 1].state = latest_observation.state
    BY StateTypes DEF ProducerInv, LatestIsNewestObservation
  <2>2. pinned_bytes' =
          IF latest_observation # NoObservation /\ latest_observation.sequence < L - (S - 1)
            THEN Size[latest_observation.state] ELSE 0
    <3>1. S # 1 => Head(snapshots') = snapshots[2] /\ snapshots[2].sequence = L - (S - 1)
      <4> HAVE S # 1
      <4>1. Head(snapshots') = snapshots'[1] /\ 1 \in 1 .. S - 1
        BY <1>3, <1>4, SeqTypes
      <4>2. snapshots'[1] = snapshots[2] /\ 2 \in 1 .. S
        BY <4>1, <1>3, <1>4
      <4>3. snapshots[2].sequence = L - S + 2 - 1 /\ L - S + 2 - 1 = L - (S - 1)
        BY <4>2, <1>3, <1>5
      <4> QED BY <4>1, <4>2, <4>3
    <3>2. CASE S = 1
      BY <3>2, <1>2, <1>3, <1>4, <2>1 DEF pinned_bytes
    <3>3. CASE S # 1
      BY <3>1, <3>3, <1>2, <1>4 DEF pinned_bytes
    <3> QED BY <3>2, <3>3
  <2>3. /\ S <= MaxSnapshots /\ buffered_bytes >= 0
        /\ buffered_bytes + pinned_bytes <= MaxBytes
        /\ MaxBytes \in Nat /\ MaxSnapshots \in Nat
    BY ProducerAssumption DEF ProducerInv, WithinBudget
  <2>4. buffered_bytes' >= 0
    <3>1. buffered_bytes' = Total - front.start - Size[front.state]
      BY <1>2, <1>6, <1>7
    <3>2. Total \in Nat /\ front.start \in Nat /\ Size[front.state] \in Nat
      BY <1>6, <1>7
    <3>3. front.start + Size[front.state] <= Total
      BY <1>7
    <3> HIDE DEF front
    <3> QED BY <3>1, <3>2, <3>3
  <2>5. Len(snapshots') <= MaxSnapshots
    BY <1>3, <1>4, <2>3
  <2>6. pinned_bytes' <= pinned_bytes + Size[front.state]
    <3>1. CASE latest_observation # NoObservation /\ latest_observation.sequence = L - S
      <4>1. captured[latest_observation.sequence + 1] = front
        BY <3>1
      <4>2. ~(latest_observation.sequence < L - S) /\ latest_observation.sequence < L - (S - 1)
        BY <3>1, <1>3
      <4>3. pinned_bytes' = Size[front.state]
        BY <3>1, <4>1, <4>2, <2>1, <2>2
      <4>4. pinned_bytes = 0
        BY <4>2, <1>5
      <4>5. Size[front.state] \in Nat
        BY <1>6
      <4> HIDE DEF front
      <4> QED BY <4>3, <4>4, <4>5
    <3>2. CASE latest_observation # NoObservation /\ latest_observation.sequence # L - S
      <4>1. latest_observation.sequence < L - S <=> latest_observation.sequence < L - (S - 1)
        BY <3>2, <2>1, <1>3
      <4>2. pinned_bytes' = pinned_bytes
        BY <4>1, <2>2, <1>5
      <4>3. pinned_bytes \in Nat
        BY <2>1, <1>5
      <4>4. Size[front.state] \in Nat
        BY <1>6
      <4> HIDE DEF front
      <4> QED BY <4>2, <4>3, <4>4
    <3>3. CASE latest_observation = NoObservation
      BY <3>3, <2>2, <1>5, <1>6
    <3> QED BY <3>1, <3>2, <3>3
  <2>7. pinned_bytes \in Nat /\ pinned_bytes' \in Nat
    <3>1. pinned_bytes \in Nat
      BY <2>1, <1>5
    <3>2. pinned_bytes' \in Nat
      BY <2>1, <2>2
    <3> QED BY <3>1, <3>2
  <2>8. buffered_bytes' + pinned_bytes' <= MaxBytes
    <3> DEFINE z == Size[front.state]
               b == buffered_bytes
               c == buffered_bytes'
               r == pinned_bytes
               q == pinned_bytes'
    <3>1. c = b - z /\ b \in Int /\ z \in Int /\ r \in Int /\ q \in Int
      <4>1. c = b - z
        BY <1>2, <1>6
      <4>2. b \in Int
        BY DEF ProducerInv, TypeOK
      <4>3. z \in Int
        BY <1>6
      <4>4. r \in Int /\ q \in Int
        BY <2>7
      <4> QED BY <4>1, <4>2, <4>3, <4>4
    <3>2. b + r <= MaxBytes /\ q <= r + z /\ MaxBytes \in Int
      BY <2>3, <2>6
    <3> HIDE DEF z, b, c, r, q
    <3>3. c + q <= MaxBytes
      BY <3>1, <3>2
    <3> QED BY <3>3 DEF c, q
  <2> QED BY <2>4, <2>5, <2>8 DEF WithinBudget
<1> QED BY <1>8, <1>9, <1>10, <1>11, <1>12, <1>13 DEF ProducerInv

(* Appending the next entry of the batch: what was checked of the rest of  *)
(* the batch still holds of it, beside the observation now current.        *)
LEMMA AppendKeeps ==
  ASSUME ProducerInv, AppendEntry
  PROVE  ProducerInv'
<1> DEFINE L == Len(captured)
           S == Len(snapshots)
           state == Head(todo)
           entry == [sequence |-> L, state |-> state]
           item == [state |-> state, start |-> Total]
<1>1. /\ todo # <<>> /\ ~NeedsEviction(state)
      /\ snapshots' = Append(snapshots, entry)
      /\ buffered_bytes' = buffered_bytes + Size[state]
      /\ latest_observation' = IF state \in EventState THEN latest_observation ELSE entry
      /\ todo' = Tail(todo)
      /\ captured' = Append(captured, item)
      /\ next_sequence' = IF Tail(todo) = <<>> THEN L + 1 ELSE next_sequence
      /\ UNCHANGED <<dropped_snapshots, sealed, released, published>>
  BY DEF AppendEntry, Idle, Total
<1>2. /\ todo' \in Seq(State) /\ Len(todo') = Len(todo) - 1 /\ Len(todo) \in Nat \ {0}
      /\ DOMAIN todo = 1 .. Len(todo) /\ DOMAIN todo' = 1 .. Len(todo) - 1
      /\ Tail(todo) = <<>> <=> Len(todo) = 1
      /\ state = todo[1] /\ state \in State
      /\ \A i \in 1 .. Len(todo) - 1 : todo'[i] = todo[i + 1]
  <2>1. todo \in Seq(State) /\ todo # <<>> /\ todo' = Tail(todo)
    BY <1>1, StateTypes
  <2>2. /\ todo' \in Seq(State) /\ Len(todo') = Len(todo) - 1 /\ Len(todo) \in Nat \ {0}
        /\ DOMAIN todo = 1 .. Len(todo) /\ DOMAIN todo' = 1 .. Len(todo) - 1
        /\ todo' = <<>> <=> Len(todo) = 1
    BY <2>1, Dropping
  <2>3. /\ Head(todo) = todo[1] /\ todo[1] \in State
        /\ \A i \in 1 .. Len(todo) - 1 : todo'[i] = todo[i + 1]
    BY <2>1, Dropping
  <2> QED BY <2>1, <2>2, <2>3
<1>3. entry \in Entry /\ item \in Captured /\ Total \in Nat /\ Size[state] \in Nat \ {0}
  BY <1>2, StateTypes DEF Entry, Captured
<1>4. /\ snapshots' \in Seq(Entry) /\ Len(snapshots') = S + 1 /\ snapshots' # <<>>
      /\ S \in Nat /\ DOMAIN snapshots = 1 .. S /\ DOMAIN snapshots' = 1 .. S + 1
      /\ \A i \in 1 .. S : snapshots'[i] = snapshots[i]
      /\ snapshots'[S + 1] = entry
  BY <1>1, <1>3, StateTypes, Appending, SMTT(30)
<1>5. /\ captured' \in Seq(Captured) /\ Len(captured') = L + 1 /\ captured' # <<>>
      /\ L \in Nat /\ DOMAIN captured = 1 .. L /\ DOMAIN captured' = 1 .. L + 1
      /\ \A i \in 1 .. L : captured'[i] = captured[i]
      /\ captured'[L + 1] = item
  <2>1. captured \in Seq(Captured) /\ item \in Captured /\ captured' = Append(captured, item)
    BY <1>1, <1>3, StateTypes
  <2> HIDE DEF item
  <2> QED BY <2>1, Appending
<1>6. /\ entry.sequence = L /\ entry.state = state
      /\ item.state = state /\ item.start = Total
  OBVIOUS
<1> HIDE DEF entry, item, state, L, S
<1>7. /\ S <= L
      /\ \A i \in 1 .. S : /\ snapshots[i].sequence = L - S + i - 1
                            /\ snapshots[i].state = captured[L - S + i].state
      /\ pinned_bytes =
           IF latest_observation # NoObservation /\ latest_observation.sequence < L - S
             THEN Size[latest_observation.state] ELSE 0
  BY Retained DEF L, S
<1>8. /\ ~sealed /\ next_sequence <= L
      /\ L + Len(todo) <= next_sequence + MaxBatch
      /\ L + Len(todo) <= MaxSequence
      /\ \A i \in DOMAIN todo : Size[todo[i]] <= MaxBytes
      /\ EventsFit(todo)
      /\ published <= L - S
      /\ next_sequence \in Nat /\ published \in Nat
      /\ MaxSequence \in Nat /\ MaxBatch \in Nat /\ MaxBytes \in Nat
      /\ MaxSnapshots \in Nat
  BY <1>1, ProducerAssumption, ProtocolAssumption DEF ProducerInv, InLoop, Idle, TypeOK, L, S
<1>9. Total' = Total + Size[state]
  BY <1>5, <1>6 DEF Total
<1>10. TypeOK'
  <2>1. buffered_bytes' \in Int
    BY <1>1, <1>3 DEF ProducerInv, TypeOK
  <2>2. next_sequence' \in 0 .. MaxSequence
    BY <1>1, <1>2, <1>5, <1>8 DEF ProducerInv, TypeOK
  <2>3. latest_observation' \in Entry \cup {NoObservation}
    BY <1>1, <1>3 DEF ProducerInv, TypeOK
  <2> QED BY <1>1, <1>2, <1>4, <1>5, <2>1, <2>2, <2>3 DEF ProducerInv, TypeOK, Captured
<1>11. RetainedIsTail'
  <2>1. dropped_snapshots' + released' + Len(snapshots') = Len(captured')
    <3>1. /\ dropped_snapshots \in Nat /\ released \in Nat
          /\ dropped_snapshots + released + S = L
      BY DEF ProducerInv, TypeOK, RetainedIsTail, L, S
    <3> QED BY <3>1, <1>1, <1>4, <1>5
  <2>2. ASSUME NEW i \in 1 .. S + 1
        PROVE  /\ snapshots'[i].sequence = (L + 1) - (S + 1) + i - 1
               /\ snapshots'[i].state = captured'[snapshots'[i].sequence + 1].state
    <3>1. CASE i \in 1 .. S
      <4>1. /\ snapshots'[i].sequence = L - S + i - 1
            /\ snapshots'[i].state = captured[L - S + i].state
        BY <3>1, <1>4, <1>7
      <4>2. /\ L - S + i \in 1 .. L /\ L - S + i - 1 + 1 = L - S + i
            /\ L - S + i - 1 = (L + 1) - (S + 1) + i - 1
        BY <3>1, <1>4, <1>5, <1>7
      <4> QED BY <4>1, <4>2, <1>5
    <3>2. CASE i = S + 1
      <4>1. snapshots'[i].sequence = L /\ snapshots'[i].state = state
        BY <3>2, <1>4, <1>6
      <4>2. (L + 1) - (S + 1) + i - 1 = L
        BY <3>2, <1>4, <1>5
      <4> QED BY <4>1, <4>2, <1>5, <1>6
    <3> QED BY <3>1, <3>2, <1>4
  <2> QED BY <2>1, <2>2, <1>4, <1>5 DEF RetainedIsTail
<1>12. BytesAddUp'
  <2>1. ASSUME NEW i \in 1 .. L + 1
        PROVE  captured'[i].start + Size[captured'[i].state] <= Total'
    <3>1. CASE i \in 1 .. L
      <4>1. captured[i].start + Size[captured[i].state] <= Total
        BY <3>1, <1>5 DEF ProducerInv, BytesAddUp
      <4>2. captured[i].start \in Nat /\ Size[captured[i].state] \in Nat
        BY <3>1, StateTypes DEF L
      <4>3. captured'[i] = captured[i]
        BY <3>1, <1>5
      <4>4. Total <= Total' /\ Total \in Nat /\ Total' \in Nat
        BY <1>3, <1>9
      <4> QED BY <4>1, <4>2, <4>3, <4>4
    <3>2. CASE i = L + 1
      BY <3>2, <1>3, <1>5, <1>6, <1>9
    <3> QED BY <3>1, <3>2, <1>5
  <2>2. ASSUME NEW i \in 1 .. (L + 1) - 1
        PROVE  captured'[i + 1].start = captured'[i].start + Size[captured'[i].state]
    <3>1. CASE i < L
      <4>1. i \in 1 .. L - 1 /\ i \in 1 .. L /\ i + 1 \in 1 .. L
        BY <3>1, <1>5
      <4>2. captured[i + 1].start = captured[i].start + Size[captured[i].state]
        BY <4>1 DEF ProducerInv, BytesAddUp, L
      <4> QED BY <4>1, <4>2, <1>5
    <3>2. CASE i = L
      <4>1. L \in 1 .. L /\ captured # <<>>
        BY <3>2, <1>5
      <4>2. Total = captured[L].start + Size[captured[L].state]
        BY <4>1 DEF Total, L
      <4> QED BY <3>2, <4>1, <4>2, <1>5, <1>6
    <3> QED BY <3>1, <3>2, <1>5
  <2>3. buffered_bytes' = Total' - captured'[(L + 1) - (S + 1) + 1].start
    <3>1. CASE S = 0
      <4>1. buffered_bytes = 0
        BY <3>1, StateTypes, SeqTypes DEF ProducerInv, BytesAddUp, S
      <4>2. (L + 1) - (S + 1) + 1 = L + 1
        BY <3>1, <1>5
      <4> QED BY <4>1, <4>2, <1>1, <1>3, <1>5, <1>6, <1>9
    <3>2. CASE S # 0
      <4>1. snapshots # <<>>
        BY <3>2 DEF S
      <4>2. buffered_bytes = Total - captured[L - S + 1].start
        BY <4>1 DEF ProducerInv, BytesAddUp, L, S
      <4>3. (L + 1) - (S + 1) + 1 = L - S + 1 /\ L - S + 1 \in 1 .. L
        BY <3>2, <1>4, <1>5, <1>7
      <4>4. captured[L - S + 1].start \in Nat
        BY <4>3, StateTypes DEF L
      <4>5. captured'[(L + 1) - (S + 1) + 1].start = captured[L - S + 1].start
        BY <4>3, <1>5
      <4> DEFINE f == captured[L - S + 1].start
      <4>6. /\ buffered_bytes' = (Total - f) + Size[state] /\ Total' = Total + Size[state]
            /\ f \in Nat /\ Total \in Nat /\ Size[state] \in Nat
        BY <4>2, <4>4, <1>1, <1>3, <1>9
      <4> HIDE DEF f
      <4>7. buffered_bytes' = Total' - f
        BY <4>6
      <4> QED BY <4>5, <4>7 DEF f
    <3> QED BY <3>1, <3>2
  <2> QED BY <2>1, <2>2, <2>3, <1>4, <1>5 DEF BytesAddUp
<1>13. LatestIsNewestObservation'
  <2>1. CASE state \in EventState
    <3>1. CASE latest_observation = NoObservation
      <4>1. \A i \in 1 .. L : captured[i].state \in EventState
        BY <3>1, <1>5, <1>8 DEF ProducerInv, LatestIsNewestObservation
      <4>2. \A i \in 1 .. L + 1 : captured'[i].state \in EventState
        BY <4>1, <2>1, <1>5, <1>6
      <4> QED BY <3>1, <4>2, <2>1, <1>1, <1>5 DEF LatestIsNewestObservation
    <3>2. CASE latest_observation # NoObservation
      <4> DEFINE q == latest_observation.sequence
      <4>1. /\ q \in Nat /\ q < L
            /\ captured[q + 1].state = latest_observation.state
            /\ latest_observation.state \notin EventState
            /\ \A i \in 1 .. L : i > q + 1 => captured[i].state \in EventState
        BY <3>2, <1>5, StateTypes DEF ProducerInv, LatestIsNewestObservation, L
      <4>2. q < L + 1 /\ captured'[q + 1] = captured[q + 1]
        BY <4>1, <1>5
      <4>3. \A i \in 1 .. L + 1 : i > q + 1 => captured'[i].state \in EventState
        BY <4>1, <2>1, <1>5, <1>6
      <4>4. latest_observation' = latest_observation
        BY <1>1, <2>1
      <4> QED BY <3>2, <4>1, <4>2, <4>3, <4>4, <1>5 DEF LatestIsNewestObservation
    <3> QED BY <3>1, <3>2
  <2>2. CASE state \notin EventState
    <3>1. latest_observation' = entry /\ entry # NoObservation
      BY <2>2, <1>1, <1>3, ProducerAssumption
    <3>2. \A i \in 1 .. L + 1 : ~(i > L + 1)
      BY <1>5
    <3> QED BY <2>2, <3>1, <3>2, <1>5, <1>6 DEF LatestIsNewestObservation
  <2> QED BY <2>1, <2>2
<1>14. EventsFit(todo)'
  <2> SUFFICES ASSUME NEW i \in DOMAIN todo', todo'[i] \in EventState
               PROVE  /\ (\A j \in 1 .. i-1 : todo'[j] \in EventState)
                           => latest_bytes' + Size[todo'[i]] <= MaxBytes
                      /\ \A j \in 1 .. i-1 :
                           (todo'[j] \notin EventState
                              /\ \A k \in j+1 .. i-1 : todo'[k] \in EventState)
                             => Size[todo'[j]] + Size[todo'[i]] <= MaxBytes
    BY DEF EventsFit
  <2>1. /\ i \in 1 .. Len(todo) - 1 /\ i + 1 \in DOMAIN todo /\ todo'[i] = todo[i + 1]
        /\ 1 \in 1 .. i /\ i \in Nat /\ (i + 1) - 1 = i
    BY <1>2
  <2>2. /\ (\A j \in 1 .. i : todo[j] \in EventState)
             => latest_bytes + Size[todo[i + 1]] <= MaxBytes
        /\ \A j \in 1 .. i :
             (todo[j] \notin EventState /\ \A k \in j+1 .. i : todo[k] \in EventState)
               => Size[todo[j]] + Size[todo[i + 1]] <= MaxBytes
    BY <2>1, <1>8 DEF EventsFit
  <2>3. \A j \in 1 .. i - 1 : todo'[j] = todo[j + 1]
    BY <2>1, <1>2, SMTT(30)
  <2>4. ASSUME \A j \in 1 .. i-1 : todo'[j] \in EventState
        PROVE  latest_bytes' + Size[todo'[i]] <= MaxBytes
    <3>1. \A j \in 2 .. i : todo[j] \in EventState
      <4> TAKE j \in 2 .. i
      <4>1. j - 1 \in 1 .. i - 1 /\ (j - 1) + 1 = j
        BY <2>1
      <4> QED BY <4>1, <2>3, <2>4
    <3>2. CASE state \in EventState
      <4>1. \A j \in 1 .. i : todo[j] \in EventState
        BY <3>1, <3>2, <1>2, <2>1
      <4>2. latest_bytes' = latest_bytes
        BY <3>2, <1>1 DEF latest_bytes
      <4> QED BY <4>1, <4>2, <2>1, <2>2
    <3>3. CASE state \notin EventState
      <4>1. Size[todo[1]] + Size[todo[i + 1]] <= MaxBytes
        BY <3>1, <3>3, <1>2, <2>1, <2>2
      <4>2. latest_observation' = entry /\ entry # NoObservation
        BY <3>3, <1>1, <1>3, ProducerAssumption
      <4>3. latest_bytes' = Size[state]
        BY <4>2, <1>6 DEF latest_bytes
      <4> QED BY <4>1, <4>3, <1>2, <2>1
    <3> QED BY <3>2, <3>3
  <2>5. ASSUME NEW j \in 1 .. i-1, todo'[j] \notin EventState,
               \A k \in j+1 .. i-1 : todo'[k] \in EventState
        PROVE  Size[todo'[j]] + Size[todo'[i]] <= MaxBytes
    <3>1. j + 1 \in 1 .. i /\ todo'[j] = todo[j + 1]
      BY <2>1, <2>3
    <3>2. \A k \in (j + 1) + 1 .. i : todo[k] \in EventState
      <4> TAKE k \in (j + 1) + 1 .. i
      <4>1. k - 1 \in j + 1 .. i - 1 /\ k - 1 \in 1 .. i - 1 /\ (k - 1) + 1 = k
        BY <2>1
      <4> QED BY <4>1, <2>3, <2>5
    <3> QED BY <3>1, <3>2, <2>1, <2>2, <2>5
  <2> QED BY <2>4, <2>5
<1>15. InLoop'
  <2>1. Idle' <=> Len(todo) = 1
    BY <1>1, <1>2 DEF Idle
  <2>2. Idle' => next_sequence' = Len(captured')
    BY <2>1, <1>1, <1>2, <1>5
  <2>3. ASSUME ~Idle'
        PROVE  /\ ~sealed' /\ next_sequence' <= L + 1
               /\ (L + 1) + (Len(todo) - 1) <= next_sequence' + MaxBatch
               /\ (L + 1) + (Len(todo) - 1) <= MaxSequence
               /\ \A i \in DOMAIN todo' : Size[todo'[i]] <= MaxBytes
               /\ published' <= (L + 1) - (S + 1)
    <3>1. next_sequence' = next_sequence /\ sealed' = sealed /\ published' = published
      BY <2>1, <2>3, <1>1, <1>2
    <3>2. \A i \in DOMAIN todo' : i + 1 \in DOMAIN todo /\ todo'[i] = todo[i + 1]
      BY <1>2
    <3>3. \A i \in DOMAIN todo' : Size[todo'[i]] <= MaxBytes
      BY <3>2, <1>8
    <3> QED BY <3>1, <3>3, <1>2, <1>4, <1>5, <1>8, SMTT(30)
  <2> QED BY <2>2, <2>3, <1>2, <1>4, <1>5, <1>14 DEF InLoop
<1>16. WithinBudget'
  <2>1. /\ S < MaxSnapshots /\ buffered_bytes \in Int /\ buffered_bytes >= 0
    BY <1>1, <1>4, <1>8 DEF NeedsEviction, ProducerInv, TypeOK, WithinBudget, S
  <2>2. Len(snapshots') <= MaxSnapshots /\ buffered_bytes' >= 0
    BY <2>1, <1>1, <1>3, <1>4, <1>8, SMTT(30)
  <2>3. /\ latest_observation # NoObservation =>
             /\ latest_observation.sequence \in Nat
             /\ Size[latest_observation.state] \in Nat
             /\ latest_observation.sequence < L
        /\ pinned_bytes \in Nat
    BY <1>7, StateTypes DEF ProducerInv, LatestIsNewestObservation, L
  <2>4. Head(snapshots').sequence = L - S
    <3>1. Head(snapshots') = snapshots'[1]
      BY <1>4, SeqTypes
    <3>2. CASE S = 0
      BY <3>1, <3>2, <1>4, <1>5, <1>6
    <3>3. CASE S # 0
      <4>1. 1 \in 1 .. S /\ snapshots[1].sequence = L - S + 1 - 1
        BY <3>3, <1>4, <1>7
      <4> QED BY <3>1, <4>1, <1>4, <1>5
    <3> QED BY <3>2, <3>3
  <2>5. CASE state \in EventState
    <3>1. pinned_bytes' = pinned_bytes
      BY <2>5, <2>4, <1>1, <1>4, <1>7 DEF pinned_bytes
    <3>2. buffered_bytes + Size[state] + pinned_bytes <= MaxBytes
      <4>1. ~(buffered_bytes + Size[state] + pinned_bytes > MaxBytes)
        BY <2>5, <1>1 DEF NeedsEviction
      <4>2. Size[state] \in Int /\ pinned_bytes \in Int /\ MaxBytes \in Int
        BY <2>3, <1>3, <1>8
      <4> QED BY <4>1, <4>2, <2>1
    <3>3. buffered_bytes' + pinned_bytes' <= MaxBytes
      BY <3>1, <3>2, <1>1
    <3> QED BY <3>3, <2>2 DEF WithinBudget
  <2>6. CASE state \notin EventState
    <3>1. latest_observation' = entry
      BY <2>6, <1>1
    <3>2. ~(L < L - S)
      BY <1>4, <1>5
    <3>3. pinned_bytes' = 0
      BY <3>1, <3>2, <2>4, <1>4, <1>6 DEF pinned_bytes
    <3>4. buffered_bytes + Size[state] <= MaxBytes
      BY <2>1, <2>6, <1>1, <1>3, <1>8 DEF NeedsEviction
    <3>5. buffered_bytes' + pinned_bytes' <= MaxBytes
      BY <3>3, <3>4, <2>1, <1>1, <1>3
    <3> QED BY <3>5, <2>2 DEF WithinBudget
  <2> QED BY <2>5, <2>6
<1> QED BY <1>10, <1>11, <1>12, <1>13, <1>15, <1>16 DEF ProducerInv

(* Every step keeps the invariant.                                         *)
LEMMA NextKeeps == ProducerInv /\ [Next]_vars => ProducerInv'
<1> SUFFICES ASSUME ProducerInv, [Next]_vars PROVE ProducerInv'
  OBVIOUS
<1>1. CASE UNCHANGED vars
  BY <1>1 DEF vars, ProducerInv, TypeOK, RetainedIsTail, BytesAddUp, Total, WithinBudget,
              pinned_bytes, LatestIsNewestObservation, InLoop, Idle, EventsFit, latest_bytes
<1> QED BY <1>1, BeginKeeps, EvictKeeps, AppendKeeps, SealKeeps, ReleaseKeeps DEF Next

(* The invariant holds of every behaviour of the producer.                 *)
THEOREM ProducerIsSound == Spec => []ProducerInv
BY InitProducer, NextKeeps, PTL DEF Spec

(* Sequences stay inside the range of a durable cursor.                    *)
THEOREM ProducerTypes == Spec => []TypeOK
<1>1. ProducerInv => TypeOK
  BY DEF ProducerInv
<1> QED BY <1>1, ProducerIsSound, PTL

(* The eviction loop never turns on an empty buffer.                       *)
THEOREM LoopNeverSpins == Spec => []NeverSpins
<1>1. ProducerInv => NeverSpins
  BY LoopHasWork
<1> QED BY <1>1, ProducerIsSound, PTL

(* Retention keeps the unbroken tail and counts the rest, both limits of   *)
(* the buffer hold, the pinned observation included, and latest() is the   *)
(* newest observation, however many events followed.                       *)
THEOREM RetentionHolds == Spec => []RetentionIsSound
<1>1. ProducerInv => RetentionIsSound
  BY DEF ProducerInv, RetentionIsSound
<1> QED BY <1>1, ProducerIsSound, PTL

-------------------------------------------------------------------------------
(* The retention window as the consumers see it.                           *)
Log == [i \in 1 .. next_sequence |-> captured[i].state]

Oldest == IF Idle THEN oldest_sequence ELSE published

(* A published log is a sequence of states.                                *)
LEMMA LogTypes ==
  ASSUME ProducerInv
  PROVE  /\ Log \in Seq(State) /\ Len(Log) = next_sequence /\ next_sequence \in Nat
         /\ next_sequence <= Len(captured)
         /\ \A i \in 1 .. next_sequence : Log[i] = captured[i].state
<1>1. /\ next_sequence \in Nat
  BY ProtocolAssumption DEF ProducerInv, TypeOK
<1>2. next_sequence <= Len(captured) /\ Len(captured) \in Nat
  BY <1>1, StateTypes DEF ProducerInv, InLoop
<1>3. \A i \in 1 .. next_sequence : captured[i].state \in State
  BY <1>1, <1>2, StateTypes
<1> QED BY <1>1, <1>2, <1>3 DEF Log

(* The last entry of a batch publishes the whole of it at once.            *)
LEMMA LastAppendCaptures ==
  ASSUME ProducerInv, ProducerInv', AppendEntry, Tail(todo) = <<>>
  PROVE  \E n \in 1 .. MaxBatch : \E batch \in [1 .. n -> State] : Window!Capture(batch)
<1> DEFINE L == Len(captured)
           b == next_sequence
           n == L + 1 - b
           batch == [i \in 1 .. n |-> captured'[b + i].state]
<1>1. /\ todo # <<>> /\ todo' = <<>> /\ next_sequence' = L + 1 /\ UNCHANGED <<sealed, published>>
  BY DEF AppendEntry, Idle
<1>2. L \in Nat /\ b \in Nat /\ b <= L /\ MaxBatch \in Nat
  BY LogTypes, StateTypes, ProducerAssumption
<1>3. Len(todo) = 1
  BY <1>1, StateTypes, Dropping
<1>4. /\ ~sealed /\ L + 1 <= b + MaxBatch /\ published <= L - Len(snapshots)
      /\ published \in Nat
  BY <1>1, <1>3 DEF ProducerInv, InLoop, Idle, TypeOK
<1>5. n \in 1 .. MaxBatch
  BY <1>2, <1>4
<1>6. /\ Len(captured') = L + 1
      /\ \A i \in 1 .. L : captured'[i] = captured[i]
      /\ Len(snapshots') = Len(snapshots) + 1 /\ Len(snapshots) \in Nat
  <2>1. PICK x : captured' = Append(captured, x)
    BY DEF AppendEntry
  <2>2. PICK y : snapshots' = Append(snapshots, y)
    BY DEF AppendEntry
  <2>3. captured \in Seq(Captured) /\ snapshots \in Seq(Entry)
    BY StateTypes
  <2> QED BY <2>1, <2>2, <2>3
<1>7. \A i \in 1 .. L + 1 : captured'[i].state \in State
  <2>1. captured' \in Seq(Captured)
    BY DEF ProducerInv, TypeOK, Captured
  <2>2. \A i \in 1 .. Len(captured') : captured'[i] \in Captured
    BY <2>1, SeqTypes
  <2> QED BY <2>2, <1>6 DEF Captured
<1>8. batch \in [1 .. n -> State]
  <2>1. \A i \in 1 .. n : b + i \in 1 .. L + 1
    BY <1>2
  <2> QED BY <2>1, <1>7
<1>9. Log' = Log \o batch
  <2>1. /\ Log \in Seq(State) /\ Len(Log) = b
        /\ \A i \in 1 .. b : Log[i] = captured[i].state
    BY LogTypes
  <2>2. batch \in Seq(State) /\ Len(batch) = n /\ n \in Nat
    BY <1>5, <1>8
  <2>3. Log' = [i \in 1 .. L + 1 |-> captured'[i].state]
    BY <1>1 DEF Log
  <2>4. /\ Log \o batch \in Seq(State) /\ Len(Log \o batch) = b + n
        /\ \A i \in 1 .. b : (Log \o batch)[i] = Log[i]
        /\ \A i \in b + 1 .. b + n : (Log \o batch)[i] = batch[i - b]
    <3> HIDE DEF batch, n, b, Log
    <3>1. /\ Log \o batch \in Seq(State) /\ Len(Log \o batch) = Len(Log) + Len(batch)
          /\ \A i \in 1 .. Len(Log) : (Log \o batch)[i] = Log[i]
          /\ \A i \in Len(Log) + 1 .. Len(Log) + Len(batch) :
               (Log \o batch)[i] = batch[i - Len(Log)]
      BY <2>1, <2>2, Joining
    <3>2. Len(Log) = b /\ Len(batch) = n
      BY <2>1, <2>2
    <3> QED BY <3>1, <3>2
  <2>5. b + n = L + 1
    BY <1>2
  <2>6. \A i \in 1 .. b : (Log \o batch)[i] = captured'[i].state
    BY <2>1, <2>4, <1>2, <1>6
  <2>7. \A i \in b + 1 .. b + n : (Log \o batch)[i] = captured'[i].state
    <3> TAKE i \in b + 1 .. b + n
    <3>1. i - b \in 1 .. n /\ b + (i - b) = i
      <4> HIDE DEF n, b
      <4> QED BY <1>2, <2>2
    <3>2. batch[i - b] = captured'[b + (i - b)].state
      BY <3>1
    <3> HIDE DEF batch, n, b
    <3> QED BY <3>1, <3>2, <2>4
  <2> HIDE DEF batch, n
  <2>8. \A i \in 1 .. L + 1 : (Log \o batch)[i] = captured'[i].state
    <3> TAKE i \in 1 .. L + 1
    <3>1. i \in 1 .. b \/ i \in b + 1 .. b + n
      BY <2>5, <1>2
    <3> QED BY <3>1, <2>6, <2>7
  <2>9. Log \o batch = [i \in 1 .. L + 1 |-> (Log \o batch)[i]]
    <3> DEFINE w == Log \o batch
    <3>1. w \in Seq(State) /\ Len(w) = L + 1
      BY <2>4, <2>5
    <3> HIDE DEF w
    <3>2. w = [i \in 1 .. L + 1 |-> w[i]]
      BY <3>1
    <3> QED BY <3>2 DEF w
  <2> QED BY <2>3, <2>8, <2>9
<1>10. Oldest = published /\ Oldest' = L - Len(snapshots)
  <2>1. oldest_sequence' = Len(captured') - Len(snapshots')
    <3>1. snapshots' \in Seq(Entry)
      BY DEF ProducerInv, TypeOK
    <3>2. /\ snapshots' # <<>> /\ Head(snapshots') = snapshots'[1]
          /\ 1 \in DOMAIN snapshots' /\ Len(snapshots') \in Nat
      BY <3>1, <1>6, SeqTypes
    <3>3. snapshots'[1].sequence = Len(captured') - Len(snapshots') + 1 - 1
      BY <3>2 DEF ProducerInv, RetainedIsTail
    <3> QED BY <3>2, <3>3, <1>2, <1>6 DEF oldest_sequence
  <2> QED BY <1>1, <1>2, <1>6, <2>1 DEF Oldest, Idle
<1>11. Oldest' \in Oldest .. Len(Log) + Len(batch) - 1
  <2>1. Len(Log) = b /\ Len(batch) = n /\ b + n - 1 = L
    BY <1>2, <1>5, <1>8, LogTypes
  <2>2. L - Len(snapshots) <= L
    BY <1>2, <1>6
  <2> QED BY <2>1, <2>2, <1>2, <1>4, <1>6, <1>10
<1>13. \E x \in [1 .. n -> State] : Window!Capture(x)
  <2> HIDE DEF batch, n
  <2> QED BY <1>1, <1>4, <1>8, <1>9, <1>11 DEF Window!Capture, Log, Oldest
<1> QED BY <1>5, <1>13, Zenon

(* Every step of the producer is a step of the window, or none.            *)
LEMMA StepsImplement ==
  ASSUME ProducerInv, ProducerInv', [Next]_vars
  PROVE  [Window!Next]_(Window!vars)
<1> SUFFICES Window!Next \/ (Log' = Log /\ Oldest' = Oldest /\ sealed' = sealed)
  BY DEF Window!vars, Log, Oldest
<1>1. ASSUME NEW batch \in Batches, BeginCapture(batch)
      PROVE  Log' = Log /\ Oldest' = Oldest /\ sealed' = sealed
  <2>1. batch # <<>> /\ Idle
    BY <1>1, ProducerAssumption DEF BeginCapture, CaptureAllowed
  <2> QED BY <1>1, <2>1 DEF BeginCapture, Log, Oldest, Idle
<1>2. CASE EvictOldest
  BY <1>2 DEF EvictOldest, Log, Oldest, Idle
<1>3. CASE AppendEntry /\ Tail(todo) = <<>>
  BY <1>3, LastAppendCaptures DEF Window!Next
<1>4. CASE AppendEntry /\ Tail(todo) # <<>>
  <2>1. PICK x : captured' = Append(captured, x)
    BY <1>4 DEF AppendEntry
  <2>2. captured \in Seq(Captured) /\ Len(captured) \in Nat
    BY StateTypes
  <2>3. \A i \in 1 .. Len(captured) : captured'[i] = captured[i]
    BY <2>1, <2>2
  <2>4. next_sequence' = next_sequence /\ next_sequence \in Nat /\ next_sequence <= Len(captured)
    BY <1>4, LogTypes DEF AppendEntry
  <2>5. Log' = Log
    BY <2>2, <2>3, <2>4 DEF Log
  <2> QED BY <1>4, <2>5 DEF AppendEntry, Oldest, Idle
<1>5. CASE Seal
  <2>1. Log' = Log /\ Oldest' = Oldest /\ sealed' = TRUE
    BY <1>5 DEF Seal, Log, Oldest, Idle, oldest_sequence
  <2> QED BY <2>1 DEF Window!Next, Window!Close, Log, Oldest
<1>6. CASE SealAndReleaseHistory
  <2>1. Log' = Log /\ Oldest' = next_sequence /\ sealed' = TRUE
    BY <1>6 DEF SealAndReleaseHistory, Log, Oldest, Idle, oldest_sequence
  <2>2. Len(Log) = next_sequence
    BY LogTypes
  <2> QED BY <2>1, <2>2 DEF Window!Next, Window!Release, Log, Oldest
<1>7. CASE UNCHANGED vars
  BY <1>7 DEF vars, Log, Oldest, Idle, oldest_sequence
<1> QED BY <1>1, <1>2, <1>3, <1>4, <1>5, <1>6, <1>7 DEF Next

(* The producer implements the retention window: a batch appears whole,    *)
(* the window only moves forward, and its newest entry can be pulled.      *)
THEOREM ProducerImplementsWindow == Spec => ImplementsWindow
<1>1. Init => Window!Init
  <2> SUFFICES ASSUME Init PROVE Log = <<>> /\ Oldest = 0 /\ sealed = FALSE
    BY DEF Window!Init, Log, Oldest
  <2> QED BY DEF Init, Log, Oldest, Idle, oldest_sequence
<1>2. ProducerInv /\ ProducerInv' /\ [Next]_vars => [Window!Next]_(Window!vars)
  BY StepsImplement
<1> QED BY <1>1, <1>2, ProducerIsSound, PTL DEF Spec, ImplementsWindow, Window!Spec

-------------------------------------------------------------------------------
(* select_history on an unbroken run of entries, for any cursor up to its  *)
(* end: a valid page that starts where it must.                            *)
LEMMA PageOfRun ==
  ASSUME NEW session, NEW retained \in Seq(Entry), NEW oldest \in Nat,
         \A i \in 1 .. Len(retained) : retained[i].sequence = oldest + i - 1,
         oldest + Len(retained) <= MaxSequence,
         NEW after \in 0 .. oldest + Len(retained), NEW limit \in 1 .. PageLimit
  PROVE  LET page == HistoryPage(session, retained, oldest, after, limit)
         IN /\ ValidPage(page)
            /\ page.next <= oldest + Len(retained)
            /\ page.dropped = NotDropped => page.oldest <= after
            /\ page.snapshots # <<>> => page.snapshots[1].sequence = Larger(after, oldest)
            /\ page.snapshots = <<>> => page.next = oldest + Len(retained)
<1> DEFINE R == Len(retained)
           skipped == IF after > oldest THEN after - oldest ELSE 0
           left == R - skipped
           m == IF left < limit THEN left ELSE limit
           selected == SubSeq(retained, skipped + 1, skipped + m)
           page == HistoryPage(session, retained, oldest, after, limit)
<1>1. /\ R \in Nat /\ after \in Nat /\ limit \in Nat \ {0} /\ limit <= PageLimit
      /\ after <= oldest + R /\ PageLimit \in Nat /\ MaxSequence \in Nat
  BY ProtocolAssumption
<1>2. /\ skipped \in Nat /\ skipped <= R /\ m \in Nat /\ m <= limit
      /\ skipped + m <= R /\ (m = 0 => skipped = R)
      /\ oldest + skipped = Larger(after, oldest)
  <2>1. skipped \in Nat /\ skipped <= R /\ oldest + skipped = Larger(after, oldest)
    BY <1>1 DEF Larger
  <2> HIDE DEF skipped
  <2>2. left \in Nat /\ skipped + left = R
    BY <1>1, <2>1
  <2> HIDE DEF left
  <2>3. m \in Nat /\ m <= limit /\ m <= left /\ (m = 0 => left = 0)
    BY <1>1, <2>2
  <2> HIDE DEF m
  <2> QED BY <1>1, <2>1, <2>2, <2>3
<1> HIDE DEF skipped, m
<1>3. /\ selected \in Seq(Entry) /\ Len(selected) = m
      /\ \A i \in 1 .. m : selected[i] = retained[skipped + i]
  <2> DEFINE u == skipped + 1
             v == skipped + m
  <2>1. u \in 1 .. R + 1 /\ v \in u - 1 .. R
    BY <1>1, <1>2
  <2>2. v - u + 1 = m /\ \A i \in 1 .. m : u + i - 1 = skipped + i
    BY <1>2
  <2> HIDE DEF u, v
  <2>3. /\ SubSeq(retained, u, v) \in Seq(Entry)
        /\ Len(SubSeq(retained, u, v)) = v - u + 1
        /\ \A i \in 1 .. v - u + 1 : SubSeq(retained, u, v)[i] = retained[u + i - 1]
    <3>1. Len(SubSeq(retained, u, v)) = IF u <= v THEN v - u + 1 ELSE 0
      BY <2>1, <1>1
    <3> QED BY <2>1, <1>1, SubSeqProperties
  <2> QED BY <2>2, <2>3 DEF u, v
<1>4. /\ DOMAIN selected = 1 .. m /\ (selected = <<>> <=> m = 0)
  BY <1>3, SeqTypes
<1>5. \A i \in 1 .. m : selected[i].sequence = oldest + skipped + i - 1
  <2> TAKE i \in 1 .. m
  <2>1. skipped + i \in 1 .. R
    BY <1>1, <1>2
  <2>2. retained[skipped + i].sequence = oldest + (skipped + i) - 1
    BY <2>1
  <2> QED BY <2>2, <1>2, <1>3
<1>6. /\ page.session = session /\ page.oldest = oldest
      /\ page.next = IF selected = <<>> THEN Larger(after, oldest)
                     ELSE selected[Len(selected)].sequence + 1
      /\ page.dropped = IF after < oldest THEN oldest ELSE NotDropped
      /\ page.snapshots = [i \in DOMAIN selected |->
                             [session  |-> session,
                              sequence |-> selected[i].sequence,
                              state    |-> selected[i].state]]
  BY DEF HistoryPage, skipped, m
<1> HIDE DEF selected, page
<1>7. /\ Len(page.snapshots) = m /\ DOMAIN page.snapshots = 1 .. m
      /\ (page.snapshots = <<>> <=> m = 0)
      /\ \A i \in 1 .. m : /\ page.snapshots[i].session = session
                            /\ page.snapshots[i].sequence = oldest + skipped + i - 1
  <2>1. DOMAIN page.snapshots = 1 .. m
    BY <1>4, <1>6
  <2>2. page.snapshots \in Seq({page.snapshots[i] : i \in 1 .. m})
    <3> DEFINE w == page.snapshots
               X == {w[i] : i \in 1 .. m}
    <3>1. w = [i \in 1 .. m |-> w[i]]
      BY <1>4, <1>6
    <3> HIDE DEF w
    <3>2. \A i \in 1 .. m : w[i] \in X
      OBVIOUS
    <3> HIDE DEF X
    <3>3. w \in [1 .. m -> X]
      BY <3>1, <3>2
    <3>4. w \in Seq(X)
      BY <3>3, <1>2
    <3> QED BY <3>4 DEF w, X
  <2>3. Len(page.snapshots) = m /\ (page.snapshots = <<>> <=> m = 0)
    BY <1>2, <2>1, <2>2, SeqTypes
  <2>4. \A i \in 1 .. m : /\ page.snapshots[i].session = session
                          /\ page.snapshots[i].sequence = selected[i].sequence
    BY <1>4, <1>6
  <2> QED BY <2>1, <2>3, <2>4, <1>5
<1>8. page.next = oldest + skipped + m
  <2>1. CASE m = 0
    BY <2>1, <1>2, <1>4, <1>6
  <2>2. CASE m # 0
    <3>1. m \in 1 .. m /\ page.next = selected[m].sequence + 1
      BY <2>2, <1>2, <1>3, <1>4, <1>6
    <3> QED BY <3>1, <1>2, <1>5
  <2> QED BY <2>1, <2>2
<1>9. ValidPage(page)
  <2>1. Len(page.snapshots) <= PageLimit /\ page.oldest <= page.next /\ page.next <= MaxSequence
    BY <1>1, <1>2, <1>6, <1>7, <1>8, SMTT(30)
  <2>2. page.dropped \in {NotDropped, page.oldest}
    BY <1>6
  <2>3. ASSUME NEW i \in 1 .. m
        PROVE  /\ page.snapshots[i].session = page.session
               /\ page.snapshots[i].sequence >= page.oldest
               /\ page.snapshots[i].sequence < MaxSequence
               /\ page.snapshots[i].sequence = page.snapshots[1].sequence + i - 1
    <3>1. 1 \in 1 .. m /\ page.snapshots[1].sequence = oldest + skipped + 1 - 1
      BY <1>2, <1>7
    <3> QED BY <3>1, <1>1, <1>2, <1>6, <1>7
  <2>4. m # 0 => page.next = page.snapshots[m].sequence + 1
    <3> HAVE m # 0
    <3>1. m \in 1 .. m
      BY <1>2
    <3>2. page.snapshots[m].sequence = oldest + skipped + m - 1
      BY <3>1, <1>7
    <3> QED BY <3>2, <1>2, <1>8
  <2> QED BY <2>1, <2>2, <2>3, <2>4, <1>7 DEF ValidPage
<1>10. page.next <= oldest + R
  BY <1>1, <1>2, <1>8
<1>11. page.dropped = NotDropped => page.oldest <= after
  BY <1>1, <1>6, ProtocolAssumption
<1>12. page.snapshots # <<>> => page.snapshots[1].sequence = Larger(after, oldest)
  <2> HAVE page.snapshots # <<>>
  <2>1. 1 \in 1 .. m
    BY <1>2, <1>7
  <2> QED BY <2>1, <1>2, <1>7
<1>13. page.snapshots = <<>> => page.next = oldest + R
  BY <1>1, <1>2, <1>7, <1>8
<1> QED BY <1>9, <1>10, <1>11, <1>12, <1>13 DEF page

(* Every page the producer can answer with passes the consumer's checks.   *)
THEOREM PagesValidate == Spec => []PagesAreWellFormed
<1>1. ASSUME ProducerInv PROVE PagesAreWellFormed
  <2> SUFFICES ASSUME Idle, NEW session \in Session, NEW after \in 0 .. next_sequence,
                      NEW limit \in 1 .. PageLimit
               PROVE  LET page == HistoryPage(session, snapshots, oldest_sequence, after, limit)
                      IN /\ ValidPage(page)
                         /\ page.next <= next_sequence
                         /\ page.dropped = NotDropped => page.oldest <= after
                         /\ page.snapshots # <<>> =>
                              page.snapshots[1].sequence = Larger(after, oldest_sequence)
                         /\ page.snapshots = <<>> => page.next = next_sequence
    BY DEF PagesAreWellFormed
  <2> DEFINE L == Len(captured)
             S == Len(snapshots)
             o == oldest_sequence
  <2>1. /\ L \in Nat /\ S \in Nat /\ snapshots \in Seq(Entry)
    BY <1>1, StateTypes
  <2>2. /\ S <= L /\ o = L - S
        /\ \A i \in 1 .. S : snapshots[i].sequence = L - S + i - 1
    BY <1>1, Retained
  <2>3. next_sequence = L /\ L <= MaxSequence
    BY <1>1, ProtocolAssumption DEF ProducerInv, InLoop, TypeOK
  <2> HIDE DEF L, S, o
  <2>4. /\ o \in Nat /\ o + S = next_sequence /\ o + S <= MaxSequence
        /\ \A i \in 1 .. S : snapshots[i].sequence = o + i - 1
        /\ after \in 0 .. o + S
    BY <2>1, <2>2, <2>3
  <2> DEFINE page == HistoryPage(session, snapshots, o, after, limit)
  <2>5. /\ ValidPage(page)
        /\ page.next <= o + S
        /\ page.dropped = NotDropped => page.oldest <= after
        /\ page.snapshots # <<>> => page.snapshots[1].sequence = Larger(after, o)
        /\ page.snapshots = <<>> => page.next = o + S
    BY <2>1, <2>4, PageOfRun DEF S
  <2> HIDE DEF page
  <2>6. /\ ValidPage(page)
        /\ page.next <= next_sequence
        /\ page.dropped = NotDropped => page.oldest <= after
        /\ page.snapshots # <<>> => page.snapshots[1].sequence = Larger(after, o)
        /\ page.snapshots = <<>> => page.next = next_sequence
    BY <2>4, <2>5
  <2> QED BY <2>6 DEF page, o
<1> QED BY <1>1, ProducerIsSound, PTL
===============================================================================

--------------------------- MODULE SnapshotProtocol ---------------------------
(***************************************************************************)
(* The vocabulary of the Pull protocol: what a snapshot and a history page *)
(* are, and the checks every consumer makes of a page before it looks at   *)
(* its own state.                                                          *)
(*                                                                         *)
(* A snapshot's JSON state, axes and timestamp are one abstract value of   *)
(* State: the protocol compares them for equality and asks one question of *)
(* them, whether the state is a Tracker event record.                      *)
(***************************************************************************)
EXTENDS Integers, Sequences

CONSTANTS
  Session,      \* source_session_id values
  State,        \* full snapshot contents
  EventState,   \* the contents is_tracker_event recognises
  NotDropped,   \* dropped_before absent from a page
  PageLimit,    \* MAX_SNAPSHOT_HISTORY_LIMIT, 256 in the code
  MaxSequence   \* i64::MAX, the largest durable cursor

ASSUME ProtocolAssumption ==
  /\ EventState \subseteq State
  /\ NotDropped \notin Nat
  /\ PageLimit \in Nat \ {0}
  /\ MaxSequence \in Nat

Snapshot == [session : Session, sequence : Nat, state : State]

Page == [session   : Session,
         oldest    : Nat,
         next      : Nat,
         dropped   : Nat \cup {NotDropped},
         snapshots : Seq(Snapshot)]

Larger(a, b) == IF a >= b THEN a ELSE b

(***************************************************************************)
(* validate_snapshot_history_response, with validate_state_snapshot's      *)
(* bound on the sequence.  The code compares each sequence with its        *)
(* predecessor plus one; the closed form below says the same of the page.  *)
(***************************************************************************)
ValidPage(page) ==
  /\ Len(page.snapshots) <= PageLimit
  /\ page.oldest <= page.next
  /\ page.next <= MaxSequence
  /\ page.dropped \in {NotDropped, page.oldest}
  /\ \A i \in DOMAIN page.snapshots :
       /\ page.snapshots[i].session = page.session
       /\ page.snapshots[i].sequence >= page.oldest
       /\ page.snapshots[i].sequence < MaxSequence
       /\ page.snapshots[i].sequence = page.snapshots[1].sequence + i - 1
  /\ page.snapshots # <<>> =>
       page.next = page.snapshots[Len(page.snapshots)].sequence + 1

(***************************************************************************)
(* select_history: the page a producer whose retained entries are          *)
(* `retained' (from sequence `oldest' on) answers to ?after=..&limit=..    *)
(* The 16 MiB wire budget only shortens the selection further, exactly as  *)
(* a smaller limit would, and never below one entry.                       *)
(***************************************************************************)
HistoryPage(session, retained, oldest, after, limit) ==
  LET skipped  == IF after > oldest THEN after - oldest ELSE 0
      left     == Len(retained) - skipped
      selected == SubSeq(retained, skipped + 1,
                         skipped + (IF left < limit THEN left ELSE limit))
  IN [session   |-> session,
      oldest    |-> oldest,
      next      |-> IF selected = <<>>
                      THEN Larger(after, oldest)
                      ELSE selected[Len(selected)].sequence + 1,
      dropped   |-> IF after < oldest THEN oldest ELSE NotDropped,
      snapshots |-> [i \in DOMAIN selected |->
                       [session  |-> session,
                        sequence |-> selected[i].sequence,
                        state    |-> selected[i].state]]]

===============================================================================

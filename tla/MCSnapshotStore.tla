--------------------------- MODULE MCSnapshotStore ----------------------------
(* One Source with two sessions, and every page of up to two entries that  *)
(* passes validation for three sequences, with every choice of contents,   *)
(* and pages of two entries that do not pass: entries out of order, before *)
(* the oldest one or repeated, a wrong next_sequence or dropped_before.    *)
EXTENDS SnapshotStore

CONSTANTS o1, e1, MaxRows

MCState == {o1, e1}

MCEventState == {e1}

PagesOver(session, states) ==
  LET snaps == [session : {session}, sequence : 0 .. MaxSequence - 1, state : states]
  IN [session   : {session},
      oldest    : 0 .. MaxSequence,
      next      : 0 .. MaxSequence,
      dropped   : 0 .. MaxSequence \cup {NotDropped},
      snapshots : {<<>>} \cup {<<x>> : x \in snaps} \cup {<<x, y>> : x, y \in snaps}]

MCPages ==
  UNION {{page \in PagesOver(session, MCState) : ValidPage(page)}
           \cup {page \in PagesOver(session, {o1}) :
                   /\ Len(page.snapshots) = 2
                   /\ page.dropped = IF page.next = MaxSequence THEN page.oldest + 1
                                     ELSE NotDropped} : session \in Session}

(* Explore no further once MaxRows snapshots have been stored.             *)
FewRows == db.last_id <= MaxRows
===============================================================================

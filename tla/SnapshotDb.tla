------------------------------ MODULE SnapshotDb ------------------------------
(***************************************************************************)
(* The tables of snapshots.db and the work one page does on them inside    *)
(* its savepoint (SnapshotStore::ingest_page), as operators on a value of  *)
(* the database.  SnapshotStore and Collector run them in transactions.    *)
(*                                                                         *)
(* A stream is a Source with one of its sessions: the key of cursors and   *)
(* gaps.  A Source belongs to one Run for good, so run_id adds nothing to  *)
(* the keys.  A cursor row that is absent reads as 0 everywhere in the     *)
(* code, and does here.                                                    *)
(***************************************************************************)
EXTENDS SnapshotProtocol, FiniteSets

CONSTANT Source

Stream == Source \X Session

Row == [id : Nat, sequence : Nat, state : State]

Gap == [expected : Nat, oldest : Nat]

Db == [rows    : [Stream -> SUBSET Row],   \* snapshots
       cursor  : [Stream -> Nat],          \* snapshot_cursors
       gaps    : [Stream -> SUBSET Gap],   \* snapshot_gaps
       head    : [Source -> Nat],          \* snapshot_heads, 0 for none
       last_id : Nat]                      \* AUTOINCREMENT of snapshots.id

EmptyDb ==
  [rows    |-> [k \in Stream |-> {}],
   cursor  |-> [k \in Stream |-> 0],
   gaps    |-> [k \in Stream |-> {}],
   head    |-> [s \in Source |-> 0],
   last_id |-> 0]

IsStored(db, k, n) == \E r \in db.rows[k] : r.sequence = n

(* The page's entries at or after the committed cursor.                    *)
Unseen(db, k, page) ==
  {i \in DOMAIN page.snapshots : page.snapshots[i].sequence >= db.cursor[k]}

(* Mutant: any later entry will do, reported as lost or not.               *)
ContinuesLoosely(db, k, page) ==
  Unseen(db, k, page) = {} => page.next <= db.cursor[k]

(* The page continues the stream: its first unseen entry is the one the    *)
(* cursor expects, or the oldest retained one with the loss reported.      *)
Continues(db, k, page) ==
  IF Unseen(db, k, page) = {}
    THEN page.next <= db.cursor[k]
    ELSE /\ \E i \in Unseen(db, k, page) :
              /\ \A j \in Unseen(db, k, page) : i <= j
              /\ page.snapshots[i].sequence = Larger(db.cursor[k], page.oldest)
         /\ page.oldest > db.cursor[k] => page.dropped = page.oldest

(* Mutant: an entry behind the cursor is refused without a look.           *)
AgreesIfNew(db, k, snapshot) == snapshot.sequence >= db.cursor[k]

(* An entry already stored must be stored with the same state; one that is *)
(* not stored must not lie behind the cursor.                              *)
Agrees(db, k, snapshot) ==
  IF IsStored(db, k, snapshot.sequence)
    THEN \A r \in db.rows[k] :
           r.sequence = snapshot.sequence => r.state = snapshot.state
    ELSE snapshot.sequence >= db.cursor[k]

(* ingest_page succeeds for a page pulled after a descriptor of `session'. *)
Acceptable(db, source, session, page) ==
  LET k == <<source, page.session>>
  IN /\ ValidPage(page)
     /\ session = page.session
     /\ Continues(db, k, page)
     /\ \A i \in DOMAIN page.snapshots : Agrees(db, k, page.snapshots[i])

(* The entries the page inserts, and the id each one gets.                 *)
Fresh(db, k, page) ==
  {i \in DOMAIN page.snapshots : ~IsStored(db, k, page.snapshots[i].sequence)}

NewId(db, k, page, i) ==
  db.last_id + Cardinality({j \in Fresh(db, k, page) : j <= i})

NewRows(db, k, page) ==
  {[id       |-> NewId(db, k, page, i),
    sequence |-> page.snapshots[i].sequence,
    state    |-> page.snapshots[i].state] : i \in Fresh(db, k, page)}

(* Mutant: events move the head as well.                                   *)
NewHeadOfAny(db, k, page) ==
  IF Fresh(db, k, page) = {} THEN db.head[k[1]]
  ELSE db.last_id + Cardinality(Fresh(db, k, page))

(* The head follows the last inserted observation; events never move it.   *)
NewHead(db, k, page) ==
  LET shown == {i \in Fresh(db, k, page) : page.snapshots[i].state \notin EventState}
  IN IF shown = {} THEN db.head[k[1]]
     ELSE NewId(db, k, page, CHOOSE i \in shown : \A j \in shown : j <= i)

(* Mutant: the cursor is the page's, new entries or none.                  *)
IngestedRewinding(db, source, page) ==
  LET k == <<source, page.session>>
  IN [db EXCEPT !.rows[k] = @ \cup NewRows(db, k, page),
                !.cursor[k] = page.next,
                !.head[source] = NewHead(db, k, page),
                !.last_id = @ + Cardinality(Fresh(db, k, page))]

(* What an accepted page leaves behind.  A page that inserts nothing       *)
(* writes nothing, its cursor included.                                    *)
Ingested(db, source, page) ==
  LET k == <<source, page.session>>
  IN IF Fresh(db, k, page) = {} THEN db
     ELSE [rows    |-> [db.rows EXCEPT ![k] = @ \cup NewRows(db, k, page)],
           cursor  |-> [db.cursor EXCEPT ![k] = Larger(@, page.next)],
           gaps    |-> IF page.oldest > db.cursor[k]
                         THEN [db.gaps EXCEPT ![k] = @ \cup
                                 {[expected |-> db.cursor[k], oldest |-> page.oldest]}]
                         ELSE db.gaps,
           head    |-> [db.head EXCEPT ![source] = NewHead(db, k, page)],
           last_id |-> db.last_id + Cardinality(Fresh(db, k, page))]

(* Mutant: the page is filed under the session of the descriptor.          *)
IngestPageAsDescribed(db, source, session, page) ==
  LET filed == [page EXCEPT !.session = session,
                            !.snapshots = [i \in DOMAIN @ |-> [@[i] EXCEPT !.session = session]]]
  IN IF Acceptable(db, source, session, filed) THEN Ingested(db, source, filed) ELSE db

(* One page in its savepoint: a refused page leaves no trace.              *)
IngestPage(db, source, session, page) ==
  IF Acceptable(db, source, session, page) THEN Ingested(db, source, page) ELSE db

(* Mutant: a gap that starts at the requested cursor counts.               *)
HasGapsUpTo(db, k, next) == \E g \in db.gaps[k] : g.expected <= next

(* persisted_cursor: what /api/snapshots/ack answers for a request to      *)
(* confirm the stream up to `next'.                                        *)
HasGaps(db, k, next) == \E g \in db.gaps[k] : g.expected < next

Complete(db, k, next) == db.cursor[k] >= next /\ ~HasGaps(db, k, next)

===============================================================================

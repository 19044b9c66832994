----------------------------- MODULE SnapshotStore ----------------------------
(***************************************************************************)
(* SnapshotStore of rvx-engine: grouped transactions over snapshots.db,    *)
(* one savepoint per page.                                                 *)
(*                                                                         *)
(* Nothing is assumed of the pages: any page for any Source after any      *)
(* descriptor, stale, repeated, reordered or contradictory.  What the      *)
(* store promises, it promises whatever its callers and the producers do.  *)
(* The writer connection is one mutex, so there is one transaction at a    *)
(* time; other connections see `db', the last committed state.             *)
(***************************************************************************)
EXTENDS SnapshotDb

CONSTANTS
  Pages,     \* the pages that can arrive
  NoTx,      \* no transaction is open
  NoPage,    \* no page accepted yet
  MaxPages   \* MAX_BATCH_PAGES, pages per transaction

ASSUME StoreAssumption ==
  /\ Pages \subseteq Page
  /\ NoTx \notin Db
  /\ NoPage \notin Source \X Page
  /\ MaxPages \in Nat \ {0}

VARIABLES
  db,     \* the committed database
  tx,     \* the open transaction's view of it, or NoTx
  pages,  \* pages the open transaction has been given
  done    \* history: the Source and page the last accepted savepoint was for

vars == <<db, tx, pages, done>>

Init ==
  /\ db = EmptyDb
  /\ tx = NoTx
  /\ pages = 0
  /\ done = NoPage

Begin ==
  /\ tx = NoTx
  /\ tx' = db
  /\ pages' = 0
  /\ done' = NoPage
  /\ UNCHANGED db

Ingest(source, session, page) ==
  /\ tx # NoTx
  /\ pages < MaxPages
  /\ tx' = IngestPage(tx, source, session, page)
  /\ pages' = pages + 1
  /\ done' = IF Acceptable(tx, source, session, page) THEN <<source, page>> ELSE done
  /\ UNCHANGED db

Commit ==
  /\ tx # NoTx
  /\ db' = tx
  /\ tx' = NoTx
  /\ pages' = 0
  /\ done' = NoPage

(* A statement or the commit fails, or the process dies: the transaction   *)
(* is rolled back, its accepted pages too.                                 *)
Rollback ==
  /\ tx # NoTx
  /\ tx' = NoTx
  /\ pages' = 0
  /\ done' = NoPage
  /\ UNCHANGED db

Next ==
  \/ Begin
  \/ \E source \in Source, session \in Session, page \in Pages :
       Ingest(source, session, page)
  \/ Commit
  \/ Rollback

Spec == Init /\ [][Next]_vars

-------------------------------------------------------------------------------
(* The committed and the working database have the declared shape.         *)
TypeOK ==
  /\ db \in Db
  /\ tx \in Db \cup {NoTx}
  /\ pages \in Nat
  /\ done \in (Source \X Page) \cup {NoPage}
  /\ done # NoPage => tx # NoTx

(* No cursor passes anything that is neither stored nor recorded as lost.  *)
Covered(d) ==
  \A k \in Stream : \A n \in 0 .. d.cursor[k] - 1 :
    \/ IsStored(d, k, n)
    \/ \E g \in d.gaps[k] : g.expected <= n /\ n < g.oldest

(* Nothing is stored at or past the cursor, and a sequence is stored once. *)
RowsBehindCursor(d) ==
  \A k \in Stream :
    /\ \A r \in d.rows[k] : r.sequence < d.cursor[k]
    /\ \A r, q \in d.rows[k] : r.sequence = q.sequence => r = q

(* A recorded gap is a real loss: not empty, behind the cursor, and no     *)
(* stored entry lies inside it.                                            *)
GapsAreHoles(d) ==
  \A k \in Stream : \A g \in d.gaps[k] :
    /\ g.expected < g.oldest
    /\ g.oldest <= d.cursor[k]
    /\ \A r \in d.rows[k] : r.sequence < g.expected \/ r.sequence >= g.oldest

(* The cursor accounts for every sequence behind it, in the committed      *)
(* database and inside every open transaction: a producer's eviction can   *)
(* neither be skipped over silently nor be reported where nothing was      *)
(* lost, whatever pages arrive in whatever order.                          *)
CursorAccounts ==
  \A d \in {db, tx} \ {NoTx} : Covered(d) /\ RowsBehindCursor(d) /\ GapsAreHoles(d)

(* /api/snapshots/ack says complete exactly when every snapshot below the  *)
(* requested cursor is durably stored.                                     *)
AckIsExact ==
  \A k \in Stream, next \in 0 .. MaxSequence :
    Complete(db, k, next) <=> \A n \in 0 .. next - 1 : IsStored(db, k, n)

(* The observations stored for a Source, over all its sessions.            *)
Observations(d, s) ==
  UNION {{r \in d.rows[<<s, e>>] : r.state \notin EventState} : e \in Session}

HeadsAreNewest(d) ==
  \A s \in Source :
    IF Observations(d, s) = {} THEN d.head[s] = 0
    ELSE \E r \in Observations(d, s) :
           r.id = d.head[s] /\ \A q \in Observations(d, s) : q.id <= r.id

(* The head of a Source is its most recently inserted observation, over    *)
(* all its sessions: not an event, and not an older observation that a     *)
(* repeated page mentions again.                                           *)
HeadIsNewestObservation == HeadsAreNewest(db)

(* Committed history is only ever extended: no row changes or goes, no     *)
(* cursor moves back, and an acknowledgment once given stays true.         *)
HistoryOnlyGrows ==
  [][\A k \in Stream :
       /\ db.rows[k] \subseteq db'.rows[k]
       /\ db.cursor[k] <= db'.cursor[k]
       /\ \A next \in 0 .. MaxSequence :
            Complete(db, k, next) => Complete(db', k, next)]_db

(* A retry is harmless: a page that has just been accepted is accepted     *)
(* again and changes nothing, so a lost reply costs no duplicate.          *)
RetryIsIdempotent ==
  done # NoPage =>
    LET source == done[1]
        page   == done[2]
    IN /\ Acceptable(tx, source, page.session, page)
       /\ Ingested(tx, source, page) = tx

===============================================================================

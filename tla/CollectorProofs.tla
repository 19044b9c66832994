---------------------------- MODULE CollectorProofs ----------------------------
(***************************************************************************)
(* The collector's promises for any number of Sources, callers, pages and  *)
(* faults.                                                                 *)
(*                                                                         *)
(* The worker uses the store as SnapshotStore allows, so the store's own   *)
(* invariant, Proved!StoreInv, holds of the collector's databases: it is   *)
(* one part of the invariant here and needs no proof of its own.  The      *)
(* other parts are about the worker's place, the ownership of Sources, the *)
(* permits, the locals of the tasks, and what the pages under way are      *)
(* worth to the database they are meant for.                               *)
(***************************************************************************)
EXTENDS Collector, SequenceTheorems, FiniteSetTheorems, WellFoundedInduction, TLAPS

Proved ==
  INSTANCE SnapshotStoreProofs WITH
    Pages    <- ProducerPages,
    MaxPages <- MaxBatchPages,
    pages    <- PagesInTx,
    done     <- LastAccepted

(* All admitted pages, the one to be answered first in front.              *)
Line == batch \o deferred \o queue

Pendings == [task : Task, source : Source, session : Session, page : ProducerPages]

-------------------------------------------------------------------------------
(* The invariant, part by part.                                            *)

(* The worker's place says what it holds.                                  *)
WorkerInv ==
  /\ phase \in {"collect", "gather", "ingest", "metadata", "reply"}
  /\ {queue, deferred, batch} \subseteq Seq(Pendings) /\ results \in Seq(BOOLEAN)
  /\ Len(queue) <= MaxBatchPages /\ Len(batch) <= MaxBatchPages /\ Len(deferred) <= 1
  /\ phase = "collect" <=> batch = <<>>
  /\ phase \in {"collect", "gather"} => results = <<>>
  /\ phase = "gather" => deferred = <<>>
  /\ phase = "ingest" => Len(results) <= Len(batch)
  /\ phase \in {"metadata", "reply"} => Len(results) = Len(batch)
  /\ tx # NoTx <=> phase = "ingest"

(* Who owns a Source, and which page a caller waits for.                   *)
OwnerInv ==
  /\ pc \in [Task -> {"idle", "lock", "reply", "record"} \cup Holding]
  /\ owner \in [Source -> Task \cup {Free, Writer}]
  /\ \A s \in Source, t \in Task : owner[s] = t <=> (Target[t] = s /\ pc[t] \in Holding)
  /\ \A s \in Source : owner[s] = Writer <=> \E i \in DOMAIN Line : Line[i].source = s
  /\ \A i, j \in DOMAIN Line : Line[i].source = Line[j].source => i = j
  /\ \A i \in DOMAIN Line : Line[i].source = Target[Line[i].task]
  /\ \A t \in Task : pc[t] = "reply" => \E i \in DOMAIN Line : Line[i] = Pending(t)

(* The producers, and what a task knows at which place.                    *)
JobInv ==
  /\ live \in [Source -> Session]
  /\ window \in [Session -> [oldest : 0 .. MaxSequence, next : 0 .. MaxSequence,
                             sealed : BOOLEAN]]
  /\ \A e \in Session : window[e].oldest <= window[e].next
  /\ job \in [Task -> [session : Session \cup {NoSession}, cursor : Nat,
                       page : ProducerPages \cup {NoPage}, result : {"none", "ok", "failed"}]]
  /\ \A t \in Task :
       /\ pc[t] \in {"cursor", "history", "admit", "send", "reply"} => job[t].session \in Session
       /\ pc[t] \in {"admit", "send", "reply"} => job[t].page \in ProducerPages

(* The permits in use are those of the pages that hold some.               *)
Units(pages) == UNION {{p} \X (1 .. Bytes(p.page)) : p \in pages}

PermitInv ==
  /\ budget \in Nat
  /\ IsFiniteSet(Units(Holders))
  /\ budget + Cardinality(Units(Holders)) = QueuedBytes

(* A Run that has ended has ended its Sources.                             *)
RegistryInv ==
  /\ run \in RunStatus /\ state \in [Source -> SourceState]
  /\ descriptor \in [Source -> Session \cup {NoSession}]
  /\ run \in Terminal => \A s \in Source : state[s] \in {"ended", "lost"}

(* What the page says of its session was true when it was pulled, and a    *)
(* producer only moves on.                                                 *)
PageIsTrue(page, w) ==
  /\ page.next <= w[page.session].next
  /\ page.oldest <= w[page.session].oldest
  /\ \A i \in DOMAIN page.snapshots :
       /\ page.snapshots[i].sequence < w[page.session].next
       /\ page.snapshots[i].state = Content(page.session, page.snapshots[i].sequence)

DbIsTrue(d, w) ==
  \A s \in Source, e \in Session :
    LET k == <<s, e>>
    IN /\ \A r \in d.rows[k] : r.sequence < w[e].next /\ r.state = Content(e, r.sequence)
       /\ \A g \in d.gaps[k] : g.oldest <= w[e].oldest
       /\ d.cursor[k] <= w[e].next

TruthInv ==
  /\ DbIsTrue(db, window) /\ (tx # NoTx => DbIsTrue(tx, window))
  /\ \A t \in Task : pc[t] \in {"admit", "send", "reply"} => PageIsTrue(job[t].page, window)
  /\ \A i \in DOMAIN Line : PageIsTrue(Line[i].page, window)

(* What the writer sees.                                                   *)
View == IF tx = NoTx THEN db ELSE tx

Takes(d, p) ==
  (p.session = p.page.session /\ p.page.snapshots # <<>>) =>
    Acceptable(d, p.source, p.session, p.page)

(* Pages of the line that are not in the writer's view yet.                *)
Waiting(i) ==
  i \in DOMAIN Line /\ (i > Len(batch) \/ (phase \in {"gather", "ingest"} /\ i > Len(results)))

(* The page a task has pulled was made for the cursor its stream still     *)
(* has, and the transaction touches no Source but those of its pages.      *)
TakenInv ==
  /\ \A s \in Source : tx # NoTx /\ (\A i \in DOMAIN results : batch[i].source # s) =>
       \A e \in Session : tx.rows[<<s, e>>] = db.rows[<<s, e>>]
                          /\ tx.cursor[<<s, e>>] = db.cursor[<<s, e>>]
  /\ \A t \in Task :
       /\ pc[t] = "history" => job[t].cursor = db.cursor[<<Target[t], job[t].session>>]
       /\ pc[t] \in {"admit", "send"} => Takes(db, Pending(t))
  /\ \A i \in DOMAIN Line : Waiting(i) => Takes(View, Line[i])

(* An accepted page is in the writer's view for good, and recorded once    *)
(* its answer is due.                                                      *)
Durable(d, p) ==
  /\ p.session = p.page.session
  /\ \A i \in DOMAIN p.page.snapshots :
       IsStored(d, <<p.source, p.session>>, p.page.snapshots[i].sequence)
  /\ p.page.next <= d.cursor[<<p.source, p.session>>]

DurableInv ==
  \A i \in Accepted : /\ Durable(View, batch[i])
                      /\ phase = "reply" => descriptor[batch[i].source] = batch[i].session

CollectorInv ==
  /\ Proved!StoreInv
  /\ WorkerInv /\ OwnerInv /\ JobInv /\ PermitInv /\ RegistryInv
  /\ TruthInv /\ TakenInv /\ DurableInv

-------------------------------------------------------------------------------
(* The pages that a producer answers with.                                 *)

(* What a sequence of a type has.                                          *)
LEMMA SeqTypes ==
  ASSUME NEW T, NEW s \in Seq(T)
  PROVE  /\ Len(s) \in Nat /\ DOMAIN s = 1 .. Len(s)
         /\ \A i \in 1 .. Len(s) : s[i] \in T
         /\ s = <<>> <=> Len(s) = 0
         /\ s # <<>> => Head(s) = s[1]
OBVIOUS

(* A function on an initial segment of the naturals is a sequence.         *)
LEMMA FunctionIsSeq ==
  ASSUME NEW n \in Nat, NEW T, NEW f \in [1 .. n -> T]
  PROVE  f \in Seq(T) /\ Len(f) = n /\ DOMAIN f = 1 .. n
OBVIOUS

(* The shape of the page for any window and any cursor within it.          *)
LEMMA PageShape ==
  ASSUME NEW e \in Session, NEW w, NEW after \in Nat,
         w.oldest \in 0 .. MaxSequence, w.next \in 0 .. MaxSequence,
         w.oldest <= w.next, after <= w.next
  PROVE  LET page  == PageOf(e, w, after)
             start == Larger(after, w.oldest)
         IN /\ page \in Page /\ page.session = e /\ page.oldest = w.oldest
            /\ page.dropped = IF after < w.oldest THEN w.oldest ELSE NotDropped
            /\ Len(page.snapshots) \in Nat /\ Len(page.snapshots) <= PageLimit
            /\ DOMAIN page.snapshots = 1 .. Len(page.snapshots)
            /\ page.next = start + Len(page.snapshots) /\ page.next <= w.next
            /\ \A i \in 1 .. Len(page.snapshots) :
                 /\ page.snapshots[i].session = e
                 /\ page.snapshots[i].sequence = start + i - 1
                 /\ page.snapshots[i].state = Content(e, start + i - 1)
<1> DEFINE o == w.oldest
           retained == [i \in 1 .. w.next - o |->
                          [sequence |-> o + i - 1, state |-> Content(e, o + i - 1)]]
           Entries == {[sequence |-> n, state |-> Content(e, n)] : n \in o .. w.next - 1}
           R == Len(retained)
           skipped == IF after > o THEN after - o ELSE 0
           left == R - skipped
           m == IF left < PullLimit THEN left ELSE PullLimit
           selected == SubSeq(retained, skipped + 1, skipped + m)
           page == PageOf(e, w, after)
           start == Larger(after, o)
<1>0. /\ o \in Nat /\ w.next \in Nat /\ w.next - o \in Nat /\ w.next <= MaxSequence
      /\ PullLimit \in Nat \ {0} /\ PullLimit <= PageLimit /\ PageLimit \in Nat /\ MaxSequence \in Nat
  BY ProtocolAssumption, CollectorAssumption
<1>2. retained \in Seq(Entries) /\ Len(retained) = w.next - o
  <2>1. \A i \in 1 .. w.next - o : o + i - 1 \in o .. w.next - 1
    BY <1>0
  <2>2. retained \in [1 .. w.next - o -> Entries]
    BY <2>1
  <2> HIDE DEF retained, Entries
  <2> QED BY <1>0, <2>2, FunctionIsSeq
<1>1. R \in Nat /\ o + R = w.next
  BY <1>0, <1>2
<1>3. \A i \in 1 .. R : retained[i] = [sequence |-> o + i - 1, state |-> Content(e, o + i - 1)]
  BY <1>2
<1>4. page = HistoryPage(e, retained, o, after, PullLimit)
  BY DEF PageOf
<1> HIDE DEF retained, Entries
<1>5. /\ skipped \in Nat /\ skipped <= R /\ m \in Nat /\ m <= PullLimit
      /\ skipped + m <= R /\ (m = 0 => skipped = R)
      /\ o + skipped = start /\ start \in Nat
  <2>1. skipped \in Nat /\ skipped <= R /\ o + skipped = start
    BY <1>0, <1>1, SMTT(30) DEF Larger
  <2> HIDE DEF skipped, start, o
  <2>2. left \in Nat /\ skipped + left = R
    BY <1>0, <1>1, <2>1
  <2> HIDE DEF left
  <2>3. m \in Nat /\ m <= PullLimit /\ m <= left /\ (m = 0 => left = 0)
    BY <1>0, <1>1, <2>2
  <2> HIDE DEF m
  <2> QED BY <1>0, <1>1, <2>1, <2>2, <2>3, SMTT(30)
<1>6. /\ page.session = e /\ page.oldest = o
      /\ page.next = IF selected = <<>> THEN start ELSE selected[Len(selected)].sequence + 1
      /\ page.dropped = IF after < o THEN o ELSE NotDropped
      /\ page.snapshots = [i \in DOMAIN selected |->
                             [session  |-> e,
                              sequence |-> selected[i].sequence,
                              state    |-> selected[i].state]]
      /\ page = [session |-> page.session, oldest |-> page.oldest, next |-> page.next,
                 dropped |-> page.dropped, snapshots |-> page.snapshots]
  <2>1. page = [session   |-> e,
                oldest    |-> o,
                next      |-> IF selected = <<>> THEN start
                              ELSE selected[Len(selected)].sequence + 1,
                dropped   |-> IF after < o THEN o ELSE NotDropped,
                snapshots |-> [i \in DOMAIN selected |->
                                 [session  |-> e,
                                  sequence |-> selected[i].sequence,
                                  state    |-> selected[i].state]]]
    BY <1>4 DEF HistoryPage
  <2> HIDE DEF page, selected, start, o
  <2> QED BY <2>1
<1> HIDE DEF skipped, m, page, start, o
<1>7. /\ selected \in Seq(Entries) /\ Len(selected) = m
      /\ \A i \in 1 .. m : selected[i] = retained[skipped + i]
  <2> DEFINE u == skipped + 1
             v == skipped + m
  <2>1. u \in 1 .. R + 1 /\ v \in u - 1 .. R /\ u \in Int /\ v \in Int
    BY <1>0, <1>1, <1>5
  <2>2. v - u + 1 = m /\ \A i \in 1 .. m : u + i - 1 = skipped + i
    BY <1>5
  <2>3. \A i \in 1 .. R : retained[i] \in Entries
    BY <1>2, SeqTypes
  <2> HIDE DEF u, v
  <2>4. \A i \in u .. v : retained[i] \in Entries
    BY <2>1, <2>3, <1>0, <1>1
  <2>5. /\ SubSeq(retained, u, v) \in Seq(Entries)
        /\ Len(SubSeq(retained, u, v)) = v - u + 1
        /\ \A i \in 1 .. v - u + 1 : SubSeq(retained, u, v)[i] = retained[u + i - 1]
    <3>1. /\ SubSeq(retained, u, v) \in Seq(Entries)
          /\ Len(SubSeq(retained, u, v)) = IF u <= v THEN v - u + 1 ELSE 0
          /\ \A i \in 1 .. v - u + 1 : SubSeq(retained, u, v)[i] = retained[u + i - 1]
      BY <2>1, <2>4, SubSeqProperties
    <3> QED BY <2>1, <1>0, <1>1, <3>1
  <2> QED BY <2>2, <2>5 DEF u, v
<1>8. DOMAIN selected = 1 .. m /\ (selected = <<>> <=> m = 0)
  BY <1>7, SeqTypes
<1>9. \A i \in 1 .. m : selected[i] = [sequence |-> start + i - 1, state |-> Content(e, start + i - 1)]
  <2> TAKE i \in 1 .. m
  <2>1. skipped + i \in 1 .. R /\ o + (skipped + i) - 1 = start + i - 1
    BY <1>0, <1>1, <1>5
  <2> QED BY <2>1, <1>3, <1>7
<1> HIDE DEF selected
<1>10. ASSUME NEW i \in 1 .. m
       PROVE  /\ selected[i].sequence = start + i - 1
              /\ selected[i].state = Content(e, start + i - 1)
  <2>1. selected[i] = [sequence |-> start + i - 1, state |-> Content(e, start + i - 1)]
    BY <1>9
  <2> QED BY <2>1
<1>11. \A i \in 1 .. m : start + i - 1 \in 0 .. MaxSequence
  BY <1>0, <1>1, <1>5
<1>12. \A n \in 0 .. MaxSequence : Content(e, n) \in State
  BY CollectorAssumption
<1>13. page.snapshots \in [1 .. m -> Snapshot]
  <2>1. ASSUME NEW i \in 1 .. m
        PROVE  [session |-> e, sequence |-> selected[i].sequence, state |-> selected[i].state]
                 \in Snapshot
    <3>1. selected[i].sequence \in Nat /\ selected[i].state \in State
      BY <1>10, <1>11, <1>12, <1>0, <1>1
    <3> QED BY <3>1 DEF Snapshot
  <2> QED BY <2>1, <1>6, <1>8
<1>14. page.snapshots \in Seq(Snapshot) /\ Len(page.snapshots) = m
       /\ DOMAIN page.snapshots = 1 .. m
  BY <1>5, <1>13, FunctionIsSeq
<1>15. \A i \in 1 .. m : /\ page.snapshots[i].session = e
                         /\ page.snapshots[i].sequence = start + i - 1
                         /\ page.snapshots[i].state = Content(e, start + i - 1)
  BY <1>6, <1>8, <1>10
<1>16. page.next = start + m
  <2>1. CASE m = 0
    BY <2>1, <1>5, <1>6, <1>8
  <2>2. CASE m # 0
    <3>1. m \in 1 .. m /\ page.next = selected[m].sequence + 1
      BY <2>2, <1>5, <1>6, <1>7, <1>8
    <3> QED BY <3>1, <1>5, <1>10
  <2> QED BY <2>1, <2>2
<1>17. page.next \in Nat /\ page.next <= w.next
  BY <1>0, <1>1, <1>5, <1>16
<1>18. page \in Page
  <2>1. page.dropped \in Nat \cup {NotDropped}
    BY <1>0, <1>1, <1>6
  <2> QED BY <1>0, <1>1, <1>6, <1>14, <1>17, <2>1 DEF Page
<1>19. m <= PageLimit
  BY <1>0, <1>1, <1>5
<1> QED BY <1>5, <1>6, <1>14, <1>15, <1>16, <1>17, <1>18, <1>19 DEF o, start, page

(* What is pulled from a producer at a cursor it knows is one of its pages.*)
LEMMA PulledIsProducerPage ==
  ASSUME NEW e \in Session, NEW w, NEW after \in Nat,
         w.oldest \in 0 .. MaxSequence, w.next \in 0 .. MaxSequence,
         w.oldest <= w.next, after <= w.next
  PROVE  PageOf(e, w, after) \in ProducerPages
<1> DEFINE y == <<w.oldest, w.next, after>>
           Cases == {z \in (0 .. MaxSequence) \X (0 .. MaxSequence) \X (0 .. MaxSequence) :
                       z[1] <= z[2] /\ z[3] <= z[2]}
           page(f, z) == PageOf(f, [oldest |-> z[1], next |-> z[2]], z[3])
<1>1. after \in 0 .. MaxSequence
  BY ProtocolAssumption
<1>2. y \in Cases
  BY <1>1
<1>3. PageOf(e, w, after) = page(e, y)
  BY DEF PageOf
<1>4. ProducerPages = UNION {{page(f, z) : z \in Cases} : f \in Session}
  BY DEF ProducerPages
<1> HIDE DEF page, Cases, y
<1> QED BY <1>2, <1>3, <1>4

(* Every such page is a page of the protocol.                              *)
LEMMA ProducerPagesArePages == ProducerPages \subseteq Page
<1> DEFINE Cases == {z \in (0 .. MaxSequence) \X (0 .. MaxSequence) \X (0 .. MaxSequence) :
                       z[1] <= z[2] /\ z[3] <= z[2]}
           w(z) == [oldest |-> z[1], next |-> z[2]]
<1>1. ASSUME NEW f \in Session, NEW z \in Cases PROVE PageOf(f, w(z), z[3]) \in Page
  <2>1. /\ w(z).oldest \in 0 .. MaxSequence /\ w(z).next \in 0 .. MaxSequence
        /\ w(z).oldest <= w(z).next /\ z[3] \in Nat /\ z[3] <= w(z).next
    BY ProtocolAssumption
  <2> HIDE DEF w
  <2> QED BY <2>1, PageShape
<1>2. ProducerPages = UNION {{PageOf(f, w(z), z[3]) : z \in Cases} : f \in Session}
  BY DEF ProducerPages
<1> HIDE DEF w, Cases
<1> QED BY <1>1, <1>2

-------------------------------------------------------------------------------
(* The store as the collector uses it.                                     *)

(* The collector meets what the store assumes.                             *)
LEMMA StoreReady ==
  /\ ProducerPages \subseteq Page /\ NoTx \notin Db /\ NoPage \notin Source \X Page
  /\ MaxBatchPages \in Nat \ {0}
BY ProducerPagesArePages, CollectorAssumption

(* The proofs of the store speak of the same database.                     *)
LEMMA SameStore ==
  /\ Proved!Db = Db /\ Proved!Page = Page /\ Proved!Stream = Stream
  /\ Proved!EmptyDb = EmptyDb
  /\ \A d, source, page : Proved!Ingested(d, source, page) = Ingested(d, source, page)
  /\ \A d, source, session, page :
       Proved!Acceptable(d, source, session, page) <=> Acceptable(d, source, session, page)
<1>1. Proved!Stream = Stream /\ Proved!Row = Row /\ Proved!Gap = Gap
  BY DEF Proved!Stream, Stream, Proved!Row, Row, Proved!Gap, Gap
<1>2. Proved!Db = Db /\ Proved!EmptyDb = EmptyDb
  BY <1>1 DEF Proved!Db, Db, Proved!EmptyDb, EmptyDb
<1>3. Proved!Page = Page
  BY DEF Proved!Page, Page, Proved!Snapshot, Snapshot
<1>4. ASSUME NEW d, NEW source, NEW page
      PROVE  Proved!Ingested(d, source, page) = Ingested(d, source, page)
  BY DEF Proved!Ingested, Ingested, Proved!Fresh, Fresh, Proved!NewRows, NewRows,
         Proved!NewHead, NewHead, Proved!NewId, NewId, Proved!Larger, Larger,
         Proved!IsStored, IsStored, Proved!Cardinality, Cardinality
<1>5. ASSUME NEW d, NEW source, NEW session, NEW page
      PROVE  Proved!Acceptable(d, source, session, page) <=> Acceptable(d, source, session, page)
  BY DEF Proved!Acceptable, Acceptable, Proved!ValidPage, ValidPage, Proved!Continues, Continues,
         Proved!Unseen, Unseen, Proved!Agrees, Agrees, Proved!Larger, Larger,
         Proved!IsStored, IsStored
<1> QED BY <1>1, <1>2, <1>3, <1>4, <1>5

(* What the store's invariant says of the two databases.                   *)
LEMMA StoreFacts ==
  ASSUME Proved!StoreInv
  PROVE  /\ db \in Db /\ (tx # NoTx => tx \in Db)
         /\ \A k \in Stream : \A r \in db.rows[k] : r.sequence < db.cursor[k]
         /\ tx # NoTx => \A k \in Stream : \A r \in tx.rows[k] : r.sequence < tx.cursor[k]
BY SameStore DEF Proved!StoreInv, Proved!TypeOK, Proved!Sound, Proved!Accounts,
                 Proved!RowsBehindCursor

(* Ingesting a page adds to its own stream and leaves the others alone.    *)
LEMMA IngestIsLocal ==
  ASSUME NEW d \in Db, NEW source \in Source, NEW page \in Page
  PROVE  LET n == Ingested(d, source, page)
         IN /\ n \in Db
            /\ \A k \in Stream : d.rows[k] \subseteq n.rows[k] /\ d.cursor[k] <= n.cursor[k]
            /\ \A k \in Stream : k[1] # source => n.rows[k] = d.rows[k] /\ n.cursor[k] = d.cursor[k]
<1> DEFINE n == Ingested(d, source, page)
           j == <<source, page.session>>
<1>1. n \in Db
  BY ProtocolAssumption, StoreReady, SameStore, Proved!IngestType
<1>2. \A k \in Stream : d.rows[k] \subseteq n.rows[k] /\ d.cursor[k] <= n.cursor[k]
  <2>1. Proved!Grows(d, n)
    BY ProtocolAssumption, StoreReady, SameStore, Proved!IngestGrows
  <2> QED BY <2>1, SameStore DEF Proved!Grows
<1>3. ASSUME NEW k \in Stream, k[1] # source
      PROVE  n.rows[k] = d.rows[k] /\ n.cursor[k] = d.cursor[k]
  <2>1. k # j
    BY <1>3
  <2>2. d.rows \in [Stream -> SUBSET Row] /\ d.cursor \in [Stream -> Nat]
    BY DEF Db
  <2>3. \/ n.rows = d.rows /\ n.cursor = d.cursor
        \/ /\ n.rows = [d.rows EXCEPT ![j] = @ \cup NewRows(d, j, page)]
           /\ n.cursor = [d.cursor EXCEPT ![j] = Larger(@, page.next)]
    BY DEF Ingested
  <2> HIDE DEF n, j
  <2> QED BY <2>1, <2>2, <2>3
<1> QED BY <1>1, <1>2, <1>3

-------------------------------------------------------------------------------
(* The worker's line.                                                      *)

(* Three sequences in a row.                                               *)
LEMMA ThreeInARow ==
  ASSUME NEW T, NEW a \in Seq(T), NEW b \in Seq(T), NEW c \in Seq(T)
  PROVE  /\ a \o b \o c \in Seq(T)
         /\ Len(a \o b \o c) = Len(a) + Len(b) + Len(c)
         /\ Len(a) \in Nat /\ Len(b) \in Nat /\ Len(c) \in Nat
         /\ \A i \in 1 .. Len(a) : (a \o b \o c)[i] = a[i]
         /\ \A i \in Len(a) + 1 .. Len(a) + Len(b) : (a \o b \o c)[i] = b[i - Len(a)]
         /\ \A i \in Len(a) + Len(b) + 1 .. Len(a) + Len(b) + Len(c) :
              (a \o b \o c)[i] = c[i - (Len(a) + Len(b))]
<1> DEFINE ab == a \o b
           A == Len(a)
           B == Len(b)
           C == Len(c)
<1>1. A \in Nat /\ B \in Nat /\ C \in Nat
  OBVIOUS
<1>2. /\ ab \in Seq(T) /\ Len(ab) = A + B
      /\ \A i \in 1 .. A + B : ab[i] = IF i <= A THEN a[i] ELSE b[i - A]
  BY ConcatProperties
<1> HIDE DEF ab
<1>3. /\ ab \o c \in Seq(T) /\ Len(ab \o c) = Len(ab) + C
      /\ \A i \in 1 .. Len(ab) + C : (ab \o c)[i] = IF i <= Len(ab) THEN ab[i] ELSE c[i - Len(ab)]
  <2>1. ab \in Seq(T)
    BY <1>2
  <2> QED BY <2>1, ConcatProperties
<1> DEFINE abc == ab \o c
<1> HIDE DEF abc, A, B, C
<1>4. /\ Len(abc) = A + B + C
      /\ \A i \in 1 .. A + B + C : abc[i] = IF i <= A + B THEN ab[i] ELSE c[i - (A + B)]
  BY <1>1, <1>2, <1>3 DEF abc
<1>5. \A i \in 1 .. A : abc[i] = a[i]
  BY <1>1, <1>2, <1>4
<1>6. \A i \in A + 1 .. A + B : abc[i] = b[i - A]
  BY <1>1, <1>2, <1>4
<1>7. \A i \in A + B + 1 .. A + B + C : abc[i] = c[i - (A + B)]
  BY <1>1, <1>4
<1> QED BY <1>1, <1>3, <1>4, <1>5, <1>6, <1>7 DEF ab, abc, A, B, C

(* One in front of a sequence.                                             *)
LEMMA InFront ==
  ASSUME NEW T, NEW h \in T, NEW s \in Seq(T)
  PROVE  /\ <<h>> \o s # <<>> /\ Head(<<h>> \o s) = h /\ Tail(<<h>> \o s) = s
<1> DEFINE hs == <<h>> \o s
<1>1. <<h>> \in Seq(T) /\ Len(<<h>>) = 1 /\ <<h>>[1] = h /\ Len(s) \in Nat
  OBVIOUS
<1>2. /\ hs \in Seq(T) /\ Len(hs) = 1 + Len(s)
      /\ \A i \in 1 .. 1 + Len(s) : hs[i] = IF i <= 1 THEN <<h>>[i] ELSE s[i - 1]
  BY <1>1, ConcatProperties
<1> HIDE DEF hs
<1>3. hs # <<>> /\ Head(hs) = hs[1] /\ hs[1] = h
  BY <1>1, <1>2, SeqTypes
<1>4. /\ Tail(hs) \in Seq(T) /\ Len(Tail(hs)) = Len(hs) - 1
      /\ \A i \in 1 .. Len(Tail(hs)) : Tail(hs)[i] = hs[i + 1]
  BY <1>2, <1>3, HeadTailProperties
<1>5. Len(Tail(hs)) = Len(s)
  BY <1>1, <1>2, <1>4
<1>6. ASSUME NEW i \in 1 .. Len(s) PROVE Tail(hs)[i] = s[i]
  <2>1. i + 1 \in 1 .. 1 + Len(s) /\ ~(i + 1 <= 1) /\ (i + 1) - 1 = i
    BY <1>1
  <2> QED BY <1>2, <1>4, <1>5, <2>1
<1>7. Tail(hs) = s
  BY <1>4, <1>5, <1>6, SeqEqual
<1> QED BY <1>3, <1>7 DEF hs

(* Every sequence is one in front of the rest.                             *)
LEMMA HeadInFront ==
  ASSUME NEW T, NEW s \in Seq(T), s # <<>>
  PROVE  Head(s) \in T /\ Tail(s) \in Seq(T) /\ s = <<Head(s)>> \o Tail(s)
<1>1. 1 \in 1 .. Len(s) /\ Len(s) \in 1 .. Len(s) /\ Head(s) = s[1]
  BY SeqTypes
<1>2. SubSeq(s, 1, Len(s)) = <<s[1]>> \o SubSeq(s, 1 + 1, Len(s))
  BY <1>1, SubSeqRecursiveFirst
<1>3. SubSeq(s, 1, Len(s)) = s /\ Tail(s) = SubSeq(s, 2, Len(s))
  BY SubSeqFull, TailIsSubSeq
<1>4. Head(s) \in T /\ Tail(s) \in Seq(T)
  BY HeadTailProperties
<1> QED BY <1>1, <1>2, <1>3, <1>4

(* The first of the third moves to the end of the first, or alone into the *)
(* middle.                                                                 *)
LEMMA TakeFromThird ==
  ASSUME NEW T, NEW a \in Seq(T), NEW c \in Seq(T), c # <<>>
  PROVE  /\ Append(a, Head(c)) \o <<>> \o Tail(c) = a \o <<>> \o c
         /\ a \o <<Head(c)>> \o Tail(c) = a \o <<>> \o c
<1> DEFINE h == <<Head(c)>>
           t == Tail(c)
<1>1. h \in Seq(T) /\ t \in Seq(T) /\ c = h \o t /\ Append(a, Head(c)) = a \o h
  BY HeadInFront, AppendIsConcat
<1> HIDE DEF h, t
<1>2. (a \o h) \o <<>> = a \o h /\ a \o <<>> = a
  <2>1. a \o h \in Seq(T)
    BY <1>1, ConcatProperties
  <2> QED BY <2>1, ConcatEmptySeq
<1>3. (a \o h) \o t = a \o c
  <2>1. (a \o h) \o t = a \o (h \o t)
    BY <1>1, ConcatAssociative
  <2> QED BY <1>1, <2>1
<1> QED BY <1>1, <1>2, <1>3 DEF h, t

(* The first of the first goes.                                            *)
LEMMA TailOfRow ==
  ASSUME NEW T, NEW a \in Seq(T), NEW b \in Seq(T), NEW c \in Seq(T), a # <<>>
  PROVE  /\ Tail(a) \o b \o c = Tail(a \o b \o c)
         /\ a \o b \o c # <<>> /\ Head(a) = Head(a \o b \o c)
<1>1. /\ <<Head(a)>> \in Seq(T) /\ Head(a) \in T /\ Tail(a) \in Seq(T)
      /\ a = <<Head(a)>> \o Tail(a)
  BY HeadInFront
<1>2. PICK h \in Seq(T) : h = <<Head(a)>>
  BY <1>1
<1>3. PICK t \in Seq(T) : t = Tail(a)
  BY <1>1
<1>4. (h \o t) \o b = h \o (t \o b)
  BY ONLY h \in Seq(T), t \in Seq(T), b \in Seq(T), ConcatAssociative, SMTT(30)
<1>5. PICK tb \in Seq(T) : tb = t \o b
  BY ConcatProperties
<1>6. (h \o tb) \o c = h \o (tb \o c)
  BY ConcatAssociative, SMTT(30)
<1>7. PICK tbc \in Seq(T) : tbc = tb \o c
  BY ConcatProperties
<1>8. h \o tbc # <<>> /\ Head(h \o tbc) = Head(a) /\ Tail(h \o tbc) = tbc
  BY <1>1, <1>2, InFront
<1> QED BY <1>1, <1>2, <1>3, <1>4, <1>5, <1>6, <1>7, <1>8

(* The third grows, and so does the row.                                   *)
LEMMA AppendToRow ==
  ASSUME NEW T, NEW a \in Seq(T), NEW b \in Seq(T), NEW c \in Seq(T), NEW x \in T
  PROVE  a \o b \o Append(c, x) = Append(a \o b \o c, x)
<1>1. a \o b \in Seq(T) /\ <<x>> \in Seq(T) /\ a \o b \o c \in Seq(T)
  BY ConcatProperties
<1>2. Append(c, x) = c \o <<x>> /\ Append(a \o b \o c, x) = (a \o b \o c) \o <<x>>
  BY <1>1, AppendIsConcat
<1> QED BY <1>1, <1>2, ConcatAssociative
-------------------------------------------------------------------------------
(* The steps, sorted by what they can touch.                               *)

(* What a task does while it owns nothing of the worker's.                 *)
Ask(t) ==
  \/ Start(t) \/ AcquireOwner(t) \/ CheckSource(t) \/ PullDescriptor(t) \/ ReadCursor(t)
  \/ PullHistory(t) \/ AcquireBudget(t) \/ RecordFailure(t) \/ PullFails(t) \/ Cancel(t)

(* The worker's own steps, short of an answer.                             *)
Works ==
  \/ TakeFirst \/ Gather \/ BeginWrite \/ IngestNext
  \/ CommitSnapshots \/ SnapshotsFail \/ UpdateMetadata \/ MetadataFails

(* Every step is of one of these kinds.                                    *)
LEMMA StepKinds ==
  ASSUME [Next]_vars
  PROVE  \/ UNCHANGED vars
         \/ Produce \/ Control
         \/ \E t \in Task : Ask(t)
         \/ \E t \in Task : Send(t)
         \/ TakeFirst \/ Gather \/ BeginWrite
         \/ IngestNext \/ CommitSnapshots \/ SnapshotsFail
         \/ UpdateMetadata \/ MetadataFails
         \/ Reply
         \/ Crash
BY DEF Next, Scrape, Write, Fault, Ask

(* Producers touch only their windows and who answers.                     *)
LEMMA ProduceIsLocal ==
  ASSUME Produce
  PROVE  UNCHANGED <<registry, db, tx, tasks, queue, worker, faults>>
BY DEF Produce, Capture, Release, Restart

(* Lifecycle calls touch only the registry.                                *)
LEMMA ControlIsLocal ==
  ASSUME Control
  PROVE  UNCHANGED <<producers, descriptor, db, tx, tasks, queue, worker, faults>>
BY DEF Control, StopSource, UpdateRun

(* A task that asks touches neither the databases nor the worker.          *)
LEMMA AskIsLocal ==
  ASSUME NEW t \in Task, Ask(t)
  PROVE  UNCHANGED <<producers, run, descriptor, db, tx, queue, worker>>
<1>1. CASE Start(t) \/ AcquireOwner(t)
  BY <1>1 DEF Start, AcquireOwner, registry
<1>2. CASE CheckSource(t) \/ PullDescriptor(t)
  BY <1>2 DEF CheckSource, PullDescriptor, registry
<1>3. CASE ReadCursor(t) \/ PullHistory(t)
  BY <1>3 DEF ReadCursor, PullHistory, registry
<1>4. CASE AcquireBudget(t) \/ RecordFailure(t)
  BY <1>4 DEF AcquireBudget, RecordFailure, registry
<1>5. CASE PullFails(t) \/ Cancel(t)
  BY <1>5 DEF PullFails, Cancel, registry
<1> QED BY <1>1, <1>2, <1>3, <1>4, <1>5 DEF Ask

(* The steps that leave the worker and its transaction alone.              *)
LEMMA WorkerAlone ==
  ASSUME \/ UNCHANGED vars \/ Produce \/ Control \/ \E t \in Task : Ask(t)
  PROVE  UNCHANGED <<db, tx, queue, deferred, batch, results, phase>>
<1>1. CASE UNCHANGED vars
  BY <1>1 DEF vars, worker
<1>2. CASE Produce
  BY <1>2, ProduceIsLocal DEF worker
<1>3. CASE Control
  BY <1>3, ControlIsLocal DEF worker
<1>4. ASSUME NEW t \in Task, Ask(t)
      PROVE  UNCHANGED <<db, tx, queue, deferred, batch, results, phase>>
  BY <1>4, AskIsLocal DEF worker
<1> QED BY <1>1, <1>2, <1>3, <1>4

-------------------------------------------------------------------------------
(* The worker.                                                             *)

(* What the worker's invariant says of the sequences.                      *)
LEMMA WorkerTypes ==
  ASSUME WorkerInv
  PROVE  /\ queue \in Seq(Pendings) /\ deferred \in Seq(Pendings) /\ batch \in Seq(Pendings)
         /\ results \in Seq(BOOLEAN) /\ Line \in Seq(Pendings)
         /\ Len(queue) \in Nat /\ Len(deferred) \in Nat /\ Len(batch) \in Nat
         /\ Len(results) \in Nat
         /\ Len(Line) = Len(batch) + Len(deferred) + Len(queue)
         /\ DOMAIN Line = 1 .. Len(Line)
         /\ DOMAIN batch = 1 .. Len(batch) /\ DOMAIN results = 1 .. Len(results)
         /\ \A i \in 1 .. Len(batch) : Line[i] = batch[i] /\ i \in 1 .. Len(Line)
         /\ \A i \in 1 .. Len(Line) : Line[i] \in Pendings
<1>1. /\ queue \in Seq(Pendings) /\ deferred \in Seq(Pendings) /\ batch \in Seq(Pendings)
      /\ results \in Seq(BOOLEAN)
  BY DEF WorkerInv
<1>2. /\ Line \in Seq(Pendings) /\ Len(Line) = Len(batch) + Len(deferred) + Len(queue)
      /\ Len(queue) \in Nat /\ Len(deferred) \in Nat /\ Len(batch) \in Nat
      /\ \A i \in 1 .. Len(batch) : Line[i] = batch[i]
  BY <1>1, ThreeInARow DEF Line
<1>3. DOMAIN Line = 1 .. Len(Line) /\ \A i \in 1 .. Len(Line) : Line[i] \in Pendings
  BY <1>2, SeqTypes
<1>4. DOMAIN batch = 1 .. Len(batch)
  BY <1>1, SeqTypes
<1>5. Len(results) \in Nat /\ DOMAIN results = 1 .. Len(results)
  BY <1>1, SeqTypes
<1>6. \A i \in 1 .. Len(batch) : i \in 1 .. Len(Line)
  BY <1>2
<1> QED BY <1>1, <1>2, <1>3, <1>4, <1>5, <1>6

(* What is handed over is a page of a producer, pulled for its Source.     *)
LEMMA PendingType ==
  ASSUME JobInv, NEW t \in Task, pc[t] \in {"admit", "send", "reply"}
  PROVE  Pending(t) \in Pendings
BY CollectorAssumption DEF JobInv, Pending, Pendings

(* The worker's own steps move pages along the line and leave the tasks    *)
(* alone.                                                                  *)
LEMMA LineStays ==
  ASSUME WorkerInv, Works
  PROVE  Line' = Line /\ UNCHANGED <<producers, tasks>>
<1>0. /\ queue \in Seq(Pendings) /\ deferred \in Seq(Pendings) /\ batch \in Seq(Pendings)
  BY WorkerTypes
<1>1. UNCHANGED <<producers, tasks>>
  <2>1. CASE TakeFirst \/ Gather \/ BeginWrite \/ IngestNext
    BY <2>1 DEF TakeFirst, Gather, BeginWrite, IngestNext
  <2>2. CASE CommitSnapshots \/ SnapshotsFail \/ UpdateMetadata \/ MetadataFails
    BY <2>2 DEF CommitSnapshots, SnapshotsFail, UpdateMetadata, MetadataFails
  <2> QED BY <2>1, <2>2 DEF Works
<1>2. Line' = Line
  <2>1. CASE UNCHANGED <<batch, deferred, queue>>
    BY <2>1 DEF Line
  <2>3. CASE TakeFirst
    <3>1. batch = <<>>
      BY <2>3 DEF TakeFirst, WorkerInv
    <3>2. CASE deferred # <<>>
      <4>1. batch' = deferred /\ deferred' = <<>> /\ queue' = queue
        BY <2>3, <3>2 DEF TakeFirst
      <4>2. deferred \o <<>> = deferred /\ <<>> \o deferred = deferred
        BY <1>0, ConcatEmptySeq
      <4> QED BY <3>1, <4>1, <4>2 DEF Line
    <3>3. CASE deferred = <<>>
      <4>1. batch' = <<Head(queue)>> /\ queue' = Tail(queue) /\ deferred' = <<>> /\ queue # <<>>
        BY <2>3, <3>3 DEF TakeFirst
      <4>2. <<Head(queue)>> \in Seq(Pendings) /\ Tail(queue) \in Seq(Pendings)
            /\ queue = <<Head(queue)>> \o Tail(queue)
        BY <1>0, <4>1, HeadInFront
      <4>3. <<Head(queue)>> \o <<>> = <<Head(queue)>> /\ <<>> \o <<>> = <<>> /\ <<>> \o queue = queue
        BY <1>0, <4>2, ConcatEmptySeq
      <4> QED BY <3>1, <3>3, <4>1, <4>2, <4>3 DEF Line
    <3> QED BY <3>2, <3>3
  <2>4. CASE Gather
    <3>1. /\ queue # <<>> /\ deferred = <<>> /\ deferred' = <<>>
          /\ batch' = Append(batch, Head(queue)) /\ queue' = Tail(queue)
      BY <2>4 DEF Gather, WorkerInv
    <3> QED BY <1>0, <3>1, TakeFromThird DEF Line
  <2>5. CASE BeginWrite
    <3>1. CASE UNCHANGED <<queue, deferred>>
      BY <2>5, <3>1 DEF BeginWrite, Line
    <3>2. CASE queue # <<>> /\ deferred' = <<Head(queue)>> /\ queue' = Tail(queue)
      <4>1. deferred = <<>> /\ batch' = batch
        BY <2>5 DEF BeginWrite, WorkerInv
      <4> QED BY <1>0, <3>2, <4>1, TakeFromThird DEF Line
    <3> QED BY <2>5, <3>1, <3>2 DEF BeginWrite
  <2>6. CASE IngestNext \/ CommitSnapshots \/ SnapshotsFail \/ UpdateMetadata \/ MetadataFails
    <3>1. UNCHANGED <<batch, deferred, queue>>
      BY <2>6 DEF IngestNext, CommitSnapshots, SnapshotsFail, UpdateMetadata, MetadataFails
    <3> QED BY <2>1, <3>1
  <2> QED BY <2>3, <2>4, <2>5, <2>6 DEF Works
<1> QED BY <1>1, <1>2

(* Pages join the line at its end,                                         *)
LEMMA SendsJoin ==
  ASSUME WorkerInv, JobInv, NEW t \in Task, Send(t)
  PROVE  Line' = Append(Line, Pending(t)) /\ Pending(t) \in Pendings
<1>1. /\ queue \in Seq(Pendings) /\ deferred \in Seq(Pendings) /\ batch \in Seq(Pendings)
  BY WorkerTypes
<1>2. Pending(t) \in Pendings
  BY PendingType DEF Send
<1>3. queue' = Append(queue, Pending(t)) /\ UNCHANGED <<batch, deferred>>
  BY DEF Send, worker
<1> QED BY <1>1, <1>2, <1>3, AppendToRow DEF Line

(* leave it at the front,                                                  *)
LEMMA RepliesLeave ==
  ASSUME WorkerInv, Reply
  PROVE  batch # <<>> /\ Line' = Tail(Line) /\ Line # <<>> /\ Head(Line) = Head(batch)
<1>1. /\ queue \in Seq(Pendings) /\ deferred \in Seq(Pendings) /\ batch \in Seq(Pendings)
  BY WorkerTypes
<1>2. batch # <<>> /\ batch' = Tail(batch) /\ UNCHANGED <<deferred, queue>>
  BY DEF Reply, WorkerInv
<1>3. /\ Tail(batch) \o deferred \o queue = Tail(batch \o deferred \o queue)
      /\ batch \o deferred \o queue # <<>> /\ Head(batch) = Head(batch \o deferred \o queue)
  <2>1. batch # <<>>
    BY <1>2
  <2> QED BY <1>1, <2>1, TailOfRow, ZenonT(40)
<1> QED BY <1>2, <1>3 DEF Line

(* and are lost with the process.                                          *)
LEMMA CrashEmpties == Crash => Line' = <<>>
<1>1. <<>> \o <<>> = <<>>
  BY ConcatEmptySeq, EmptySeq
<1> QED BY <1>1 DEF Crash, Line

(* The worker's place and what it holds stay together.                     *)
LEMMA WorkerNext ==
  ASSUME Proved!StoreInv, WorkerInv, JobInv, [Next]_vars
  PROVE  WorkerInv'
<1>0. /\ queue \in Seq(Pendings) /\ deferred \in Seq(Pendings) /\ batch \in Seq(Pendings)
      /\ results \in Seq(BOOLEAN) /\ Len(queue) \in Nat /\ Len(deferred) \in Nat
      /\ Len(batch) \in Nat /\ Len(results) \in Nat
  BY WorkerTypes
<1>1. MaxBatchPages \in Nat \ {0} /\ NoTx \notin Db
  BY CollectorAssumption
<1>2. db \in Db /\ (tx # NoTx => tx \in Db)
  BY StoreFacts
<1>3. CASE UNCHANGED <<tx, queue, deferred, batch, results, phase>>
  BY <1>3 DEF WorkerInv
<1>4. ASSUME NEW t \in Task, Send(t) PROVE WorkerInv'
  <2>1. Pending(t) \in Pendings
    BY <1>4, PendingType DEF Send
  <2>2. queue' = Append(queue, Pending(t)) /\ Len(queue) < MaxBatchPages
        /\ UNCHANGED <<tx, deferred, batch, results, phase>>
    BY <1>4 DEF Send, worker
  <2>3. queue' \in Seq(Pendings) /\ Len(queue') = Len(queue) + 1
    BY <1>0, <2>1, <2>2, AppendProperties
  <2>4. Len(queue') <= MaxBatchPages
    BY <1>0, <1>1, <2>2, <2>3
  <2> QED BY <2>2, <2>3, <2>4 DEF WorkerInv
<1>5. CASE TakeFirst
  <2>1. phase = "collect" /\ phase' = "gather" /\ results' = results /\ results = <<>> /\ tx' = tx
        /\ tx = NoTx
    BY <1>5 DEF TakeFirst, WorkerInv
  <2>2. /\ batch' \in Seq(Pendings) /\ queue' \in Seq(Pendings) /\ deferred' = <<>>
        /\ batch' # <<>> /\ Len(batch') <= MaxBatchPages /\ Len(queue') <= MaxBatchPages
    <3>1. CASE deferred # <<>>
      <4>1. batch' = deferred /\ deferred' = <<>> /\ queue' = queue
        BY <1>5, <3>1 DEF TakeFirst
      <4>2. Len(deferred) <= 1 /\ Len(queue) <= MaxBatchPages
        BY DEF WorkerInv
      <4> QED BY <1>0, <1>1, <3>1, <4>1, <4>2
    <3>2. CASE deferred = <<>>
      <4>1. batch' = <<Head(queue)>> /\ queue' = Tail(queue) /\ deferred' = <<>> /\ queue # <<>>
        BY <1>5, <3>2 DEF TakeFirst
      <4>2. Head(queue) \in Pendings /\ Tail(queue) \in Seq(Pendings)
            /\ Len(Tail(queue)) = Len(queue) - 1
        BY <1>0, <4>1, HeadTailProperties
      <4>3. Len(queue) <= MaxBatchPages
        BY DEF WorkerInv
      <4>4. <<Head(queue)>> \in Seq(Pendings) /\ Len(<<Head(queue)>>) = 1 /\ <<Head(queue)>> # <<>>
        BY <4>2
      <4> HIDE DEF Pendings
      <4> QED BY <1>0, <1>1, <4>1, <4>2, <4>3, <4>4
    <3> QED BY <3>1, <3>2
  <2>3. <<>> \in Seq(Pendings) /\ Len(<<>>) = 0
    OBVIOUS
  <2> QED BY <1>0, <2>1, <2>2, <2>3 DEF WorkerInv
<1>6. CASE Gather
  <2>1. /\ phase = "gather" /\ queue # <<>> /\ Len(batch) < MaxBatchPages
        /\ batch' = Append(batch, Head(queue)) /\ queue' = Tail(queue)
        /\ UNCHANGED <<tx, deferred, results, phase>>
    BY <1>6 DEF Gather
  <2>2. Head(queue) \in Pendings /\ Tail(queue) \in Seq(Pendings)
        /\ Len(Tail(queue)) = Len(queue) - 1
    BY <1>0, <2>1, HeadTailProperties
  <2>3. batch' \in Seq(Pendings) /\ batch' # <<>> /\ Len(batch') = Len(batch) + 1
    BY <1>0, <2>1, <2>2, AppendProperties
  <2>4. Len(queue) <= MaxBatchPages
    BY DEF WorkerInv
  <2>5. Len(queue') <= MaxBatchPages /\ Len(batch') <= MaxBatchPages
    BY <1>0, <1>1, <2>1, <2>2, <2>3, <2>4
  <2> QED BY <2>1, <2>2, <2>3, <2>5 DEF WorkerInv
<1>7. CASE BeginWrite
  <2>1. /\ phase = "gather" /\ phase' = "ingest" /\ tx' = db
        /\ UNCHANGED <<batch, results>> /\ results = <<>> /\ batch # <<>> /\ deferred = <<>>
    BY <1>7 DEF BeginWrite, WorkerInv
  <2>2. tx' # NoTx
    BY <1>1, <1>2, <2>1
  <2>3. /\ queue' \in Seq(Pendings) /\ deferred' \in Seq(Pendings)
        /\ Len(queue') <= MaxBatchPages /\ Len(deferred') <= 1
    <3>1. CASE UNCHANGED <<queue, deferred>>
      BY <1>0, <3>1 DEF WorkerInv
    <3>2. CASE queue # <<>> /\ deferred' = <<Head(queue)>> /\ queue' = Tail(queue)
      <4>2. Head(queue) \in Pendings /\ Tail(queue) \in Seq(Pendings)
            /\ Len(Tail(queue)) = Len(queue) - 1
        BY <1>0, <3>2, HeadTailProperties
      <4>3. Len(queue) <= MaxBatchPages
        BY DEF WorkerInv
      <4>4. <<Head(queue)>> \in Seq(Pendings) /\ Len(<<Head(queue)>>) = 1
        BY <4>2
      <4> QED BY <1>0, <1>1, <3>2, <4>2, <4>3, <4>4
    <3> QED BY <1>7, <3>1, <3>2 DEF BeginWrite
  <2>4. Len(results) <= Len(batch) /\ Len(batch) <= MaxBatchPages
    <3>1. Len(results) = 0
      BY <2>1
    <3> QED BY <1>0, <3>1 DEF WorkerInv
  <2> QED BY <1>0, <2>1, <2>2, <2>3, <2>4 DEF WorkerInv
<1>8. CASE IngestNext
  <2> DEFINE p == batch[Len(results) + 1]
  <2>1. /\ phase = "ingest" /\ Len(results) < Len(batch) /\ tx # NoTx
        /\ tx' = IngestPage(tx, p.source, p.session, p.page)
        /\ results' = Append(results, Acceptable(tx, p.source, p.session, p.page))
        /\ UNCHANGED <<queue, deferred, batch, phase>>
    BY <1>8 DEF IngestNext, WorkerInv
  <2>2. p \in Pendings
    BY <1>0, <2>1, ElementOfSeq
  <2>3. p.source \in Source /\ p.page \in Page
    BY <2>2, ProducerPagesArePages DEF Pendings
  <2> HIDE DEF p
  <2>4. tx' # NoTx
    BY <1>1, <1>2, <2>1, <2>3, IngestIsLocal DEF IngestPage
  <2>5. Acceptable(tx, p.source, p.session, p.page) \in BOOLEAN
    BY DEF Acceptable
  <2>6. results' \in Seq(BOOLEAN) /\ Len(results') = Len(results) + 1
    BY <1>0, <2>1, <2>5, AppendProperties
  <2>7. Len(results') <= Len(batch)
    BY <1>0, <2>1, <2>6
  <2> QED BY <2>1, <2>4, <2>6, <2>7 DEF WorkerInv
<1>9. CASE CommitSnapshots
  BY <1>9 DEF CommitSnapshots, WorkerInv
<1>10. CASE SnapshotsFail \/ MetadataFails
  <2>1. /\ phase \in {"ingest", "metadata"} /\ phase' = "reply" /\ tx' = NoTx
        /\ results' = [i \in DOMAIN batch |-> FALSE]
        /\ UNCHANGED <<queue, deferred, batch>>
    BY <1>10 DEF SnapshotsFail, MetadataFails, AllFail, WorkerInv
  <2>2. results' \in [1 .. Len(batch) -> BOOLEAN]
    BY <1>0, <2>1, LenProperties
  <2>3. results' \in Seq(BOOLEAN) /\ Len(results') = Len(batch)
    BY <1>0, <2>2, FunctionIsSeq
  <2> QED BY <2>1, <2>3 DEF WorkerInv
<1>11. CASE UpdateMetadata
  BY <1>11 DEF UpdateMetadata, WorkerInv
<1>12. CASE Reply
  <2>1. /\ phase = "reply" /\ batch # <<>> /\ Len(results) = Len(batch) /\ tx = NoTx
        /\ batch' = Tail(batch) /\ results' = Tail(results)
        /\ phase' = IF Tail(batch) = <<>> THEN "collect" ELSE "reply"
        /\ UNCHANGED <<tx, queue, deferred>>
    BY <1>12 DEF Reply, WorkerInv
  <2>2. results # <<>>
    BY <1>0, <2>1
  <2>3. batch' \in Seq(Pendings) /\ Len(batch') = Len(batch) - 1
    BY <1>0, <2>1, HeadTailProperties
  <2>4. results' \in Seq(BOOLEAN) /\ Len(results') = Len(results) - 1
    BY <1>0, <2>1, <2>2, HeadTailProperties
  <2>5. Len(batch') <= MaxBatchPages /\ Len(results') = Len(batch')
    BY <1>0, <1>1, <2>1, <2>3, <2>4 DEF WorkerInv
  <2>6. batch' = <<>> => results' = <<>>
    BY <2>3, <2>4, <2>5
  <2> QED BY <2>1, <2>3, <2>4, <2>5, <2>6 DEF WorkerInv
<1>13. CASE Crash
  <2>1. /\ tx' = NoTx /\ phase' = "collect" /\ queue' = <<>> /\ deferred' = <<>>
        /\ batch' = <<>> /\ results' = <<>>
    BY <1>13 DEF Crash
  <2>2. <<>> \in Seq(Pendings) /\ <<>> \in Seq(BOOLEAN) /\ Len(<<>>) = 0
    OBVIOUS
  <2> QED BY <1>1, <2>1, <2>2 DEF WorkerInv
<1>14. CASE UNCHANGED vars \/ Produce \/ Control \/ \E t \in Task : Ask(t)
  BY <1>3, <1>14, WorkerAlone
<1> QED BY <1>4, <1>5, <1>6, <1>7, <1>8, <1>9, <1>10, <1>11, <1>12, <1>13, <1>14, StepKinds

-------------------------------------------------------------------------------
(* The store's part: every step is one of the store's steps or none.       *)

(* What one more answer does to the accepted pages.                        *)
LEMMA AcceptedGrows ==
  ASSUME results \in Seq(BOOLEAN), NEW b \in BOOLEAN, results' = Append(results, b)
  PROVE  /\ Accepted \subseteq 1 .. Len(results) /\ Len(results) \in Nat
         /\ Len(results') = Len(results) + 1
         /\ b => Accepted' = Accepted \cup {Len(results) + 1}
         /\ ~b => Accepted' = Accepted
<1>1. /\ Len(results) \in Nat /\ DOMAIN results = 1 .. Len(results)
      /\ Len(results') = Len(results) + 1 /\ results' \in Seq(BOOLEAN)
      /\ \A i \in 1 .. Len(results) : results'[i] = results[i]
      /\ results'[Len(results) + 1] = b
  BY AppendProperties, SeqTypes
<1>2. DOMAIN results' = 1 .. Len(results) + 1
  BY <1>1, LenProperties
<1> QED BY <1>1, <1>2 DEF Accepted

(* The page answered last is the one accepted last, if it was accepted.    *)
LEMMA LastAcceptedGrows ==
  ASSUME results \in Seq(BOOLEAN), NEW b \in BOOLEAN, results' = Append(results, b),
         tx # NoTx, tx' # NoTx, batch' = batch
  PROVE  LET p == batch[Len(results) + 1]
         IN LastAccepted' = IF b THEN <<p.source, p.page>> ELSE LastAccepted
<1>1. /\ Accepted \subseteq 1 .. Len(results) /\ Len(results) \in Nat
      /\ b => Accepted' = Accepted \cup {Len(results) + 1}
      /\ ~b => Accepted' = Accepted
  BY AcceptedGrows
<1>2. Accepted \subseteq 1 .. Len(results) /\ Len(results) \in Nat
  BY <1>1
<1>3. CASE b
  <2>0. PICK n \in Nat : n = Len(results)
    BY <1>2
  <2>1. PICK A : A = Accepted' /\ n = Len(results)
    BY <2>0
  <2>2. A = Accepted \cup {n + 1}
    BY <1>1, <1>3, <2>1
  <2>3. A \subseteq 1 .. n + 1 /\ A # {} /\ n + 1 \in A /\ n + 1 \in Nat
    <3>1. Accepted \subseteq 1 .. n
      BY <1>2, <2>1
    <3>2. \A i \in 1 .. n : i \in 1 .. n + 1
      OBVIOUS
    <3>3. n + 1 \in A /\ n + 1 \in Nat /\ n + 1 \in 1 .. n + 1
      BY <2>2
    <3> QED BY <2>2, <3>1, <3>2, <3>3
  <2> DEFINE last == CHOOSE i \in A : \A j \in A : j <= i
  <2>4. last \in A /\ \A j \in A : j <= last
    <3>1. \E i \in A : \A j \in A : j <= i
      BY <2>3
    <3> QED BY <3>1
  <2>5. LastAccepted' = <<batch[last].source, batch[last].page>>
    BY <2>1, <2>3 DEF LastAccepted
  <2> HIDE DEF last
  <2>6. last = n + 1
    BY <2>3, <2>4
  <2> QED BY <1>3, <2>1, <2>5, <2>6
<1>4. CASE ~b
  <2>1. Accepted' = Accepted
    BY <1>1, <1>4
  <2>2. LastAccepted' = LastAccepted
    BY <2>1 DEF LastAccepted
  <2> QED BY <1>4, <2>2
<1> QED BY <1>3, <1>4

(* Without a transaction the store is shown none, whatever the worker does.*)
LEMMA NoTransaction ==
  ASSUME tx = NoTx, tx' = NoTx, db' = db
  PROVE  UNCHANGED <<db, tx, PagesInTx, LastAccepted>>
BY DEF PagesInTx, LastAccepted

(* Every step of the collector is a step of the store or leaves it alone.  *)
LEMMA StoreStep ==
  ASSUME WorkerInv, WorkerInv', [Next]_vars
  PROVE  [Proved!Next]_(Proved!vars)
<1>0. /\ results \in Seq(BOOLEAN) /\ batch \in Seq(Pendings)
      /\ Len(results) \in Nat /\ Len(batch) \in Nat
  BY WorkerTypes
<1>1. CASE UNCHANGED <<db, tx, batch, results>>
  BY <1>1 DEF Proved!vars, PagesInTx, LastAccepted, Accepted
<1>2. CASE tx = NoTx /\ tx' = NoTx /\ db' = db
  BY <1>2, NoTransaction DEF Proved!vars
<1>3. ASSUME NEW t \in Task, Send(t) PROVE UNCHANGED <<db, tx, batch, results>>
  BY <1>3 DEF Send, worker
<1>4. CASE TakeFirst \/ Gather \/ Reply
  <2>1. tx = NoTx /\ tx' = NoTx /\ db' = db
    BY <1>4 DEF TakeFirst, Gather, Reply, WorkerInv
  <2> QED BY <1>2, <2>1
<1>5. CASE UpdateMetadata \/ MetadataFails
  <2>1. tx = NoTx /\ tx' = NoTx /\ db' = db
    BY <1>5 DEF UpdateMetadata, MetadataFails, WorkerInv
  <2> QED BY <1>2, <2>1
<1>6. CASE BeginWrite
  <2>1. tx = NoTx /\ tx' = db /\ tx' # NoTx /\ db' = db /\ results' = <<>>
    BY <1>6 DEF BeginWrite, WorkerInv
  <2>2. Accepted' = {} /\ Len(results') = 0
    BY <2>1 DEF Accepted
  <2>3. PagesInTx' = 0 /\ LastAccepted' = NoPage
    BY <2>1, <2>2 DEF PagesInTx, LastAccepted
  <2>4. Proved!Begin
    BY <2>1, <2>3 DEF Proved!Begin
  <2> QED BY <2>4 DEF Proved!Next
<1>7. CASE IngestNext
  <2> DEFINE p == batch[Len(results) + 1]
             ok == Acceptable(tx, p.source, p.session, p.page)
  <2>1. /\ phase = "ingest" /\ Len(results) < Len(batch) /\ tx # NoTx /\ tx' # NoTx
        /\ tx' = IngestPage(tx, p.source, p.session, p.page)
        /\ results' = Append(results, ok) /\ db' = db /\ batch' = batch
    BY <1>7 DEF IngestNext, WorkerInv
  <2>2. p \in Pendings
    BY <1>0, <2>1, ElementOfSeq
  <2>3. p.source \in Source /\ p.session \in Session /\ p.page \in ProducerPages
    BY <2>2 DEF Pendings
  <2>4. ok \in BOOLEAN
    BY DEF Acceptable
  <2>5. PagesInTx = Len(results) /\ PagesInTx' = Len(results) + 1
    <3>1. Len(results') = Len(results) + 1
      BY <1>0, <2>1, <2>4, AppendProperties
    <3> QED BY <2>1, <3>1 DEF PagesInTx
  <2>6. Len(results) < MaxBatchPages
    <3>1. Len(batch) <= MaxBatchPages /\ MaxBatchPages \in Nat
      BY CollectorAssumption DEF WorkerInv
    <3> QED BY <1>0, <2>1, <3>1
  <2> HIDE DEF ok
  <2>7. LastAccepted' = IF ok THEN <<p.source, p.page>> ELSE LastAccepted
    BY <1>0, <2>1, <2>4, LastAcceptedGrows
  <2> HIDE DEF p
  <2>8. Proved!Ingest(p.source, p.session, p.page)
    <3>1. Proved!IngestPage(tx, p.source, p.session, p.page)
            = IngestPage(tx, p.source, p.session, p.page)
      BY SameStore DEF Proved!IngestPage, IngestPage
    <3>2. ok <=> Proved!Acceptable(tx, p.source, p.session, p.page)
      BY SameStore DEF ok
    <3> QED BY <2>1, <2>5, <2>6, <2>7, <3>1, <3>2 DEF Proved!Ingest
  <2> QED BY <2>3, <2>8 DEF Proved!Next
<1>8. CASE CommitSnapshots
  <2>1. tx # NoTx /\ tx' = NoTx /\ db' = tx
    BY <1>8 DEF CommitSnapshots, WorkerInv
  <2>2. PagesInTx' = 0 /\ LastAccepted' = NoPage
    BY <2>1 DEF PagesInTx, LastAccepted
  <2> QED BY <2>1, <2>2 DEF Proved!Commit, Proved!Next
<1>9. CASE SnapshotsFail \/ Crash
  <2>1. tx' = NoTx /\ db' = db
    BY <1>9 DEF SnapshotsFail, Crash
  <2>2. PagesInTx' = 0 /\ LastAccepted' = NoPage
    BY <2>1 DEF PagesInTx, LastAccepted
  <2>3. CASE tx # NoTx
    BY <2>1, <2>2, <2>3 DEF Proved!Rollback, Proved!Next
  <2> QED BY <1>2, <2>1, <2>3
<1>10. CASE UNCHANGED vars \/ Produce \/ Control \/ \E t \in Task : Ask(t)
  BY <1>1, <1>10, WorkerAlone
<1> QED BY <1>1, <1>3, <1>4, <1>5, <1>6, <1>7, <1>8, <1>9, <1>10, StepKinds

(* So what is proved of the store holds of the collector's databases.      *)
LEMMA StoreNext ==
  ASSUME Proved!StoreInv, WorkerInv, WorkerInv', [Next]_vars
  PROVE  Proved!StoreInv'
<1>1. [Proved!Next]_(Proved!vars)
  BY StoreStep
<1> QED BY <1>1, ProtocolAssumption, StoreReady, SameStore, Proved!NextSound

-------------------------------------------------------------------------------
(* Ownership.                                                              *)

Labels == {"idle", "lock", "reply", "record"} \cup Holding

(* A task moves, not to its reply, and what it does to its owner mutex     *)
(* fits the move: nothing, take it, or give it back.                       *)
Moves(t, label) ==
  /\ label \in Labels \ {"reply"}
  /\ pc' = [pc EXCEPT ![t] = label]
  /\ \A u \in Task \ {t} : job'[u] = job[u]
  /\ \/ owner' = owner /\ (pc[t] \in Holding <=> label \in Holding)
     \/ /\ pc[t] \in Holding /\ label \notin Holding
        /\ owner' = [owner EXCEPT ![Target[t]] = Free]
     \/ /\ pc[t] \notin Holding /\ label \in Holding /\ owner[Target[t]] = Free
        /\ owner' = [owner EXCEPT ![Target[t]] = t]

(* Whatever a task that asks does, it moves that way.                      *)
LEMMA AskMoves ==
  ASSUME OwnerInv, JobInv, NEW t \in Task, Ask(t)
  PROVE  \E label \in Labels : Moves(t, label)
<1>1. \A x : [job EXCEPT ![t] = x] = [u \in DOMAIN job |-> IF u = t THEN x ELSE job[u]]
  OBVIOUS
<1>2. job = [u \in Task |-> job[u]] /\ DOMAIN job = Task
  BY DEF JobInv
<1>3. pc[t] \in Labels /\ pc = [u \in Task |-> pc[u]]
  BY DEF OwnerInv, Labels
<1>4. CASE Start(t)
  <2>1. Moves(t, "lock")
    BY <1>2, <1>4 DEF Start, Goto, Moves, Labels, Holding
  <2> QED BY <2>1 DEF Labels
<1>5. CASE AcquireOwner(t)
  <2>1. Moves(t, "check")
    BY <1>2, <1>5 DEF AcquireOwner, Goto, Moves, Labels, Holding
  <2> QED BY <2>1 DEF Labels, Holding
<1>6. CASE CheckSource(t)
  <2>1. Moves(t, "descriptor") \/ Moves(t, "idle")
    BY <1>2, <1>6 DEF CheckSource, Goto, Return, Moves, Labels, Holding
  <2> QED BY <2>1 DEF Labels, Holding
<1>7. CASE PullDescriptor(t) \/ ReadCursor(t)
  <2>1. Moves(t, "cursor") \/ Moves(t, "history")
    BY <1>2, <1>7 DEF PullDescriptor, ReadCursor, Goto, Moves, Labels, Holding
  <2> QED BY <2>1 DEF Labels, Holding
<1>8. CASE PullHistory(t)
  <2>1. CASE UNCHANGED owner /\ Goto(t, "admit")
    <3>1. pc[t] = "history" /\ \A u \in Task \ {t} : job'[u] = job[u]
      BY <1>2, <1>8 DEF PullHistory, Return
    <3>2. Moves(t, "admit")
      BY <2>1, <3>1 DEF Goto, Moves, Labels, Holding
    <3> QED BY <3>2 DEF Labels, Holding
  <2>2. CASE Return(t, "failed") /\ owner' = [owner EXCEPT ![Target[t]] = Free]
    <3>1. pc[t] = "history"
      BY <1>8 DEF PullHistory
    <3>2. Moves(t, "idle") \/ Moves(t, "record")
      BY <1>2, <2>2, <3>1 DEF Goto, Return, Moves, Labels, Holding
    <3> QED BY <3>2 DEF Labels
  <2> QED BY <1>8, <2>1, <2>2 DEF PullHistory
<1>9. CASE AcquireBudget(t)
  <2>1. Moves(t, "send")
    BY <1>2, <1>9 DEF AcquireBudget, Goto, Moves, Labels, Holding
  <2> QED BY <2>1 DEF Labels, Holding
<1>10. CASE RecordFailure(t)
  <2>1. Moves(t, "idle")
    BY <1>2, <1>10 DEF RecordFailure, Goto, Moves, Labels, Holding
  <2> QED BY <2>1 DEF Labels
<1>11. CASE PullFails(t)
  <2>1. Moves(t, "idle") \/ Moves(t, "record")
    BY <1>2, <1>11 DEF PullFails, Goto, Return, Moves, Labels, Holding
  <2> QED BY <2>1 DEF Labels
<1>12. CASE Cancel(t)
  <2>1. Moves(t, "idle")
    BY <1>2, <1>12 DEF Cancel, Goto, Moves, Labels, Holding
  <2> QED BY <2>1 DEF Labels
<1> QED BY <1>4, <1>5, <1>6, <1>7, <1>8, <1>9, <1>10, <1>11, <1>12 DEF Ask

(* Such a move keeps the ownership exclusive.                              *)
LEMMA MoveKeepsOwners ==
  ASSUME OwnerInv, NEW t \in Task, NEW label \in Labels, Moves(t, label), Line' = Line
  PROVE  OwnerInv'
<1>0. /\ Target \in [Task -> Source] /\ Free # Writer /\ Free \notin Task /\ Writer \notin Task
  BY CollectorAssumption
<1>1. /\ pc \in [Task -> Labels] /\ owner \in [Source -> Task \cup {Free, Writer}]
  BY DEF OwnerInv, Labels
<1>2. /\ pc' \in [Task -> Labels] /\ owner' \in [Source -> Task \cup {Free, Writer}]
  BY <1>0, <1>1 DEF Moves
<1>3. ASSUME NEW s \in Source, NEW u \in Task
      PROVE  owner'[s] = u <=> (Target[u] = s /\ pc'[u] \in Holding)
  <2>1. owner[s] = u <=> (Target[u] = s /\ pc[u] \in Holding)
    BY DEF OwnerInv
  <2>2. owner[Target[t]] = t <=> pc[t] \in Holding
    BY <1>0 DEF OwnerInv
  <2>3. pc'[u] = IF u = t THEN label ELSE pc[u]
    BY <1>1 DEF Moves
  <2>4. Target[t] \in Source
    BY <1>0
  <2>5. CASE owner' = owner /\ (pc[t] \in Holding <=> label \in Holding)
    BY <2>1, <2>3, <2>5
  <2>6. CASE /\ pc[t] \in Holding /\ label \notin Holding
             /\ owner' = [owner EXCEPT ![Target[t]] = Free]
    <3>1. owner'[s] = IF s = Target[t] THEN Free ELSE owner[s]
      BY <1>1, <2>4, <2>6
    <3> HIDE DEF Holding
    <3> QED BY <1>0, <2>1, <2>2, <2>3, <2>6, <3>1
  <2>7. CASE /\ pc[t] \notin Holding /\ label \in Holding /\ owner[Target[t]] = Free
             /\ owner' = [owner EXCEPT ![Target[t]] = t]
    <3>1. owner'[s] = IF s = Target[t] THEN t ELSE owner[s]
      BY <1>1, <2>4, <2>7
    <3> HIDE DEF Holding
    <3> QED BY <1>0, <2>1, <2>2, <2>3, <2>7, <3>1
  <2> QED BY <2>5, <2>6, <2>7 DEF Moves
<1>4. ASSUME NEW s \in Source PROVE owner'[s] = Writer <=> owner[s] = Writer
  <2>1. Target[t] \in Source /\ (pc[t] \in Holding => owner[Target[t]] = t)
    BY <1>0 DEF OwnerInv
  <2>2. CASE owner' = owner
    BY <2>2
  <2>3. CASE pc[t] \in Holding /\ owner' = [owner EXCEPT ![Target[t]] = Free]
    BY <1>0, <1>1, <2>1, <2>3
  <2>4. CASE owner[Target[t]] = Free /\ owner' = [owner EXCEPT ![Target[t]] = t]
    BY <1>0, <1>1, <2>1, <2>4
  <2> QED BY <2>2, <2>3, <2>4 DEF Moves
<1>5. ASSUME NEW u \in Task, pc'[u] = "reply"
      PROVE  \E i \in DOMAIN Line : Line[i] = Pending(u)'
  <2>1. u # t /\ pc[u] = "reply"
    BY <1>1, <1>5 DEF Moves
  <2>2. Pending(u)' = Pending(u)
    BY <2>1 DEF Moves, Pending
  <2> QED BY <2>1, <2>2 DEF OwnerInv
<1>6. \A s \in Source : owner'[s] = Writer <=> \E i \in DOMAIN Line : Line[i].source = s
  BY <1>4 DEF OwnerInv
<1>7. /\ \A i, j \in DOMAIN Line : Line[i].source = Line[j].source => i = j
      /\ \A i \in DOMAIN Line : Line[i].source = Target[Line[i].task]
  BY DEF OwnerInv
<1> QED BY <1>2, <1>3, <1>5, <1>6, <1>7 DEF OwnerInv, Labels

(* Admission hands the ownership to the page.                              *)
LEMMA SendKeepsOwners ==
  ASSUME WorkerInv, OwnerInv, JobInv, NEW t \in Task, Send(t), Line' = Append(Line, Pending(t))
  PROVE  OwnerInv'
<1> DEFINE p == Pending(t)
           n == Len(Line) + 1
<1>0. /\ Target \in [Task -> Source] /\ Free # Writer /\ Free \notin Task /\ Writer \notin Task
  BY CollectorAssumption
<1>1. /\ pc \in [Task -> Labels] /\ owner \in [Source -> Task \cup {Free, Writer}]
  BY DEF OwnerInv, Labels
<1>2. /\ pc[t] = "send" /\ pc' = [pc EXCEPT ![t] = "reply"]
      /\ owner' = [owner EXCEPT ![Target[t]] = Writer] /\ job' = job
  BY DEF Send, Goto
<1>3. p \in Pendings /\ p.source = Target[t] /\ p.task = t /\ Target[t] \in Source
  BY <1>0, <1>2, PendingType DEF Pending
<1>4. /\ Line \in Seq(Pendings) /\ DOMAIN Line = 1 .. Len(Line) /\ Len(Line) \in Nat
  BY WorkerTypes, SeqTypes
<1>5. \A u \in Task : Pending(u)' = Pending(u)
  BY <1>2 DEF Pending
<1> HIDE DEF p
<1>6. /\ DOMAIN Line' = 1 .. n /\ Line'[n] = p
      /\ \A i \in DOMAIN Line : Line'[i] = Line[i] /\ i \in DOMAIN Line' /\ i # n
      /\ \A i \in DOMAIN Line' : i \in DOMAIN Line \/ i = n
      /\ n \in DOMAIN Line' /\ n \notin DOMAIN Line
  <2>1. /\ Line' \in Seq(Pendings) /\ Len(Line') = n /\ Line'[n] = p
        /\ \A i \in 1 .. Len(Line) : Line'[i] = Line[i]
    BY <1>3, <1>4, AppendProperties DEF p
  <2>2. DOMAIN Line' = 1 .. n
    BY <2>1, LenProperties
  <2> QED BY <1>4, <2>1, <2>2
<1>7. owner[Target[t]] = t
  BY <1>2, <1>3 DEF OwnerInv, Holding
<1>8. \A i \in DOMAIN Line : Line[i].source # Target[t]
  BY <1>0, <1>3, <1>7 DEF OwnerInv
<1> HIDE DEF n
<1>9. pc' \in [Task -> Labels] /\ owner' \in [Source -> Task \cup {Free, Writer}]
  BY <1>1, <1>2 DEF Labels
<1>10. ASSUME NEW s \in Source, NEW u \in Task
       PROVE  owner'[s] = u <=> (Target[u] = s /\ pc'[u] \in Holding)
  <2>1. owner[s] = u <=> (Target[u] = s /\ pc[u] \in Holding)
    BY DEF OwnerInv
  <2>2. owner'[s] = IF s = Target[t] THEN Writer ELSE owner[s]
    BY <1>1, <1>2, <1>3
  <2>3. pc'[u] = IF u = t THEN "reply" ELSE pc[u]
    BY <1>1, <1>2
  <2>4. "reply" \notin Holding /\ "send" \in Holding
    BY DEF Holding
  <2> HIDE DEF Holding
  <2> QED BY <1>0, <1>7, <2>1, <2>2, <2>3, <2>4
<1>11. ASSUME NEW s \in Source
       PROVE  owner'[s] = Writer <=> \E i \in DOMAIN Line' : Line'[i].source = s
  <2>1. owner'[s] = IF s = Target[t] THEN Writer ELSE owner[s]
    BY <1>1, <1>2, <1>3
  <2>2. owner[s] = Writer <=> \E i \in DOMAIN Line : Line[i].source = s
    BY DEF OwnerInv
  <2> QED BY <1>3, <1>6, <2>1, <2>2
<1>12. ASSUME NEW i \in DOMAIN Line', NEW j \in DOMAIN Line', Line'[i].source = Line'[j].source
       PROVE  i = j
  <2>1. CASE i = n \/ j = n
    BY <1>3, <1>6, <1>8, <1>12, <2>1
  <2>2. CASE i # n /\ j # n
    BY <1>6, <1>12, <2>2 DEF OwnerInv
  <2> QED BY <2>1, <2>2
<1>13. ASSUME NEW i \in DOMAIN Line' PROVE Line'[i].source = Target[Line'[i].task]
  BY <1>3, <1>6 DEF OwnerInv
<1>14. ASSUME NEW u \in Task, pc'[u] = "reply"
       PROVE  \E i \in DOMAIN Line' : Line'[i] = Pending(u)'
  <2>1. CASE u = t
    BY <1>5, <1>6, <2>1 DEF p
  <2>2. CASE u # t
    <3>1. pc[u] = "reply"
      BY <1>1, <1>2, <1>14, <2>2
    <3>2. PICK i \in DOMAIN Line : Line[i] = Pending(u)
      BY <3>1 DEF OwnerInv
    <3> QED BY <1>5, <1>6, <3>2
  <2> QED BY <2>1, <2>2
<1> QED BY <1>9, <1>10, <1>11, <1>12, <1>13, <1>14 DEF OwnerInv, Labels

(* What the tail of the line holds.                                        *)
LEMMA TailOfLine ==
  ASSUME NEW T, NEW line \in Seq(T), line # <<>>, NEW rest, rest = Tail(line)
  PROVE  /\ rest \in Seq(T) /\ Head(line) = line[1] /\ 1 \in DOMAIN line
         /\ \A i \in DOMAIN rest : rest[i] = line[i + 1] /\ i + 1 \in DOMAIN line /\ i + 1 # 1
         /\ \A i \in DOMAIN line : i # 1 => i - 1 \in DOMAIN rest /\ rest[i - 1] = line[i]
         /\ \A i, j \in DOMAIN rest : i + 1 = j + 1 => i = j
<1>1. /\ Len(line) \in Nat /\ Len(line) > 0 /\ DOMAIN line = 1 .. Len(line) /\ Head(line) = line[1]
  BY SeqTypes
<1>2. /\ rest \in Seq(T) /\ Len(rest) = Len(line) - 1
      /\ \A i \in 1 .. Len(rest) : rest[i] = line[i + 1]
  BY HeadTailProperties
<1>3. DOMAIN rest = 1 .. Len(rest)
  BY <1>2, LenProperties
<1>4. \A i \in 1 .. Len(rest) : rest[i] = line[i + 1] /\ i + 1 \in 1 .. Len(line) /\ i + 1 # 1
  BY <1>1, <1>2
<1>5. \A i \in 1 .. Len(line) : i # 1 => i - 1 \in 1 .. Len(rest) /\ rest[i - 1] = line[i]
  <2> SUFFICES ASSUME NEW i \in 1 .. Len(line), i # 1
               PROVE  i - 1 \in 1 .. Len(rest) /\ rest[i - 1] = line[i]
    OBVIOUS
  <2>1. i - 1 \in 1 .. Len(rest) /\ (i - 1) + 1 = i
    BY <1>1, <1>2
  <2> QED BY <1>2, <2>1
<1>6. \A i, j \in 1 .. Len(rest) : i + 1 = j + 1 => i = j
  BY <1>1, <1>2
<1> QED BY <1>1, <1>2, <1>3, <1>4, <1>5, <1>6

(* The answer frees the page's Source, and only its own caller hears it.   *)
LEMMA ReplyKeepsOwners ==
  ASSUME WorkerInv, OwnerInv, JobInv, Reply,
         Line' = Tail(Line), Line # <<>>, Head(Line) = Head(batch)
  PROVE  OwnerInv'
<1> DEFINE p == Head(Line)
           Caller(u) == u = p.task /\ pc[u] = "reply"
<1>0. /\ Target \in [Task -> Source] /\ Free # Writer /\ Free \notin Task /\ Writer \notin Task
  BY CollectorAssumption
<1>1. /\ pc \in [Task -> Labels] /\ owner \in [Source -> Task \cup {Free, Writer}]
      /\ job = [u \in Task |-> job[u]]
  BY DEF OwnerInv, JobInv, Labels
<1>2. /\ Line \in Seq(Pendings) /\ DOMAIN Line = 1 .. Len(Line) /\ Len(Line) \in Nat
  BY WorkerTypes, SeqTypes
<1>3. /\ p = Line[1] /\ 1 \in DOMAIN Line
      /\ \A i \in DOMAIN Line' : Line'[i] = Line[i + 1] /\ i + 1 \in DOMAIN Line /\ i + 1 # 1
      /\ \A i \in DOMAIN Line : i # 1 => i - 1 \in DOMAIN Line' /\ Line'[i - 1] = Line[i]
      /\ \A i, j \in DOMAIN Line' : i + 1 = j + 1 => i = j
  BY <1>2, TailOfLine
<1> HIDE DEF p
<1>4. p \in Pendings /\ p.task \in Task /\ p.source \in Source /\ p.source = Target[p.task]
  <2>1. p \in Pendings
    BY <1>2, <1>3
  <2> QED BY <1>3, <2>1 DEF Pendings, OwnerInv
<1>5. owner[p.source] = Writer
  BY <1>3, <1>4 DEF OwnerInv
<1>6. owner' = [owner EXCEPT ![p.source] = Free]
  BY DEF Reply, p
<1>7. \E label \in {"idle", "record"} :
        /\ \A u \in Task : pc'[u] = IF Caller(u) THEN label ELSE pc[u]
        /\ pc' \in [Task -> Labels]
  <2>1. CASE pc[p.task] = "reply"
    <3>1. PICK label \in {"idle", "record"} : pc' = [pc EXCEPT ![p.task] = label]
      BY <2>1 DEF Reply, Return, Goto, p
    <3> QED BY <1>1, <1>4, <2>1, <3>1 DEF Labels
  <2>2. CASE pc[p.task] # "reply"
    <3>1. pc' = pc
      BY <2>2 DEF Reply, p
    <3> QED BY <1>1, <2>2, <3>1
  <2> QED BY <2>1, <2>2
<1>8. \A u \in Task : ~Caller(u) => job'[u] = job[u]
  <2>1. CASE pc[p.task] = "reply"
    <3>1. PICK x : job' = [job EXCEPT ![p.task] = x]
      BY <2>1 DEF Reply, Return, p
    <3> QED BY <1>1, <1>4, <2>1, <3>1
  <2>2. CASE pc[p.task] # "reply"
    BY <2>2 DEF Reply, p
  <2> QED BY <2>1, <2>2
<1>9. \A u \in Task : pc'[u] \in Holding <=> pc[u] \in Holding
  BY <1>7 DEF Holding
<1>10. \A s \in Source : owner'[s] = IF s = p.source THEN Free ELSE owner[s]
  BY <1>1, <1>4, <1>6
<1>11. owner' \in [Source -> Task \cup {Free, Writer}]
  BY <1>1, <1>6
<1>12. ASSUME NEW s \in Source, NEW u \in Task
       PROVE  owner'[s] = u <=> (Target[u] = s /\ pc'[u] \in Holding)
  <2>1. owner[s] = u <=> (Target[u] = s /\ pc[u] \in Holding)
    BY DEF OwnerInv
  <2> HIDE DEF Holding
  <2> QED BY <1>0, <1>5, <1>9, <1>10, <2>1
<1>13. ASSUME NEW s \in Source
       PROVE  owner'[s] = Writer <=> \E i \in DOMAIN Line' : Line'[i].source = s
  <2>1. CASE s = p.source
    <3>1. \A i \in DOMAIN Line' : Line'[i].source # s
      BY <1>3, <2>1 DEF OwnerInv
    <3> QED BY <1>0, <1>10, <2>1, <3>1
  <2>2. CASE s # p.source
    <3>1. owner[s] = Writer <=> \E i \in DOMAIN Line : Line[i].source = s
      BY DEF OwnerInv
    <3>2. ASSUME NEW i \in DOMAIN Line, Line[i].source = s
          PROVE  \E j \in DOMAIN Line' : Line'[j].source = s
      <4>1. i # 1
        BY <1>3, <2>2, <3>2
      <4> QED BY <1>3, <3>2, <4>1
    <3>3. ASSUME NEW j \in DOMAIN Line', Line'[j].source = s
          PROVE  \E i \in DOMAIN Line : Line[i].source = s
      BY <1>3, <3>3
    <3> QED BY <1>10, <2>2, <3>1, <3>2, <3>3
  <2> QED BY <2>1, <2>2
<1>14. ASSUME NEW i \in DOMAIN Line', NEW j \in DOMAIN Line', Line'[i].source = Line'[j].source
       PROVE  i = j
  <2>1. i + 1 = j + 1
    BY <1>3, <1>14 DEF OwnerInv
  <2> QED BY <1>3, <2>1
<1>15. \A i \in DOMAIN Line' : Line'[i].source = Target[Line'[i].task]
  BY <1>3 DEF OwnerInv
<1>16. ASSUME NEW u \in Task, pc'[u] = "reply"
       PROVE  \E i \in DOMAIN Line' : Line'[i] = Pending(u)'
  <2>1. ~Caller(u) /\ pc[u] = "reply"
    BY <1>7, <1>16
  <2>2. Pending(u)' = Pending(u)
    BY <1>8, <2>1 DEF Pending
  <2>3. PICK i \in DOMAIN Line : Line[i] = Pending(u)
    BY <2>1 DEF OwnerInv
  <2>4. i # 1
    BY <1>3, <2>1, <2>3 DEF Pending
  <2> QED BY <1>3, <2>2, <2>3, <2>4
<1> QED BY <1>7, <1>11, <1>12, <1>13, <1>14, <1>15, <1>16 DEF OwnerInv, Labels

(* A crash leaves nothing owned.                                           *)
LEMMA CrashFreesAll ==
  ASSUME Crash, Line' = <<>>
  PROVE  OwnerInv'
<1>0. Free # Writer /\ Free \notin Task /\ Writer \notin Task
  BY CollectorAssumption
<1>1. pc' = [t \in Task |-> "idle"] /\ owner' = [s \in Source |-> Free]
  BY DEF Crash
<1>2. DOMAIN Line' = {}
  OBVIOUS
<1> QED BY <1>0, <1>1, <1>2 DEF OwnerInv, Holding

(* Ownership stays exclusive, whatever happens.                            *)
LEMMA OwnerNext ==
  ASSUME WorkerInv, OwnerInv, JobInv, [Next]_vars
  PROVE  OwnerInv'
<1>1. CASE UNCHANGED <<pc, job, owner>> /\ Line' = Line
  <2>1. \A t \in Task : Pending(t)' = Pending(t)
    BY <1>1 DEF Pending
  <2> QED BY <1>1, <2>1 DEF OwnerInv
<1>2. ASSUME NEW t \in Task, Ask(t) PROVE OwnerInv'
  <2>1. Line' = Line
    BY <1>2, WorkerAlone DEF Line
  <2> QED BY <1>2, <2>1, AskMoves, MoveKeepsOwners
<1>3. CASE Produce \/ Control \/ UNCHANGED vars
  <2>1. UNCHANGED <<pc, job, owner>>
    BY <1>3, ProduceIsLocal, ControlIsLocal DEF tasks, vars
  <2>2. Line' = Line
    BY <1>3, WorkerAlone DEF Line
  <2> QED BY <1>1, <2>1, <2>2
<1>4. CASE Works
  BY <1>1, <1>4, LineStays DEF tasks
<1>5. ASSUME NEW t \in Task, Send(t) PROVE OwnerInv'
  <2>1. Line' = Append(Line, Pending(t))
    BY <1>5, SendsJoin
  <2> QED BY <1>5, <2>1, SendKeepsOwners
<1>6. CASE Reply
  BY <1>6, RepliesLeave, ReplyKeepsOwners
<1>7. CASE Crash
  BY <1>7, CrashEmpties, CrashFreesAll
<1> QED BY <1>2, <1>3, <1>4, <1>5, <1>6, <1>7, StepKinds DEF Works
-------------------------------------------------------------------------------
(* The producers and the tasks' locals.                                    *)

WindowType == [oldest : 0 .. MaxSequence, next : 0 .. MaxSequence, sealed : BOOLEAN]

(* A producer's window only moves on.                                      *)
LEMMA WindowNext ==
  ASSUME WorkerInv, JobInv, [Next]_vars
  PROVE  /\ live' \in [Source -> Session] /\ window' \in [Session -> WindowType]
         /\ \A e \in Session : /\ window'[e].oldest <= window'[e].next
                               /\ window[e].oldest <= window'[e].oldest
                               /\ window[e].next <= window'[e].next
<1>0. /\ live \in [Source -> Session] /\ window \in [Session -> WindowType]
      /\ \A e \in Session : window[e].oldest <= window[e].next
  BY DEF JobInv, WindowType
<1>1. MaxSequence \in Nat
  BY ProtocolAssumption
<1>2. \A e \in Session : /\ window[e].oldest \in 0 .. MaxSequence
                         /\ window[e].next \in 0 .. MaxSequence
                         /\ window[e].sealed \in BOOLEAN
  BY <1>0 DEF WindowType
<1>3. CASE UNCHANGED producers
  BY <1>0, <1>1, <1>2, <1>3 DEF producers
<1>4. ASSUME NEW s \in Source, NEW oldest \in window[live[s]].oldest .. window[live[s]].next,
             window[live[s]].next < MaxSequence, live' = live,
             window' = [window EXCEPT ![live[s]].oldest = oldest, ![live[s]].next = @ + 1]
      PROVE  /\ window' \in [Session -> WindowType]
             /\ \A e \in Session : /\ window'[e].oldest <= window'[e].next
                                   /\ window[e].oldest <= window'[e].oldest
                                   /\ window[e].next <= window'[e].next
  <2>1. PICK f \in Session : f = live[s]
    BY <1>0
  <2>2. PICK w : w = window[f] /\ w \in WindowType
    BY <1>0, <2>1
  <2>3. w.oldest \in 0 .. MaxSequence /\ w.next \in 0 .. MaxSequence /\ w.oldest <= w.next
        /\ w.sealed \in BOOLEAN
    BY <1>0, <1>2, <2>1, <2>2
  <2>4. oldest \in 0 .. MaxSequence /\ oldest <= w.next /\ w.oldest <= oldest
        /\ w.next + 1 \in 0 .. MaxSequence
    BY <1>1, <1>4, <2>1, <2>2, <2>3
  <2> DEFINE n == [w EXCEPT !.oldest = oldest, !.next = w.next + 1]
  <2>5. window' = [window EXCEPT ![f] = n]
    BY <1>0, <1>4, <2>1, <2>2
  <2>6. n \in WindowType /\ n.oldest = oldest /\ n.next = w.next + 1
    BY <2>2, <2>3, <2>4 DEF WindowType
  <2> HIDE DEF n
  <2>7. \A e \in Session : window'[e] = IF e = f THEN n ELSE window[e]
    BY <1>0, <2>5
  <2>8. window' \in [Session -> WindowType]
    BY <1>0, <2>5, <2>6
  <2>9. ASSUME NEW e \in Session
        PROVE  /\ window'[e].oldest <= window'[e].next
               /\ window[e].oldest <= window'[e].oldest
               /\ window[e].next <= window'[e].next
    <3>1. CASE e = f
      BY <1>1, <2>2, <2>3, <2>4, <2>6, <2>7, <3>1
    <3>2. CASE e # f
      BY <1>0, <1>1, <1>2, <2>7, <3>2
    <3> QED BY <3>1, <3>2
  <2> QED BY <2>8, <2>9
<1>5. ASSUME NEW s \in Source, Release(s)
      PROVE  /\ live' = live /\ window' \in [Session -> WindowType]
             /\ \A e \in Session : /\ window'[e].oldest <= window'[e].next
                                   /\ window[e].oldest <= window'[e].oldest
                                   /\ window[e].next <= window'[e].next
  <2>1. PICK f \in Session : f = live[s]
    BY <1>0
  <2>2. PICK w : w = window[f] /\ w \in WindowType
    BY <1>0, <2>1
  <2>3. w.oldest \in 0 .. MaxSequence /\ w.next \in 0 .. MaxSequence /\ w.oldest <= w.next
    BY <1>0, <1>2, <2>1, <2>2
  <2> DEFINE n == [w EXCEPT !.oldest = w.next, !.sealed = TRUE]
  <2>5. window' = [window EXCEPT ![f] = n] /\ live' = live
    BY <1>0, <1>5, <2>1, <2>2 DEF Release
  <2>6. n \in WindowType /\ n.oldest = w.next /\ n.next = w.next
    BY <2>2, <2>3 DEF WindowType
  <2> HIDE DEF n
  <2>7. \A e \in Session : window'[e] = IF e = f THEN n ELSE window[e]
    BY <1>0, <2>5
  <2>8. window' \in [Session -> WindowType]
    BY <1>0, <2>5, <2>6
  <2>9. ASSUME NEW e \in Session
        PROVE  /\ window'[e].oldest <= window'[e].next
               /\ window[e].oldest <= window'[e].oldest
               /\ window[e].next <= window'[e].next
    <3>1. CASE e = f
      BY <1>1, <2>2, <2>3, <2>6, <2>7, <3>1
    <3>2. CASE e # f
      BY <1>0, <1>1, <1>2, <2>7, <3>2
    <3> QED BY <3>1, <3>2
  <2> QED BY <2>5, <2>8, <2>9
<1>6. ASSUME NEW s \in Source, NEW e \in Session, Restart(s, e)
      PROVE  live' \in [Source -> Session] /\ window' = window
  BY <1>0, <1>6 DEF Restart
<1>7. CASE Produce
  <2>1. ASSUME NEW s \in Source, Capture(s)
        PROVE  /\ live' = live
               /\ \E oldest \in window[live[s]].oldest .. window[live[s]].next :
                    window' = [window EXCEPT ![live[s]].oldest = oldest, ![live[s]].next = @ + 1]
               /\ window[live[s]].next < MaxSequence
    BY <2>1 DEF Capture
  <2>2. CASE \E s \in Source : Capture(s)
    BY <1>0, <1>4, <2>1, <2>2
  <2>3. CASE \E s \in Source : Release(s)
    BY <1>0, <1>5, <2>3
  <2>4. CASE \E s \in Source, e \in Session : Restart(s, e)
    <3>1. live' \in [Source -> Session] /\ window' = window
      BY <1>6, <2>4
    <3> QED BY <1>0, <1>1, <1>2, <3>1
  <2> QED BY <1>7, <2>2, <2>3, <2>4 DEF Produce
<1>8. CASE Control \/ UNCHANGED vars
  BY <1>3, <1>8, ControlIsLocal DEF vars
<1>9. ASSUME NEW t \in Task, Ask(t) PROVE UNCHANGED producers
  BY <1>9, AskIsLocal
<1>10. ASSUME NEW t \in Task, Send(t) PROVE UNCHANGED producers
  BY <1>10 DEF Send
<1>11. CASE Works
  BY <1>3, <1>11, LineStays
<1>12. CASE Reply \/ Crash
  BY <1>3, <1>12 DEF Reply, Crash
<1> QED BY <1>3, <1>7, <1>8, <1>9, <1>10, <1>11, <1>12, StepKinds DEF Works

JobType == [session : Session \cup {NoSession}, cursor : Nat,
            page : ProducerPages \cup {NoPage}, result : {"none", "ok", "failed"}]

(* What a task knows once it has moved to a label.                         *)
Knows(label, j) ==
  /\ j \in JobType
  /\ label \in {"cursor", "history", "admit", "send", "reply"} => j.session \in Session
  /\ label \in {"admit", "send", "reply"} => j.page \in ProducerPages

(* The locals of a task that has returned.                                 *)
LEMMA NoJobType ==
  /\ NoJob \in JobType
  /\ \A r \in {"ok", "failed"} : [NoJob EXCEPT !.result = r] \in JobType
BY DEF NoJob, JobType

(* Returning, a task knows nothing more.                                   *)
LEMMA ReturnKnows ==
  ASSUME JobInv, OwnerInv, NEW t \in Task, NEW r \in {"ok", "failed"}, Return(t, r)
  PROVE  Knows(pc'[t], job'[t]) /\ \A u \in Task \ {t} : job'[u] = job[u] /\ pc'[u] = pc[u]
<1>1. DOMAIN job = Task /\ DOMAIN pc = Task
  BY DEF JobInv, OwnerInv
<1>2. job'[t] \in JobType /\ \A u \in Task \ {t} : job'[u] = job[u]
  BY <1>1, NoJobType DEF Return
<1>3. pc'[t] \in {"idle", "record"} /\ \A u \in Task \ {t} : pc'[u] = pc[u]
  BY <1>1 DEF Return, Goto
<1> QED BY <1>2, <1>3 DEF Knows

(* What a task knows fits its place after each of its steps.               *)
LEMMA AskKnows ==
  ASSUME Proved!StoreInv, JobInv, OwnerInv, NEW t \in Task, Ask(t)
  PROVE  Knows(pc'[t], job'[t]) /\ \A u \in Task \ {t} : job'[u] = job[u] /\ pc'[u] = pc[u]
<1>1. DOMAIN job = Task /\ DOMAIN pc = Task /\ job[t] \in JobType /\ Target[t] \in Source
      /\ live[Target[t]] \in Session
  BY CollectorAssumption DEF JobInv, OwnerInv, JobType
<1>2. /\ job[t].session \in Session \cup {NoSession} /\ job[t].cursor \in Nat
      /\ job[t].page \in ProducerPages \cup {NoPage} /\ job[t].result \in {"none", "ok", "failed"}
  BY <1>1 DEF JobType
<1>3. CASE Start(t) \/ Cancel(t)
  <2>1. job' = [job EXCEPT ![t] = NoJob] /\ \E x \in {"lock", "idle"} : pc' = [pc EXCEPT ![t] = x]
    BY <1>3 DEF Start, Cancel, Goto
  <2> QED BY <1>1, <2>1, NoJobType DEF Knows
<1>4. CASE AcquireOwner(t) \/ RecordFailure(t)
  <2>1. job' = job /\ \E x \in {"check", "idle"} : pc' = [pc EXCEPT ![t] = x]
    BY <1>4 DEF AcquireOwner, RecordFailure, Goto
  <2> QED BY <1>1, <2>1 DEF Knows
<1>5. CASE CheckSource(t)
  <2>1. CASE Return(t, "ok")
    BY <2>1, ReturnKnows
  <2>2. CASE Goto(t, "descriptor") /\ job' = job
    BY <1>1, <2>2 DEF Goto, Knows
  <2> QED BY <1>5, <2>1, <2>2 DEF CheckSource
<1>6. CASE PullDescriptor(t)
  <2> DEFINE j == [job[t] EXCEPT !.session = live[Target[t]]]
  <2>1. job' = [job EXCEPT ![t] = j] /\ pc' = [pc EXCEPT ![t] = "cursor"]
    BY <1>1, <1>6 DEF PullDescriptor, Goto
  <2>2. j \in JobType /\ j.session \in Session
    BY <1>1, <1>2 DEF JobType
  <2> QED BY <1>1, <2>1, <2>2 DEF Knows
<1>7. CASE ReadCursor(t)
  <2> DEFINE c == db.cursor[<<Target[t], job[t].session>>]
             j == [job[t] EXCEPT !.cursor = c]
  <2>1. job' = [job EXCEPT ![t] = j] /\ pc' = [pc EXCEPT ![t] = "history"] /\ pc[t] = "cursor"
    BY <1>1, <1>7 DEF ReadCursor, Goto
  <2>2. job[t].session \in Session
    BY <2>1 DEF JobInv
  <2>3. c \in Nat
    <3>1. db.cursor \in [Stream -> Nat] /\ <<Target[t], job[t].session>> \in Stream
      BY <1>1, <2>2, StoreFacts DEF Db, Stream
    <3> QED BY <3>1
  <2> HIDE DEF c
  <2>4. j \in JobType /\ j.session = job[t].session
    BY <1>1, <1>2, <2>3 DEF JobType
  <2> QED BY <1>1, <2>1, <2>2, <2>4 DEF Knows
<1>8. CASE PullHistory(t)
  <2> DEFINE e == live[Target[t]]
             page == PageOf(e, window[e], job[t].cursor)
             j == [job[t] EXCEPT !.page = page]
  <2>1. CASE Return(t, "failed")
    BY <2>1, ReturnKnows
  <2>2. CASE job[t].cursor <= window[e].next /\ job' = [job EXCEPT ![t].page = page]
             /\ Goto(t, "admit")
    <3>1. pc[t] = "history"
      BY <1>8 DEF PullHistory
    <3>2. job[t].session \in Session
      BY <3>1 DEF JobInv
    <3>3. /\ window[e].oldest \in 0 .. MaxSequence /\ window[e].next \in 0 .. MaxSequence
          /\ window[e].oldest <= window[e].next
      BY <1>1 DEF JobInv
    <3>4. page \in ProducerPages
      BY <1>1, <1>2, <2>2, <3>3, PulledIsProducerPage
    <3>5. job' = [job EXCEPT ![t] = j] /\ pc' = [pc EXCEPT ![t] = "admit"]
      BY <1>1, <2>2 DEF Goto
    <3> HIDE DEF page
    <3>6. j \in JobType /\ j.session = job[t].session /\ j.page = page
      BY <1>1, <1>2, <3>4 DEF JobType
    <3> QED BY <1>1, <3>2, <3>4, <3>5, <3>6 DEF Knows
  <2> QED BY <1>8, <2>1, <2>2 DEF PullHistory
<1>9. CASE AcquireBudget(t)
  <2>1. pc[t] = "admit" /\ job' = job /\ pc' = [pc EXCEPT ![t] = "send"]
    BY <1>9 DEF AcquireBudget, Goto
  <2>2. job[t].session \in Session /\ job[t].page \in ProducerPages
    BY <2>1 DEF JobInv
  <2> QED BY <1>1, <2>1, <2>2 DEF Knows
<1>10. CASE PullFails(t)
  <2>1. Return(t, "failed")
    BY <1>10 DEF PullFails
  <2> QED BY <2>1, ReturnKnows
<1> QED BY <1>3, <1>4, <1>5, <1>6, <1>7, <1>8, <1>9, <1>10 DEF Ask

(* The locals stay typed, and what a place implies is known there.         *)
LEMMA JobNext ==
  ASSUME Proved!StoreInv, WorkerInv, OwnerInv, JobInv, [Next]_vars
  PROVE  JobInv'
<1>1. /\ live' \in [Source -> Session] /\ window' \in [Session -> WindowType]
      /\ \A e \in Session : window'[e].oldest <= window'[e].next
  BY WindowNext
<1>2. job \in [Task -> JobType] /\ \A t \in Task : Knows(pc[t], job[t])
  BY DEF JobInv, JobType, Knows
<1> DEFINE Known == job' \in [Task -> JobType] /\ \A t \in Task : Knows(pc'[t], job'[t])
<1>3. ASSUME UNCHANGED <<pc, job>> PROVE Known
  BY <1>2, <1>3
<1>4. ASSUME NEW t \in Task, \E x : job' = [job EXCEPT ![t] = x],
             Knows(pc'[t], job'[t]),
             \A u \in Task \ {t} : job'[u] = job[u] /\ pc'[u] = pc[u]
      PROVE  Known
  <2>1. job' = [u \in Task |-> job'[u]]
    BY <1>2, <1>4
  <2>2. \A u \in Task : Knows(pc'[u], job'[u])
    BY <1>2, <1>4
  <2>3. \A u \in Task : job'[u] \in JobType
    BY <2>2 DEF Knows
  <2> QED BY <2>1, <2>2, <2>3
<1>5. ASSUME NEW t \in Task, Ask(t) PROVE Known
  <2>1. \E x : job' = [job EXCEPT ![t] = x]
    <3>1. job' = job \/ (\E x : job' = [job EXCEPT ![t] = x])
      <4>1. CASE Start(t) \/ Cancel(t) \/ AcquireOwner(t) \/ RecordFailure(t) \/ AcquireBudget(t)
        BY <4>1 DEF Start, Cancel, AcquireOwner, RecordFailure, AcquireBudget
      <4>2. CASE CheckSource(t) \/ PullFails(t)
        BY <4>2 DEF CheckSource, PullFails, Return
      <4>3. CASE PullDescriptor(t) \/ ReadCursor(t)
        BY <1>2, <4>3 DEF PullDescriptor, ReadCursor
      <4>4. CASE PullHistory(t)
        BY <1>2, <4>4 DEF PullHistory, Return
      <4> QED BY <1>5, <4>1, <4>2, <4>3, <4>4 DEF Ask
    <3>2. job = [job EXCEPT ![t] = job[t]]
      BY <1>2
    <3> QED BY <3>1, <3>2
  <2> QED BY <1>4, <1>5, <2>1, AskKnows
<1>6. ASSUME NEW t \in Task, Send(t) PROVE Known
  <2>1. pc[t] = "send" /\ job' = job /\ pc' = [pc EXCEPT ![t] = "reply"]
    BY <1>6 DEF Send, Goto
  <2>2. \A u \in Task : pc'[u] = IF u = t THEN "reply" ELSE pc[u]
    BY <2>1 DEF OwnerInv
  <2> QED BY <1>2, <2>1, <2>2 DEF Knows
<1>7. ASSUME Reply PROVE Known
  <2> DEFINE p == Head(batch)
  <2>1. CASE pc[p.task] = "reply"
    <3>1. batch \in Seq(Pendings) /\ batch # <<>>
      BY <1>7, WorkerTypes, RepliesLeave
    <3>2. p.task \in Task
      <4>1. p \in Pendings
        BY <3>1, HeadTailProperties
      <4> QED BY <4>1 DEF Pendings
    <3>3. PICK r \in {"ok", "failed"} : Return(p.task, r)
      BY <1>7, <2>1 DEF Reply
    <3>4. \E x : job' = [job EXCEPT ![p.task] = x]
      BY <3>3 DEF Return
    <3> HIDE DEF p
    <3>5. /\ Knows(pc'[p.task], job'[p.task])
          /\ \A u \in Task \ {p.task} : job'[u] = job[u] /\ pc'[u] = pc[u]
      BY <3>2, <3>3, ReturnKnows
    <3> HIDE DEF Known
    <3> QED BY <1>4, <3>2, <3>4, <3>5
  <2>2. CASE pc[p.task] # "reply"
    BY <1>3, <1>7, <2>2 DEF Reply
  <2> QED BY <2>1, <2>2
<1>8. ASSUME Crash PROVE Known
  <2>1. pc' = [u \in Task |-> "idle"] /\ job' = [u \in Task |-> NoJob]
    BY <1>8 DEF Crash
  <2> QED BY <2>1, NoJobType DEF Knows
<1>9. ASSUME Produce \/ Control \/ UNCHANGED vars PROVE Known
  <2>1. UNCHANGED <<pc, job>>
    BY <1>9, ProduceIsLocal, ControlIsLocal DEF tasks, vars
  <2> QED BY <1>3, <2>1
<1>10. ASSUME Works PROVE Known
  BY <1>3, <1>10, LineStays DEF tasks
<1>11. Known
  BY <1>5, <1>6, <1>7, <1>8, <1>9, <1>10, <1>3, StepKinds DEF Works
<1> QED BY <1>1, <1>11 DEF JobInv, JobType, WindowType, Knows

-------------------------------------------------------------------------------
(* The registry.                                                           *)

(* What an update of the metadata writes for a Source: the session of its  *)
(* last accepted page of the group.                                        *)
LEMMA LastOfSource ==
  ASSUME WorkerInv, phase = "metadata", NEW s \in Source,
         {i \in Accepted : batch[i].source = s} # {}
  PROVE  LET of   == {i \in Accepted : batch[i].source = s}
             last == CHOOSE i \in of : \A j \in of : j <= i
         IN /\ last \in DOMAIN batch /\ last \in Accepted /\ batch[last].source = s
            /\ batch[last].session \in Session
<1> DEFINE of == {i \in Accepted : batch[i].source = s}
<1>1. Accepted \subseteq 1 .. Len(batch) /\ Len(batch) \in Nat /\ DOMAIN batch = 1 .. Len(batch)
      /\ batch \in Seq(Pendings)
  <2>1. Len(results) = Len(batch)
    BY DEF WorkerInv
  <2> QED BY <2>1, WorkerTypes DEF Accepted
<1>2. of \subseteq 1 .. Len(batch) /\ of # {}
  BY <1>1
<1>3. PICK g : g = of
  OBVIOUS
<1>4. \E i \in g : \A j \in g : j <= i
  <2>1. g \subseteq 0 .. Len(batch)
    BY <1>1, <1>2, <1>3
  <2>2. g # {}
    BY <1>2, <1>3
  <2> QED BY <1>1, <2>1, <2>2, ProtocolAssumption, StoreReady, SameStore, Proved!GreatestNatural
<1> DEFINE last == CHOOSE i \in g : \A j \in g : j <= i
<1>5. last \in g
  BY <1>4
<1> HIDE DEF last
<1>6. last \in of
  BY <1>3, <1>5
<1>7. last \in DOMAIN batch /\ last \in Accepted /\ batch[last].source = s
  BY <1>1, <1>2, <1>6
<1>8. batch[last] \in Pendings
  BY <1>1, <1>7, ElementOfSeq
<1>9. batch[last].session \in Session
  BY <1>8 DEF Pendings
<1> QED BY <1>3, <1>7, <1>9 DEF last

(* What the steps can do to the registry, and no more.                     *)
LEMMA RegistryNext ==
  ASSUME WorkerInv, RegistryInv, [Next]_vars
  PROVE  /\ RegistryInv'
         /\ \A s \in Source : state[s] \in Stopped => state'[s] \in Stopped
         /\ \A s \in Source : state[s] \in {"ended", "lost"} => state'[s] = state[s]
         /\ run \in Terminal => run' = run
<1> DEFINE Goal == /\ RegistryInv'
                   /\ \A s \in Source : state[s] \in Stopped => state'[s] \in Stopped
                   /\ \A s \in Source : state[s] \in {"ended", "lost"} => state'[s] = state[s]
                   /\ run \in Terminal => run' = run
<1>0. /\ run \in RunStatus /\ state \in [Source -> SourceState]
      /\ descriptor \in [Source -> Session \cup {NoSession}]
      /\ run \in Terminal => \A s \in Source : state[s] \in {"ended", "lost"}
  BY DEF RegistryInv
<1>1. ASSUME UNCHANGED registry PROVE Goal
  BY <1>1 DEF RegistryInv, registry
<1>2. ASSUME NEW s \in Source, NEW target \in SourceRequests, StopSource(s, target) PROVE Goal
  <2>1. target \in {"draining", "ended", "lost"}
    BY CollectorAssumption
  <2>2. /\ state' = [state EXCEPT ![s] = target] /\ run' = run /\ descriptor' = descriptor
        /\ state[s] \notin {"ended", "lost"} /\ (state[s] = "draining" => target \in {"ended", "lost"})
        /\ target \in Stopped
    BY <1>2 DEF StopSource, Stopped
  <2>3. run \notin Terminal
    BY <1>0, <2>2
  <2>4. state' \in [Source -> SourceState]
    BY <1>0, <2>1, <2>2 DEF SourceState
  <2>5. \A u \in Source : state'[u] = IF u = s THEN target ELSE state[u]
    BY <1>0, <2>2
  <2> QED BY <1>0, <2>2, <2>3, <2>4, <2>5 DEF RegistryInv
<1>3. ASSUME NEW target \in RunRequests, UpdateRun(target) PROVE Goal
  <2>1. target \in {"running", "finished", "failed", "cancelled"}
    BY CollectorAssumption
  <2>2. /\ run \notin Terminal /\ run' = target /\ descriptor' = descriptor
        /\ state' = IF target \in Terminal
                      THEN [s \in Source |->
                              IF state[s] \in {"ended", "lost"} THEN state[s]
                              ELSE IF target = "failed" THEN "lost" ELSE "ended"]
                      ELSE state
    BY <1>3 DEF UpdateRun
  <2>3. run' \in RunStatus
    BY <2>1, <2>2 DEF RunStatus
  <2>4. CASE target \in Terminal
    <3>1. \A s \in Source : /\ state'[s] \in {"ended", "lost"}
                            /\ state[s] \in {"ended", "lost"} => state'[s] = state[s]
      BY <2>2, <2>4
    <3>2. state' = [s \in Source |-> state'[s]]
      BY <2>2, <2>4
    <3>3. state' \in [Source -> SourceState]
      BY <3>1, <3>2 DEF SourceState
    <3> QED BY <1>0, <2>2, <2>3, <3>1, <3>3 DEF RegistryInv, Stopped
  <2>5. CASE target \notin Terminal
    BY <1>0, <2>2, <2>3, <2>5 DEF RegistryInv
  <2> QED BY <2>4, <2>5
<1>4. ASSUME NEW t \in Task, RecordFailure(t) PROVE Goal
  <2>1. /\ run' = run /\ descriptor' = descriptor
        /\ state' = IF MayUpdate(Target[t]) THEN [state EXCEPT ![Target[t]] = "stale"] ELSE state
    BY <1>4 DEF RecordFailure
  <2>2. CASE MayUpdate(Target[t])
    <3>1. run \notin Terminal /\ state[Target[t]] \notin Stopped
      BY <2>2 DEF MayUpdate
    <3>2. state' \in [Source -> SourceState]
      BY <1>0, <2>1, <2>2 DEF SourceState
    <3>3. \A u \in Source : state'[u] = IF u = Target[t] THEN "stale" ELSE state[u]
      BY <1>0, <2>1, <2>2
    <3> QED BY <1>0, <2>1, <3>1, <3>2, <3>3 DEF RegistryInv, Stopped
  <2>3. CASE ~MayUpdate(Target[t])
    BY <1>1, <2>1, <2>3 DEF registry
  <2> QED BY <2>2, <2>3
<1>5. ASSUME NEW t \in Task, Ask(t) PROVE Goal
  <2>1. CASE RecordFailure(t)
    BY <1>4, <2>1
  <2>2. CASE Start(t) \/ AcquireOwner(t) \/ CheckSource(t) \/ PullDescriptor(t)
    <3>1. UNCHANGED registry
      BY <2>2 DEF Start, AcquireOwner, CheckSource, PullDescriptor
    <3> QED BY <1>1, <3>1
  <2>3. CASE ReadCursor(t) \/ PullHistory(t) \/ AcquireBudget(t) \/ PullFails(t) \/ Cancel(t)
    <3>1. UNCHANGED registry
      BY <2>3 DEF ReadCursor, PullHistory, AcquireBudget, PullFails, Cancel
    <3> QED BY <1>1, <3>1
  <2> QED BY <1>5, <2>1, <2>2, <2>3 DEF Ask
<1>6. ASSUME UpdateMetadata PROVE Goal
  <2> DEFINE of(s) == {i \in Accepted : batch[i].source = s}
             last(s) == CHOOSE i \in of(s) : \A j \in of(s) : j <= i
  <2>1. /\ phase = "metadata"
        /\ state' = [s \in Source |-> IF of(s) # {} /\ MayUpdate(s) THEN "active" ELSE state[s]]
        /\ descriptor' = [s \in Source |-> IF of(s) = {} THEN descriptor[s]
                                           ELSE batch[last(s)].session]
        /\ run' = IF Accepted # {} /\ run = "created" THEN "running" ELSE run
    BY <1>6 DEF UpdateMetadata
  <2>2. \A s \in Source : of(s) # {} => batch[last(s)].session \in Session
    BY <2>1, LastOfSource
  <2> HIDE DEF of, last
  <2>3. descriptor' \in [Source -> Session \cup {NoSession}]
    BY <1>0, <2>1, <2>2
  <2>4. \A s \in Source : state'[s] = state[s]
                          \/ (state'[s] = "active" /\ state[s] \notin Stopped /\ run \notin Terminal)
    BY <2>1 DEF MayUpdate
  <2>5. state' \in [Source -> SourceState]
    <3>1. \A s \in Source : state'[s] \in SourceState
      BY <1>0, <2>4 DEF SourceState
    <3>2. state' = [s \in Source |-> state'[s]]
      BY <2>1
    <3> QED BY <3>1, <3>2
  <2>6. run' \in RunStatus /\ (run \in Terminal <=> run' \in Terminal)
        /\ (run \in Terminal => run' = run)
    BY <1>0, <2>1 DEF RunStatus, Terminal
  <2> QED BY <1>0, <2>3, <2>4, <2>5, <2>6 DEF RegistryInv, Stopped
<1>7. ASSUME Works, ~UpdateMetadata PROVE Goal
  <2>1. CASE TakeFirst \/ Gather \/ BeginWrite \/ IngestNext
    <3>1. UNCHANGED registry
      BY <2>1 DEF TakeFirst, Gather, BeginWrite, IngestNext
    <3> QED BY <1>1, <3>1
  <2>2. CASE CommitSnapshots \/ SnapshotsFail \/ MetadataFails
    <3>1. UNCHANGED registry
      BY <2>2 DEF CommitSnapshots, SnapshotsFail, MetadataFails
    <3> QED BY <1>1, <3>1
  <2> QED BY <1>7, <2>1, <2>2 DEF Works
<1>8. ASSUME Produce \/ UNCHANGED vars \/ Reply \/ Crash \/ (\E t \in Task : Send(t)) PROVE Goal
  <2>1. UNCHANGED registry
    BY <1>8, ProduceIsLocal DEF vars, Reply, Crash, Send
  <2> QED BY <1>1, <2>1
<1>9. ASSUME Control PROVE Goal
  BY <1>2, <1>3, <1>9 DEF Control
<1> HIDE DEF Goal
<1>10. Goal
  BY <1>5, <1>6, <1>7, <1>8, <1>9, StepKinds DEF Works
<1> QED BY <1>10 DEF Goal

-------------------------------------------------------------------------------
(* The permits.                                                            *)

(* The units of a page are as many as its bytes.                           *)
LEMMA UnitsOfOne ==
  ASSUME NEW p, Bytes(p.page) \in Nat
  PROVE  /\ IsFiniteSet({p} \X (1 .. Bytes(p.page)))
         /\ Cardinality({p} \X (1 .. Bytes(p.page))) = Bytes(p.page)
<1> DEFINE b == Bytes(p.page)
<1> HIDE DEF b
<1>1. IsFiniteSet({p}) /\ Cardinality({p}) = 1
  BY FS_Singleton
<1>2. b \in Nat
  BY DEF b
<1>3. IsFiniteSet(1 .. b) /\ Cardinality(1 .. b) = b
  <2>1. IsFiniteSet(1 .. b) /\ Cardinality(1 .. b) = IF 1 > b THEN 0 ELSE b - 1 + 1
    BY <1>2, FS_Interval
  <2> QED BY <1>2, <2>1
<1>4. /\ IsFiniteSet({p} \X (1 .. b))
      /\ Cardinality({p} \X (1 .. b)) = Cardinality({p}) * Cardinality(1 .. b)
  <2> DEFINE S == {p}
             T == 1 .. b
  <2>1. IsFiniteSet(S) /\ IsFiniteSet(T)
    BY <1>1, <1>3
  <2> HIDE DEF S, T
  <2>2. IsFiniteSet(S \X T) /\ Cardinality(S \X T) = Cardinality(S) * Cardinality(T)
    BY <2>1, FS_Product
  <2> QED BY <2>2 DEF S, T
<1> QED BY <1>1, <1>2, <1>3, <1>4 DEF b

(* One more holder holds its bytes more.                                   *)
LEMMA UnitsAdd ==
  ASSUME NEW P, IsFiniteSet(Units(P)), NEW p, p \notin P, Bytes(p.page) \in Nat
  PROVE  /\ IsFiniteSet(Units(P \cup {p}))
         /\ Cardinality(Units(P \cup {p})) = Cardinality(Units(P)) + Bytes(p.page)
<1> DEFINE U == Units(P)
           V == {p} \X (1 .. Bytes(p.page))
<1>1. Units(P \cup {p}) = U \cup V
  BY DEF Units
<1>2. U \cap V = {}
  BY DEF Units
<1>3. IsFiniteSet(V) /\ Cardinality(V) = Bytes(p.page)
  BY UnitsOfOne
<1> HIDE DEF U, V
<1>4. IsFiniteSet(U \cup V)
      /\ Cardinality(U \cup V) = Cardinality(U) + Cardinality(V) - Cardinality(U \cap V)
  BY <1>3, FS_Union DEF U
<1>5. Cardinality(U \cap V) = 0 /\ Cardinality(U) \in Nat /\ Cardinality(V) \in Nat
  BY <1>2, <1>3, FS_EmptySet, FS_CardinalityType DEF U
<1>6. Cardinality(U \cup V) = Cardinality(U) + Cardinality(V)
  BY <1>4, <1>5
<1> QED BY <1>1, <1>3, <1>4, <1>6 DEF U

(* One less gives them back.                                               *)
LEMMA UnitsRemove ==
  ASSUME NEW P, IsFiniteSet(Units(P)), NEW p \in P, Bytes(p.page) \in Nat
  PROVE  /\ IsFiniteSet(Units(P \ {p}))
         /\ Cardinality(Units(P \ {p})) \in Nat
         /\ Cardinality(Units(P)) = Cardinality(Units(P \ {p})) + Bytes(p.page)
<1> DEFINE Q == P \ {p}
<1>1. Q \cup {p} = P /\ p \notin Q
  OBVIOUS
<1>2. Units(Q) \subseteq Units(P)
  BY DEF Units
<1>3. IsFiniteSet(Units(Q))
  BY <1>2, FS_Subset
<1> HIDE DEF Q
<1>4. Cardinality(Units(Q \cup {p})) = Cardinality(Units(Q)) + Bytes(p.page)
  BY <1>1, <1>3, UnitsAdd
<1>5. Cardinality(Units(Q)) \in Nat
  BY <1>3, FS_CardinalityType
<1> QED BY <1>1, <1>3, <1>4, <1>5 DEF Q

Sending == {Pending(t) : t \in {u \in Task : pc[u] = "send"}}

(* The pages of the line, and those about to join it, hold the permits.    *)
LEMMA HoldersAre ==
  ASSUME WorkerInv
  PROVE  /\ Admitted = {Line[i] : i \in DOMAIN Line}
         /\ Holders = {Line[i] : i \in DOMAIN Line} \cup Sending
<1> DEFINE A == Len(batch)
           B == Len(deferred)
           C == Len(queue)
<1>1. /\ queue \in Seq(Pendings) /\ deferred \in Seq(Pendings) /\ batch \in Seq(Pendings)
      /\ DOMAIN Line = 1 .. A + B + C
  BY WorkerTypes
<1>2. /\ A \in Nat /\ B \in Nat /\ C \in Nat
      /\ DOMAIN batch = 1 .. A /\ DOMAIN deferred = 1 .. B /\ DOMAIN queue = 1 .. C
  BY <1>1, SeqTypes
<1>3. /\ \A i \in 1 .. A : Line[i] = batch[i]
      /\ \A i \in A + 1 .. A + B : Line[i] = deferred[i - A]
      /\ \A i \in A + B + 1 .. A + B + C : Line[i] = queue[i - (A + B)]
  BY <1>1, ThreeInARow DEF Line
<1> DEFINE In(x) == \E i \in DOMAIN Line : Line[i] = x
<1> HIDE DEF A, B, C
<1>4. ASSUME NEW i \in 1 .. A PROVE In(batch[i])
  <2>1. i \in 1 .. A + B + C
    BY <1>2
  <2> QED BY <1>1, <1>3, <2>1
<1>5. ASSUME NEW i \in 1 .. B PROVE In(deferred[i])
  <2>1. A + i \in A + 1 .. A + B /\ A + i \in 1 .. A + B + C /\ (A + i) - A = i
    BY <1>2
  <2> QED BY <1>1, <1>3, <2>1
<1>6. ASSUME NEW i \in 1 .. C PROVE In(queue[i])
  <2>1. /\ A + B + i \in A + B + 1 .. A + B + C /\ A + B + i \in 1 .. A + B + C
        /\ (A + B + i) - (A + B) = i
    BY <1>2
  <2> QED BY <1>1, <1>3, <2>1
<1>7. ASSUME NEW i \in 1 .. A + B + C
      PROVE  \/ \E j \in 1 .. A : Line[i] = batch[j]
             \/ \E j \in 1 .. B : Line[i] = deferred[j]
             \/ \E j \in 1 .. C : Line[i] = queue[j]
  <2>1. CASE i \in 1 .. A
    BY <1>3, <2>1
  <2>2. CASE i \in A + 1 .. A + B
    <3>1. i - A \in 1 .. B
      BY <1>2, <2>2
    <3> QED BY <1>3, <2>2, <3>1
  <2>3. CASE i \in A + B + 1 .. A + B + C
    <3>1. i - (A + B) \in 1 .. C
      BY <1>2, <2>3
    <3> QED BY <1>3, <2>3, <3>1
  <2> QED BY <1>2, <2>1, <2>2, <2>3
<1>8. Admitted = {batch[j] : j \in 1 .. A} \cup {deferred[j] : j \in 1 .. B}
                   \cup {queue[j] : j \in 1 .. C}
  BY <1>2 DEF Admitted
<1>9. Admitted = {Line[i] : i \in DOMAIN Line}
  BY <1>1, <1>4, <1>5, <1>6, <1>7, <1>8
<1> QED BY <1>9 DEF Holders, Sending

(* A page about to be admitted belongs to a Source its own task owns.      *)
LEMMA SendingIsApart ==
  ASSUME WorkerInv, OwnerInv, NEW t \in Task, pc[t] \in {"admit", "send"}
  PROVE  \A i \in DOMAIN Line : Line[i] # Pending(t)
<1>1. /\ Target[t] \in Source /\ Writer \notin Task
  BY CollectorAssumption
<1>2. owner[Target[t]] = t
  BY <1>1 DEF OwnerInv, Holding
<1>3. \A i \in DOMAIN Line : Line[i].source # Target[t]
  BY <1>1, <1>2 DEF OwnerInv
<1> QED BY <1>3 DEF Pending

(* The bytes of what is handed over are a number.                          *)
LEMMA BytesType ==
  ASSUME NEW p \in Pendings
  PROVE  Bytes(p.page) \in Nat
<1>1. p.page \in Page
  BY ProducerPagesArePages DEF Pendings
<1>2. Len(p.page.snapshots) \in Nat
  BY <1>1 DEF Page
<1> QED BY <1>2 DEF Bytes

(* The permits add up again when the holders stay, or one comes or goes.   *)
LEMMA PermitCases ==
  ASSUME PermitInv
  PROVE  /\ Holders' = Holders /\ budget' = budget => PermitInv'
         /\ \A p : /\ p \notin Holders /\ Bytes(p.page) \in Nat /\ Bytes(p.page) <= budget
                   /\ Holders' = Holders \cup {p} /\ budget' = budget - Bytes(p.page)
                   => PermitInv'
         /\ \A p : /\ p \in Holders /\ Bytes(p.page) \in Nat
                   /\ Holders' = Holders \ {p} /\ budget' = budget + Bytes(p.page)
                   => PermitInv'
<1>1. /\ budget \in Nat /\ IsFiniteSet(Units(Holders))
      /\ budget + Cardinality(Units(Holders)) = QueuedBytes
  BY DEF PermitInv
<1>2. Cardinality(Units(Holders)) \in Nat
  BY <1>1, FS_CardinalityType
<1>3. ASSUME Holders' = Holders, budget' = budget PROVE PermitInv'
  <2>1. Units(Holders') = Units(Holders)
    BY <1>3
  <2> QED BY <1>1, <1>3, <2>1 DEF PermitInv, Units
<1>4. ASSUME NEW p, p \notin Holders, Bytes(p.page) \in Nat, Bytes(p.page) <= budget,
             Holders' = Holders \cup {p}, budget' = budget - Bytes(p.page)
      PROVE  PermitInv'
  <2>1. IsFiniteSet(Units(Holders \cup {p}))
        /\ Cardinality(Units(Holders \cup {p})) = Cardinality(Units(Holders)) + Bytes(p.page)
    BY <1>1, <1>4, UnitsAdd
  <2>2. Units(Holders)' = Units(Holders \cup {p})
    BY <1>4 DEF Units
  <2>3. budget' \in Nat
        /\ budget' + Cardinality(Units(Holders \cup {p})) = QueuedBytes
    BY <1>1, <1>2, <1>4, <2>1
  <2> QED BY <2>1, <2>2, <2>3 DEF PermitInv, QueuedBytes
<1>5. ASSUME NEW p, p \in Holders, Bytes(p.page) \in Nat,
             Holders' = Holders \ {p}, budget' = budget + Bytes(p.page)
      PROVE  PermitInv'
  <2>1. IsFiniteSet(Units(Holders \ {p})) /\ Cardinality(Units(Holders \ {p})) \in Nat
        /\ Cardinality(Units(Holders)) = Cardinality(Units(Holders \ {p})) + Bytes(p.page)
    BY <1>1, <1>5, UnitsRemove
  <2>2. Units(Holders)' = Units(Holders \ {p})
    BY <1>5 DEF Units
  <2>3. budget' \in Nat
        /\ budget' + Cardinality(Units(Holders \ {p})) = QueuedBytes
    BY <1>1, <1>2, <1>5, <2>1
  <2> QED BY <2>1, <2>2, <2>3 DEF PermitInv, QueuedBytes
<1> QED BY <1>3, <1>4, <1>5

(* Which pages are about to join after a step of their tasks.              *)
LEMMA SendingStays ==
  ASSUME \A u \in Task : pc'[u] = "send" <=> pc[u] = "send",
         \A u \in Task : pc[u] = "send" => job'[u] = job[u]
  PROVE  Sending' = Sending
<1>1. \A u \in Task : pc[u] = "send" => Pending(u)' = Pending(u)
  BY DEF Pending
<1> QED BY <1>1 DEF Sending

(* The permits add up, whatever happens.                                   *)
LEMMA PermitNext ==
  ASSUME WorkerInv, WorkerInv', OwnerInv, JobInv, PermitInv, [Next]_vars
  PROVE  PermitInv'
<1> DEFINE Waits == {Line[i] : i \in DOMAIN Line}
<1>0. DOMAIN pc = Task /\ DOMAIN job = Task
  BY DEF OwnerInv, JobInv
<1>1. Holders = Waits \cup Sending
  BY HoldersAre
<1>2. Holders' = Waits' \cup Sending'
  <2>1. (WorkerInv => Holders = {Line[i] : i \in DOMAIN Line} \cup Sending)'
    BY HoldersAre, PTL
  <2> QED BY <2>1
<1>3. Line' = Line => Waits' = Waits
  OBVIOUS
<1> HIDE DEF Waits
<1>4. CASE UNCHANGED <<pc, job, budget>> /\ Line' = Line
  <2>1. Sending' = Sending
    BY <1>4, SendingStays
  <2> QED BY <1>1, <1>2, <1>3, <1>4, <2>1, PermitCases
<1>5. ASSUME NEW t \in Task, AcquireBudget(t) PROVE PermitInv'
  <2>1. /\ pc[t] = "admit" /\ pc' = [pc EXCEPT ![t] = "send"] /\ job' = job
        /\ Bytes(job[t].page) <= budget /\ budget' = budget - Bytes(job[t].page)
    BY <1>5 DEF AcquireBudget, Goto
  <2>2. Line' = Line
    BY <1>5, WorkerAlone DEF Line, Ask
  <2>3. Pending(t) \in Pendings /\ Pending(t).page = job[t].page
    BY <2>1, PendingType DEF Pending
  <2>4. Pending(t) \notin Waits /\ Pending(t) \notin Sending
    <3>1. Pending(t) \notin Waits
      BY <2>1, SendingIsApart DEF Waits
    <3>2. \A u \in Task : pc[u] = "send" => Pending(u) # Pending(t)
      BY <2>1 DEF Pending
    <3> QED BY <3>1, <3>2 DEF Sending
  <2>5. Sending' = Sending \cup {Pending(t)}
    <3>1. \A u \in Task : Pending(u)' = Pending(u)
      BY <2>1 DEF Pending
    <3>2. \A u \in Task : pc'[u] = "send" <=> (pc[u] = "send" \/ u = t)
      BY <1>0, <2>1
    <3> QED BY <3>1, <3>2 DEF Sending
  <2>6. Holders' = Holders \cup {Pending(t)} /\ Pending(t) \notin Holders
    BY <1>1, <1>2, <1>3, <2>2, <2>4, <2>5
  <2>7. Bytes(Pending(t).page) \in Nat
    BY <2>3, BytesType
  <2> QED BY <2>1, <2>3, <2>6, <2>7, PermitCases
<1>6. ASSUME NEW t \in Task, Cancel(t) PROVE PermitInv'
  <2>1. /\ pc' = [pc EXCEPT ![t] = "idle"] /\ job' = [job EXCEPT ![t] = NoJob]
        /\ budget' = IF pc[t] = "send" THEN budget + Bytes(job[t].page) ELSE budget
    BY <1>6 DEF Cancel, Goto
  <2>2. Line' = Line
    BY <1>6, WorkerAlone DEF Line, Ask
  <2>3. CASE pc[t] # "send"
    <3>1. Sending' = Sending
      BY <1>0, <2>1, <2>3, SendingStays
    <3> QED BY <1>1, <1>2, <1>3, <2>1, <2>2, <2>3, <3>1, PermitCases
  <2>4. CASE pc[t] = "send"
    <3>1. Pending(t) \in Pendings /\ Pending(t).page = job[t].page
      BY <2>4, PendingType DEF Pending
    <3>2. Pending(t) \notin Waits /\ Pending(t) \in Sending
      BY <2>4, SendingIsApart DEF Waits, Sending
    <3>3. Sending' = Sending \ {Pending(t)}
      <4>1. \A u \in Task : u # t => Pending(u)' = Pending(u) /\ Pending(u) # Pending(t)
        BY <1>0, <2>1 DEF Pending
      <4>2. \A u \in Task : pc'[u] = "send" <=> (pc[u] = "send" /\ u # t)
        BY <1>0, <2>1
      <4> QED BY <4>1, <4>2 DEF Sending
    <3>4. Holders' = Holders \ {Pending(t)} /\ Pending(t) \in Holders
      BY <1>1, <1>2, <1>3, <2>2, <3>2, <3>3
    <3>5. Bytes(Pending(t).page) \in Nat
      BY <3>1, BytesType
    <3> QED BY <2>1, <2>4, <3>1, <3>4, <3>5, PermitCases
  <2> QED BY <2>3, <2>4
<1>7. ASSUME NEW t \in Task, Ask(t), ~AcquireBudget(t), ~Cancel(t) PROVE PermitInv'
  <2>1. Line' = Line
    BY <1>7, WorkerAlone DEF Line
  <2>2. /\ budget' = budget /\ pc[t] # "send" /\ pc'[t] # "send"
        /\ \A u \in Task \ {t} : pc'[u] = pc[u] /\ job'[u] = job[u]
    <3>1. CASE Start(t) \/ AcquireOwner(t) \/ RecordFailure(t) \/ PullDescriptor(t) \/ ReadCursor(t)
      BY <1>0, <3>1 DEF Start, AcquireOwner, RecordFailure, PullDescriptor, ReadCursor, Goto
    <3>2. CASE CheckSource(t) \/ PullFails(t)
      BY <1>0, <3>2 DEF CheckSource, PullFails, Return, Goto
    <3>3. CASE PullHistory(t)
      BY <1>0, <3>3 DEF PullHistory, Return, Goto
    <3> QED BY <1>7, <3>1, <3>2, <3>3 DEF Ask
  <2>3. Sending' = Sending
    BY <2>2, SendingStays
  <2> QED BY <1>1, <1>2, <1>3, <2>1, <2>2, <2>3, PermitCases
<1>8. ASSUME NEW t \in Task, Send(t) PROVE PermitInv'
  <2>1. pc[t] = "send" /\ pc' = [pc EXCEPT ![t] = "reply"] /\ job' = job /\ budget' = budget
    BY <1>8 DEF Send, Goto
  <2>2. Line' = Append(Line, Pending(t)) /\ Pending(t) \in Pendings
    BY <1>8, SendsJoin
  <2>3. Waits' = Waits \cup {Pending(t)}
    <3>1. Line \in Seq(Pendings)
      BY WorkerTypes
    <3>2. /\ DOMAIN Line = 1 .. Len(Line) /\ Len(Line) \in Nat
          /\ Len(Line') = Len(Line) + 1 /\ DOMAIN Line' = 1 .. Len(Line')
          /\ \A i \in 1 .. Len(Line) : Line'[i] = Line[i]
          /\ Line'[Len(Line) + 1] = Pending(t)
      <4>1. DOMAIN Line = 1 .. Len(Line) /\ Len(Line) \in Nat
        BY <3>1, SeqTypes
      <4>2. /\ Line' \in Seq(Pendings) /\ Len(Line') = Len(Line) + 1
            /\ \A i \in 1 .. Len(Line) : Line'[i] = Line[i]
            /\ Line'[Len(Line) + 1] = Pending(t)
        BY <2>2, <3>1, AppendProperties
      <4> QED BY <4>1, <4>2, LenProperties
    <3>3. \A i \in 1 .. Len(Line) + 1 : i \in 1 .. Len(Line) \/ i = Len(Line) + 1
      BY <3>2
    <3>4. Len(Line) + 1 \in 1 .. Len(Line) + 1 /\ \A i \in 1 .. Len(Line) : i \in 1 .. Len(Line) + 1
      BY <3>2
    <3> QED BY <3>2, <3>3, <3>4 DEF Waits
  <2>4. \A u \in Task : Pending(u)' = Pending(u)
    BY <2>1 DEF Pending
  <2>5. \A u \in Task : pc'[u] = "send" <=> (pc[u] = "send" /\ u # t)
    BY <1>0, <2>1
  <2>6. Sending' = Sending \ {Pending(t)} /\ Pending(t) \in Sending
    <3>1. \A u \in Task : u # t => Pending(u) # Pending(t)
      BY DEF Pending
    <3> QED BY <2>1, <2>4, <2>5, <3>1 DEF Sending
  <2>7. Holders' = Holders
    BY <1>1, <1>2, <2>3, <2>6
  <2> QED BY <2>1, <2>7, PermitCases
<1>9. CASE Reply
  <2> DEFINE p == Head(Line)
  <2>1. /\ Line' = Tail(Line) /\ Line # <<>> /\ Head(Line) = Head(batch)
    BY <1>9, RepliesLeave
  <2>2. budget' = budget + Bytes(p.page)
    BY <1>9, <2>1 DEF Reply
  <2>3. Line \in Seq(Pendings)
    BY WorkerTypes
  <2>4. /\ p = Line[1] /\ 1 \in DOMAIN Line
        /\ \A i \in DOMAIN Line' : Line'[i] = Line[i + 1] /\ i + 1 \in DOMAIN Line /\ i + 1 # 1
        /\ \A i \in DOMAIN Line : i # 1 => i - 1 \in DOMAIN Line' /\ Line'[i - 1] = Line[i]
    BY <2>1, <2>3, TailOfLine
  <2>5. p \in Pendings
    BY <2>1, <2>3, HeadTailProperties
  <2> HIDE DEF p
  <2>6. \A i \in DOMAIN Line : i # 1 => Line[i] # p
    BY <2>4 DEF OwnerInv
  <2>7. Waits' = Waits \ {p} /\ p \in Waits
    BY <2>4, <2>6 DEF Waits
  <2>8. Sending' = Sending
    <3>1. CASE pc[p.task] = "reply"
      <4>1. /\ \E x \in {"idle", "record"} : pc' = [pc EXCEPT ![p.task] = x]
            /\ \E x : job' = [job EXCEPT ![p.task] = x]
        BY <1>9, <2>1, <3>1 DEF Reply, Return, Goto, p
      <4>2. p.task \in Task
        BY <2>5 DEF Pendings
      <4> QED BY <1>0, <3>1, <4>1, <4>2, SendingStays
    <3>2. CASE pc[p.task] # "reply"
      <4>1. UNCHANGED <<pc, job>>
        BY <1>9, <2>1, <3>2 DEF Reply, p
      <4> QED BY <4>1, SendingStays
    <3> QED BY <3>1, <3>2
  <2>9. p \notin Sending
    <3>1. ASSUME NEW u \in Task, pc[u] = "send" PROVE Pending(u) # p
      BY <2>4, <3>1, SendingIsApart
    <3> QED BY <3>1 DEF Sending
  <2>10. Holders' = Holders \ {p} /\ p \in Holders
    BY <1>1, <1>2, <2>7, <2>8, <2>9
  <2>11. Bytes(p.page) \in Nat
    BY <2>5, BytesType
  <2> QED BY <2>2, <2>10, <2>11, PermitCases
<1>10. CASE Crash
  <2>1. budget' = QueuedBytes /\ pc' = [t \in Task |-> "idle"] /\ Line' = <<>>
    BY <1>10, CrashEmpties DEF Crash
  <2>2. Waits' = {} /\ Sending' = {}
    BY <2>1 DEF Waits, Sending
  <2>3. Units(Holders)' = {}
    BY <1>2, <2>2 DEF Units
  <2>4. QueuedBytes \in Nat
    BY CollectorAssumption DEF QueuedBytes
  <2>5. IsFiniteSet({}) /\ Cardinality({}) = 0
    BY FS_EmptySet
  <2> QED BY <2>1, <2>3, <2>4, <2>5 DEF PermitInv, QueuedBytes
<1>11. CASE Produce \/ Control \/ UNCHANGED vars
  <2>1. UNCHANGED <<pc, job, budget>>
    BY <1>11, ProduceIsLocal, ControlIsLocal DEF tasks, vars
  <2>2. Line' = Line
    BY <1>11, WorkerAlone DEF Line
  <2> QED BY <1>4, <2>1, <2>2
<1>12. CASE Works
  BY <1>4, <1>12, LineStays DEF tasks
<1> QED BY <1>5, <1>6, <1>7, <1>8, <1>9, <1>10, <1>11, <1>12, StepKinds DEF Works

-------------------------------------------------------------------------------
(* The truth of what is stored and of what is under way.                   *)

(* A window that has moved on.                                             *)
MovedOn(w, v) ==
  \A e \in Session : w[e].oldest <= v[e].oldest /\ w[e].next <= v[e].next

(* The numbers of a page,                                                  *)
LEMMA PageNumbers ==
  ASSUME NEW page \in Page
  PROVE  /\ page.session \in Session /\ page.next \in Nat /\ page.oldest \in Nat
         /\ \A i \in DOMAIN page.snapshots : page.snapshots[i].sequence \in Nat
         /\ DOMAIN page.snapshots = 1 .. Len(page.snapshots) /\ Len(page.snapshots) \in Nat
<1>1. page.session \in Session /\ page.next \in Nat /\ page.oldest \in Nat
      /\ page.snapshots \in Seq(Snapshot)
  BY DEF Page
<1>2. /\ DOMAIN page.snapshots = 1 .. Len(page.snapshots) /\ Len(page.snapshots) \in Nat
      /\ \A i \in 1 .. Len(page.snapshots) : page.snapshots[i] \in Snapshot
  BY <1>1, SeqTypes
<1>3. \A x \in Snapshot : x.sequence \in Nat
  BY DEF Snapshot
<1> QED BY <1>1, <1>2, <1>3

(* The numbers of a database,                                              *)
LEMMA DbNumbers ==
  ASSUME NEW d \in Db, NEW s \in Source, NEW e \in Session
  PROVE  /\ d.cursor[<<s, e>>] \in Nat
         /\ \A r \in d.rows[<<s, e>>] : r.sequence \in Nat
         /\ \A g \in d.gaps[<<s, e>>] : g.oldest \in Nat
<1>1. <<s, e>> \in Stream
  BY DEF Stream
<1>2. /\ d.rows \in [Stream -> SUBSET Row] /\ d.cursor \in [Stream -> Nat]
      /\ d.gaps \in [Stream -> SUBSET Gap]
  BY DEF Db
<1>3. /\ d.cursor[<<s, e>>] \in Nat /\ d.rows[<<s, e>>] \subseteq Row
      /\ d.gaps[<<s, e>>] \subseteq Gap
  BY <1>1, <1>2
<1> QED BY <1>3 DEF Row, Gap

(* and of the windows.                                                     *)
LEMMA WindowNumbers ==
  ASSUME NEW w \in [Session -> WindowType], NEW e \in Session
  PROVE  w[e].oldest \in Nat /\ w[e].next \in Nat
         /\ w[e].oldest \in 0 .. MaxSequence /\ w[e].next \in 0 .. MaxSequence
<1>1. w[e] \in WindowType
  OBVIOUS
<1> QED BY <1>1, ProtocolAssumption DEF WindowType

(* What a page says stays true when producers move on.                     *)
LEMMA PageStaysTrue ==
  ASSUME NEW page \in Page, NEW w \in [Session -> WindowType], NEW v \in [Session -> WindowType],
         MovedOn(w, v), PageIsTrue(page, w)
  PROVE  PageIsTrue(page, v)
<1> DEFINE e == page.session
<1>1. e \in Session /\ page.next \in Nat /\ page.oldest \in Nat
      /\ \A i \in DOMAIN page.snapshots : page.snapshots[i].sequence \in Nat
  BY PageNumbers
<1>2. w[e].oldest \in Nat /\ w[e].next \in Nat /\ v[e].oldest \in Nat /\ v[e].next \in Nat
      /\ w[e].oldest <= v[e].oldest /\ w[e].next <= v[e].next
  BY <1>1, WindowNumbers DEF MovedOn
<1>3. /\ page.next <= w[e].next /\ page.oldest <= w[e].oldest
      /\ \A i \in DOMAIN page.snapshots :
           /\ page.snapshots[i].sequence < w[e].next
           /\ page.snapshots[i].state = Content(e, page.snapshots[i].sequence)
  BY DEF PageIsTrue
<1> HIDE DEF e
<1>4. /\ page.next <= v[e].next /\ page.oldest <= v[e].oldest
      /\ \A i \in DOMAIN page.snapshots : page.snapshots[i].sequence < v[e].next
  BY <1>1, <1>2, <1>3
<1> QED BY <1>3, <1>4 DEF PageIsTrue, e

(* So does what is stored.                                                 *)
LEMMA DbStaysTrue ==
  ASSUME NEW d \in Db, NEW w \in [Session -> WindowType], NEW v \in [Session -> WindowType],
         MovedOn(w, v), DbIsTrue(d, w)
  PROVE  DbIsTrue(d, v)
<1> SUFFICES ASSUME NEW s \in Source, NEW e \in Session
             PROVE  LET k == <<s, e>>
                    IN /\ \A r \in d.rows[k] : r.sequence < v[e].next /\ r.state = Content(e, r.sequence)
                       /\ \A g \in d.gaps[k] : g.oldest <= v[e].oldest
                       /\ d.cursor[k] <= v[e].next
  BY DEF DbIsTrue
<1> DEFINE k == <<s, e>>
<1>1. /\ d.cursor[k] \in Nat
      /\ \A r \in d.rows[k] : r.sequence \in Nat
      /\ \A g \in d.gaps[k] : g.oldest \in Nat
  BY DbNumbers
<1>2. w[e].oldest \in Nat /\ w[e].next \in Nat /\ v[e].oldest \in Nat /\ v[e].next \in Nat
      /\ w[e].oldest <= v[e].oldest /\ w[e].next <= v[e].next
  BY WindowNumbers DEF MovedOn
<1>3. /\ \A r \in d.rows[k] : r.sequence < w[e].next /\ r.state = Content(e, r.sequence)
      /\ \A g \in d.gaps[k] : g.oldest <= w[e].oldest
      /\ d.cursor[k] <= w[e].next
  BY DEF DbIsTrue
<1> HIDE DEF k
<1>4. /\ \A r \in d.rows[k] : r.sequence < v[e].next
      /\ \A g \in d.gaps[k] : g.oldest <= v[e].oldest
      /\ d.cursor[k] <= v[e].next
  BY <1>1, <1>2, <1>3
<1> QED BY <1>3, <1>4 DEF k

(* What is pulled is true of the producer that answers.                    *)
LEMMA PulledIsTrue ==
  ASSUME NEW w \in [Session -> WindowType], NEW e \in Session, NEW after \in Nat,
         w[e].oldest <= w[e].next, after <= w[e].next
  PROVE  PageIsTrue(PageOf(e, w[e], after), w)
<1> DEFINE page == PageOf(e, w[e], after)
           start == Larger(after, w[e].oldest)
           m == Len(page.snapshots)
<1>1. w[e].oldest \in 0 .. MaxSequence /\ w[e].next \in 0 .. MaxSequence
      /\ w[e].oldest \in Nat /\ w[e].next \in Nat
  BY WindowNumbers
<1>2. /\ page.session = e /\ page.oldest = w[e].oldest
      /\ m \in Nat /\ DOMAIN page.snapshots = 1 .. m
      /\ page.next = start + m /\ page.next <= w[e].next
      /\ \A i \in 1 .. m : /\ page.snapshots[i].sequence = start + i - 1
                           /\ page.snapshots[i].state = Content(e, start + i - 1)
  BY <1>1, PageShape
<1>3. start \in Nat
  BY <1>1 DEF Larger
<1> HIDE DEF page, start, m
<1>4. \A i \in 1 .. m : page.snapshots[i].sequence < w[e].next
  BY <1>1, <1>2, <1>3
<1>5. page.oldest <= w[e].oldest
  BY <1>1, <1>2
<1> QED BY <1>2, <1>4, <1>5 DEF PageIsTrue, page

(* A true page leaves a true database.                                     *)
LEMMA IngestIsTrue ==
  ASSUME NEW d \in Db, NEW source \in Source, NEW page \in Page,
         NEW w \in [Session -> WindowType], DbIsTrue(d, w), PageIsTrue(page, w)
  PROVE  DbIsTrue(Ingested(d, source, page), w)
<1> DEFINE j == <<source, page.session>>
           n == Ingested(d, source, page)
<1> SUFFICES ASSUME NEW s \in Source, NEW e \in Session
             PROVE  LET k == <<s, e>>
                    IN /\ \A r \in n.rows[k] : r.sequence < w[e].next /\ r.state = Content(e, r.sequence)
                       /\ \A g \in n.gaps[k] : g.oldest <= w[e].oldest
                       /\ n.cursor[k] <= w[e].next
  BY DEF DbIsTrue
<1> DEFINE k == <<s, e>>
<1>1. /\ d.rows \in [Stream -> SUBSET Row] /\ d.cursor \in [Stream -> Nat]
      /\ d.gaps \in [Stream -> SUBSET Gap] /\ k \in Stream
  BY DEF Db, Stream
<1>2. /\ \A r \in d.rows[k] : r.sequence < w[e].next /\ r.state = Content(e, r.sequence)
      /\ \A g \in d.gaps[k] : g.oldest <= w[e].oldest
      /\ d.cursor[k] <= w[e].next
  BY DEF DbIsTrue
<1>3. CASE n = d
  BY <1>2, <1>3
<1>4. CASE n # d
  <2>1. /\ n.rows = [d.rows EXCEPT ![j] = @ \cup NewRows(d, j, page)]
        /\ n.cursor = [d.cursor EXCEPT ![j] = Larger(@, page.next)]
        /\ \/ n.gaps = d.gaps
           \/ n.gaps = [d.gaps EXCEPT ![j] = @ \cup {[expected |-> d.cursor[j], oldest |-> page.oldest]}]
    BY <1>4 DEF Ingested
  <2> HIDE DEF n
  <2>2. CASE k # j
    <3>1. n.rows[k] = d.rows[k] /\ n.cursor[k] = d.cursor[k] /\ n.gaps[k] = d.gaps[k]
      BY <1>1, <2>1, <2>2
    <3> QED BY <1>2, <3>1
  <2>3. CASE k = j
    <3>1. e = page.session
      BY <2>3
    <3>2. /\ page.next <= w[e].next /\ page.oldest <= w[e].oldest
          /\ \A i \in DOMAIN page.snapshots :
               /\ page.snapshots[i].sequence < w[e].next
               /\ page.snapshots[i].state = Content(e, page.snapshots[i].sequence)
      BY <3>1 DEF PageIsTrue
    <3>3. ASSUME NEW r \in NewRows(d, k, page)
          PROVE  r.sequence < w[e].next /\ r.state = Content(e, r.sequence)
      <4>1. PICK i \in Fresh(d, k, page) :
              r = [id |-> NewId(d, k, page, i), sequence |-> page.snapshots[i].sequence,
                   state |-> page.snapshots[i].state]
        BY DEF NewRows
      <4>2. i \in DOMAIN page.snapshots /\ r.sequence = page.snapshots[i].sequence
            /\ r.state = page.snapshots[i].state
        BY <4>1 DEF Fresh
      <4> QED BY <3>2, <4>2
    <3>4. n.rows[k] = d.rows[k] \cup NewRows(d, k, page)
          /\ n.cursor[k] = Larger(d.cursor[k], page.next)
      BY <1>1, <2>1, <2>3
    <3>5. n.gaps[k] = d.gaps[k]
          \/ n.gaps[k] = d.gaps[k] \cup {[expected |-> d.cursor[k], oldest |-> page.oldest]}
      BY <1>1, <2>1, <2>3
    <3> HIDE DEF k, j
    <3>6. \A g \in n.gaps[k] : g.oldest <= w[e].oldest
      BY <1>2, <3>2, <3>5
    <3>7. n.cursor[k] <= w[e].next
      BY <1>2, <3>2, <3>4 DEF Larger
    <3>8. \A r \in n.rows[k] : r.sequence < w[e].next /\ r.state = Content(e, r.sequence)
      BY <1>2, <3>3, <3>4
    <3> QED BY <3>6, <3>7, <3>8 DEF k
  <2> QED BY <2>2, <2>3
<1> QED BY <1>3, <1>4

(* The locals of a task change by its own steps, or by the end of its call.*)
LEMMA TaskStep ==
  ASSUME WorkerInv, OwnerInv, JobInv, [Next]_vars, NEW t \in Task
  PROVE  \/ pc'[t] = pc[t] /\ job'[t] = job[t]
         \/ Ask(t) /\ UNCHANGED <<producers, db, tx>>
         \/ Send(t)
         \/ pc'[t] \in {"idle", "record"}
<1> DEFINE Goal == \/ pc'[t] = pc[t] /\ job'[t] = job[t]
                   \/ Ask(t) /\ UNCHANGED <<producers, db, tx>>
                   \/ Send(t)
                   \/ pc'[t] \in {"idle", "record"}
<1>1. DOMAIN pc = Task /\ DOMAIN job = Task
  BY DEF OwnerInv, JobInv
<1>2. ASSUME NEW u \in Task, Ask(u) PROVE Goal
  <2>1. CASE u = t
    BY <1>2, <2>1, AskIsLocal
  <2>2. CASE u # t
    <3>1. PICK label \in Labels : Moves(u, label)
      BY <1>2, AskMoves
    <3> QED BY <1>1, <2>2, <3>1 DEF Moves
  <2> QED BY <2>1, <2>2
<1>3. ASSUME NEW u \in Task, Send(u) PROVE Goal
  BY <1>1, <1>3 DEF Send, Goto
<1>4. CASE Reply
  <2>1. CASE UNCHANGED <<pc, job>>
    BY <2>1
  <2>2. ASSUME NEW u, NEW r, Return(u, r) PROVE Goal
    <3>1. CASE u = t
      BY <1>1, <2>2, <3>1 DEF Return, Goto
    <3>2. CASE u # t
      BY <1>1, <2>2, <3>2 DEF Return, Goto
    <3> QED BY <3>1, <3>2
  <2> QED BY <1>4, <2>1, <2>2 DEF Reply
<1>5. CASE Crash
  BY <1>5 DEF Crash
<1>6. CASE Produce \/ Control \/ UNCHANGED vars
  <2>1. UNCHANGED <<pc, job>>
    BY <1>6, ProduceIsLocal, ControlIsLocal DEF tasks, vars
  <2> QED BY <2>1
<1>7. CASE Works
  BY <1>7, LineStays DEF tasks
<1> QED BY <1>2, <1>3, <1>4, <1>5, <1>6, <1>7, StepKinds DEF Works

(* Where a task that asks arrives with what.                               *)
LEMMA AskReaches ==
  ASSUME OwnerInv, JobInv, NEW t \in Task, Ask(t)
  PROVE  LET e    == live[Target[t]]
             page == PageOf(e, window[e], job[t].cursor)
         IN /\ pc'[t] = "history" =>
                 /\ job'[t].session = job[t].session
                 /\ job'[t].cursor = db.cursor[<<Target[t], job[t].session>>]
            /\ pc'[t] = "admit" =>
                 /\ pc[t] = "history" /\ job[t].cursor <= window[e].next
                 /\ job'[t].session = job[t].session /\ job'[t].page = page
            /\ pc'[t] = "send" => pc[t] = "admit" /\ job'[t] = job[t]
            /\ pc'[t] # "reply"
<1> DEFINE e == live[Target[t]]
           page == PageOf(e, window[e], job[t].cursor)
<1>1. DOMAIN pc = Task /\ DOMAIN job = Task /\ job[t] \in JobType
  BY DEF OwnerInv, JobInv, JobType
<1>2. CASE Start(t) \/ AcquireOwner(t) \/ PullDescriptor(t) \/ RecordFailure(t) \/ Cancel(t)
  BY <1>1, <1>2 DEF Start, AcquireOwner, PullDescriptor, RecordFailure, Cancel, Goto
<1>3. CASE CheckSource(t) \/ PullFails(t)
  BY <1>1, <1>3 DEF CheckSource, PullFails, Return, Goto
<1>4. CASE AcquireBudget(t)
  BY <1>1, <1>4 DEF AcquireBudget, Goto
<1>5. CASE ReadCursor(t)
  <2>1. /\ pc'[t] = "history"
        /\ job'[t] = [job[t] EXCEPT !.cursor = db.cursor[<<Target[t], job[t].session>>]]
    BY <1>1, <1>5 DEF ReadCursor, Goto
  <2> QED BY <1>1, <2>1 DEF JobType
<1>6. CASE PullHistory(t)
  <2>1. CASE Return(t, "failed")
    BY <1>1, <2>1 DEF Return, Goto
  <2>2. CASE job[t].cursor <= window[e].next /\ job' = [job EXCEPT ![t].page = page]
             /\ Goto(t, "admit")
    <3> HIDE DEF page
    <3>1. pc[t] = "history" /\ pc'[t] = "admit" /\ job'[t] = [job[t] EXCEPT !.page = page]
      BY <1>1, <1>6, <2>2 DEF PullHistory, Goto
    <3>2. job'[t].session = job[t].session /\ job'[t].page = page
      BY <1>1, <3>1 DEF JobType
    <3> QED BY <2>2, <3>1, <3>2 DEF page
  <2> QED BY <1>6, <2>1, <2>2 DEF PullHistory
<1> QED BY <1>2, <1>3, <1>4, <1>5, <1>6 DEF Ask

(* What a step does to the two databases.                                  *)
LEMMA DbStep ==
  ASSUME WorkerInv, [Next]_vars
  PROVE  \/ UNCHANGED <<db, tx>>
         \/ BeginWrite /\ tx = NoTx /\ tx' = db /\ db' = db
         \/ IngestNext /\ tx # NoTx /\ db' = db
         \/ CommitSnapshots /\ tx # NoTx /\ tx' = NoTx /\ db' = tx
         \/ SnapshotsFail /\ tx # NoTx /\ tx' = NoTx /\ db' = db
         \/ Crash /\ tx' = NoTx /\ db' = db
<1>1. CASE UNCHANGED vars \/ Produce \/ Control \/ \E t \in Task : Ask(t)
  BY <1>1, WorkerAlone
<1>2. CASE \E t \in Task : Send(t)
  BY <1>2 DEF Send
<1>3. CASE TakeFirst \/ Gather \/ UpdateMetadata \/ MetadataFails \/ Reply
  BY <1>3 DEF TakeFirst, Gather, UpdateMetadata, MetadataFails, Reply
<1>4. CASE BeginWrite
  BY <1>4 DEF BeginWrite, WorkerInv
<1>5. CASE IngestNext \/ CommitSnapshots \/ SnapshotsFail
  BY <1>5 DEF IngestNext, CommitSnapshots, SnapshotsFail, WorkerInv
<1>6. CASE Crash
  BY <1>6 DEF Crash
<1> QED BY <1>1, <1>2, <1>3, <1>4, <1>5, <1>6, StepKinds

(* What is in line was in line before, or has just been handed over.       *)
LEMMA LineStep ==
  ASSUME WorkerInv, JobInv, [Next]_vars, NEW i \in DOMAIN Line'
  PROVE  \/ \E j \in DOMAIN Line : Line'[i] = Line[j]
         \/ \E t \in Task : Send(t) /\ Line'[i] = Pending(t)
<1>1. CASE Line' = Line
  BY <1>1
<1>2. ASSUME NEW t \in Task, Send(t)
      PROVE  (\E j \in DOMAIN Line : Line'[i] = Line[j]) \/ Line'[i] = Pending(t)
  <2>1. Line' = Append(Line, Pending(t)) /\ Pending(t) \in Pendings /\ Line \in Seq(Pendings)
    BY <1>2, SendsJoin, WorkerTypes
  <2>2. /\ DOMAIN Line = 1 .. Len(Line) /\ Len(Line) \in Nat
        /\ Line' \in Seq(Pendings) /\ Len(Line') = Len(Line) + 1
        /\ \A j \in 1 .. Len(Line) : Line'[j] = Line[j]
        /\ Line'[Len(Line) + 1] = Pending(t)
    BY <2>1, AppendProperties, SeqTypes
  <2>3. i \in 1 .. Len(Line) + 1
    BY <2>2, LenProperties
  <2>4. i \in 1 .. Len(Line) \/ i = Len(Line) + 1
    BY <2>2, <2>3
  <2> QED BY <2>2, <2>4
<1>3. CASE Reply
  <2>1. Line' = Tail(Line) /\ Line # <<>> /\ Line \in Seq(Pendings)
    BY <1>3, RepliesLeave, WorkerTypes
  <2> QED BY <2>1, TailOfLine
<1>4. CASE Crash
  BY <1>4, CrashEmpties
<1>5. CASE UNCHANGED vars \/ Produce \/ Control \/ \E t \in Task : Ask(t)
  <2>1. Line' = Line
    BY <1>5, WorkerAlone DEF Line
  <2> QED BY <1>1, <2>1
<1>6. CASE Works
  BY <1>1, <1>6, LineStays
<1> QED BY <1>2, <1>3, <1>4, <1>5, <1>6, StepKinds DEF Works
(* Ingesting what was pulled from a producer leaves a true database.       *)
LEMMA IngestStepIsTrue ==
  ASSUME WorkerInv, JobInv, Proved!StoreInv, TruthInv, IngestNext, tx # NoTx
  PROVE  DbIsTrue(tx', window)
<1> DEFINE n == Len(results) + 1
           p == batch[n]
<1>1. n \in 1 .. Len(batch)
  BY WorkerTypes DEF IngestNext
<1>2. Line[n] = p /\ n \in DOMAIN Line /\ p \in Pendings
  BY <1>1, WorkerTypes
<1>3. tx' = IngestPage(tx, p.source, p.session, p.page)
  BY DEF IngestNext
<1> HIDE DEF n, p
<1>4. p.page \in Page /\ p.source \in Source
  BY <1>2, ProducerPagesArePages DEF Pendings
<1>5. PageIsTrue(p.page, window) /\ DbIsTrue(tx, window)
  BY <1>2 DEF TruthInv
<1>6. tx \in Db /\ window \in [Session -> WindowType]
  BY StoreFacts DEF JobInv, WindowType
<1>7. DbIsTrue(Ingested(tx, p.source, p.page), window)
  BY <1>4, <1>5, <1>6, IngestIsTrue
<1> QED BY <1>3, <1>5, <1>7 DEF IngestPage

(* Nothing stored and nothing under way becomes untrue.                    *)
LEMMA TruthNext ==
  ASSUME Proved!StoreInv, WorkerInv, OwnerInv, JobInv, TruthInv, [Next]_vars
  PROVE  TruthInv'
<1> DEFINE w == window
           v == window'
<1>1. w \in [Session -> WindowType] /\ v \in [Session -> WindowType] /\ MovedOn(w, v)
  <2>1. w \in [Session -> WindowType]
    BY DEF JobInv, WindowType
  <2> QED BY <2>1, WindowNext DEF MovedOn
<1>2. db \in Db /\ (tx # NoTx => tx \in Db)
  BY StoreFacts
<1>3. ASSUME NEW page \in ProducerPages, PageIsTrue(page, w) PROVE PageIsTrue(page, v)
  <2>1. page \in Page
    BY ProducerPagesArePages
  <2> QED BY <1>1, <1>3, <2>1, PageStaysTrue
<1>4. ASSUME NEW d \in Db, DbIsTrue(d, w) PROVE DbIsTrue(d, v)
  BY <1>1, <1>4, DbStaysTrue
<1>5. DbIsTrue(db, w) /\ (tx # NoTx => DbIsTrue(tx, w))
  BY DEF TruthInv
<1>6. ASSUME NEW t \in Task, pc[t] \in {"admit", "send", "reply"}
      PROVE  PageIsTrue(job[t].page, v)
  <2>1. job[t].page \in ProducerPages /\ PageIsTrue(job[t].page, w)
    BY <1>6 DEF JobInv, TruthInv
  <2> QED BY <1>3, <2>1
<1>7. ASSUME NEW j \in DOMAIN Line PROVE PageIsTrue(Line[j].page, v)
  <2>1. Line[j].page \in ProducerPages /\ PageIsTrue(Line[j].page, w)
    BY WorkerTypes DEF TruthInv, Pendings
  <2> QED BY <1>3, <2>1
<1>8. DbIsTrue(db', v) /\ (tx' # NoTx => DbIsTrue(tx', v))
  <2>1. CASE UNCHANGED <<db, tx>>
    BY <1>2, <1>4, <1>5, <2>1
  <2>2. CASE tx' = db /\ db' = db
    BY <1>2, <1>4, <1>5, <2>2
  <2>3. CASE IngestNext /\ tx # NoTx /\ db' = db
    <3>1. DbIsTrue(tx', w) /\ v = w
      BY <2>3, IngestStepIsTrue DEF IngestNext, producers
    <3> QED BY <1>5, <2>3, <3>1
  <2>4. CASE tx # NoTx /\ tx' = NoTx /\ db' = tx
    BY <1>2, <1>4, <1>5, <2>4
  <2>5. CASE tx' = NoTx /\ db' = db
    BY <1>2, <1>4, <1>5, <2>5
  <2> QED BY <2>1, <2>2, <2>3, <2>4, <2>5, DbStep
<1>9. ASSUME NEW t \in Task, pc'[t] \in {"admit", "send", "reply"}
      PROVE  PageIsTrue(job'[t].page, v)
  <2>1. CASE pc'[t] = pc[t] /\ job'[t] = job[t]
    BY <1>6, <1>9, <2>1
  <2>2. CASE Ask(t) /\ UNCHANGED <<producers, db, tx>>
    <3> DEFINE e == live[Target[t]]
               page == PageOf(e, window[e], job[t].cursor)
    <3>1. CASE pc'[t] = "admit"
      <4>1. job[t].cursor <= window[e].next /\ job'[t].page = page
        BY <2>2, <3>1, AskReaches
      <4>2. /\ e \in Session /\ job[t].cursor \in Nat
            /\ window[e].oldest <= window[e].next
        BY CollectorAssumption DEF JobInv
      <4> HIDE DEF e
      <4>3. PageIsTrue(page, w)
        BY <1>1, <4>1, <4>2, PulledIsTrue
      <4>4. v = w
        BY <2>2 DEF producers
      <4> QED BY <4>1, <4>3, <4>4
    <3>2. CASE pc'[t] = "send"
      <4>1. pc[t] = "admit" /\ job'[t] = job[t]
        BY <2>2, <3>2, AskReaches
      <4> QED BY <1>6, <4>1
    <3>3. pc'[t] # "reply"
      BY <2>2, AskReaches
    <3> QED BY <1>9, <3>1, <3>2, <3>3
  <2>3. CASE Send(t)
    <3>1. pc[t] = "send" /\ job' = job
      BY <2>3 DEF Send
    <3> QED BY <1>6, <3>1
  <2>4. CASE pc'[t] \in {"idle", "record"}
    BY <1>9, <2>4
  <2> QED BY <2>1, <2>2, <2>3, <2>4, TaskStep
<1>10. ASSUME NEW i \in DOMAIN Line' PROVE PageIsTrue(Line'[i].page, v)
  <2>1. CASE \E j \in DOMAIN Line : Line'[i] = Line[j]
    BY <1>7, <2>1
  <2>2. ASSUME NEW t \in Task, Send(t), Line'[i] = Pending(t)
        PROVE  PageIsTrue(Line'[i].page, v)
    <3>1. pc[t] = "send" /\ Line'[i].page = job[t].page
      BY <2>2 DEF Send, Pending
    <3> QED BY <1>6, <3>1
  <2> QED BY <2>1, <2>2, LineStep
<1> HIDE DEF v, w
<1> QED BY <1>8, <1>9, <1>10 DEF TruthInv, v
-------------------------------------------------------------------------------
(* What is under way is worth taking.                                      *)

(* Two databases with the same history of a stream take the same pages.    *)
LEMMA TakesIsLocal ==
  ASSUME NEW d, NEW n, NEW p \in Pendings,
         \A e \in Session : /\ n.rows[<<p.source, e>>] = d.rows[<<p.source, e>>]
                            /\ n.cursor[<<p.source, e>>] = d.cursor[<<p.source, e>>],
         Takes(d, p)
  PROVE  Takes(n, p)
<1> DEFINE k == <<p.source, p.page.session>>
<1>1. p.page.session \in Session
  BY ProducerPagesArePages, PageNumbers DEF Pendings
<1>2. n.rows[k] = d.rows[k] /\ n.cursor[k] = d.cursor[k]
  BY <1>1
<1>3. Unseen(n, k, p.page) = Unseen(d, k, p.page)
  BY <1>2 DEF Unseen
<1>4. Continues(n, k, p.page) <=> Continues(d, k, p.page)
  BY <1>2, <1>3 DEF Continues
<1>5. \A x : Agrees(n, k, x) <=> Agrees(d, k, x)
  BY <1>2 DEF Agrees, IsStored
<1>6. Acceptable(n, p.source, p.session, p.page) <=> Acceptable(d, p.source, p.session, p.page)
  BY <1>4, <1>5 DEF Acceptable
<1> QED BY <1>6 DEF Takes

(* What is pulled at the cursor of its stream continues that stream,       *)
LEMMA PulledContinues ==
  ASSUME NEW d \in Db, NEW s \in Source, NEW e \in Session, NEW w,
         w.oldest \in 0 .. MaxSequence, w.next \in 0 .. MaxSequence, w.oldest <= w.next,
         NEW after \in Nat, after <= w.next,
         d.cursor[<<s, e>>] = after, \A r \in d.rows[<<s, e>>] : r.sequence < after,
         PageOf(e, w, after).snapshots # <<>>
  PROVE  Acceptable(d, s, e, PageOf(e, w, after))
<1> DEFINE page == PageOf(e, w, after)
           k == <<s, e>>
           o == w.oldest
           start == Larger(after, o)
           m == Len(page.snapshots)
<1>0. o \in Nat /\ w.next \in Nat /\ w.next <= MaxSequence /\ MaxSequence \in Nat /\ o <= w.next
  BY ProtocolAssumption
<1>1. /\ page \in Page /\ page.session = e /\ page.oldest = o
      /\ page.dropped = IF after < o THEN o ELSE NotDropped
      /\ m \in Nat /\ m <= PageLimit /\ DOMAIN page.snapshots = 1 .. m
      /\ page.next = start + m /\ page.next <= w.next
      /\ \A i \in 1 .. m : /\ page.snapshots[i].session = e
                           /\ page.snapshots[i].sequence = start + i - 1
  BY ONLY PageShape, e \in Session, after \in Nat, w.oldest \in 0 .. MaxSequence,
          w.next \in 0 .. MaxSequence, w.oldest <= w.next, after <= w.next
<1>2. m > 0 /\ page.snapshots # <<>>
  <2>1. page.snapshots \in Seq(Snapshot)
    BY <1>1 DEF Page
  <2> QED BY <1>1, <2>1, SeqTypes
<1>3. start \in Nat /\ start >= after /\ start >= o /\ (start = after \/ start = o)
  BY ONLY <1>0, after \in Nat DEF Larger
<1>4. d.cursor[k] = after /\ \A r \in d.rows[k] : r.sequence < after /\ r.sequence \in Nat
  <2>1. \A r \in d.rows[k] : r.sequence \in Nat
    BY DbNumbers
  <2> QED BY <2>1
<1>5. start = Larger(after, o)
  OBVIOUS
<1> HIDE DEF page, k, o, start, m
<1>6. \A i \in 1 .. m : /\ page.snapshots[i].sequence \in Nat
                        /\ page.snapshots[i].sequence >= after
                        /\ page.snapshots[i].sequence >= o
                        /\ page.snapshots[i].sequence < MaxSequence
                        /\ page.snapshots[i].sequence = page.snapshots[1].sequence + i - 1
  <2> SUFFICES ASSUME NEW i \in 1 .. m
               PROVE  /\ page.snapshots[i].sequence \in Nat
                      /\ page.snapshots[i].sequence >= after
                      /\ page.snapshots[i].sequence >= o
                      /\ page.snapshots[i].sequence < MaxSequence
                      /\ page.snapshots[i].sequence = page.snapshots[1].sequence + i - 1
    OBVIOUS
  <2>1. /\ page.snapshots[i].sequence = start + i - 1
        /\ page.snapshots[1].sequence = start + 1 - 1
    BY <1>1, <1>2
  <2> QED BY <1>0, <1>1, <1>2, <1>3, <2>1, SMTT(30)
<1>7. ValidPage(page)
  <2>1. page.oldest <= page.next /\ page.next <= MaxSequence
    BY <1>0, <1>1, <1>3
  <2>2. page.dropped \in {NotDropped, page.oldest}
    BY <1>1
  <2>3. page.next = page.snapshots[m].sequence + 1
    <3>1. m \in 1 .. m
      BY <1>1, <1>2
    <3>2. page.snapshots[m].sequence = start + m - 1
      BY <1>1, <3>1
    <3> QED BY <1>1, <1>3, <3>2
  <2>4. Len(page.snapshots) = m
    BY DEF m
  <2> QED BY <1>1, <1>6, <2>1, <2>2, <2>3, <2>4 DEF ValidPage
<1>8. Unseen(d, k, page) = 1 .. m
  BY <1>1, <1>4, <1>6 DEF Unseen
<1>9. Continues(d, k, page)
  <2>1. 1 \in 1 .. m /\ \A j \in 1 .. m : 1 <= j
    BY <1>1, <1>2
  <2>2. page.snapshots[1].sequence = start
    BY <1>1, <1>3, <2>1
  <2>3. page.oldest > d.cursor[k] => page.dropped = page.oldest
    BY <1>0, <1>1, <1>4
  <2>4. start = Larger(d.cursor[k], page.oldest)
    BY <1>1, <1>4, <1>5
  <2> QED BY <1>8, <2>1, <2>2, <2>3, <2>4 DEF Continues
<1>10. \A i \in 1 .. m : Agrees(d, k, page.snapshots[i])
  <2> SUFFICES ASSUME NEW i \in 1 .. m
               PROVE  Agrees(d, k, page.snapshots[i])
    OBVIOUS
  <2>1. page.snapshots[i].sequence >= after /\ page.snapshots[i].sequence \in Nat
    BY <1>6
  <2>2. ~IsStored(d, k, page.snapshots[i].sequence)
    BY <1>4, <2>1 DEF IsStored
  <2> QED BY <1>4, <2>1, <2>2 DEF Agrees
<1>11. k = <<s, page.session>>
  BY <1>1 DEF k
<1> QED BY <1>1, <1>7, <1>9, <1>10, <1>11 DEF Acceptable, page

(* A Source that no page of the line is for.                               *)
Idle(s) == \A i \in DOMAIN Line : Line[i].source # s

(* The writer's view of a Source without an answered page is the committed *)
(* one.                                                                    *)
Agree(d, n, s) ==
  \A e \in Session : /\ n.rows[<<s, e>>] = d.rows[<<s, e>>]
                     /\ n.cursor[<<s, e>>] = d.cursor[<<s, e>>]

LEMMA IdleAgrees ==
  ASSUME WorkerInv, TakenInv, NEW s \in Source, tx # NoTx,
         \A i \in 1 .. Len(results) : batch[i].source # s
  PROVE  Agree(db, tx, s)
<1>1. DOMAIN results = 1 .. Len(results)
  BY WorkerTypes
<1> QED BY <1>1 DEF TakenInv, Agree

(* What a page does to the view of the other Sources: nothing.             *)
LEMMA IngestAgrees ==
  ASSUME Proved!StoreInv, WorkerInv, IngestNext, tx # NoTx, NEW s \in Source,
         batch[Len(results) + 1].source # s
  PROVE  Agree(tx, tx', s)
<1> DEFINE n == Len(results) + 1
           p == batch[n]
<1>1. n \in 1 .. Len(batch)
  BY WorkerTypes DEF IngestNext
<1>2. p \in Pendings
  BY <1>1, WorkerTypes
<1>3. tx' = IngestPage(tx, p.source, p.session, p.page)
  BY DEF IngestNext
<1>4. p.source # s
  OBVIOUS
<1> HIDE DEF n, p
<1>5. p.page \in Page /\ p.source \in Source /\ tx \in Db
  BY <1>2, ProducerPagesArePages, StoreFacts DEF Pendings
<1>6. ASSUME NEW e \in Session
      PROVE  /\ Ingested(tx, p.source, p.page).rows[<<s, e>>] = tx.rows[<<s, e>>]
             /\ Ingested(tx, p.source, p.page).cursor[<<s, e>>] = tx.cursor[<<s, e>>]
  <2>1. <<s, e>> \in Stream /\ <<s, e>>[1] # p.source
    BY <1>4 DEF Stream
  <2> QED BY <1>5, <2>1, IngestIsLocal
<1> QED BY <1>3, <1>6 DEF IngestPage, Agree
(* No page is in line for the Source of a task that holds its mutex,       *)
LEMMA HolderIsAlone ==
  ASSUME OwnerInv, NEW t \in Task, pc[t] \in Holding
  PROVE  Target[t] \in Source /\ Idle(Target[t])
<1>1. Target[t] \in Source /\ Writer \notin Task
  BY CollectorAssumption
<1>2. owner[Target[t]] = t
  BY <1>1 DEF OwnerInv
<1> QED BY <1>1, <1>2 DEF OwnerInv, Idle

(* so neither the view nor a commit concerns it.                           *)
LEMMA HolderIsUntouched ==
  ASSUME WorkerInv, OwnerInv, TakenInv, [Next]_vars, NEW t \in Task, pc[t] \in Holding
  PROVE  Agree(db, db', Target[t]) /\ Agree(db, View, Target[t])
<1>1. Target[t] \in Source /\ Idle(Target[t])
  BY HolderIsAlone
<1>2. tx # NoTx => Agree(db, tx, Target[t])
  <2> SUFFICES ASSUME tx # NoTx PROVE Agree(db, tx, Target[t])
    OBVIOUS
  <2>1. Len(results) <= Len(batch)
    BY DEF WorkerInv
  <2>2. \A i \in 1 .. Len(results) : i \in 1 .. Len(batch)
    BY <2>1, WorkerTypes
  <2>3. \A i \in 1 .. Len(results) : batch[i].source # Target[t]
    BY <1>1, <2>2, WorkerTypes DEF Idle
  <2> QED BY <1>1, <2>3, IdleAgrees
<1>3. Agree(db, db, Target[t])
  BY DEF Agree
<1>4. db' = db \/ (tx # NoTx /\ db' = tx)
  BY DbStep
<1> QED BY <1>2, <1>3, <1>4 DEF View

(* The pages that wait after a worker's step waited before it, and the     *)
(* step did nothing to their Sources.                                      *)
LEMMA WorksWaiting ==
  ASSUME Proved!StoreInv, WorkerInv, OwnerInv, JobInv, TakenInv, Works, NEW i, Waiting(i)'
  PROVE  Waiting(i) /\ Line'[i] = Line[i] /\ Agree(View, View', Line[i].source)
<1> DEFINE Goal == Waiting(i) /\ Line'[i] = Line[i] /\ Agree(View, View', Line[i].source)
           A == Len(batch)
           R == Len(results)
<1>1. Line' = Line /\ i \in DOMAIN Line
  BY LineStays DEF Waiting
<1>2. /\ Len(batch) \in Nat /\ Len(results) \in Nat /\ DOMAIN Line = 1 .. Len(Line)
      /\ DOMAIN batch = 1 .. A /\ results \in Seq(BOOLEAN)
      /\ \A j \in 1 .. A : Line[j] = batch[j] /\ j \in DOMAIN Line
      /\ Line[i].source \in Source /\ i \in Nat /\ i > 0 /\ Len(Line) \in Nat
  <2>1. Line[i].source \in Source
    BY <1>1, WorkerTypes DEF Pendings
  <2>2. DOMAIN Line = 1 .. Len(Line) /\ Len(Line) \in Nat
    BY WorkerTypes, SeqTypes
  <2> QED BY <1>1, <2>1, <2>2, WorkerTypes
<1>3. \A d : Agree(d, d, Line[i].source)
  BY DEF Agree
<1>4. CASE TakeFirst
  <2>1. batch = <<>> /\ View' = View
    BY <1>4 DEF TakeFirst, WorkerInv, View
  <2>2. Waiting(i)
    BY <1>1, <1>2, <2>1 DEF Waiting
  <2> QED BY <1>1, <1>3, <2>1, <2>2
<1>5. CASE Gather \/ BeginWrite
  <2>1. phase = "gather" /\ results = <<>> /\ View' = View
    BY <1>5, DbStep DEF Gather, BeginWrite, WorkerInv, View
  <2>2. Waiting(i)
    BY <1>1, <1>2, <2>1 DEF Waiting
  <2> QED BY <1>1, <1>3, <2>1, <2>2
<1>6. CASE IngestNext
  <2>1. /\ phase = "ingest" /\ phase' = "ingest" /\ batch' = batch /\ R < A /\ tx # NoTx
        /\ R + 1 \in 1 .. A
    BY <1>2, <1>6 DEF IngestNext, WorkerInv
  <2>2. Len(results') = R + 1
    <3>1. \E b \in BOOLEAN : results' = Append(results, b)
      BY <1>6 DEF IngestNext, Acceptable
    <3> QED BY <1>2, <3>1, AppendProperties
  <2>3. i > A \/ i > R + 1
    BY <2>1, <2>2 DEF Waiting
  <2>4. i # R + 1 /\ i > R
    BY <1>2, <2>1, <2>3
  <2>5. Waiting(i)
    BY <1>1, <2>1, <2>4 DEF Waiting
  <2>6. batch[R + 1].source # Line[i].source
    BY <1>1, <1>2, <2>1, <2>4 DEF OwnerInv
  <2>7. Agree(tx, tx', Line[i].source)
    BY <1>2, <1>6, <2>1, <2>6, IngestAgrees
  <2>8. tx' # NoTx
    <3>1. batch[R + 1] \in Pendings
      BY <2>1, WorkerTypes
    <3>2. batch[R + 1].page \in Page /\ batch[R + 1].source \in Source /\ tx \in Db
      BY <2>1, <3>1, ProducerPagesArePages, StoreFacts DEF Pendings
    <3>3. Ingested(tx, batch[R + 1].source, batch[R + 1].page) \in Db
      BY <3>2, IngestIsLocal
    <3>4. tx' = tx \/ tx' = Ingested(tx, batch[R + 1].source, batch[R + 1].page)
      BY <1>6 DEF IngestNext, IngestPage
    <3> QED BY <2>1, <3>3, <3>4, CollectorAssumption
  <2> QED BY <1>1, <2>1, <2>5, <2>7, <2>8 DEF View
<1>7. CASE CommitSnapshots \/ UpdateMetadata \/ MetadataFails
  <2>1. phase' \in {"metadata", "reply"} /\ batch' = batch /\ View' = View
    BY <1>7 DEF CommitSnapshots, UpdateMetadata, MetadataFails, WorkerInv, View
  <2>2. Waiting(i)
    BY <1>1, <2>1 DEF Waiting
  <2> QED BY <1>1, <1>3, <2>1, <2>2
<1>8. CASE SnapshotsFail
  <2>1. /\ phase' = "reply" /\ batch' = batch /\ tx # NoTx /\ tx' = NoTx /\ db' = db
        /\ R <= A
    BY <1>8 DEF SnapshotsFail, WorkerInv
  <2>2. i > A /\ Waiting(i)
    BY <1>1, <2>1 DEF Waiting
  <2>3. \A j \in 1 .. R : batch[j].source # Line[i].source
    <3>1. \A j \in 1 .. R : j \in 1 .. A /\ j # i
      BY <1>2, <2>1, <2>2
    <3> QED BY <1>1, <1>2, <3>1 DEF OwnerInv
  <2>4. Agree(db, tx, Line[i].source)
    BY <1>2, <2>1, <2>3, IdleAgrees
  <2>5. Agree(tx, db, Line[i].source)
    BY <2>4 DEF Agree
  <2> QED BY <1>1, <2>1, <2>2, <2>5 DEF View
<1> QED BY <1>4, <1>5, <1>6, <1>7, <1>8 DEF Works
(* An answer lets the others move up.                                      *)
LEMMA ReplyWaiting ==
  ASSUME WorkerInv, Reply, NEW i, Waiting(i)'
  PROVE  \E j : Waiting(j) /\ Line'[i] = Line[j]
<1>1. /\ Line' = Tail(Line) /\ Line # <<>> /\ batch # <<>> /\ Line \in Seq(Pendings)
      /\ batch \in Seq(Pendings) /\ batch' = Tail(batch)
  <2>1. Line' = Tail(Line) /\ Line # <<>> /\ batch # <<>>
    BY RepliesLeave
  <2>2. Line \in Seq(Pendings) /\ batch \in Seq(Pendings)
    BY WorkerTypes
  <2>3. batch' = Tail(batch)
    BY DEF Reply
  <2> QED BY <2>1, <2>2, <2>3
<1>2. i \in DOMAIN Line' /\ Line'[i] = Line[i + 1] /\ i + 1 \in DOMAIN Line
  BY <1>1, TailOfLine DEF Waiting
<1>3. Len(batch') = Len(batch) - 1 /\ Len(batch) \in Nat
  BY <1>1, HeadTailProperties, SeqTypes
<1>4. i \in Nat
  <2>1. Line' \in Seq(Pendings)
    BY <1>1, TailOfLine
  <2> QED BY <1>2, <2>1, SeqTypes
<1>5. i > Len(batch')
  <2>1. phase' = IF Tail(batch) = <<>> THEN "collect" ELSE "reply"
    BY DEF Reply
  <2>2. phase' # "gather" /\ phase' # "ingest"
    BY <2>1
  <2> QED BY <2>2 DEF Waiting
<1>6. i + 1 > Len(batch)
  BY <1>3, <1>4, <1>5
<1> QED BY <1>2, <1>6 DEF Waiting

(* A new page waits at the end.                                            *)
LEMMA SendWaiting ==
  ASSUME WorkerInv, JobInv, NEW t \in Task, Send(t), NEW i, Waiting(i)'
  PROVE  (Waiting(i) /\ Line'[i] = Line[i]) \/ Line'[i] = Pending(t)
<1>1. Line' = Append(Line, Pending(t)) /\ Pending(t) \in Pendings /\ Line \in Seq(Pendings)
  BY SendsJoin, WorkerTypes
<1>2. /\ DOMAIN Line = 1 .. Len(Line) /\ Len(Line) \in Nat
      /\ Line' \in Seq(Pendings) /\ Len(Line') = Len(Line) + 1
      /\ \A j \in 1 .. Len(Line) : Line'[j] = Line[j]
      /\ Line'[Len(Line) + 1] = Pending(t)
  BY <1>1, AppendProperties, SeqTypes
<1>3. i \in 1 .. Len(Line) + 1
  BY <1>2, LenProperties DEF Waiting
<1>4. i \in 1 .. Len(Line) \/ i = Len(Line) + 1
  BY <1>2, <1>3
<1>5. UNCHANGED <<batch, results, phase>>
  BY DEF Send, worker
<1>6. i \in 1 .. Len(Line) => Waiting(i)
  BY <1>2, <1>5 DEF Waiting
<1> QED BY <1>2, <1>4, <1>6

(* What a task asked for stays worth taking.                               *)
LEMMA AskedNext ==
  ASSUME Proved!StoreInv, WorkerInv, OwnerInv, JobInv, TakenInv, [Next]_vars, NEW t \in Task
  PROVE  /\ pc'[t] = "history" => job'[t].cursor = db'.cursor[<<Target[t], job'[t].session>>]
         /\ pc'[t] \in {"admit", "send"} => Takes(db', Pending(t)')
<1> DEFINE Goal == /\ pc'[t] = "history" => job'[t].cursor = db'.cursor[<<Target[t], job'[t].session>>]
                   /\ pc'[t] \in {"admit", "send"} => Takes(db', Pending(t)')
<1>1. /\ pc[t] = "history" => job[t].cursor = db.cursor[<<Target[t], job[t].session>>]
      /\ pc[t] \in {"admit", "send"} => Takes(db, Pending(t))
  BY DEF TakenInv
<1>2. Target[t] \in Source /\ db \in Db
  BY CollectorAssumption, StoreFacts
<1>3. job'[t] = job[t] => Pending(t)' = Pending(t)
  BY DEF Pending
<1>4. CASE pc'[t] = pc[t] /\ job'[t] = job[t]
  <2>1. CASE pc[t] = "history"
    <3>1. Agree(db, db', Target[t])
      BY <2>1, HolderIsUntouched DEF Holding
    <3>2. job[t].session \in Session
      BY <2>1 DEF JobInv
    <3> QED BY <1>1, <1>4, <2>1, <3>1, <3>2 DEF Agree
  <2>2. CASE pc[t] \in {"admit", "send"}
    <3>1. Agree(db, db', Target[t])
      BY <2>2, HolderIsUntouched DEF Holding
    <3>2. Pending(t) \in Pendings /\ Pending(t).source = Target[t]
      BY <2>2, PendingType DEF Pending
    <3>3. Takes(db', Pending(t))
      BY <1>1, <2>2, <3>1, <3>2, TakesIsLocal DEF Agree
    <3> QED BY <1>3, <1>4, <2>2, <3>3
  <2> QED BY <1>4, <2>1, <2>2
<1>5. CASE Ask(t) /\ UNCHANGED <<producers, db, tx>>
  <2> DEFINE e == live[Target[t]]
             page == PageOf(e, window[e], job[t].cursor)
  <2>1. CASE pc'[t] = "history"
    BY <1>5, <2>1, AskReaches
  <2>2. CASE pc'[t] = "send"
    <3>1. pc[t] = "admit" /\ job'[t] = job[t]
      BY <1>5, <2>2, AskReaches
    <3> QED BY <1>1, <1>3, <1>5, <2>2, <3>1
  <2>3. CASE pc'[t] = "admit"
    <3>1. /\ pc[t] = "history" /\ job[t].cursor <= window[e].next
          /\ job'[t].session = job[t].session /\ job'[t].page = page
      BY <1>5, <2>3, AskReaches
    <3>2. /\ e \in Session /\ job[t].cursor \in Nat
          /\ window[e].oldest \in 0 .. MaxSequence /\ window[e].next \in 0 .. MaxSequence
          /\ window[e].oldest <= window[e].next
      BY <1>2 DEF JobInv
    <3> HIDE DEF e
    <3>3. page.session = e
      BY <3>1, <3>2, PageShape
    <3>4. job[t].cursor = db.cursor[<<Target[t], job[t].session>>]
      BY <1>1, <3>1
    <3>5. ASSUME job[t].session = e, page.snapshots # <<>>
          PROVE  Acceptable(db, Target[t], e, page)
      <4>1. \A r \in db.rows[<<Target[t], e>>] : r.sequence < job[t].cursor
        <5>1. <<Target[t], e>> \in Stream
          BY <1>2, <3>2 DEF Stream
        <5> QED BY <5>1, <3>4, <3>5, StoreFacts
      <4>2. db.cursor[<<Target[t], e>>] = job[t].cursor
        BY <3>4, <3>5
      <4> QED BY <1>2, <3>1, <3>2, <3>5, <4>1, <4>2, PulledContinues
    <3> HIDE DEF page
    <3>6. /\ Pending(t)'.source = Target[t] /\ Pending(t)'.session = job[t].session
          /\ Pending(t)'.page = page
      BY <3>1 DEF Pending
    <3>7. Takes(db, Pending(t)')
      BY <3>3, <3>5, <3>6 DEF Takes
    <3> QED BY <1>5, <2>3, <3>7
  <2> QED BY <2>1, <2>2, <2>3
<1>6. CASE Send(t)
  <2>1. pc'[t] = "reply"
    BY <1>6 DEF Send, Goto, OwnerInv
  <2> QED BY <2>1
<1>7. CASE pc'[t] \in {"idle", "record"}
  BY <1>7
<1> QED BY <1>4, <1>5, <1>6, <1>7, TaskStep

(* The open transaction concerns the Sources of its pages only.            *)
LEMMA ViewNext ==
  ASSUME Proved!StoreInv, WorkerInv, TakenInv, [Next]_vars, NEW s \in Source,
         tx' # NoTx, \A i \in DOMAIN results' : batch'[i].source # s
  PROVE  Agree(db', tx', s)
<1>1. CASE UNCHANGED <<db, tx>> /\ ~IngestNext
  <2>1. phase = "ingest"
    BY <1>1 DEF WorkerInv
  <2>2. CASE UNCHANGED <<batch, results>>
    BY <1>1, <2>2 DEF TakenInv, Agree
  <2>3. UNCHANGED <<batch, results>>
    <3>1. CASE UNCHANGED vars \/ Produce \/ Control \/ \E t \in Task : Ask(t)
      BY <3>1, WorkerAlone
    <3>2. CASE \E t \in Task : Send(t)
      BY <3>2 DEF Send, worker
    <3>3. CASE TakeFirst \/ Gather \/ BeginWrite \/ UpdateMetadata \/ MetadataFails \/ Reply
      BY <2>1, <3>3 DEF TakeFirst, Gather, BeginWrite, UpdateMetadata, MetadataFails, Reply
    <3>4. CASE CommitSnapshots \/ SnapshotsFail \/ Crash
      BY <3>4 DEF CommitSnapshots, SnapshotsFail, Crash
    <3> QED BY <1>1, <3>1, <3>2, <3>3, <3>4, StepKinds
  <2> QED BY <2>2, <2>3
<1>2. CASE tx' = db /\ db' = db
  BY <1>2 DEF Agree
<1>3. CASE IngestNext
  <2>0. tx # NoTx /\ db' = db
    BY <1>3 DEF IngestNext, WorkerInv
  <2> DEFINE R == Len(results)
  <2>1. \E b \in BOOLEAN : results' = Append(results, b)
    BY <1>3 DEF IngestNext, Acceptable
  <2>2. batch' = batch /\ results \in Seq(BOOLEAN) /\ R \in Nat
    BY <1>3, WorkerTypes DEF IngestNext
  <2>3. results' \in Seq(BOOLEAN) /\ Len(results') = R + 1
    BY <2>1, <2>2, AppendProperties
  <2>4. DOMAIN results' = 1 .. R + 1
    BY <2>3, LenProperties
  <2>5. batch[R + 1].source # s /\ \A i \in 1 .. R : batch[i].source # s
    <3>1. R + 1 \in 1 .. R + 1 /\ \A i \in 1 .. R : i \in 1 .. R + 1
      BY <2>2
    <3> QED BY <2>2, <2>4, <3>1
  <2>6. Agree(tx, tx', s)
    BY <1>3, <2>0, <2>5, IngestAgrees
  <2>7. Agree(db, tx, s)
    BY <2>0, <2>5, IdleAgrees
  <2> QED BY <2>0, <2>6, <2>7 DEF Agree
<1> QED BY <1>1, <1>2, <1>3, DbStep
(* What waits stays worth taking, until the worker gets to it.             *)
LEMMA WaitingNext ==
  ASSUME Proved!StoreInv, WorkerInv, OwnerInv, JobInv, TakenInv, [Next]_vars,
         NEW i, Waiting(i)'
  PROVE  Takes(View', Line'[i])
<1>1. \A j : Waiting(j) => Takes(View, Line[j]) /\ Line[j] \in Pendings
  BY WorkerTypes DEF TakenInv, Waiting
<1>2. CASE UNCHANGED vars \/ Produce \/ Control \/ \E t \in Task : Ask(t)
  <2>1. UNCHANGED <<db, tx, queue, deferred, batch, results, phase>>
    BY <1>2, WorkerAlone
  <2>2. View' = View /\ Line' = Line /\ Waiting(i)
    BY <2>1 DEF View, Line, Waiting
  <2> QED BY <1>1, <2>2
<1>3. ASSUME NEW t \in Task, Send(t) PROVE Takes(View', Line'[i])
  <2>1. View' = View
    BY <1>3 DEF Send, View
  <2>2. CASE Waiting(i) /\ Line'[i] = Line[i]
    BY <1>1, <2>1, <2>2
  <2>3. CASE Line'[i] = Pending(t)
    <3>1. pc[t] = "send"
      BY <1>3 DEF Send
    <3>2. Takes(db, Pending(t)) /\ Pending(t) \in Pendings /\ Pending(t).source = Target[t]
      BY <3>1, PendingType DEF TakenInv, Pending
    <3>3. Agree(db, View, Target[t])
      BY <3>1, HolderIsUntouched DEF Holding
    <3>4. Takes(View, Pending(t))
      BY <3>2, <3>3, TakesIsLocal DEF Agree
    <3> QED BY <2>1, <2>3, <3>4
  <2> QED BY <1>3, <2>2, <2>3, SendWaiting
<1>4. CASE Works
  <2>1. Waiting(i) /\ Line'[i] = Line[i] /\ Agree(View, View', Line[i].source)
    BY <1>4, WorksWaiting
  <2>2. Takes(View, Line[i]) /\ Line[i] \in Pendings
    BY <1>1, <2>1
  <2>3. PICK V : V = View'
    OBVIOUS
  <2>4. Takes(V, Line[i])
    BY <2>1, <2>2, <2>3, TakesIsLocal DEF Agree
  <2> QED BY <2>1, <2>3, <2>4
<1>5. CASE Reply
  <2>1. View' = View
    BY <1>5 DEF Reply, View
  <2>2. \E j : Waiting(j) /\ Line'[i] = Line[j]
    BY <1>5, ReplyWaiting
  <2> QED BY <1>1, <2>1, <2>2
<1>6. CASE Crash
  <2>1. Line' = <<>>
    BY <1>6, CrashEmpties
  <2> QED BY <2>1 DEF Waiting
<1> QED BY <1>2, <1>3, <1>4, <1>5, <1>6, StepKinds DEF Works

(* A page that was pulled stays worth taking, whatever happens.            *)
LEMMA TakenNext ==
  ASSUME Proved!StoreInv, WorkerInv, OwnerInv, JobInv, TakenInv, [Next]_vars
  PROVE  TakenInv'
<1>1. ASSUME NEW s \in Source, tx' # NoTx, \A i \in DOMAIN results' : batch'[i].source # s
      PROVE  Agree(db', tx', s)
  BY <1>1, ViewNext
<1>2. \A t \in Task :
        /\ pc'[t] = "history" => job'[t].cursor = db'.cursor[<<Target[t], job'[t].session>>]
        /\ pc'[t] \in {"admit", "send"} => Takes(db', Pending(t)')
  BY AskedNext
<1>3. \A i : Waiting(i)' => Takes(View', Line'[i])
  BY WaitingNext
<1>4. \A t \in Task : Takes(db', Pending(t)') <=> Takes(db, Pending(t))'
  BY DEF Takes, Pending
<1>5. \A i : Takes(View', Line'[i]) <=> Takes(View, Line[i])'
  BY DEF Takes
<1> QED BY <1>1, <1>2, <1>3, <1>4, <1>5 DEF TakenInv, Agree

-------------------------------------------------------------------------------
(* What has been accepted is durable.                                      *)

(* A history that has grown keeps what is durable,                         *)
LEMMA DurableStays ==
  ASSUME NEW d \in Db, NEW n \in Db, NEW p \in Pendings, Durable(d, p),
         \A k \in Stream : d.rows[k] \subseteq n.rows[k] /\ d.cursor[k] <= n.cursor[k]
  PROVE  Durable(n, p)
<1> DEFINE k == <<p.source, p.session>>
<1>1. k \in Stream /\ p.page.next \in Nat /\ p.source \in Source /\ p.session \in Session
  BY ProducerPagesArePages, PageNumbers DEF Pendings, Stream
<1>2. d.cursor[k] \in Nat /\ n.cursor[k] \in Nat
  BY <1>1, DbNumbers
<1>3. d.rows[k] \subseteq n.rows[k] /\ d.cursor[k] <= n.cursor[k]
  BY <1>1
<1>4. /\ p.session = p.page.session /\ p.page.next <= d.cursor[k]
      /\ \A i \in DOMAIN p.page.snapshots : IsStored(d, k, p.page.snapshots[i].sequence)
  BY DEF Durable
<1> HIDE DEF k
<1>5. p.page.next <= n.cursor[k]
  BY <1>1, <1>2, <1>3, <1>4
<1>6. \A i \in DOMAIN p.page.snapshots : IsStored(n, k, p.page.snapshots[i].sequence)
  BY <1>3, <1>4 DEF IsStored
<1> QED BY <1>4, <1>5, <1>6 DEF Durable, k

(* and an accepted page is in the history.                                 *)
LEMMA AcceptedIsDurable ==
  ASSUME NEW d \in Db, NEW p \in Pendings, Acceptable(d, p.source, p.session, p.page),
         \A k \in Stream : \A r \in d.rows[k] : r.sequence < d.cursor[k]
  PROVE  Durable(Ingested(d, p.source, p.page), p)
<1> DEFINE page == p.page
           k == <<p.source, p.page.session>>
           n == Ingested(d, p.source, p.page)
<1>1. /\ page \in Page /\ p.source \in Source /\ page.session \in Session /\ page.next \in Nat
      /\ page.oldest \in Nat
      /\ \A i \in DOMAIN page.snapshots : page.snapshots[i].sequence \in Nat
  BY ProducerPagesArePages, PageNumbers DEF Pendings
<1>2. p.session = page.session /\ Continues(d, k, page)
  BY DEF Acceptable
<1>3. k \in Stream /\ d.cursor[k] \in Nat
  BY <1>1, DbNumbers DEF Stream
<1>4. \A r \in d.rows[k] : r.sequence \in Nat /\ r.sequence < d.cursor[k]
  BY <1>1, <1>3, DbNumbers
<1>5. d.rows \in [Stream -> SUBSET Row] /\ d.cursor \in [Stream -> Nat]
  BY DEF Db
<1>6. CASE Fresh(d, k, page) = {}
  <2>1. n = d
    BY <1>6 DEF Ingested
  <2> HIDE DEF n, page, k
  <2>2. \A i \in DOMAIN page.snapshots : IsStored(d, k, page.snapshots[i].sequence)
    BY <1>6 DEF Fresh
  <2>3. \A i \in DOMAIN page.snapshots : page.snapshots[i].sequence < d.cursor[k]
    BY <1>4, <2>2 DEF IsStored
  <2>4. Unseen(d, k, page) = {}
    BY <1>1, <1>3, <2>3 DEF Unseen
  <2>5. page.next <= d.cursor[k]
    BY <1>2, <2>4 DEF Continues
  <2> QED BY <1>2, <2>1, <2>2, <2>5 DEF Durable, page, k, n
<1>7. CASE Fresh(d, k, page) # {}
  <2>1. /\ n.rows = [d.rows EXCEPT ![k] = @ \cup NewRows(d, k, page)]
        /\ n.cursor = [d.cursor EXCEPT ![k] = Larger(@, page.next)]
    BY <1>7 DEF Ingested
  <2> HIDE DEF n, page, k
  <2>2. n.rows[k] = d.rows[k] \cup NewRows(d, k, page)
        /\ n.cursor[k] = Larger(d.cursor[k], page.next)
    BY <1>3, <1>5, <2>1
  <2>3. page.next <= n.cursor[k]
    BY <1>1, <1>3, <2>2 DEF Larger
  <2>4. ASSUME NEW i \in DOMAIN page.snapshots
        PROVE  IsStored(n, k, page.snapshots[i].sequence)
    <3>1. CASE i \in Fresh(d, k, page)
      <4> DEFINE r == [id |-> NewId(d, k, page, i), sequence |-> page.snapshots[i].sequence,
                       state |-> page.snapshots[i].state]
      <4>1. r \in NewRows(d, k, page) /\ r.sequence = page.snapshots[i].sequence
        BY <3>1 DEF NewRows
      <4> HIDE DEF r
      <4> QED BY <2>2, <4>1 DEF IsStored
    <3>2. CASE i \notin Fresh(d, k, page)
      <4>1. IsStored(d, k, page.snapshots[i].sequence)
        BY <3>2 DEF Fresh
      <4> QED BY <2>2, <4>1 DEF IsStored
    <3> QED BY <3>1, <3>2
  <2> QED BY <1>2, <2>3, <2>4 DEF Durable, page, k, n
<1> QED BY <1>6, <1>7
(* The accepted pages of the group, before and after an answer.            *)
LEMMA ReplyAccepted ==
  ASSUME WorkerInv, Reply, NEW i \in Accepted'
  PROVE  i + 1 \in Accepted /\ batch'[i] = batch[i + 1]
<1>1. /\ batch \in Seq(Pendings) /\ results \in Seq(BOOLEAN) /\ batch # <<>>
      /\ Len(results) = Len(batch) /\ Len(results) \in Nat /\ Len(batch) \in Nat
  <2>1. batch # <<>> /\ batch \in Seq(Pendings) /\ results \in Seq(BOOLEAN)
        /\ Len(results) \in Nat /\ Len(batch) \in Nat
    BY RepliesLeave, WorkerTypes
  <2>2. phase = "reply"
    BY DEF Reply
  <2> QED BY <2>1, <2>2 DEF WorkerInv
<1>2. results # <<>>
  <2>1. Len(batch) # 0
    BY <1>1, SeqTypes
  <2> QED BY <1>1, <2>1, SeqTypes
<1>3. batch' = Tail(batch)
  BY DEF Reply
<1>4. results' = Tail(results)
  BY DEF Reply
<1>5. i \in DOMAIN results' /\ results'[i]
  BY DEF Accepted
<1>6. results'[i] = results[i + 1] /\ i + 1 \in DOMAIN results
  BY <1>1, <1>2, <1>4, <1>5, TailOfLine
<1>7. i \in DOMAIN batch'
  <2>1. /\ batch' \in Seq(Pendings) /\ Len(batch') = Len(batch) - 1
        /\ results' \in Seq(BOOLEAN) /\ Len(results') = Len(results) - 1
    BY <1>1, <1>2, <1>3, <1>4, HeadTailProperties
  <2>2. DOMAIN batch' = 1 .. Len(batch') /\ DOMAIN results' = 1 .. Len(results')
    BY <2>1, LenProperties
  <2> QED BY <1>1, <1>5, <2>1, <2>2
<1>8. batch'[i] = batch[i + 1]
  BY <1>1, <1>3, <1>7, TailOfLine
<1> QED BY <1>5, <1>6, <1>8 DEF Accepted

(* The pages of the group have different Sources.                          *)
LEMMA GroupIsApart ==
  ASSUME WorkerInv, OwnerInv
  PROVE  /\ \A i, j \in 1 .. Len(batch) : batch[i].source = batch[j].source => i = j
         /\ \A i \in Accepted : i \in 1 .. Len(batch) /\ batch[i] \in Pendings
                                /\ batch[i].source \in Source
<1>1. \A i \in 1 .. Len(batch) : Line[i] = batch[i] /\ i \in DOMAIN Line /\ Line[i] \in Pendings
  BY WorkerTypes
<1>2. \A i \in Accepted : i \in 1 .. Len(batch)
  <2>1. Len(results) <= Len(batch) /\ DOMAIN results = 1 .. Len(results)
        /\ Len(batch) \in Nat /\ Len(results) \in Nat
    <3>1. Len(batch) \in Nat /\ Len(results) \in Nat /\ DOMAIN results = 1 .. Len(results)
      BY WorkerTypes
    <3>2. phase \in {"collect", "gather"} => Len(results) = 0
      BY DEF WorkerInv
    <3> QED BY <3>1, <3>2 DEF WorkerInv
  <2> QED BY <2>1 DEF Accepted
<1> QED BY <1>1, <1>2 DEF OwnerInv, Pendings

(* The transaction on the metadata records the session of every accepted   *)
(* page of the group.                                                      *)
LEMMA UpdateRecords ==
  ASSUME WorkerInv, OwnerInv, UpdateMetadata, NEW i \in Accepted
  PROVE  descriptor'[batch[i].source] = batch[i].session
<1> DEFINE s == batch[i].source
           of == {j \in Accepted : batch[j].source = s}
           last == CHOOSE j \in of : \A m \in of : m <= j
<1>1. s \in Source /\ i \in of
  BY GroupIsApart
<1>2. phase = "metadata" /\ of # {}
  BY <1>1 DEF UpdateMetadata
<1>3. last \in Accepted /\ batch[last].source = s
  BY <1>1, <1>2, LastOfSource
<1>4. descriptor'[s] = batch[last].session
  BY <1>1, <1>2 DEF UpdateMetadata
<1>5. last = i
  <2> HIDE DEF last
  <2> QED BY <1>3, GroupIsApart
<1> QED BY <1>4, <1>5

(* What one more page does to the accepted ones.                           *)
LEMMA IngestDurable ==
  ASSUME Proved!StoreInv, WorkerInv, OwnerInv, DurableInv, IngestNext, NEW i \in Accepted'
  PROVE  batch' = batch /\ tx' # NoTx /\ Durable(tx', batch[i])
<1> DEFINE n == Len(results) + 1
           p == batch[n]
           b == Acceptable(tx, p.source, p.session, p.page)
<1>1. /\ batch' = batch /\ results' = Append(results, b) /\ tx # NoTx /\ View = tx
      /\ tx' = IngestPage(tx, p.source, p.session, p.page)
  BY DEF IngestNext, WorkerInv, View
<1>2. b \in BOOLEAN
  BY DEF Acceptable
<1>3. n \in 1 .. Len(batch) /\ p \in Pendings
  <2>1. n \in 1 .. Len(batch)
    BY WorkerTypes DEF IngestNext
  <2> QED BY <2>1, WorkerTypes
<1>4. /\ b => Accepted' = Accepted \cup {n}
      /\ ~b => Accepted' = Accepted
  <2>1. results \in Seq(BOOLEAN)
    BY WorkerTypes
  <2> QED BY <1>1, <1>2, <2>1, AcceptedGrows
<1>5. /\ tx \in Db /\ p.page \in Page /\ p.source \in Source
      /\ \A k \in Stream : \A r \in tx.rows[k] : r.sequence < tx.cursor[k]
  BY <1>1, <1>3, StoreFacts, ProducerPagesArePages DEF Pendings
<1>6. \A j \in Accepted : Durable(tx, batch[j]) /\ batch[j] \in Pendings
  BY <1>1, GroupIsApart DEF DurableInv
<1>7. tx' = IF b THEN Ingested(tx, p.source, p.page) ELSE tx
  BY <1>1 DEF IngestPage
<1>8. b => Durable(Ingested(tx, p.source, p.page), p)
  BY <1>3, <1>5, AcceptedIsDurable
<1>9. p = batch[n]
  OBVIOUS
<1> HIDE DEF b, n, p
<1>10. CASE ~b
  BY <1>1, <1>4, <1>6, <1>7, <1>10
<1>11. CASE b
  <2> DEFINE N == Ingested(tx, p.source, p.page)
  <2>1. N \in Db /\ \A k \in Stream : tx.rows[k] \subseteq N.rows[k] /\ tx.cursor[k] <= N.cursor[k]
    BY <1>5, IngestIsLocal
  <2>2. tx' = N /\ Durable(N, p)
    BY <1>7, <1>8, <1>11
  <2> HIDE DEF N
  <2>3. \A j \in Accepted : Durable(N, batch[j])
    BY <1>5, <1>6, <2>1, DurableStays
  <2>4. N # NoTx
    BY <2>1, CollectorAssumption
  <2> QED BY <1>1, <1>4, <1>9, <1>11, <2>2, <2>3, <2>4
<1> QED BY <1>10, <1>11

(* An accepted page stays durable and comes to be recorded.                *)
LEMMA DurableNext ==
  ASSUME Proved!StoreInv, WorkerInv, OwnerInv, DurableInv, [Next]_vars
  PROVE  DurableInv'
<1>1. ASSUME View' = View, UNCHANGED <<batch, results, descriptor>>,
             phase' = "reply" => phase = "reply"
      PROVE  DurableInv'
  BY <1>1 DEF DurableInv, Accepted
<1>2. ASSUME Accepted' = {} PROVE DurableInv'
  BY <1>2 DEF DurableInv
<1>3. CASE UNCHANGED vars \/ Produce \/ Control \/ \E t \in Task : Ask(t)
  <2>1. UNCHANGED <<db, tx, queue, deferred, batch, results, phase>>
    BY <1>3, WorkerAlone
  <2>2. UNCHANGED descriptor
    BY <1>3, ProduceIsLocal, ControlIsLocal, AskIsLocal DEF vars, registry
  <2>3. View' = View
    BY <2>1 DEF View
  <2> QED BY <1>1, <2>1, <2>2, <2>3
<1>4. ASSUME NEW t \in Task, Send(t) PROVE DurableInv'
  <2>1. UNCHANGED <<db, tx, batch, results, phase, descriptor>>
    BY <1>4 DEF Send, worker, registry
  <2>2. View' = View
    BY <2>1 DEF View
  <2> QED BY <1>1, <2>1, <2>2
<1>5. CASE TakeFirst \/ Gather \/ BeginWrite
  <2>1. phase \in {"collect", "gather"} /\ results' = results
    BY <1>5 DEF TakeFirst, Gather, BeginWrite
  <2>2. results' = <<>>
    BY <2>1 DEF WorkerInv
  <2>3. Accepted' = {}
    BY <2>2 DEF Accepted
  <2> QED BY <1>2, <2>3
<1>6. CASE IngestNext
  <2>1. phase' # "reply"
    BY <1>6 DEF IngestNext
  <2>2. ASSUME NEW i \in Accepted' PROVE Durable(View', batch'[i])
    BY <1>6, IngestDurable DEF View
  <2> QED BY <2>1, <2>2 DEF DurableInv, Durable
<1>7. CASE CommitSnapshots
  <2>1. UNCHANGED <<batch, results, descriptor>> /\ phase' # "reply" /\ View' = View
    BY <1>7 DEF CommitSnapshots, registry, View, WorkerInv
  <2> QED BY <1>1, <2>1
<1>8. CASE SnapshotsFail \/ MetadataFails
  <2>1. results' = [i \in DOMAIN batch |-> FALSE]
    BY <1>8 DEF SnapshotsFail, MetadataFails, AllFail
  <2>2. Accepted' = {}
    BY <2>1 DEF Accepted
  <2> QED BY <1>2, <2>2
<1>9. CASE UpdateMetadata
  <2>1. UNCHANGED <<batch, results>> /\ View' = View
    BY <1>9 DEF UpdateMetadata, View
  <2>2. Accepted' = Accepted
    BY <2>1 DEF Accepted
  <2>3. \A i \in Accepted : Durable(View', batch'[i])
    BY <2>1 DEF DurableInv
  <2>4. \A i \in Accepted : descriptor'[batch'[i].source] = batch'[i].session
    BY <1>9, <2>1, UpdateRecords
  <2> QED BY <2>2, <2>3, <2>4 DEF DurableInv, Durable
<1>10. CASE Reply
  <2>1. phase = "reply" /\ View' = View /\ descriptor' = descriptor
    BY <1>10 DEF Reply, View, registry
  <2>2. \A i \in Accepted' : i + 1 \in Accepted /\ batch'[i] = batch[i + 1]
    BY <1>10, ReplyAccepted
  <2>3. \A i \in Accepted' : /\ Durable(View', batch'[i])
                             /\ descriptor'[batch'[i].source] = batch'[i].session
    BY <2>1, <2>2 DEF DurableInv
  <2> QED BY <2>3 DEF DurableInv, Durable
<1>11. CASE Crash
  <2>1. Accepted' = {}
    BY <1>11 DEF Crash, Accepted
  <2> QED BY <1>2, <2>1
<1> QED BY <1>3, <1>4, <1>5, <1>6, <1>7, <1>8, <1>9, <1>10, <1>11, StepKinds
-------------------------------------------------------------------------------
(* The invariant.                                                          *)

(* Nothing is stored and nothing is under way at the start.                *)
LEMMA CollectorInit == Init => CollectorInv
<1> SUFFICES ASSUME Init PROVE CollectorInv
  OBVIOUS
<1>0. Line = <<>> /\ DOMAIN Line = {} /\ Accepted = {}
  <2>1. <<>> \o <<>> = <<>>
    BY ConcatEmptySeq, EmptySeq
  <2> QED BY <2>1 DEF Init, Line, Accepted
<1>1. Proved!StoreInv
  <2>1. Proved!Init
    BY SameStore DEF Init, Proved!Init, PagesInTx, LastAccepted
  <2> QED BY <2>1, ProtocolAssumption, StoreReady, SameStore, Proved!InitSound
<1>2. WorkerInv
  <2>1. <<>> \in Seq(Pendings) /\ <<>> \in Seq(BOOLEAN) /\ Len(<<>>) = 0
    BY EmptySeq
  <2> QED BY <2>1, CollectorAssumption DEF Init, WorkerInv
<1>3. OwnerInv
  BY <1>0, CollectorAssumption DEF Init, OwnerInv, Holding
<1>4. JobInv
  <2>1. 0 \in 0 .. MaxSequence
    BY ProtocolAssumption
  <2> QED BY <2>1, CollectorAssumption, NoJobType DEF Init, JobInv, JobType
<1>5. PermitInv
  <2>1. Units(Holders) = {}
    BY <1>0, <1>2, HoldersAre DEF Init, Units, Sending
  <2>2. QueuedBytes \in Nat
    BY CollectorAssumption DEF QueuedBytes
  <2>3. budget = QueuedBytes
    BY DEF Init
  <2>4. IsFiniteSet({}) /\ Cardinality({}) = 0
    BY FS_EmptySet
  <2> QED BY <2>1, <2>2, <2>3, <2>4 DEF PermitInv, QueuedBytes
<1>6. RegistryInv
  BY DEF Init, RegistryInv, RunStatus, SourceState, Terminal
<1>7. TruthInv
  <2>1. \A s \in Source, e \in Session :
          /\ db.rows[<<s, e>>] = {} /\ db.gaps[<<s, e>>] = {} /\ db.cursor[<<s, e>>] = 0
    BY DEF Init, EmptyDb, Stream
  <2>2. \A e \in Session : window[e].next = 0
    BY DEF Init
  <2> QED BY <1>0, <2>1, <2>2 DEF Init, TruthInv, DbIsTrue
<1>8. TakenInv
  BY <1>0 DEF Init, TakenInv, Waiting
<1>9. DurableInv
  BY <1>0 DEF DurableInv
<1> QED BY <1>1, <1>2, <1>3, <1>4, <1>5, <1>6, <1>7, <1>8, <1>9 DEF CollectorInv

(* Every step keeps every part.                                            *)
LEMMA CollectorNext == CollectorInv /\ [Next]_vars => CollectorInv'
<1> SUFFICES ASSUME CollectorInv, [Next]_vars PROVE CollectorInv'
  OBVIOUS
<1>1. /\ Proved!StoreInv /\ WorkerInv /\ OwnerInv /\ JobInv /\ PermitInv /\ RegistryInv
      /\ TruthInv /\ TakenInv /\ DurableInv
  BY DEF CollectorInv
<1>2. WorkerInv'
  BY <1>1, WorkerNext
<1>3. Proved!StoreInv'
  BY <1>1, <1>2, StoreNext
<1>4. OwnerInv'
  BY <1>1, OwnerNext
<1>5. JobInv'
  BY <1>1, JobNext
<1>6. PermitInv'
  BY <1>1, <1>2, PermitNext
<1>7. RegistryInv'
  BY <1>1, RegistryNext
<1>8. TruthInv'
  BY <1>1, TruthNext
<1>9. TakenInv'
  BY <1>1, TakenNext
<1>10. DurableInv'
  BY <1>1, DurableNext
<1> QED BY <1>2, <1>3, <1>4, <1>5, <1>6, <1>7, <1>8, <1>9, <1>10 DEF CollectorInv

(* The collector's invariant, whatever is captured, scraped, cancelled,    *)
(* stopped, failed or restarted, in any order.                             *)
THEOREM CollectorIsSound == Spec => []CollectorInv
BY CollectorInit, CollectorNext, PTL DEF Spec

-------------------------------------------------------------------------------
(* What follows from it.                                                   *)

(* The mutex of a Source and the permits of a page have one holder each.   *)
LEMMA InvGivesGuards == CollectorInv => GuardsFollowPages
<1> SUFFICES ASSUME CollectorInv PROVE GuardsFollowPages
  OBVIOUS
<1>1. /\ Proved!StoreInv /\ WorkerInv /\ OwnerInv /\ JobInv /\ PermitInv /\ RegistryInv
  BY DEF CollectorInv
<1>2. Units(Holders) = UNION {{p} \X (1 .. Bytes(p.page)) : p \in Holders}
  BY DEF Units
<1>3. /\ budget \in Nat /\ Cardinality(Units(Holders)) \in Nat
      /\ budget + Cardinality(Units(Holders)) = QueuedBytes
  BY <1>1, FS_CardinalityType DEF PermitInv
<1>4. PermitsAddUp
  BY <1>2, <1>3 DEF PermitsAddUp
<1>5. budget \in 0 .. QueuedBytes
  <2>1. PICK c \in Nat : c = Cardinality(Units(Holders))
    BY <1>3
  <2>2. PICK q : q = QueuedBytes /\ budget + c = q
    BY <1>3, <2>1
  <2> QED BY <1>3, <2>1, <2>2
<1>6. OwnershipIsExclusive
  <2>1. Admitted = {Line[i] : i \in DOMAIN Line}
    BY <1>1, HoldersAre
  <2> QED BY <1>1, <2>1 DEF OwnerInv, OwnershipIsExclusive
<1>7. TypeOK
  <2>1. \A t \in Task : pc[t] \in {"admit", "send", "reply"} => job[t].page \in Page
    BY <1>1, ProducerPagesArePages DEF JobInv
  <2>2. db \in Db /\ tx \in Db \cup {NoTx} /\ (tx # NoTx <=> phase = "ingest")
    BY <1>1, StoreFacts DEF WorkerInv
  <2>3. live \in [Source -> Session]
        /\ window \in [Session -> [oldest : 0 .. MaxSequence, next : 0 .. MaxSequence,
                                   sealed : BOOLEAN]]
    BY <1>1 DEF JobInv
  <2>4. /\ run \in RunStatus /\ state \in [Source -> SourceState]
        /\ descriptor \in [Source -> Session \cup {NoSession}]
    BY <1>1 DEF RegistryInv
  <2>5. /\ pc \in [Task -> {"idle", "lock", "reply", "record"} \cup Holding]
        /\ owner \in [Source -> Task \cup {Free, Writer}]
    BY <1>1 DEF OwnerInv
  <2>6. /\ Len(queue) <= MaxBatchPages /\ Len(batch) <= MaxBatchPages /\ Len(deferred) <= 1
        /\ phase \in {"collect", "gather", "ingest", "metadata", "reply"}
        /\ phase = "collect" <=> batch = <<>>
    BY <1>1 DEF WorkerInv
  <2> QED BY <1>5, <2>1, <2>2, <2>3, <2>4, <2>5, <2>6 DEF TypeOK
<1> QED BY <1>4, <1>6, <1>7 DEF GuardsFollowPages

(* Ownership and permits follow the page from the lock in scrape_source to *)
(* the reply of the Ingestor, through cancellation, failure and crash.     *)
THEOREM GuardsStayWithPages == Spec => []GuardsFollowPages
BY CollectorIsSound, InvGivesGuards, PTL

(* Rows, gaps and cursors of every session say what its producer captured  *)
(* and let go (ingest_page, whatever fell between descriptor and history). *)
THEOREM StoredIsTrue == Spec => []StoredIsWhatWasCaptured
<1>1. CollectorInv => StoredIsWhatWasCaptured
  BY DEF CollectorInv, TruthInv, DbIsTrue, StoredIsWhatWasCaptured
<1> QED BY <1>1, CollectorIsSound, PTL

(* Every admitted page that is not written yet waits in line.              *)
LEMMA InvGivesTaken == CollectorInv => PulledPagesAreTaken
<1> SUFFICES ASSUME CollectorInv, NEW p \in Unwritten PROVE Takes(View, p)
  BY DEF PulledPagesAreTaken, Takes, View
<1>1. WorkerInv /\ TakenInv
  BY DEF CollectorInv
<1> DEFINE A == Len(batch)
           B == Len(deferred)
           C == Len(queue)
<1>2. /\ queue \in Seq(Pendings) /\ deferred \in Seq(Pendings) /\ batch \in Seq(Pendings)
      /\ DOMAIN Line = 1 .. A + B + C
  BY <1>1, WorkerTypes
<1>3. /\ A \in Nat /\ B \in Nat /\ C \in Nat
      /\ DOMAIN batch = 1 .. A /\ DOMAIN deferred = 1 .. B /\ DOMAIN queue = 1 .. C
  BY <1>2, SeqTypes
<1>4. /\ \A i \in 1 .. A : Line[i] = batch[i]
      /\ \A i \in A + 1 .. A + B : Line[i] = deferred[i - A]
      /\ \A i \in A + B + 1 .. A + B + C : Line[i] = queue[i - (A + B)]
  BY <1>2, ThreeInARow DEF Line
<1>5. \E i : Waiting(i) /\ Line[i] = p
  <2>1. ASSUME NEW j \in DOMAIN queue, p = queue[j] PROVE \E i : Waiting(i) /\ Line[i] = p
    <3>1. /\ j + (A + B) \in A + B + 1 .. A + B + C /\ j + (A + B) \in 1 .. A + B + C
          /\ j + (A + B) > A /\ j + (A + B) - (A + B) = j
      <4> HIDE DEF A, B, C
      <4> QED BY <1>3, <2>1
    <3>2. Line[j + (A + B)] = p
      BY <1>4, <2>1, <3>1
    <3> QED BY <1>2, <3>1, <3>2 DEF Waiting
  <2>2. ASSUME NEW j \in DOMAIN deferred, p = deferred[j] PROVE \E i : Waiting(i) /\ Line[i] = p
    <3>1. /\ j + A \in A + 1 .. A + B /\ j + A \in 1 .. A + B + C
          /\ j + A > A /\ j + A - A = j
      <4> HIDE DEF A, B, C
      <4> QED BY <1>3, <2>2
    <3>2. Line[j + A] = p
      BY <1>4, <2>2, <3>1
    <3> QED BY <1>2, <3>1, <3>2 DEF Waiting
  <2>3. ASSUME NEW j \in DOMAIN batch, j > Len(results), p = batch[j],
               phase \in {"gather", "ingest"}
        PROVE  \E i : Waiting(i) /\ Line[i] = p
    <3>1. j \in 1 .. A /\ j \in DOMAIN Line
      <4> HIDE DEF A, B, C
      <4> QED BY <1>2, <1>3, <2>3
    <3> QED BY <1>4, <2>3, <3>1 DEF Waiting
  <2> QED BY <2>1, <2>2, <2>3 DEF Unwritten
<1> QED BY <1>1, <1>5 DEF TakenInv, Waiting

(* Nothing makes a page stale between its pull and its ingestion: that is  *)
(* what scrape_source holds the owner mutex for.                           *)
THEOREM PulledPagesStayGood == Spec => []PulledPagesAreTaken
BY CollectorIsSound, InvGivesTaken, PTL
(* A caller that hears Ok hears it of its own page, and of an accepted one.*)
LEMMA OkIsAccepted ==
  ASSUME CollectorInv, [Next]_vars, NEW t \in Task,
         pc[t] = "reply", pc'[t] = "idle", job'[t].result = "ok"
  PROVE  Reply /\ 1 \in Accepted /\ batch[1] = Pending(t) /\ phase = "reply"
<1>0. WorkerInv /\ OwnerInv /\ JobInv
  BY DEF CollectorInv
<1>1. DOMAIN pc = Task /\ DOMAIN job = Task
  BY <1>0 DEF OwnerInv, JobInv
<1>2. NoJob.result # "ok"
  BY DEF NoJob
<1>3. Reply
  <2>1. ~(UNCHANGED vars \/ Produce \/ Control)
    <3>1. ASSUME UNCHANGED vars \/ Produce \/ Control PROVE pc' = pc
      BY <3>1, ProduceIsLocal, ControlIsLocal DEF tasks, vars
    <3> QED BY <3>1
  <2>2. ASSUME NEW u \in Task, Ask(u) PROVE FALSE
    <3>1. CASE u # t
      <4>1. PICK label \in Labels : Moves(u, label)
        BY <1>0, <2>2, AskMoves
      <4> QED BY <1>1, <3>1, <4>1 DEF Moves
    <3>2. CASE u = t
      <4>1. CASE Cancel(t)
        <5>1. job'[t] = NoJob
          BY <1>1, <4>1 DEF Cancel
        <5> QED BY <1>2, <5>1
      <4>2. CASE Start(t) \/ AcquireOwner(t) \/ CheckSource(t) \/ PullDescriptor(t) \/ ReadCursor(t)
        BY <4>2 DEF Start, AcquireOwner, CheckSource, PullDescriptor, ReadCursor
      <4>3. CASE PullHistory(t) \/ AcquireBudget(t) \/ RecordFailure(t) \/ PullFails(t)
        BY <4>3 DEF PullHistory, AcquireBudget, RecordFailure, PullFails
      <4> QED BY <2>2, <3>2, <4>1, <4>2, <4>3 DEF Ask
    <3> QED BY <3>1, <3>2
  <2>3. ASSUME NEW u \in Task, Send(u) PROVE FALSE
    <3>1. pc[u] = "send" /\ pc' = [pc EXCEPT ![u] = "reply"]
      BY <2>3 DEF Send, Goto
    <3> QED BY <1>1, <3>1
  <2>4. ~Works
    <3>1. Works => pc' = pc
      BY <1>0, LineStays DEF tasks
    <3> QED BY <3>1
  <2>5. ~Crash
    <3>1. Crash => job'[t] = NoJob
      BY DEF Crash
    <3> QED BY <1>2, <3>1
  <2> QED BY <2>1, <2>2, <2>3, <2>4, <2>5, StepKinds DEF Works
<1> DEFINE p == Head(batch)
<1>4. phase = "reply"
  BY <1>3 DEF Reply
<1>5. /\ batch # <<>> /\ p = Head(Line) /\ Line # <<>> /\ Line \in Seq(Pendings)
      /\ batch \in Seq(Pendings) /\ results \in Seq(BOOLEAN) /\ Len(results) = Len(batch)
  BY <1>0, <1>3, <1>4, RepliesLeave, WorkerTypes DEF WorkerInv
<1>6. p = batch[1] /\ p = Line[1] /\ 1 \in DOMAIN Line /\ 1 \in DOMAIN results
      /\ Head(results) = results[1]
  <2>1. p = batch[1] /\ p = Line[1] /\ 1 \in DOMAIN Line
    BY <1>5, SeqTypes, TailOfLine
  <2>2. Len(batch) \in Nat /\ Len(batch) # 0
    BY <1>5, SeqTypes
  <2>3. results # <<>> /\ DOMAIN results = 1 .. Len(results) /\ Head(results) = results[1]
    BY <1>5, <2>2, SeqTypes
  <2> QED BY <1>5, <2>1, <2>2, <2>3
<1>7. \/ pc[p.task] = "reply" /\ Return(p.task, IF Head(results) THEN "ok" ELSE "failed")
      \/ UNCHANGED <<pc, job>>
  BY <1>3 DEF Reply
<1> HIDE DEF p
<1>8. p.task = t
  <2>1. CASE pc[p.task] = "reply" /\ Return(p.task, IF Head(results) THEN "ok" ELSE "failed")
    BY <1>1, <2>1 DEF Return, Goto
  <2>2. CASE UNCHANGED <<pc, job>>
    BY <2>2
  <2> QED BY <1>7, <2>1, <2>2
<1>9. results[1] = TRUE
  <2>1. Return(t, IF Head(results) THEN "ok" ELSE "failed")
    BY <1>7, <1>8
  <2>2. job'[t].result = IF Head(results) THEN "ok" ELSE "failed"
    BY <1>1, <2>1 DEF Return, NoJob
  <2>3. results[1] \in BOOLEAN
    BY <1>5, <1>6, SeqTypes
  <2> QED BY <1>6, <2>2, <2>3
<1>10. p = Pending(t)
  <2>1. PICK i \in DOMAIN Line : Line[i] = Pending(t)
    BY <1>0 DEF OwnerInv
  <2>2. Line[i].source = Target[t] /\ Line[1].source = Target[t]
    BY <1>0, <1>6, <1>8, <2>1 DEF OwnerInv, Pending
  <2>3. i = 1
    BY <1>0, <1>6, <2>2 DEF OwnerInv
  <2> QED BY <1>6, <2>1, <2>3
<1> QED BY <1>3, <1>4, <1>6, <1>9, <1>10 DEF Accepted

(* Ok from scrape_source means both commits have happened.                 *)
THEOREM OkMeansDurable == Spec => SuccessMeansDurable
<1> DEFINE Ok(t) ==
             (pc[t] = "reply" /\ pc'[t] = "idle" /\ job'[t].result = "ok") =>
               LET k    == <<Target[t], job[t].session>>
                   page == job[t].page
               IN /\ \A i \in DOMAIN page.snapshots : IsStored(db', k, page.snapshots[i].sequence)
                  /\ page.next <= db'.cursor[k]
                  /\ descriptor'[Target[t]] = job[t].session
<1>1. ASSUME CollectorInv, [Next]_vars, NEW t \in Task PROVE Ok(t)
  <2> SUFFICES ASSUME pc[t] = "reply", pc'[t] = "idle", job'[t].result = "ok"
               PROVE  LET k    == <<Target[t], job[t].session>>
                          page == job[t].page
                      IN /\ \A i \in DOMAIN page.snapshots :
                              IsStored(db', k, page.snapshots[i].sequence)
                         /\ page.next <= db'.cursor[k]
                         /\ descriptor'[Target[t]] = job[t].session
    OBVIOUS
  <2>1. Reply /\ 1 \in Accepted /\ batch[1] = Pending(t) /\ phase = "reply"
    BY <1>1, OkIsAccepted
  <2>2. tx = NoTx /\ db' = db /\ descriptor' = descriptor
    BY <1>1, <2>1 DEF Reply, registry, CollectorInv, WorkerInv
  <2>3. /\ Durable(db, Pending(t))
        /\ descriptor[Pending(t).source] = Pending(t).session
    BY <1>1, <2>1, <2>2 DEF CollectorInv, DurableInv, View
  <2> QED BY <2>2, <2>3 DEF Durable, Pending
<1>2. CollectorInv /\ [Next]_vars => [\A t \in Task : Ok(t)]_vars
  BY <1>1
<1> QED BY <1>2, CollectorIsSound, PTL DEF Spec, SuccessMeansDurable

(* Nothing in flight brings a stopped Source or an ended Run back          *)
(* (update_source_success_batch, update_source_failure).                   *)
THEOREM StopsAreFinal == Spec => StoppedStaysStopped
<1>1. ASSUME CollectorInv, [Next]_vars
      PROVE  /\ \A s \in Source : state[s] \in Stopped => state'[s] \in Stopped
             /\ \A s \in Source : state[s] \in {"ended", "lost"} => state'[s] = state[s]
             /\ run \in Terminal => run' = run /\ \A s \in Source : state'[s] \in {"ended", "lost"}
  <2>1. WorkerInv /\ RegistryInv
    BY <1>1 DEF CollectorInv
  <2>2. /\ RegistryInv'
        /\ \A s \in Source : state[s] \in Stopped => state'[s] \in Stopped
        /\ \A s \in Source : state[s] \in {"ended", "lost"} => state'[s] = state[s]
        /\ run \in Terminal => run' = run
    BY <1>1, <2>1, RegistryNext
  <2> QED BY <2>2 DEF RegistryInv
<1>2. CollectorInv /\ [Next]_vars =>
        [/\ \A s \in Source : state[s] \in Stopped => state'[s] \in Stopped
         /\ \A s \in Source : state[s] \in {"ended", "lost"} => state'[s] = state[s]
         /\ run \in Terminal => run' = run /\ \A s \in Source : state'[s] \in {"ended", "lost"}]_vars
  BY <1>1
<1> QED BY <1>2, CollectorIsSound, PTL DEF Spec, StoppedStaysStopped

(* The store that the proofs are about is the store of ImplementsStore.    *)
LEMMA StoreIsTheStore ==
  /\ Proved!Init <=> Store!Init
  /\ [Proved!Next]_(Proved!vars) => [Store!Next]_(Store!vars)
<1>1. Store!Stream = Stream /\ Store!Row = Row /\ Store!Gap = Gap /\ Store!EmptyDb = EmptyDb
  BY DEF Store!Stream, Stream, Store!Row, Row, Store!Gap, Gap, Store!EmptyDb, EmptyDb
<1>2. \A d, source, page : Store!Ingested(d, source, page) = Ingested(d, source, page)
  BY DEF Store!Ingested, Ingested, Store!Fresh, Fresh, Store!NewRows, NewRows,
         Store!NewHead, NewHead, Store!NewId, NewId, Store!Larger, Larger,
         Store!IsStored, IsStored, Store!Cardinality, Cardinality
<1>3. \A d, source, session, page :
        Store!Acceptable(d, source, session, page) <=> Acceptable(d, source, session, page)
  BY DEF Store!Acceptable, Acceptable, Store!ValidPage, ValidPage, Store!Continues, Continues,
         Store!Unseen, Unseen, Store!Agrees, Agrees, Store!Larger, Larger,
         Store!IsStored, IsStored
<1>4. \A d, source, session, page :
        Store!IngestPage(d, source, session, page) = Proved!IngestPage(d, source, session, page)
  BY <1>2, <1>3, SameStore DEF Store!IngestPage, Proved!IngestPage
<1>5. \A source, session, page :
        Proved!Ingest(source, session, page) => Store!Ingest(source, session, page)
  BY <1>3, <1>4, SameStore DEF Store!Ingest, Proved!Ingest
<1>6. (Proved!Begin => Store!Begin) /\ (Proved!Commit => Store!Commit)
      /\ (Proved!Rollback => Store!Rollback)
  BY DEF Proved!Begin, Store!Begin, Proved!Commit, Store!Commit, Proved!Rollback, Store!Rollback
<1>7. Proved!Next => Store!Next
  BY <1>5, <1>6 DEF Proved!Next, Store!Next
<1>8. Proved!vars = Store!vars
  BY DEF Proved!vars, Store!vars
<1>9. Proved!Init <=> Store!Init
  BY <1>1, SameStore DEF Proved!Init, Store!Init
<1> QED BY <1>7, <1>8, <1>9 DEF Proved!vars, Store!vars

(* The writer uses the store as SnapshotStore allows: one transaction at a *)
(* time, pages of producers only, no more than a batch of them.            *)
THEOREM CollectorImplementsStore == Spec => ImplementsStore
<1>1. Init => Store!Init
  BY SameStore, StoreIsTheStore DEF Init, Proved!Init, PagesInTx, LastAccepted
<1>2. CollectorInv /\ CollectorInv' /\ [Next]_vars => [Store!Next]_(Store!vars)
  <2>1. (CollectorInv => WorkerInv)'
    <3>1. CollectorInv => WorkerInv
      BY DEF CollectorInv
    <3> QED BY <3>1, PTL
  <2>2. CollectorInv => WorkerInv
    BY DEF CollectorInv
  <2> QED BY <2>1, <2>2, StoreStep, StoreIsTheStore
<1> QED BY <1>1, <1>2, CollectorIsSound, PTL DEF Spec, ImplementsStore, Store!Spec

(* What the store promises holds of the history that is collected: an      *)
(* acknowledgment is given exactly for what is durable.                    *)
THEOREM CollectedAcksAreExact == Spec => []Proved!AckIsExact
<1>1. CollectorInv => Proved!AckIsExact
  <2> SUFFICES ASSUME CollectorInv PROVE Proved!AckIsExact
    OBVIOUS
  <2>1. db \in Proved!Db /\ Proved!Accounts(db)
    BY DEF CollectorInv, Proved!StoreInv, Proved!Sound, Proved!TypeOK
  <2>2. ASSUME NEW k \in Proved!Stream, NEW next \in 0 .. MaxSequence
        PROVE  Proved!Complete(db, k, next)
                 <=> \A n \in 0 .. next - 1 : Proved!IsStored(db, k, n)
    <3>1. next \in Nat
      OBVIOUS
    <3> QED BY <2>1, <3>1, ProtocolAssumption, StoreReady, SameStore, Proved!AccountsGiveAck
  <2> QED BY <2>2 DEF Proved!AckIsExact
<1> QED BY <1>1, CollectorIsSound, PTL

===============================================================================

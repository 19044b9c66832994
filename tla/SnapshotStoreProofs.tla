-------------------------- MODULE SnapshotStoreProofs -------------------------
(***************************************************************************)
(* The store's promises for every set of Sources, sessions and contents    *)
(* and for every sequence of pages whatsoever.                             *)
(*                                                                         *)
(* The argument: Accounts, the conjunction of Covered, RowsBehindCursor    *)
(* and GapsAreHoles, is preserved by every accepted page.  It holds of the *)
(* database an open transaction sees as well as of the committed one,      *)
(* which makes it inductive over Begin and Commit.                         *)
(***************************************************************************)
EXTENDS SnapshotStore, FiniteSetTheorems, WellFoundedInduction, TLAPS

Accounts(d) == Covered(d) /\ RowsBehindCursor(d) /\ GapsAreHoles(d)

(* Where the page's new entries must start.                                *)
Expected(d, k, page) == Larger(d.cursor[k], page.oldest)

(* The type of an entry and of its place in a page.                        *)
LEMMA PageTypes ==
  ASSUME NEW page \in Page
  PROVE  /\ page.session \in Session /\ page.oldest \in Nat /\ page.next \in Nat
         /\ page.dropped \in Nat \cup {NotDropped}
         /\ page.snapshots \in Seq(Snapshot) /\ Len(page.snapshots) \in Nat
         /\ DOMAIN page.snapshots = 1 .. Len(page.snapshots)
         /\ \A i \in DOMAIN page.snapshots :
              /\ page.snapshots[i].sequence \in Nat
              /\ page.snapshots[i].state \in State
<1>1. page.snapshots \in Seq(Snapshot)
  BY DEF Page
<1>2. \A i \in 1 .. Len(page.snapshots) : page.snapshots[i] \in Snapshot
  BY <1>1
<1> QED BY <1>1, <1>2 DEF Page, Snapshot

(* The types of a database's tables.                                       *)
LEMMA DbTypes ==
  ASSUME NEW d \in Db, NEW k \in Stream
  PROVE  /\ d.cursor[k] \in Nat /\ d.last_id \in Nat
         /\ d.rows[k] \subseteq Row /\ d.gaps[k] \subseteq Gap
         /\ \A r \in d.rows[k] : r.id \in Nat /\ r.sequence \in Nat /\ r.state \in State
         /\ \A g \in d.gaps[k] : g.expected \in Nat /\ g.oldest \in Nat
<1>1. /\ d.cursor \in [Stream -> Nat] /\ d.last_id \in Nat
      /\ d.rows \in [Stream -> SUBSET Row] /\ d.gaps \in [Stream -> SUBSET Gap]
  BY DEF Db
<1>2. d.rows[k] \in SUBSET Row /\ d.gaps[k] \in SUBSET Gap
  BY <1>1
<1>3. \A r \in Row : r.id \in Nat /\ r.sequence \in Nat /\ r.state \in State
  BY DEF Row
<1>4. \A g \in Gap : g.expected \in Nat /\ g.oldest \in Nat
  BY DEF Gap
<1> QED BY <1>1, <1>2, <1>3, <1>4

(* What an accepted page that inserts something inserts: exactly the run   *)
(* of sequences from the expected one to the page's next_sequence.         *)
LEMMA FreshIsRun ==
  ASSUME NEW d \in Db, NEW source \in Source, NEW session \in Session,
         NEW page \in Page, NEW k, k = <<source, page.session>>,
         RowsBehindCursor(d), Acceptable(d, source, session, page),
         Fresh(d, k, page) # {}
  PROVE  /\ k \in Stream /\ d.cursor[k] \in Nat
         /\ Expected(d, k, page) \in Nat
         /\ d.cursor[k] <= Expected(d, k, page)
         /\ Expected(d, k, page) < page.next
         /\ page.oldest > d.cursor[k] => Expected(d, k, page) = page.oldest
         /\ page.oldest <= d.cursor[k] => Expected(d, k, page) = d.cursor[k]
         /\ \A i \in Fresh(d, k, page) :
              page.snapshots[i].sequence \in Expected(d, k, page) .. page.next - 1
         /\ \A n \in Expected(d, k, page) .. page.next - 1 :
              \E i \in Fresh(d, k, page) : page.snapshots[i].sequence = n
         /\ \A i, j \in DOMAIN page.snapshots :
              page.snapshots[i].sequence = page.snapshots[j].sequence => i = j
<1> DEFINE N == Len(page.snapshots)
           seq(i) == page.snapshots[i].sequence
           c == d.cursor[k]
           e == Expected(d, k, page)
<1>1. k \in Stream /\ c \in Nat
  BY PageTypes DEF Stream, Db
<1>2. /\ page.oldest \in Nat /\ page.next \in Nat /\ N \in Nat
      /\ DOMAIN page.snapshots = 1 .. N
      /\ \A i \in 1 .. N : seq(i) \in Nat
  BY PageTypes
<1>3. e \in Nat /\ c <= e /\ (page.oldest > c => e = page.oldest)
                          /\ (page.oldest <= c => e = c)
  BY <1>1, <1>2 DEF Expected, Larger
<1>4. /\ page.oldest <= page.next
      /\ \A i \in 1 .. N : seq(i) >= page.oldest /\ seq(i) = seq(1) + i - 1
      /\ N # 0 => page.next = seq(N) + 1
  BY <1>2 DEF Acceptable, ValidPage
<1>5. Continues(d, k, page)
  BY DEF Acceptable
<1>6. \A i \in 1 .. N : Agrees(d, k, page.snapshots[i])
  BY <1>2 DEF Acceptable
<1>7. \A i \in 1 .. N : i \in Fresh(d, k, page) <=> seq(i) >= c
  <2> TAKE i \in 1 .. N
  <2>1. ASSUME i \in Fresh(d, k, page) PROVE seq(i) >= c
    BY <2>1, <1>6 DEF Fresh, Agrees
  <2>2. ASSUME seq(i) >= c PROVE i \in Fresh(d, k, page)
    <3>1. \A r \in d.rows[k] : r.sequence < c /\ r.sequence \in Nat
      BY <1>1, DbTypes DEF RowsBehindCursor
    <3>2. ~IsStored(d, k, seq(i))
      <4>1. seq(i) \in Nat
        BY <1>2
      <4> HIDE DEF seq, c
      <4> QED BY <3>1, <2>2, <4>1, <1>1 DEF IsStored
    <3> QED BY <3>2, <1>2 DEF Fresh
  <2> QED BY <2>1, <2>2
<1>8. Fresh(d, k, page) = Unseen(d, k, page)
  BY <1>7, <1>2 DEF Fresh, Unseen
<1>9. PICK f \in Fresh(d, k, page) :
        (\A j \in Fresh(d, k, page) : f <= j) /\ seq(f) = e
  BY <1>8, <1>5 DEF Continues, Expected
<1>10. f \in 1 .. N
  BY <1>9, <1>2 DEF Fresh
<1> DEFINE b == seq(1)
<1>11. /\ 1 \in 1 .. N /\ N \in 1 .. N
       /\ b \in Nat /\ e = b + f - 1 /\ page.next = b + N
       /\ \A i \in 1 .. N : seq(i) = b + i - 1
  <2>1. 1 \in 1 .. N /\ N \in 1 .. N /\ N # 0
    BY <1>2, <1>10
  <2>2. b \in Nat /\ seq(N) = b + N - 1 /\ seq(f) = b + f - 1
    BY <2>1, <1>2, <1>4, <1>10
  <2>3. page.next = seq(N) + 1
    BY <2>1, <1>4
  <2>4. page.next = b + N
    <3> HIDE DEF N, seq, b
    <3>1. N \in Nat
      BY <1>2
    <3> QED BY <2>2, <2>3, <3>1
  <2>5. e = b + f - 1
    BY <2>2, <1>9
  <2>6. \A i \in 1 .. N : seq(i) = b + i - 1
    BY <1>4
  <2> QED BY <2>1, <2>2, <2>4, <2>5, <2>6
<1> HIDE DEF b
<1>16. e < page.next
  BY <1>2, <1>10, <1>11
<1>12. \A i \in Fresh(d, k, page) : seq(i) \in e .. page.next - 1
  <2> TAKE i \in Fresh(d, k, page)
  <2>1. i \in 1 .. N /\ f <= i
    BY <1>9, <1>2 DEF Fresh
  <2>2. seq(i) = b + i - 1
    BY <2>1, <1>11
  <2> QED BY <2>1, <2>2, <1>2, <1>10, <1>11
<1>13. \A n \in e .. page.next - 1 : \E i \in Fresh(d, k, page) : seq(i) = n
  <2> TAKE n \in e .. page.next - 1
  <2> DEFINE i == n - b + 1
  <2>1. i \in 1 .. N /\ n \in Nat /\ n >= c
    <3>1. /\ b \in Nat /\ N \in Nat /\ c \in Nat /\ e \in Nat /\ f \in 1 .. N
          /\ e = b + f - 1 /\ page.next = b + N /\ c <= e
      BY <1>1, <1>2, <1>3, <1>10, <1>11
    <3> HIDE DEF N, c, e
    <3> QED BY <3>1
  <2>2. seq(i) = n
    BY <2>1, <1>11
  <2>3. i \in Fresh(d, k, page)
    BY <2>1, <2>2, <1>7
  <2> QED BY <2>2, <2>3
<1>14. \A i, j \in 1 .. N : seq(i) = seq(j) => i = j
  <2> TAKE i, j \in 1 .. N
  <2>1. seq(i) = seq(1) + i - 1 /\ seq(j) = seq(1) + j - 1
    BY <1>4
  <2>2. seq(1) \in Nat
    BY <1>2
  <2> QED BY <2>1, <2>2
<1> QED BY <1>1, <1>2, <1>3, <1>16, <1>12, <1>13, <1>14

(* New ids follow the last one, and grow along the page.                   *)
LEMMA NewIds ==
  ASSUME NEW d \in Db, NEW page \in Page, NEW k
  PROVE  /\ Fresh(d, k, page) \subseteq 1 .. Len(page.snapshots)
         /\ Cardinality(Fresh(d, k, page)) \in Nat
         /\ \A i \in Fresh(d, k, page) :
              /\ NewId(d, k, page, i) \in Nat
              /\ d.last_id < NewId(d, k, page, i)
              /\ NewId(d, k, page, i) <= d.last_id + Cardinality(Fresh(d, k, page))
         /\ \A i, j \in Fresh(d, k, page) :
              i <= j => NewId(d, k, page, i) <= NewId(d, k, page, j)
<1> DEFINE F == Fresh(d, k, page)
           Upto(i) == {j \in F : j <= i}
           N == Len(page.snapshots)
<1>1. N \in Nat /\ F \subseteq 1 .. N
  BY PageTypes DEF Fresh
<1>2. IsFiniteSet(1 .. N)
  BY <1>1, FS_Interval
<1>3. IsFiniteSet(F) /\ Cardinality(F) \in Nat
  BY <1>1, <1>2, FS_Subset, FS_CardinalityType
<1>4. d.last_id \in Nat
  BY DEF Db
<1> HIDE DEF F
<1>5. \A i \in F : /\ IsFiniteSet(Upto(i)) /\ Cardinality(Upto(i)) \in Nat
                   /\ Cardinality(Upto(i)) <= Cardinality(F)
                   /\ Cardinality(Upto(i)) # 0
  <2> TAKE i \in F
  <2>1. Upto(i) \subseteq F /\ i \in Upto(i)
    BY <1>1
  <2>2. IsFiniteSet(Upto(i)) /\ Cardinality(Upto(i)) <= Cardinality(F)
    BY <2>1, <1>3, FS_Subset
  <2>3. Cardinality(Upto(i)) \in Nat /\ Cardinality(Upto(i)) # 0
    BY <2>1, <2>2, FS_CardinalityType, FS_EmptySet
  <2> QED BY <2>2, <2>3
<1>6. \A i, j \in F : i <= j => Cardinality(Upto(i)) <= Cardinality(Upto(j))
  <2> TAKE i, j \in F
  <2> HAVE i <= j
  <2>1. \A l \in F : l \in Nat
    BY <1>1
  <2>2. \A l \in F : l <= i => l <= j
    BY <2>1
  <2>3. Upto(i) \subseteq Upto(j)
    BY <2>2
  <2> QED BY <2>3, <1>5, FS_Subset
<1>7. \A i \in F : NewId(d, k, page, i) = d.last_id + Cardinality(Upto(i))
  BY DEF NewId, F
<1> HIDE DEF Upto
<1>8. \A i \in F : /\ NewId(d, k, page, i) \in Nat
                   /\ d.last_id < NewId(d, k, page, i)
                   /\ NewId(d, k, page, i) <= d.last_id + Cardinality(F)
  BY <1>3, <1>4, <1>5, <1>7
<1>9. \A i, j \in F : i <= j => NewId(d, k, page, i) <= NewId(d, k, page, j)
  BY <1>4, <1>5, <1>6, <1>7
<1> QED BY <1>1, <1>3, <1>8, <1>9 DEF F

(* A non-empty bounded set of naturals has a greatest element: strict      *)
(* inclusion is well-founded on its upper parts, which are finite.         *)
LEMMA GreatestNatural ==
  ASSUME NEW S, NEW b \in Nat, S \subseteq 0 .. b, S # {}
  PROVE  \E m \in S : \A n \in S : n <= m
<1> DEFINE T == {m .. b : m \in S}
<1>1. T \subseteq FiniteSubsetsOf(Nat) /\ T # {}
  <2> SUFFICES ASSUME NEW m \in S PROVE m .. b \in FiniteSubsetsOf(Nat)
    OBVIOUS
  <2>1. m \in Nat /\ IsFiniteSet(m .. b) /\ m .. b \subseteq Nat
    BY FS_Interval
  <2> QED BY <2>1 DEF FiniteSubsetsOf
<1>2. \E x \in T : \A y \in T : ~(<<y, x>> \in StrictSubsetOrdering(Nat))
  <2> HIDE DEF T
  <2> QED BY <1>1, FS_StrictSubsetOrderingWellFounded, WFMin
<1>3. PICK m \in S : \A n \in S : ~(<<n .. b, m .. b>> \in StrictSubsetOrdering(Nat))
  BY <1>2
<1>4. ASSUME NEW n \in S, n > m PROVE FALSE
  <2>1. n .. b \subseteq m .. b /\ m \in m .. b /\ m \notin n .. b /\ m .. b \subseteq Nat
    BY <1>4
  <2>2. <<n .. b, m .. b>> \in StrictSubsetOrdering(Nat)
    BY <2>1 DEF StrictSubsetOrdering
  <2> QED BY <1>3, <2>2
<1>5. \A n \in S : n \in Int /\ m \in Int
  OBVIOUS
<1> QED BY <1>4, <1>5

(* The last shown entry of a page, when it shows anything.                 *)
LEMMA NewHeadIsLast ==
  ASSUME NEW d \in Db, NEW source \in Source, NEW page \in Page,
         NEW k, k = <<source, page.session>>
  PROVE  LET shown == {i \in Fresh(d, k, page) : page.snapshots[i].state \notin EventState}
         IN IF shown = {} THEN NewHead(d, k, page) = d.head[source]
            ELSE \E m \in shown : /\ \A i \in shown : i <= m
                                  /\ NewHead(d, k, page) = NewId(d, k, page, m)
<1> DEFINE shown == {i \in Fresh(d, k, page) : page.snapshots[i].state \notin EventState}
<1>1. shown \subseteq 0 .. Len(page.snapshots) /\ Len(page.snapshots) \in Nat
  BY NewIds, PageTypes
<1>2. CASE shown = {}
  BY <1>2 DEF NewHead
<1>3. CASE shown # {}
  <2>1. \E m \in shown : \A i \in shown : i <= m
    BY <1>1, <1>3, GreatestNatural
  <2> DEFINE m == CHOOSE i \in shown : \A j \in shown : j <= i
  <2>2. m \in shown /\ \A i \in shown : i <= m
    BY <2>1
  <2>3. NewHead(d, k, page) = NewId(d, k, page, m)
    BY <1>3 DEF NewHead
  <2> QED BY <1>3, <2>2, <2>3
<1> QED BY <1>2, <1>3

(* A page, accepted or not, leaves a database of the declared shape.       *)
LEMMA IngestType ==
  ASSUME NEW d \in Db, NEW source \in Source, NEW page \in Page
  PROVE  Ingested(d, source, page) \in Db
<1> DEFINE k == <<source, page.session>>
           n == Ingested(d, source, page)
<1>1. CASE Fresh(d, k, page) = {}
  BY <1>1 DEF Ingested
<1>2. CASE Fresh(d, k, page) # {}
  <2>1. /\ k \in Stream /\ page.next \in Nat /\ page.oldest \in Nat
    BY PageTypes DEF Stream
  <2>2. /\ d.cursor \in [Stream -> Nat] /\ d.last_id \in Nat
        /\ d.rows \in [Stream -> SUBSET Row] /\ d.gaps \in [Stream -> SUBSET Gap]
        /\ d.head \in [Source -> Nat]
    BY DEF Db
  <2>0. /\ n.rows = [d.rows EXCEPT ![k] = @ \cup NewRows(d, k, page)]
        /\ n.cursor = [d.cursor EXCEPT ![k] = Larger(@, page.next)]
        /\ n.gaps = IF page.oldest > d.cursor[k]
                      THEN [d.gaps EXCEPT ![k] = @ \cup
                              {[expected |-> d.cursor[k], oldest |-> page.oldest]}]
                      ELSE d.gaps
        /\ n.head = [d.head EXCEPT ![source] = NewHead(d, k, page)]
        /\ n.last_id = d.last_id + Cardinality(Fresh(d, k, page))
    BY <1>2 DEF Ingested
  <2>3. NewRows(d, k, page) \subseteq Row
    <3>1. \A i \in Fresh(d, k, page) :
            /\ NewId(d, k, page, i) \in Nat
            /\ page.snapshots[i].sequence \in Nat
            /\ page.snapshots[i].state \in State
      BY NewIds, PageTypes
    <3> QED BY <3>1 DEF NewRows, Row
  <2>4. n.rows \in [Stream -> SUBSET Row]
    <3> DEFINE added == NewRows(d, k, page)
    <3>1. added \in SUBSET Row /\ n.rows = [d.rows EXCEPT ![k] = @ \cup added]
      BY <2>0, <2>3
    <3> HIDE DEF added, k, n
    <3> QED BY <2>2, <3>1
  <2>5. n.cursor \in [Stream -> Nat]
    <3> DEFINE moved == Larger(d.cursor[k], page.next)
    <3>1. moved \in Nat
      BY <2>1, <2>2 DEF Larger
    <3>2. n.cursor = [d.cursor EXCEPT ![k] = moved]
      BY <2>0
    <3> HIDE DEF moved, k, n
    <3> QED BY <2>2, <3>1, <3>2
  <2>6. n.gaps \in [Stream -> SUBSET Gap]
    <3>1. d.cursor[k] \in Nat
      BY <2>1, <2>2
    <3>2. [expected |-> d.cursor[k], oldest |-> page.oldest] \in Gap
      BY <2>1, <3>1 DEF Gap
    <3> DEFINE new == [expected |-> d.cursor[k], oldest |-> page.oldest]
    <3>3. n.gaps = IF page.oldest > d.cursor[k]
                     THEN [d.gaps EXCEPT ![k] = @ \cup {new}] ELSE d.gaps
      BY <2>0
    <3>4. new \in Gap
      BY <3>2
    <3> HIDE DEF new, k, n
    <3>5. d.gaps[k] \cup {new} \in SUBSET Gap
      BY <2>1, <2>2, <3>4
    <3>6. [d.gaps EXCEPT ![k] = @ \cup {new}] \in [Stream -> SUBSET Gap]
      BY <2>2, <3>5
    <3> QED BY <2>2, <3>3, <3>6
  <2>7. NewHead(d, k, page) \in Nat
    <3> DEFINE shown == {i \in Fresh(d, k, page) : page.snapshots[i].state \notin EventState}
    <3>1. IF shown = {} THEN NewHead(d, k, page) = d.head[source]
          ELSE \E m \in shown : NewHead(d, k, page) = NewId(d, k, page, m)
      BY NewHeadIsLast
    <3>2. \A i \in shown : NewId(d, k, page, i) \in Nat
      BY NewIds
    <3> QED BY <2>2, <3>1, <3>2
  <2>8. n.head \in [Source -> Nat] /\ n.last_id \in Nat
    BY <2>0, <2>2, <2>7, NewIds
  <2>9. n = [rows |-> n.rows, cursor |-> n.cursor, gaps |-> n.gaps,
             head |-> n.head, last_id |-> n.last_id]
    BY <1>2 DEF Ingested
  <2> QED BY <2>4, <2>5, <2>6, <2>8, <2>9 DEF Db
<1> QED BY <1>1, <1>2

(* An accepted page keeps the accounts of the cursors.                     *)
LEMMA IngestAccounts ==
  ASSUME NEW d \in Db, NEW source \in Source, NEW session \in Session,
         NEW page \in Page, Accounts(d), Acceptable(d, source, session, page)
  PROVE  Accounts(Ingested(d, source, page))
<1> DEFINE k == <<source, page.session>>
           n == Ingested(d, source, page)
           c == d.cursor[k]
           e == Expected(d, k, page)
           new == [expected |-> c, oldest |-> page.oldest]
<1>1. CASE Fresh(d, k, page) = {}
  BY <1>1 DEF Ingested
<1>2. CASE Fresh(d, k, page) # {}
  <2>1. Covered(d) /\ RowsBehindCursor(d) /\ GapsAreHoles(d)
    BY DEF Accounts
  <2>2. /\ k \in Stream /\ c \in Nat /\ e \in Nat /\ c <= e /\ e < page.next
        /\ page.oldest > c => e = page.oldest
        /\ page.oldest <= c => e = c
        /\ \A i \in Fresh(d, k, page) : page.snapshots[i].sequence \in e .. page.next - 1
        /\ \A m \in e .. page.next - 1 :
             \E i \in Fresh(d, k, page) : page.snapshots[i].sequence = m
        /\ \A i, j \in DOMAIN page.snapshots :
             page.snapshots[i].sequence = page.snapshots[j].sequence => i = j
    BY <1>2, <2>1, FreshIsRun
  <2>3. page.oldest \in Nat /\ page.next \in Nat
    BY PageTypes
  <2>4. /\ d.rows \in [Stream -> SUBSET Row] /\ d.cursor \in [Stream -> Nat]
        /\ d.gaps \in [Stream -> SUBSET Gap]
    BY DEF Db
  <2>0. /\ n.rows = [d.rows EXCEPT ![k] = @ \cup NewRows(d, k, page)]
        /\ n.cursor = [d.cursor EXCEPT ![k] = Larger(@, page.next)]
        /\ n.gaps = IF page.oldest > c THEN [d.gaps EXCEPT ![k] = @ \cup {new}] ELSE d.gaps
    BY <1>2 DEF Ingested
  <2>5. /\ n.rows[k] = d.rows[k] \cup NewRows(d, k, page)
        /\ n.cursor[k] = page.next
        /\ n.gaps[k] = IF page.oldest > c THEN d.gaps[k] \cup {new} ELSE d.gaps[k]
        /\ \A j \in Stream \ {k} : /\ n.rows[j] = d.rows[j]
                                   /\ n.cursor[j] = d.cursor[j]
                                   /\ n.gaps[j] = d.gaps[j]
    BY <2>0, <2>2, <2>3, <2>4 DEF Larger
  <2> HIDE DEF n, e
  <2>6. \A r \in NewRows(d, k, page) : r.sequence \in e .. page.next - 1
    BY <2>2 DEF NewRows
  <2>7. \A m \in e .. page.next - 1 : \E r \in NewRows(d, k, page) : r.sequence = m
    <3> TAKE m \in e .. page.next - 1
    <3>1. PICK i \in Fresh(d, k, page) : page.snapshots[i].sequence = m
      BY <2>2
    <3> DEFINE row == [id       |-> NewId(d, k, page, i),
                       sequence |-> page.snapshots[i].sequence,
                       state    |-> page.snapshots[i].state]
    <3>2. row \in NewRows(d, k, page)
      BY DEF NewRows
    <3>3. row.sequence = m
      BY <3>1
    <3> QED BY <3>2, <3>3
  <2>8. \A r, q \in NewRows(d, k, page) : r.sequence = q.sequence => r = q
    <3> TAKE r, q \in NewRows(d, k, page)
    <3> HAVE r.sequence = q.sequence
    <3> DEFINE row(i) == [id       |-> NewId(d, k, page, i),
                          sequence |-> page.snapshots[i].sequence,
                          state    |-> page.snapshots[i].state]
    <3>1. PICK i \in Fresh(d, k, page) : r = row(i)
      BY DEF NewRows
    <3>2. PICK j \in Fresh(d, k, page) : q = row(j)
      BY DEF NewRows
    <3>3. i = j
      BY <3>1, <3>2, <2>2 DEF Fresh
    <3> QED BY <3>1, <3>2, <3>3
  <2>9. \A r \in d.rows[k] : r.sequence \in Nat /\ r.sequence < c
    BY <2>1, <2>2, DbTypes DEF RowsBehindCursor
  <2>10. \A g \in d.gaps[k] : /\ g.expected \in Nat /\ g.oldest \in Nat
                              /\ g.expected < g.oldest /\ g.oldest <= c
    BY <2>1, <2>2, DbTypes DEF GapsAreHoles
  <2>11. Covered(n)
    <3> SUFFICES ASSUME NEW j \in Stream, NEW m \in 0 .. n.cursor[j] - 1
                 PROVE  \/ IsStored(n, j, m)
                        \/ \E g \in n.gaps[j] : g.expected <= m /\ m < g.oldest
      BY DEF Covered
    <3>1. CASE j # k
      BY <3>1, <2>1, <2>5 DEF Covered, IsStored
    <3>2. CASE j = k /\ m < c
      <4>1. m \in 0 .. d.cursor[j] - 1
        BY <3>2, <2>2, <2>5, <2>3
      <4>2. \/ IsStored(d, j, m)
            \/ \E g \in d.gaps[j] : g.expected <= m /\ m < g.oldest
        BY <4>1, <2>1 DEF Covered
      <4> QED BY <4>2, <3>2, <2>5 DEF IsStored
    <3>3. CASE j = k /\ c <= m /\ m < e
      <4>1. page.oldest > c /\ page.oldest = e
        BY <3>3, <2>2, <2>3, <2>5
      <4>2. new \in n.gaps[k] /\ new.expected <= m /\ m < new.oldest
        BY <4>1, <3>3, <2>5
      <4> QED BY <4>2, <3>3
    <3>4. CASE j = k /\ e <= m
      <4>1. m \in e .. page.next - 1
        BY <3>4, <2>2, <2>3, <2>5
      <4> QED BY <4>1, <3>4, <2>5, <2>7 DEF IsStored
    <3> QED BY <3>1, <3>2, <3>3, <3>4, <2>2, <2>3, <2>5
  <2>12. RowsBehindCursor(n)
    <3> SUFFICES ASSUME NEW j \in Stream
                 PROVE  /\ \A r \in n.rows[j] : r.sequence < n.cursor[j]
                        /\ \A r, q \in n.rows[j] : r.sequence = q.sequence => r = q
      BY DEF RowsBehindCursor
    <3>1. CASE j # k
      BY <3>1, <2>1, <2>5 DEF RowsBehindCursor
    <3>2. CASE j = k
      <4>1. \A r \in n.rows[k] : r.sequence < page.next
        BY <2>2, <2>3, <2>5, <2>6, <2>9
      <4>2. \A r \in d.rows[k], q \in NewRows(d, k, page) : r.sequence # q.sequence
        BY <2>2, <2>3, <2>6, <2>9
      <4>3. \A r, q \in d.rows[k] : r.sequence = q.sequence => r = q
        BY <2>1, <2>2 DEF RowsBehindCursor
      <4> QED BY <3>2, <4>1, <4>2, <4>3, <2>5, <2>8
    <3> QED BY <3>1, <3>2
  <2>13. GapsAreHoles(n)
    <3> SUFFICES ASSUME NEW j \in Stream, NEW g \in n.gaps[j]
                 PROVE  /\ g.expected < g.oldest
                        /\ g.oldest <= n.cursor[j]
                        /\ \A r \in n.rows[j] : r.sequence < g.expected \/ r.sequence >= g.oldest
      BY DEF GapsAreHoles
    <3>1. CASE j # k
      BY <3>1, <2>1, <2>5 DEF GapsAreHoles
    <3>2. CASE j = k /\ g \in d.gaps[k]
      <4>1. \A r \in d.rows[k] : r.sequence < g.expected \/ r.sequence >= g.oldest
        BY <3>2, <2>1, <2>2 DEF GapsAreHoles
      <4>2. \A r \in NewRows(d, k, page) : r.sequence >= g.oldest
        BY <3>2, <2>2, <2>3, <2>6, <2>10
      <4> QED BY <3>2, <4>1, <4>2, <2>2, <2>3, <2>5, <2>10
    <3>3. CASE j = k /\ g = new /\ page.oldest > c
      <4>1. g.expected = c /\ g.oldest = e /\ c < e
        BY <3>3, <2>2, <2>3
      <4>2. \A r \in NewRows(d, k, page) : r.sequence >= g.oldest
        BY <4>1, <2>2, <2>3, <2>6
      <4>3. \A r \in d.rows[k] : r.sequence < g.expected
        BY <4>1, <2>9
      <4> QED BY <3>3, <4>1, <4>2, <4>3, <2>2, <2>3, <2>5
    <3> QED BY <3>1, <3>2, <3>3, <2>5
  <2> QED BY <2>11, <2>12, <2>13 DEF Accounts, n
<1> QED BY <1>1, <1>2

(***************************************************************************)
(* From one database state to a later one: rows and cursors only grow, and *)
(* a gap that was not there before lies at or past the old cursor.         *)
(***************************************************************************)
Grows(d, n) ==
  \A k \in Stream :
    /\ d.rows[k] \subseteq n.rows[k]
    /\ d.cursor[k] <= n.cursor[k]
    /\ \A g \in n.gaps[k] : g \in d.gaps[k] \/ g.expected >= d.cursor[k]

(* Growth composes.                                                        *)
LEMMA GrowsTransitive ==
  ASSUME NEW d \in Db, NEW m \in Db, NEW n \in Db, Grows(d, m), Grows(m, n)
  PROVE  Grows(d, n)
<1> SUFFICES ASSUME NEW k \in Stream
             PROVE  /\ d.rows[k] \subseteq n.rows[k]
                    /\ d.cursor[k] <= n.cursor[k]
                    /\ \A g \in n.gaps[k] : g \in d.gaps[k] \/ g.expected >= d.cursor[k]
  BY DEF Grows
<1>1. /\ d.rows[k] \subseteq m.rows[k] /\ d.cursor[k] <= m.cursor[k]
      /\ \A g \in m.gaps[k] : g \in d.gaps[k] \/ g.expected >= d.cursor[k]
  BY DEF Grows
<1>2. /\ m.rows[k] \subseteq n.rows[k] /\ m.cursor[k] <= n.cursor[k]
      /\ \A g \in n.gaps[k] : g \in m.gaps[k] \/ g.expected >= m.cursor[k]
  BY DEF Grows
<1>3. /\ d.cursor[k] \in Nat /\ m.cursor[k] \in Nat /\ n.cursor[k] \in Nat
      /\ \A g \in n.gaps[k] : g.expected \in Nat
  BY DbTypes
<1> QED BY <1>1, <1>2, <1>3

(* Every database has grown from itself.                                   *)
LEMMA GrowsReflexive ==
  ASSUME NEW d \in Db
  PROVE  Grows(d, d)
BY DbTypes DEF Grows

(* A page only lets the database grow.                                     *)
LEMMA IngestGrows ==
  ASSUME NEW d \in Db, NEW source \in Source, NEW page \in Page
  PROVE  Grows(d, Ingested(d, source, page))
<1> DEFINE k == <<source, page.session>>
           n == Ingested(d, source, page)
           new == [expected |-> d.cursor[k], oldest |-> page.oldest]
<1>1. CASE Fresh(d, k, page) = {}
  BY <1>1, GrowsReflexive DEF Ingested
<1>2. CASE Fresh(d, k, page) # {}
  <2>1. k \in Stream /\ page.next \in Nat /\ d.cursor[k] \in Nat
    BY PageTypes DEF Stream, Db
  <2>2. /\ d.rows \in [Stream -> SUBSET Row] /\ d.cursor \in [Stream -> Nat]
        /\ d.gaps \in [Stream -> SUBSET Gap]
    BY DEF Db
  <2>3. /\ n.rows = [d.rows EXCEPT ![k] = @ \cup NewRows(d, k, page)]
        /\ n.cursor = [d.cursor EXCEPT ![k] = Larger(@, page.next)]
        /\ n.gaps = IF page.oldest > d.cursor[k]
                      THEN [d.gaps EXCEPT ![k] = @ \cup {new}] ELSE d.gaps
    BY <1>2 DEF Ingested
  <2>4. new.expected = d.cursor[k]
    OBVIOUS
  <2> HIDE DEF n, k, new
  <2>5. \A j \in Stream : d.rows[j] \subseteq n.rows[j]
    BY <2>2, <2>3
  <2>6. \A j \in Stream : d.cursor[j] <= n.cursor[j]
    BY <2>1, <2>2, <2>3 DEF Larger
  <2>7. \A j \in Stream : \A g \in n.gaps[j] : g \in d.gaps[j] \/ g.expected >= d.cursor[j]
    <3> TAKE j \in Stream
    <3>1. n.gaps[j] \subseteq d.gaps[j] \cup (IF j = k THEN {new} ELSE {})
      BY <2>2, <2>3
    <3> QED BY <3>1, <2>4, <2>1
  <2> QED BY <2>5, <2>6, <2>7 DEF Grows, n
<1> QED BY <1>1, <1>2

(* What has been acknowledged stays acknowledged while the database grows. *)
LEMMA GrowsKeepsAck ==
  ASSUME NEW d \in Db, NEW n \in Db, Grows(d, n), NEW k \in Stream,
         NEW next \in Nat, Complete(d, k, next)
  PROVE  Complete(n, k, next)
<1>1. /\ d.cursor[k] \in Nat /\ n.cursor[k] \in Nat
      /\ \A g \in n.gaps[k] : g.expected \in Nat
  BY DbTypes
<1>2. /\ d.cursor[k] <= n.cursor[k]
      /\ \A g \in n.gaps[k] : g \in d.gaps[k] \/ g.expected >= d.cursor[k]
  BY DEF Grows
<1>3. d.cursor[k] >= next /\ \A g \in d.gaps[k] : ~(g.expected < next)
  BY DEF Complete, HasGaps
<1> QED BY <1>1, <1>2, <1>3 DEF Complete, HasGaps

(* Cursors that account for what lies behind them answer truthfully.       *)
LEMMA AccountsGiveAck ==
  ASSUME NEW d \in Db, Accounts(d), NEW k \in Stream, NEW next \in Nat
  PROVE  Complete(d, k, next) <=> \A n \in 0 .. next - 1 : IsStored(d, k, n)
<1>1. /\ d.cursor[k] \in Nat
      /\ \A g \in d.gaps[k] : g.expected \in Nat /\ g.oldest \in Nat
      /\ \A r \in d.rows[k] : r.sequence \in Nat
  BY DbTypes
<1>2. ASSUME Complete(d, k, next), NEW n \in 0 .. next - 1 PROVE IsStored(d, k, n)
  <2>1. d.cursor[k] >= next /\ \A g \in d.gaps[k] : ~(g.expected < next)
    BY <1>2 DEF Complete, HasGaps
  <2>2. n \in 0 .. d.cursor[k] - 1
    BY <2>1, <1>1
  <2>3. \/ IsStored(d, k, n)
        \/ \E g \in d.gaps[k] : g.expected <= n /\ n < g.oldest
    BY <2>2 DEF Accounts, Covered
  <2>4. \A g \in d.gaps[k] : ~(g.expected <= n)
    BY <2>1, <1>1
  <2> QED BY <2>3, <2>4
<1>3. ASSUME \A n \in 0 .. next - 1 : IsStored(d, k, n) PROVE Complete(d, k, next)
  <2>1. d.cursor[k] >= next
    <3>1. CASE next = 0
      BY <3>1, <1>1
    <3>2. CASE next # 0
      <4>1. next - 1 \in 0 .. next - 1
        BY <3>2
      <4>2. PICK r \in d.rows[k] : r.sequence = next - 1
        BY <4>1, <1>3 DEF IsStored
      <4>3. r.sequence < d.cursor[k]
        BY DEF Accounts, RowsBehindCursor
      <4> QED BY <4>2, <4>3, <1>1
    <3> QED BY <3>1, <3>2
  <2>2. ASSUME NEW g \in d.gaps[k], g.expected < next PROVE FALSE
    <3>1. g.expected \in 0 .. next - 1
      BY <2>2, <1>1
    <3>2. PICK r \in d.rows[k] : r.sequence = g.expected
      BY <3>1, <1>3 DEF IsStored
    <3>3. g.expected < g.oldest /\ (r.sequence < g.expected \/ r.sequence >= g.oldest)
      BY DEF Accounts, GapsAreHoles
    <3> QED BY <3>2, <3>3, <1>1
  <2> QED BY <2>1, <2>2 DEF Complete, HasGaps
<1> QED BY <1>2, <1>3

(* A page that has been accepted is accepted again, and changes nothing.   *)
LEMMA RetryChangesNothing ==
  ASSUME NEW d \in Db, NEW source \in Source, NEW session \in Session,
         NEW page \in Page, Accounts(d), Acceptable(d, source, session, page)
  PROVE  LET n == Ingested(d, source, page)
         IN Acceptable(n, source, page.session, page) /\ Ingested(n, source, page) = n
<1> DEFINE k == <<source, page.session>>
           n == Ingested(d, source, page)
<1>1. session = page.session
  BY DEF Acceptable
<1>2. CASE Fresh(d, k, page) = {}
  BY <1>1, <1>2 DEF Ingested
<1>3. CASE Fresh(d, k, page) # {}
  <2>1. RowsBehindCursor(d)
    BY DEF Accounts
  <2>2. /\ k \in Stream /\ d.cursor[k] \in Nat /\ d.cursor[k] < page.next
        /\ \A i, j \in DOMAIN page.snapshots :
             page.snapshots[i].sequence = page.snapshots[j].sequence => i = j
    <3>1. /\ k \in Stream /\ d.cursor[k] \in Nat
          /\ Expected(d, k, page) \in Nat
          /\ d.cursor[k] <= Expected(d, k, page)
          /\ Expected(d, k, page) < page.next
          /\ \A i, j \in DOMAIN page.snapshots :
               page.snapshots[i].sequence = page.snapshots[j].sequence => i = j
      BY <1>3, <2>1, FreshIsRun
    <3> QED BY <3>1, PageTypes
  <2>3. /\ d.rows \in [Stream -> SUBSET Row] /\ d.cursor \in [Stream -> Nat]
        /\ page.next \in Nat /\ Len(page.snapshots) \in Nat
        /\ DOMAIN page.snapshots = 1 .. Len(page.snapshots)
        /\ \A i \in DOMAIN page.snapshots : page.snapshots[i].sequence \in Nat
    BY PageTypes DEF Db
  <2>4. /\ n.rows = [d.rows EXCEPT ![k] = @ \cup NewRows(d, k, page)]
        /\ n.cursor = [d.cursor EXCEPT ![k] = Larger(@, page.next)]
    BY <1>3 DEF Ingested
  <2>5. /\ n.rows[k] = d.rows[k] \cup NewRows(d, k, page)
        /\ n.cursor[k] = page.next
    BY <2>2, <2>3, <2>4 DEF Larger
  <2> HIDE DEF n
  <2>6. \A i \in DOMAIN page.snapshots : page.snapshots[i].sequence < page.next
    <3>1. /\ \A i \in DOMAIN page.snapshots :
               page.snapshots[i].sequence = page.snapshots[1].sequence + i - 1
          /\ page.snapshots # <<>> =>
               page.next = page.snapshots[Len(page.snapshots)].sequence + 1
      BY DEF Acceptable, ValidPage
    <3> TAKE i \in DOMAIN page.snapshots
    <3> DEFINE N == Len(page.snapshots)
               b == page.snapshots[1].sequence
    <3>2. i \in 1 .. N /\ N \in 1 .. N /\ 1 \in 1 .. N /\ page.snapshots # <<>>
      BY <2>3
    <3>3. /\ page.snapshots[i].sequence = b + i - 1
          /\ page.snapshots[N].sequence = b + N - 1
          /\ page.next = page.snapshots[N].sequence + 1
          /\ b \in Nat /\ N \in Nat
      BY <2>3, <3>1, <3>2
    <3> HIDE DEF b, N
    <3> QED BY <3>2, <3>3
  <2>7. Continues(n, k, page)
    <3>1. Unseen(n, k, page) = {}
      BY <2>3, <2>5, <2>6 DEF Unseen
    <3> QED BY <3>1, <2>3, <2>5 DEF Continues
  <2>8. ASSUME NEW i \in DOMAIN page.snapshots
        PROVE  /\ IsStored(n, k, page.snapshots[i].sequence)
               /\ \A r \in n.rows[k] :
                    r.sequence = page.snapshots[i].sequence => r.state = page.snapshots[i].state
    <3> DEFINE row(j) == [id       |-> NewId(d, k, page, j),
                          sequence |-> page.snapshots[j].sequence,
                          state    |-> page.snapshots[j].state]
    <3>1. IsStored(n, k, page.snapshots[i].sequence)
      <4>1. CASE IsStored(d, k, page.snapshots[i].sequence)
        BY <4>1, <2>5 DEF IsStored
      <4>2. CASE ~IsStored(d, k, page.snapshots[i].sequence)
        <5>1. row(i) \in NewRows(d, k, page)
          BY <4>2 DEF Fresh, NewRows
        <5>2. row(i).sequence = page.snapshots[i].sequence
          OBVIOUS
        <5> QED BY <5>1, <5>2, <2>5 DEF IsStored
      <4> QED BY <4>1, <4>2
    <3>2. \A r \in d.rows[k] :
            r.sequence = page.snapshots[i].sequence => r.state = page.snapshots[i].state
      BY DEF Acceptable, Agrees, IsStored
    <3>3. ASSUME NEW r \in NewRows(d, k, page), r.sequence = page.snapshots[i].sequence
          PROVE  r.state = page.snapshots[i].state
      <4>1. PICK j \in Fresh(d, k, page) : r = row(j)
        BY DEF NewRows
      <4>2. j \in DOMAIN page.snapshots /\ j = i
        BY <4>1, <3>3, <2>2 DEF Fresh
      <4> QED BY <4>1, <4>2
    <3> QED BY <3>1, <3>2, <3>3, <2>5
  <2>9. Fresh(n, k, page) = {}
    BY <2>8 DEF Fresh
  <2>10. Acceptable(n, source, page.session, page)
    BY <2>7, <2>8 DEF Acceptable, Agrees
  <2>11. Ingested(n, source, page) = n
    BY <2>9 DEF Ingested
  <2> QED BY <2>10, <2>11 DEF n
<1> QED BY <1>2, <1>3

(* No row has an id that AUTOINCREMENT has not handed out.                 *)
IdsIssued(d) == \A k \in Stream : \A r \in d.rows[k] : r.id <= d.last_id

(* A page keeps ids below the counter, and moves the head to its last      *)
(* observation if it inserts one.                                          *)
LEMMA IngestHeads ==
  ASSUME NEW d \in Db, NEW source \in Source, NEW page \in Page,
         IdsIssued(d), HeadsAreNewest(d)
  PROVE  LET n == Ingested(d, source, page) IN IdsIssued(n) /\ HeadsAreNewest(n)
<1> DEFINE k == <<source, page.session>>
           n == Ingested(d, source, page)
           F == Fresh(d, k, page)
           C == Cardinality(F)
           row(i) == [id       |-> NewId(d, k, page, i),
                      sequence |-> page.snapshots[i].sequence,
                      state    |-> page.snapshots[i].state]
           shown == {i \in F : page.snapshots[i].state \notin EventState}
<1>1. CASE F = {}
  BY <1>1 DEF Ingested
<1>2. CASE F # {}
  <2>1. /\ k \in Stream /\ page.session \in Session
    BY PageTypes DEF Stream
  <2>2. /\ d.rows \in [Stream -> SUBSET Row] /\ d.head \in [Source -> Nat]
        /\ d.last_id \in Nat
    BY DEF Db
  <2>3. /\ n.rows = [d.rows EXCEPT ![k] = @ \cup NewRows(d, k, page)]
        /\ n.head = [d.head EXCEPT ![source] = NewHead(d, k, page)]
        /\ n.last_id = d.last_id + C
    BY <1>2 DEF Ingested
  <2>4. /\ C \in Nat
        /\ \A i \in F : /\ NewId(d, k, page, i) \in Nat
                        /\ d.last_id < NewId(d, k, page, i)
                        /\ NewId(d, k, page, i) <= d.last_id + C
        /\ \A i, j \in F : i <= j => NewId(d, k, page, i) <= NewId(d, k, page, j)
    BY NewIds
  <2>5. NewRows(d, k, page) = {row(i) : i \in F}
    BY DEF NewRows
  <2>6. \A i \in F : row(i).id = NewId(d, k, page, i)
    OBVIOUS
  <2>20. \A i \in F : row(i).state = page.snapshots[i].state
    OBVIOUS
  <2>7. /\ n.rows[k] = d.rows[k] \cup {row(i) : i \in F}
        /\ \A j \in Stream \ {k} : n.rows[j] = d.rows[j]
        /\ n.head[source] = NewHead(d, k, page)
        /\ \A s \in Source \ {source} : n.head[s] = d.head[s]
    BY <2>1, <2>2, <2>3, <2>5
  <2>8. \A j \in Stream : \A r \in d.rows[j] : r.id \in Nat /\ r.id <= d.last_id
    BY DbTypes DEF IdsIssued
  <2> HIDE DEF n, k, F, C, row
  <2>9. IdsIssued(n)
    <3> SUFFICES ASSUME NEW j \in Stream, NEW r \in n.rows[j] PROVE r.id <= n.last_id
      BY DEF IdsIssued
    <3>1. CASE r \in d.rows[j]
      BY <3>1, <2>2, <2>3, <2>4, <2>8
    <3>2. CASE j = k /\ r \in {row(i) : i \in F}
      BY <3>2, <2>3, <2>4, <2>6
    <3> QED BY <3>1, <3>2, <2>7
  <2>10. ASSUME NEW s \in Source, s # source
         PROVE  Observations(n, s) = Observations(d, s) /\ n.head[s] = d.head[s]
    <3>1. \A e \in Session : <<s, e>> \in Stream \ {k}
      BY <2>10 DEF Stream, k
    <3>2. \A e \in Session : n.rows[<<s, e>>] = d.rows[<<s, e>>]
      BY <3>1, <2>7
    <3> QED BY <3>2, <2>7, <2>10 DEF Observations
  <2>11. Observations(n, source) = Observations(d, source) \cup {row(i) : i \in shown}
    <3>1. \A e \in Session : <<source, e>> \in Stream
      BY DEF Stream
    <3>2. \A e \in Session : e # page.session => n.rows[<<source, e>>] = d.rows[<<source, e>>]
      BY <3>1, <2>7 DEF k
    <3>3. n.rows[<<source, page.session>>]
            = d.rows[<<source, page.session>>] \cup {row(i) : i \in F}
      BY <2>7 DEF k
    <3>4. ASSUME NEW r \in Observations(n, source)
          PROVE  r \in Observations(d, source) \cup {row(i) : i \in shown}
      <4>1. PICK e \in Session : r \in n.rows[<<source, e>>] /\ r.state \notin EventState
        BY DEF Observations
      <4>2. CASE r \in d.rows[<<source, e>>]
        BY <4>1, <4>2 DEF Observations
      <4>3. CASE r \in {row(i) : i \in F}
        BY <4>1, <4>3, <2>20
      <4> QED BY <4>1, <4>2, <4>3, <3>2, <3>3
    <3>5. ASSUME NEW r \in Observations(d, source) PROVE r \in Observations(n, source)
      <4>1. PICK e \in Session : r \in d.rows[<<source, e>>] /\ r.state \notin EventState
        BY DEF Observations
      <4>2. r \in n.rows[<<source, e>>]
        BY <4>1, <3>2, <3>3
      <4> QED BY <4>1, <4>2 DEF Observations
    <3>6. ASSUME NEW i \in shown PROVE row(i) \in Observations(n, source)
      <4>1. row(i) \in n.rows[<<source, page.session>>] /\ row(i).state \notin EventState
        BY <3>3, <3>6, <2>20
      <4> QED BY <4>1, <2>1 DEF Observations
    <3> QED BY <3>4, <3>5, <3>6
  <2>12. \A r \in Observations(d, source) : r.id \in Nat /\ r.id <= d.last_id
    BY <2>8 DEF Observations, Stream
  <2>13. CASE shown = {}
    <3>1. NewHead(d, k, page) = d.head[source]
      BY <2>13, NewHeadIsLast DEF k, F
    <3>2. Observations(n, source) = Observations(d, source)
      BY <2>11, <2>13
    <3>3. \A s \in Source : Observations(n, s) = Observations(d, s) /\ n.head[s] = d.head[s]
      BY <3>1, <3>2, <2>7, <2>10
    <3> QED BY <3>3, <2>9 DEF HeadsAreNewest, n
  <2>14. CASE shown # {}
    <3>1. PICK m \in shown : /\ \A i \in shown : i <= m
                             /\ NewHead(d, k, page) = NewId(d, k, page, m)
      BY <2>14, NewHeadIsLast DEF k, F
    <3>2. row(m) \in Observations(n, source) /\ row(m).id = n.head[source]
      BY <3>1, <2>6, <2>7, <2>11
    <3>3. \A q \in Observations(n, source) : q.id <= row(m).id
      <4> TAKE q \in Observations(n, source)
      <4>1. CASE q \in Observations(d, source)
        BY <4>1, <2>2, <2>4, <2>6, <2>12
      <4>2. CASE q \in {row(i) : i \in shown}
        BY <4>2, <3>1, <2>4, <2>6
      <4> QED BY <4>1, <4>2, <2>11
    <3>4. ASSUME NEW s \in Source
          PROVE  IF Observations(n, s) = {} THEN n.head[s] = 0
                 ELSE \E r \in Observations(n, s) :
                        r.id = n.head[s] /\ \A q \in Observations(n, s) : q.id <= r.id
      <4>1. CASE s = source
        BY <4>1, <3>2, <3>3
      <4>2. CASE s # source
        BY <4>2, <2>10 DEF HeadsAreNewest
      <4> QED BY <4>1, <4>2
    <3> QED BY <3>4, <2>9 DEF HeadsAreNewest, n
  <2> QED BY <2>13, <2>14
<1> QED BY <1>1, <1>2

-------------------------------------------------------------------------------
(***************************************************************************)
(* The invariant.  Each part holds of the committed database and of the    *)
(* one the open transaction sees; the latter has grown from the former.    *)
(***************************************************************************)
Sound(d) == Accounts(d) /\ IdsIssued(d) /\ HeadsAreNewest(d)

StoreInv ==
  /\ TypeOK
  /\ Sound(db)
  /\ tx # NoTx => Sound(tx) /\ Grows(db, tx)
  /\ RetryIsIdempotent

(* The empty database is sound.                                            *)
LEMMA InitSound == Init => StoreInv
<1> SUFFICES ASSUME Init PROVE StoreInv
  OBVIOUS
<1>1. EmptyDb \in Db
  <2>1. /\ [k \in Stream |-> {}] \in [Stream -> SUBSET Row]
        /\ [k \in Stream |-> 0] \in [Stream -> Nat]
        /\ [k \in Stream |-> {}] \in [Stream -> SUBSET Gap]
        /\ [s \in Source |-> 0] \in [Source -> Nat]
    OBVIOUS
  <2> QED BY <2>1 DEF EmptyDb, Db
<1>2. TypeOK
  BY <1>1 DEF Init, TypeOK
<1>3. /\ \A k \in Stream : db.rows[k] = {} /\ db.cursor[k] = 0 /\ db.gaps[k] = {}
      /\ \A s \in Source : db.head[s] = 0
  BY DEF Init, EmptyDb
<1>4. Accounts(db) /\ IdsIssued(db)
  BY <1>3 DEF Accounts, Covered, RowsBehindCursor, GapsAreHoles, IdsIssued
<1>5. \A s \in Source : Observations(db, s) = {}
  BY <1>3 DEF Observations, Stream
<1>6. HeadsAreNewest(db)
  BY <1>3, <1>5 DEF HeadsAreNewest
<1> QED BY <1>2, <1>4, <1>6 DEF StoreInv, Sound, Init, RetryIsIdempotent

(* Every step of the store keeps the invariant.                            *)
LEMMA NextSound == StoreInv /\ [Next]_vars => StoreInv'
<1> SUFFICES ASSUME StoreInv, [Next]_vars PROVE StoreInv'
  OBVIOUS
<1> USE StoreAssumption
<1>0. /\ db \in Db /\ tx \in Db \cup {NoTx} /\ pages \in Nat
      /\ done \in (Source \X Page) \cup {NoPage} /\ (done # NoPage => tx # NoTx)
      /\ Sound(db)
      /\ tx # NoTx => tx \in Db /\ Sound(tx) /\ Grows(db, tx)
      /\ RetryIsIdempotent
  BY DEF StoreInv, TypeOK
<1>1. CASE Begin
  <2>1. Grows(db, db)
    BY <1>0, GrowsReflexive
  <2> QED BY <1>0, <1>1, <2>1 DEF Begin, StoreInv, TypeOK, RetryIsIdempotent
<1>2. ASSUME NEW source \in Source, NEW session \in Session, NEW page \in Pages,
             Ingest(source, session, page)
      PROVE  StoreInv'
  <2> USE <1>2 DEF Ingest
  <2>1. /\ page \in Page /\ tx \in Db /\ Sound(tx) /\ Grows(db, tx)
        /\ db' = db /\ pages' \in Nat
    BY <1>0
  <2>2. CASE Acceptable(tx, source, session, page)
    <3>1. tx' = Ingested(tx, source, page) /\ done' = <<source, page>>
      BY <2>2 DEF IngestPage
    <3>2. tx' \in Db /\ tx' # NoTx
      BY <2>1, <3>1, IngestType
    <3>3. Accounts(tx')
      BY <2>1, <2>2, <3>1, IngestAccounts DEF Sound
    <3>4. IdsIssued(tx') /\ HeadsAreNewest(tx')
      BY <2>1, <3>1, IngestHeads DEF Sound
    <3>5. Grows(tx, tx')
      BY <2>1, <3>1, IngestGrows
    <3>6. Grows(db, tx')
      BY <1>0, <2>1, <3>2, <3>5, GrowsTransitive
    <3>7. /\ Acceptable(tx', source, page.session, page)
          /\ Ingested(tx', source, page) = tx'
      BY <2>1, <2>2, <3>1, RetryChangesNothing DEF Sound
    <3>8. RetryIsIdempotent'
      BY <3>1, <3>7 DEF RetryIsIdempotent
    <3>9. TypeOK'
      BY <1>0, <2>1, <3>1, <3>2 DEF TypeOK
    <3>10. Sound(db)' /\ Sound(tx)' /\ Grows(db, tx)'
      BY <1>0, <2>1, <3>3, <3>4, <3>6 DEF Sound
    <3> QED BY <3>8, <3>9, <3>10 DEF StoreInv
  <2>3. CASE ~Acceptable(tx, source, session, page)
    <3>1. tx' = tx /\ done' = done
      BY <2>3 DEF IngestPage
    <3> QED BY <1>0, <2>1, <3>1 DEF StoreInv, TypeOK, RetryIsIdempotent
  <2> QED BY <2>2, <2>3
<1>3. CASE Commit
  BY <1>0, <1>3 DEF Commit, StoreInv, TypeOK, RetryIsIdempotent
<1>4. CASE Rollback
  BY <1>0, <1>4 DEF Rollback, StoreInv, TypeOK, RetryIsIdempotent
<1>5. CASE UNCHANGED vars
  BY <1>0, <1>5 DEF vars, StoreInv, TypeOK, RetryIsIdempotent
<1> QED BY <1>1, <1>2, <1>3, <1>4, <1>5 DEF Next

(* The invariant holds of every behaviour of the store.                    *)
THEOREM StoreIsSound == Spec => []StoreInv
BY InitSound, NextSound, PTL DEF Spec

(* The tables keep their shape whatever pages arrive.                      *)
THEOREM TypeCorrect == Spec => []TypeOK
<1>1. StoreInv => TypeOK
  BY DEF StoreInv
<1> QED BY <1>1, StoreIsSound, PTL

(* A cursor never passes a snapshot that is neither stored nor recorded    *)
(* as lost, for any number of Sources, sessions and pages.                 *)
THEOREM CursorsAccount == Spec => []CursorAccounts
<1>1. StoreInv => CursorAccounts
  BY DEF StoreInv, Sound, Accounts, CursorAccounts
<1> QED BY <1>1, StoreIsSound, PTL

(* An acknowledgment is given exactly for a durable gap-free prefix.       *)
THEOREM AcksAreExact == Spec => []AckIsExact
<1>1. ASSUME StoreInv PROVE AckIsExact
  <2>1. db \in Db /\ Accounts(db)
    BY <1>1 DEF StoreInv, Sound, TypeOK
  <2>2. \A next \in 0 .. MaxSequence : next \in Nat
    OBVIOUS
  <2> QED BY <2>1, <2>2, AccountsGiveAck DEF AckIsExact
<1> QED BY <1>1, StoreIsSound, PTL

(* The head of every Source is its newest stored observation.              *)
THEOREM HeadsFollowObservations == Spec => []HeadIsNewestObservation
<1>1. StoreInv => HeadIsNewestObservation
  BY DEF StoreInv, Sound, HeadIsNewestObservation
<1> QED BY <1>1, StoreIsSound, PTL

(* Ingesting an accepted page again is a success without effect.           *)
THEOREM RetriesAreIdempotent == Spec => []RetryIsIdempotent
<1>1. StoreInv => RetryIsIdempotent
  BY DEF StoreInv
<1> QED BY <1>1, StoreIsSound, PTL

(* Committed rows stay, cursors only advance, acknowledgments stay true.   *)
THEOREM HistoryGrows == Spec => HistoryOnlyGrows
<1> DEFINE Step == \A k \in Stream :
                     /\ db.rows[k] \subseteq db'.rows[k]
                     /\ db.cursor[k] <= db'.cursor[k]
                     /\ \A next \in 0 .. MaxSequence :
                          Complete(db, k, next) => Complete(db', k, next)
<1>1. StoreInv /\ [Next]_vars => [Step]_db
  <2> SUFFICES ASSUME StoreInv, Next, db' # db PROVE Step
    BY DEF vars
  <2>1. Commit
    BY DEF Next, Begin, Ingest, Rollback
  <2>2. db \in Db /\ tx \in Db /\ db' = tx /\ Grows(db, tx)
    BY <2>1 DEF Commit, StoreInv, TypeOK
  <2>3. db' \in Db /\ Grows(db, db')
    BY <2>2
  <2>4. \A next \in 0 .. MaxSequence : next \in Nat
    OBVIOUS
  <2>5. \A k \in Stream, next \in 0 .. MaxSequence :
          Complete(db, k, next) => Complete(db', k, next)
    BY <2>2, <2>3, <2>4, GrowsKeepsAck
  <2> QED BY <2>3, <2>5 DEF Grows
<1> QED BY <1>1, StoreIsSound, PTL DEF Spec, HistoryOnlyGrows
===============================================================================

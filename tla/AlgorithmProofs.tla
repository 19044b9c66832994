---------------------------- MODULE AlgorithmProofs ---------------------------
(***************************************************************************)
(* An open store is usable, however often its upgrade was interrupted;     *)
(* alerts are sent when they are due; and the dispatcher is honest about   *)
(* what became of them: for any rows, batches, crashes, rules, channels,   *)
(* events, callers and limits.                                             *)
(*                                                                         *)
(* Exactness of an index is inductive by itself, since each catch-up       *)
(* transaction moves the position by the rows it inserts.  The heads are   *)
(* right only at the end, so the upgrade's invariant says at every place   *)
(* of an uninterrupted open what is already known of them.                 *)
(*                                                                         *)
(* The engine's invariant says what the log says of each number and time a *)
(* rule keeps: consecutive counts the steps it was true of that are not    *)
(* the one it was last true of, since_ns is when it last became true,      *)
(* fires and last_fire_ns are the fires sent.  Where no step comes back,   *)
(* the steps counted are the distinct ones.  It needs the cooldown between *)
(* the fires of the past: last_fire_ns is of the last of them, and the     *)
(* clock may step back.                                                    *)
(*                                                                         *)
(* The dispatcher's invariant follows each Pending by its number.  A       *)
(* pending one is in one place at most, the queue, a caller's hands or the *)
(* worker's, so that it is settled once and its bytes are given back once; *)
(* a remembered key is that of a delivery; and the bucket says, of each    *)
(* delivery begun so far, how much may have begun since: what RateHolds    *)
(* says of pairs of deliveries, with the tokens that are left.             *)
(***************************************************************************)
EXTENDS StoreUpgrade, Alerts, AlertDispatch, FiniteSetTheorems, WellFoundedInduction, SequenceTheorems, TLAPS

-------------------------------------------------------------------------------
(* The store's upgrade.                                                    *)

(* Past the chart's catch-up loop the chart index has every row, and an    *)
(* open store's artifact index has as well.                                *)
LoopsAreDone ==
  /\ pc \in {"heads_delete", "heads_insert", "artifacts", "artifact_rows", "open"} =>
       chart.last_id = Len(rows)
  /\ pc = "open" => artifacts.last_id = Len(rows)

(* A head is a row of its own Source.                                      *)
HeadsAreOwn ==
  \A s \in Source : heads[s] # 0 => heads[s] \in Ids /\ rows[heads[s]].source = s

(* What an uninterrupted open knows of the heads: with a current chart     *)
(* index they were right all along; otherwise the rebuild is still ahead.  *)
HeadsKnown ==
  /\ pc = "closed" /\ chart.version = "current" => heads_table /\ HeadsRight
  /\ pc = "chart" /\ chart.version = "current" => had_heads /\ HeadsRight
  /\ pc = "chart_rows" /\ ~rebuilt /\ had_heads => HeadsRight
  /\ pc = "heads_insert" => \A s \in Source : heads[s] # 0 => heads[s] \in chart.listed
  /\ pc \in {"artifacts", "artifact_rows", "open"} => HeadsRight

ChartIsExact == chart.version = "current" => Exact(chart, {i \in Ids : Shown(i)})

ArtifactsAreExact ==
  artifacts.version = "current" => Exact(artifacts, {i \in Ids : HasArtifacts(i)})

UpgradeInv ==
  /\ TypeOK
  /\ ChartIsExact
  /\ ArtifactsAreExact
  /\ LoopsAreDone
  /\ HeadsAreOwn
  /\ crashes = 0 => HeadsKnown

-------------------------------------------------------------------------------
(* A non-empty bounded set of naturals has a greatest element: strict      *)
(* inclusion is well-founded on its upper parts, which are finite.         *)
LEMMA GreatestNatural ==
  ASSUME NEW S, NEW b \in Nat, S \subseteq 0 .. b, S # {}
  PROVE  \E m \in S : \A n \in S : n <= m
<1> DEFINE T == {m .. b : m \in S}
<1>1. T \subseteq FiniteSubsetsOf(Nat) /\ T # {}
  <2> SUFFICES ASSUME NEW m \in S PROVE m .. b \in FiniteSubsetsOf(Nat)
    OBVIOUS
  <2>1. m \in Nat /\ IsFiniteSet(m .. b) /\ m .. b \subseteq Nat
    BY FS_Interval
  <2> QED BY <2>1 DEF FiniteSubsetsOf
<1>2. \E x \in T : \A y \in T : ~(<<y, x>> \in StrictSubsetOrdering(Nat))
  <2> HIDE DEF T
  <2> QED BY <1>1, FS_StrictSubsetOrderingWellFounded, WFMin
<1>3. PICK m \in S : \A n \in S : ~(<<n .. b, m .. b>> \in StrictSubsetOrdering(Nat))
  BY <1>2
<1>4. ASSUME NEW n \in S, n > m PROVE FALSE
  <2>1. n .. b \subseteq m .. b /\ m \in m .. b /\ m \notin n .. b /\ m .. b \subseteq Nat
    BY <1>4
  <2>2. <<n .. b, m .. b>> \in StrictSubsetOrdering(Nat)
    BY <2>1 DEF StrictSubsetOrdering
  <2> QED BY <1>3, <2>2
<1>5. \A n \in S : n \in Int /\ m \in Int
  OBVIOUS
<1> QED BY <1>4, <1>5

(* LastId is 0 or an element of a bounded set, and no element exceeds it.  *)
LEMMA LastIdIs ==
  ASSUME NEW S, NEW b \in Nat, S \subseteq 0 .. b
  PROVE  /\ LastId(S) \in {0} \cup S
         /\ LastId(S) \in Nat
         /\ \A n \in S : n <= LastId(S)
<1>1. PICK m \in {0} \cup S : \A n \in {0} \cup S : n <= m
  BY GreatestNatural, {0} \cup S \subseteq 0 .. b
<1>2. \A n \in {0} \cup S : m >= n
  BY <1>1
<1>3. LastId(S) \in {0} \cup S /\ \A n \in S : n <= LastId(S)
  BY <1>2 DEF LastId, Max
<1>4. \A n \in {0} \cup S : n \in Nat
  OBVIOUS
<1> QED BY <1>3, <1>4

(* It is the one element that no other exceeds.                            *)
LEMMA NewestOf ==
  ASSUME NEW S, NEW b \in Nat, S \subseteq 0 .. b,
         NEW m \in S, \A n \in S : n <= m
  PROVE  LastId(S) = m
<1>1. LastId(S) \in {0} \cup S /\ LastId(S) \in Nat /\ m <= LastId(S)
  BY LastIdIs
<1>2. m \in Nat
  OBVIOUS
<1> QED BY <1>1, <1>2

(* The index at position k of the wanted rows S, and the insert that moves *)
(* it there from an earlier position.                                      *)
ExactTo(index, S, k) ==
  /\ index.last_id = k
  /\ index.listed = {i \in S : i <= k}
  /\ index.count = Cardinality(index.listed)

Moved(index, S, k) ==
  Insert(index, (index.last_id + 1) .. k, {i \in S : index.last_id < i /\ i <= k})

(* An insert of the rows from an index's position up to `k' moves the      *)
(* position there, lists the wanted ones among them, and each one once.    *)
LEMMA InsertIsExact ==
  ASSUME NEW index \in Index, NEW L \in Nat, NEW S, S \subseteq 1 .. L,
         ExactTo(index, S, index.last_id),
         NEW k \in 0 .. L, index.last_id < k \/ (k = 0 /\ index.last_id = 0)
  PROVE  /\ Moved(index, S, k) \in Index
         /\ Moved(index, S, k).version = index.version
         /\ ExactTo(Moved(index, S, k), S, k)
<1> DEFINE ids == (index.last_id + 1) .. k
           some == {i \in S : index.last_id < i /\ i <= k}
           new == Insert(index, ids, some)
<1>1. /\ index.last_id \in Nat /\ index.listed \in SUBSET Nat /\ index.count \in Nat
      /\ index.listed = {i \in S : i <= index.last_id}
      /\ index.count = Cardinality(index.listed)
  BY DEF Index, ExactTo
<1>2. LastId(ids) = k
  <2>1. CASE k = 0
    <3>1. ids \subseteq 0 .. 0 /\ ids = {}
      BY <1>1, <2>1
    <3> QED BY <2>1, <3>1, LastIdIs
  <2>2. CASE k # 0
    <3>1. ids \subseteq 0 .. L /\ k \in ids /\ \A n \in ids : n <= k
      BY <1>1, <2>2
    <3> QED BY <3>1, NewestOf
  <2> QED BY <2>1, <2>2
<1>3. IsFiniteSet(S) /\ IsFiniteSet(index.listed) /\ IsFiniteSet(some)
  <2>1. IsFiniteSet(1 .. L)
    BY FS_Interval
  <2>2. IsFiniteSet(S)
    BY <2>1, FS_Subset
  <2>3. index.listed \subseteq S /\ some \subseteq S
    BY <1>1
  <2> QED BY <2>2, <2>3, FS_Subset
<1>4. index.listed \cap some = {}
  BY <1>1
<1>5. Cardinality(index.listed \cup some) = Cardinality(index.listed) + Cardinality(some)
  <2>1. Cardinality(index.listed \cup some) =
          Cardinality(index.listed) + Cardinality(some) - Cardinality(index.listed \cap some)
    BY <1>3, FS_Union
  <2>2. Cardinality(index.listed \cap some) = 0
    BY <1>4, FS_EmptySet
  <2>3. Cardinality(index.listed) \in Nat /\ Cardinality(some) \in Nat
    BY <1>3, FS_CardinalityType
  <2> QED BY <2>1, <2>2, <2>3
<1>6. Cardinality(some) \in Nat
  BY <1>3, FS_CardinalityType
<1>7. index.listed \cup some = {i \in S : i <= k}
  <2>1. \A i \in S : i \in Nat /\ (i <= k <=> (i <= index.last_id \/ (index.last_id < i /\ i <= k)))
    BY <1>1
  <2> QED BY <1>1, <2>1
<1>8. some \in SUBSET Nat
  <2>1. S \subseteq Nat
    OBVIOUS
  <2>2. some \subseteq S
    OBVIOUS
  <2> QED BY <2>1, <2>2
<1>9. index.count + Cardinality(some) \in Nat
  BY <1>1, <1>6
<1>10. DOMAIN index = {"version", "last_id", "listed", "count"} /\ index.version \in {"old", "current"}
  BY DEF Index
<1>11. /\ new.version = index.version
       /\ new.last_id = k
       /\ new.listed = index.listed \cup some
       /\ new.count = index.count + Cardinality(some)
  BY <1>2, <1>10 DEF Insert
<1>12. new = [f \in {"version", "last_id", "listed", "count"} |-> new[f]]
  BY <1>10 DEF Insert, Index
<1> HIDE DEF new
<1>13. new.last_id \in Nat /\ new.listed \in SUBSET Nat /\ new.count \in Nat /\ new.version \in {"old", "current"}
  BY <1>1, <1>8, <1>9, <1>10, <1>11
<1>14. new \in Index
  BY <1>12, <1>13 DEF Index
<1>15. ExactTo(new, S, k)
  BY <1>1, <1>5, <1>7, <1>11 DEF ExactTo
<1> QED BY <1>11, <1>14, <1>15 DEF new, Moved

(* The ids are those of the rows, from 1; any choice of them is bounded.   *)
LEMMA IdsAre ==
  ASSUME rows \in Seq(Row)
  PROVE  /\ Len(rows) \in Nat
         /\ Ids = 1 .. Len(rows)
         /\ \A S : S \subseteq Ids => S \subseteq 0 .. Len(rows)
         /\ \A i \in Ids : rows[i] \in Row
<1>1. Len(rows) \in Nat /\ DOMAIN rows = 1 .. Len(rows)
  OBVIOUS
<1> QED BY <1>1 DEF Ids

(* A Source's newest row, of any kind or shown, is 0 or a row of its own.  *)
LEMMA NewestIsOwn ==
  ASSUME rows \in Seq(Row), NEW s \in Source, NEW S,
         S \subseteq {i \in Ids : rows[i].source = s}
  PROVE  /\ LastId(S) \in Nat
         /\ LastId(S) # 0 => LastId(S) \in Ids /\ rows[LastId(S)].source = s
<1>1. LastId(S) \in {0} \cup S /\ LastId(S) \in Nat
  <2>1. S \subseteq Ids
    OBVIOUS
  <2> QED BY <2>1, IdsAre, LastIdIs
<1> QED BY <1>1

(* A catch-up transaction keeps an index exact, for the chart index and    *)
(* the artifact index alike, and moves its position by the rows it reads.  *)
LEMMA CatchUpIsExact ==
  ASSUME rows \in Seq(Row), NEW index \in Index, NEW wanted, wanted \subseteq Ids,
         Exact(index, wanted), NEW n \in Nat \ {0}, index.last_id + n <= Len(rows)
  PROVE  LET ids == NextRows(index, n)
             new == Insert(index, ids, {i \in ids : i \in wanted})
         IN new \in Index /\ new.version = index.version /\ Exact(new, wanted)
<1> DEFINE k == index.last_id + n
           ids == NextRows(index, n)
           some == {i \in ids : i \in wanted}
           new == Insert(index, ids, some)
<1>1. Len(rows) \in Nat /\ Ids = 1 .. Len(rows) /\ index.last_id \in Nat
  BY IdsAre DEF Index
<1>2. k \in 0 .. Len(rows) /\ index.last_id < k
  BY <1>1
<1>3. new = Moved(index, wanted, k)
  <2>1. ids = (index.last_id + 1) .. k
    BY <1>1 DEF NextRows
  <2>2. some = {i \in wanted : index.last_id < i /\ i <= k}
    BY <1>1 DEF NextRows
  <2> QED BY <2>1, <2>2 DEF Moved
<1>4. ExactTo(index, wanted, index.last_id) /\ wanted \subseteq 1 .. Len(rows)
  BY <1>1 DEF Exact, ExactTo
<1> HIDE DEF k, new
<1>5. /\ new \in Index /\ new.version = index.version
      /\ ExactTo(new, wanted, k)
  BY <1>1, <1>2, <1>3, <1>4, InsertIsExact, ZenonT(40)
<1>6. Exact(new, wanted) /\ new.last_id = k
  BY <1>2, <1>5 DEF Exact, ExactTo
<1> QED BY <1>5, <1>6 DEF new

(* What an older build left satisfies the invariant.                       *)
LEMMA UpgradeInit == Init => UpgradeInv
<1> SUFFICES ASSUME Init PROVE UpgradeInv
  OBVIOUS
<1> DEFINE shown == {i \in Ids : Shown(i)}
           whole == Insert(EmptyIndex, Ids, shown)
<1>1. rows \in Seq(Row)
  BY DEF Init
<1>2. Len(rows) \in Nat /\ Ids = 1 .. Len(rows)
  BY <1>1, IdsAre
<1>3. OldIndex \in Index /\ EmptyIndex \in Index
  BY DEF OldIndex, EmptyIndex, Index
<1>4. whole \in Index /\ whole.version = "current" /\ Exact(whole, shown)
  <2>1. EmptyIndex.listed = {} /\ EmptyIndex.last_id = 0 /\ EmptyIndex.count = 0
        /\ EmptyIndex.version = "current"
    BY DEF EmptyIndex, OldIndex
  <2>2. shown \subseteq 1 .. Len(rows) /\ \A i \in shown : 0 < i /\ i <= Len(rows)
    BY <1>2
  <2>3. ExactTo(EmptyIndex, shown, EmptyIndex.last_id)
    <3>1. \A i \in shown : ~(i <= 0)
      BY <2>2
    <3> QED BY <2>1, <3>1, FS_EmptySet DEF ExactTo
  <2>4. whole = Moved(EmptyIndex, shown, Len(rows))
    <3>1. {i \in shown : EmptyIndex.last_id < i /\ i <= Len(rows)} = shown
      BY <2>1, <2>2
    <3>2. (EmptyIndex.last_id + 1) .. Len(rows) = Ids
      BY <1>2, <2>1
    <3> QED BY <3>1, <3>2 DEF Moved
  <2> HIDE DEF shown, whole
  <2>5. whole \in Index /\ whole.version = "current" /\ ExactTo(whole, shown, Len(rows))
    <3>1. Len(rows) \in 0 .. Len(rows)
          /\ (EmptyIndex.last_id < Len(rows) \/ (Len(rows) = 0 /\ EmptyIndex.last_id = 0))
      BY <1>2, <2>1
    <3> QED BY <1>2, <1>3, <2>1, <2>2, <2>3, <2>4, <3>1, InsertIsExact
  <2> QED BY <1>2, <2>5 DEF Exact, ExactTo
<1>5. \A s \in Source : /\ heads[s] \in Nat
                        /\ heads[s] # 0 => heads[s] \in Ids /\ rows[heads[s]].source = s
  <2> SUFFICES ASSUME NEW s \in Source
               PROVE  heads[s] \in Nat
                      /\ (heads[s] # 0 => heads[s] \in Ids /\ rows[heads[s]].source = s)
    OBVIOUS
  <2>1. \/ heads[s] = 0
        \/ heads[s] = LastId({i \in Ids : rows[i].source = s})
        \/ heads[s] = LastId({i \in Ids : rows[i].source = s /\ Shown(i)})
    BY DEF Init
  <2>2. {i \in Ids : rows[i].source = s /\ Shown(i)} \subseteq {i \in Ids : rows[i].source = s}
    OBVIOUS
  <2> QED BY <1>1, <2>1, <2>2, NewestIsOwn
<1>6. heads \in [Source -> Nat] /\ heads_table \in BOOLEAN
  <2>1. heads = [s \in Source |-> heads[s]]
    BY DEF Init
  <2> QED BY <1>5, <2>1 DEF Init
<1>7. chart \in {OldIndex, whole} /\ artifacts = OldIndex
  BY DEF Init
<1>8. OldIndex.version = "old"
  BY DEF OldIndex
<1>9. TypeOK
  <2>1. chart \in Index /\ artifacts \in Index
    BY <1>3, <1>4, <1>7
  <2>2. /\ pc = "closed" /\ had_heads = FALSE /\ rebuilt = FALSE /\ crashes = 0
        /\ crashes \in 0 .. MaxCrashes
    BY UpgradeAssumption DEF Init
  <2> QED BY <1>1, <1>6, <2>1, <2>2 DEF TypeOK
<1>10. ChartIsExact /\ ArtifactsAreExact
  BY <1>4, <1>7, <1>8 DEF ChartIsExact, ArtifactsAreExact
<1>11. LoopsAreDone /\ HeadsAreOwn
  BY <1>5 DEF Init, LoopsAreDone, HeadsAreOwn
<1>12. chart.version = "current" => heads_table /\ HeadsRight
  BY <1>7, <1>8 DEF Init, HeadsRight
<1>13. HeadsKnown
  BY <1>12 DEF Init, HeadsKnown
<1> QED BY <1>9, <1>10, <1>11, <1>13 DEF UpgradeInv

(* What a step leaves alone keeps what the invariant says of it.           *)
LEMMA UpgradeKeeps ==
  ASSUME UpgradeInv, UNCHANGED rows
  PROVE  /\ UNCHANGED chart => ChartIsExact'
         /\ UNCHANGED artifacts => ArtifactsAreExact'
         /\ UNCHANGED heads => HeadsAreOwn' /\ (HeadsRight => HeadsRight')
         /\ (Ids')  = Ids
<1>1. ASSUME UNCHANGED chart PROVE ChartIsExact'
  BY <1>1 DEF UpgradeInv, ChartIsExact, Exact, Ids, Shown
<1>2. ASSUME UNCHANGED artifacts PROVE ArtifactsAreExact'
  BY <1>2 DEF UpgradeInv, ArtifactsAreExact, Exact, Ids, HasArtifacts
<1>3. ASSUME UNCHANGED heads PROVE HeadsAreOwn' /\ (HeadsRight => HeadsRight')
  BY <1>3 DEF UpgradeInv, HeadsAreOwn, HeadsRight, Ids, Shown
<1>4. (Ids') = Ids
  BY DEF Ids
<1> QED BY <1>1, <1>2, <1>3, <1>4

(* CreateTables keeps the invariant: it fills in missing heads only, and   *)
(* then the chart index is outdated.                                       *)
LEMMA CreateTablesStep == UpgradeInv /\ CreateTables => UpgradeInv'
<1> SUFFICES ASSUME UpgradeInv, CreateTables PROVE UpgradeInv'
  OBVIOUS
<1>1. TypeOK /\ rows \in Seq(Row) /\ HeadsAreOwn
  BY DEF UpgradeInv, TypeOK
<1>2. /\ pc = "closed" /\ pc' = "chart" /\ had_heads' = heads_table /\ heads_table' = TRUE
      /\ UNCHANGED <<rows, chart, artifacts, rebuilt, crashes>>
      /\ heads_table => heads' = heads
  BY DEF CreateTables
<1>3. ASSUME NEW s \in Source
      PROVE  heads'[s] \in Nat
             /\ (heads'[s] # 0 => heads'[s] \in Ids /\ rows[heads'[s]].source = s)
  <2>1. CASE heads_table
    BY <1>1, <1>2, <2>1 DEF TypeOK, HeadsAreOwn
  <2>2. CASE ~heads_table
    <3>1. heads'[s] = LastId({i \in Ids : rows[i].source = s})
      BY <2>2 DEF CreateTables
    <3> QED BY <1>1, <3>1, NewestIsOwn
  <2> QED BY <2>1, <2>2
<1>4. heads' \in [Source -> Nat]
  <2>1. heads' = [s \in Source |-> heads'[s]]
    BY <1>1 DEF CreateTables, TypeOK
  <2> QED BY <1>3, <2>1
<1>5. TypeOK'
  BY <1>1, <1>2, <1>4 DEF TypeOK
<1>6. ChartIsExact' /\ ArtifactsAreExact' /\ LoopsAreDone'
  BY <1>2, UpgradeKeeps DEF LoopsAreDone
<1>7. HeadsAreOwn'
  BY <1>2, <1>3 DEF HeadsAreOwn, Ids
<1>8. ASSUME crashes' = 0 PROVE HeadsKnown'
  <2>1. ASSUME chart.version = "current" PROVE had_heads' /\ HeadsRight'
    BY <1>2, <1>8, <2>1, UpgradeKeeps DEF UpgradeInv, HeadsKnown
  <2> QED BY <1>2, <2>1 DEF HeadsKnown
<1> QED BY <1>5, <1>6, <1>7, <1>8 DEF UpgradeInv

(* The two resets keep the invariant: an empty index is exact at 0.        *)
LEMMA EmptyIsExact ==
  ASSUME rows \in Seq(Row), NEW wanted, wanted \subseteq Ids
  PROVE  EmptyIndex \in Index /\ EmptyIndex.version = "current" /\ Exact(EmptyIndex, wanted)
<1>1. /\ EmptyIndex.listed = {} /\ EmptyIndex.last_id = 0 /\ EmptyIndex.count = 0
      /\ EmptyIndex.version = "current" /\ EmptyIndex \in Index
  BY DEF EmptyIndex, OldIndex, Index
<1>2. \A i \in wanted : ~(i <= 0)
  BY IdsAre
<1>3. Len(rows) \in Nat
  BY IdsAre
<1>4. Cardinality({}) = 0
  BY FS_EmptySet
<1>5. Exact(EmptyIndex, wanted)
  <2>1. {i \in wanted : i <= EmptyIndex.last_id} = {}
    BY <1>1, <1>2
  <2> QED BY <1>1, <1>3, <1>4, <2>1 DEF Exact
<1> QED BY <1>1, <1>5

LEMMA ResetChartStep == UpgradeInv /\ ResetChart => UpgradeInv'
<1> SUFFICES ASSUME UpgradeInv, ResetChart PROVE UpgradeInv'
  OBVIOUS
<1>1. TypeOK /\ rows \in Seq(Row) /\ ChartIsExact
  BY DEF UpgradeInv, TypeOK
<1>2. /\ pc = "chart" /\ pc' = "chart_rows" /\ rebuilt' = (chart.version # "current")
      /\ UNCHANGED <<rows, heads_table, heads, artifacts, had_heads, crashes>>
      /\ chart' = IF chart.version # "current" THEN EmptyIndex ELSE chart
  BY DEF ResetChart
<1>3. chart' \in Index /\ chart'.version = "current" /\ Exact(chart', {i \in Ids : Shown(i)})
  BY <1>1, <1>2, EmptyIsExact DEF TypeOK, ChartIsExact
<1>4. ChartIsExact'
  BY <1>2, <1>3 DEF ChartIsExact, Exact, Ids, Shown
<1>5. TypeOK'
  BY <1>1, <1>2, <1>3 DEF TypeOK
<1>6. ArtifactsAreExact' /\ LoopsAreDone' /\ HeadsAreOwn'
  BY <1>2, UpgradeKeeps DEF LoopsAreDone
<1>7. ASSUME crashes' = 0 PROVE HeadsKnown'
  <2>1. ASSUME ~rebuilt' PROVE HeadsRight'
    BY <1>2, <1>7, <2>1, UpgradeKeeps DEF UpgradeInv, HeadsKnown
  <2> QED BY <1>2, <2>1 DEF HeadsKnown
<1> QED BY <1>4, <1>5, <1>6, <1>7 DEF UpgradeInv

LEMMA ResetArtifactsStep == UpgradeInv /\ ResetArtifacts => UpgradeInv'
<1> SUFFICES ASSUME UpgradeInv, ResetArtifacts PROVE UpgradeInv'
  OBVIOUS
<1>1. TypeOK /\ rows \in Seq(Row) /\ ArtifactsAreExact /\ LoopsAreDone
  BY DEF UpgradeInv, TypeOK
<1>2. /\ pc = "artifacts" /\ pc' = "artifact_rows"
      /\ UNCHANGED <<rows, heads_table, heads, chart, had_heads, rebuilt, crashes>>
      /\ artifacts' = IF artifacts.version # "current" THEN EmptyIndex ELSE artifacts
  BY DEF ResetArtifacts
<1>3. /\ artifacts' \in Index /\ artifacts'.version = "current"
      /\ Exact(artifacts', {i \in Ids : HasArtifacts(i)})
  BY <1>1, <1>2, EmptyIsExact DEF TypeOK, ArtifactsAreExact
<1>4. ArtifactsAreExact'
  BY <1>2, <1>3 DEF ArtifactsAreExact, Exact, Ids, HasArtifacts
<1>5. TypeOK'
  BY <1>1, <1>2, <1>3 DEF TypeOK
<1>6. ChartIsExact' /\ LoopsAreDone' /\ HeadsAreOwn'
  BY <1>1, <1>2, UpgradeKeeps DEF LoopsAreDone
<1>7. ASSUME crashes' = 0 PROVE HeadsKnown'
  <2>1. HeadsRight'
    BY <1>2, <1>7, UpgradeKeeps DEF UpgradeInv, HeadsKnown
  <2> QED BY <1>2, <2>1 DEF HeadsKnown
<1> QED BY <1>4, <1>5, <1>6, <1>7 DEF UpgradeInv

(* A catch-up transaction keeps the invariant.                             *)
LEMMA CatchUpChartStep ==
  ASSUME UpgradeInv, NEW n \in 1 .. BatchRows, CatchUpChart(n)
  PROVE  UpgradeInv'
<1> DEFINE ids == NextRows(chart, n)
           wanted == {i \in Ids : Shown(i)}
<1>1. TypeOK /\ rows \in Seq(Row) /\ ChartIsExact /\ chart \in Index
  BY DEF UpgradeInv, TypeOK
<1>2. /\ pc = "chart_rows" /\ chart.last_id + n <= Len(rows)
      /\ UNCHANGED <<rows, heads_table, heads, artifacts, pc, had_heads, rebuilt, crashes>>
      /\ chart' = Insert(chart, ids, {i \in ids : Shown(i)})
  BY DEF CatchUpChart
<1>3. chart.version = "current" /\ Exact(chart, wanted)
  BY <1>1, <1>2 DEF TypeOK, ChartIsExact
<1>4. {i \in ids : Shown(i)} = {i \in ids : i \in wanted}
  BY DEF NextRows
<1>5. chart' \in Index /\ chart'.version = "current" /\ Exact(chart', wanted)
  <2>1. n \in Nat \ {0} /\ wanted \subseteq Ids
    BY UpgradeAssumption
  <2> QED BY <1>1, <1>2, <1>3, <1>4, <2>1, CatchUpIsExact
<1>6. ChartIsExact'
  BY <1>2, <1>5 DEF ChartIsExact, Exact, Ids, Shown
<1>7. TypeOK'
  BY <1>1, <1>2, <1>5 DEF TypeOK
<1>8. ArtifactsAreExact' /\ LoopsAreDone' /\ HeadsAreOwn'
  BY <1>2, UpgradeKeeps DEF LoopsAreDone
<1>9. ASSUME crashes' = 0 PROVE HeadsKnown'
  <2>1. ASSUME ~rebuilt, had_heads PROVE HeadsRight'
    BY <1>2, <1>9, <2>1, UpgradeKeeps DEF UpgradeInv, HeadsKnown
  <2> QED BY <1>2, <2>1 DEF HeadsKnown
<1> QED BY <1>6, <1>7, <1>8, <1>9 DEF UpgradeInv

LEMMA CatchUpArtifactsStep ==
  ASSUME UpgradeInv, NEW n \in 1 .. BatchRows, CatchUpArtifacts(n)
  PROVE  UpgradeInv'
<1> DEFINE ids == NextRows(artifacts, n)
           wanted == {i \in Ids : HasArtifacts(i)}
<1>1. TypeOK /\ rows \in Seq(Row) /\ ArtifactsAreExact /\ artifacts \in Index /\ LoopsAreDone
  BY DEF UpgradeInv, TypeOK
<1>2. /\ pc = "artifact_rows" /\ artifacts.last_id + n <= Len(rows)
      /\ UNCHANGED <<rows, heads_table, heads, chart, pc, had_heads, rebuilt, crashes>>
      /\ artifacts' = Insert(artifacts, ids, {i \in ids : HasArtifacts(i)})
  BY DEF CatchUpArtifacts
<1>3. artifacts.version = "current" /\ Exact(artifacts, wanted)
  BY <1>1, <1>2 DEF TypeOK, ArtifactsAreExact
<1>4. {i \in ids : HasArtifacts(i)} = {i \in ids : i \in wanted}
  BY DEF NextRows
<1>5. artifacts' \in Index /\ artifacts'.version = "current" /\ Exact(artifacts', wanted)
  <2>1. n \in Nat \ {0} /\ wanted \subseteq Ids
    BY UpgradeAssumption
  <2> QED BY <1>1, <1>2, <1>3, <1>4, <2>1, CatchUpIsExact
<1>6. ArtifactsAreExact'
  BY <1>2, <1>5 DEF ArtifactsAreExact, Exact, Ids, HasArtifacts
<1>7. TypeOK'
  BY <1>1, <1>2, <1>5 DEF TypeOK
<1>8. ChartIsExact' /\ LoopsAreDone' /\ HeadsAreOwn'
  BY <1>1, <1>2, UpgradeKeeps DEF LoopsAreDone
<1>9. ASSUME crashes' = 0 PROVE HeadsKnown'
  <2>1. HeadsRight'
    BY <1>2, <1>9, UpgradeKeeps DEF UpgradeInv, HeadsKnown
  <2> QED BY <1>2, <2>1 DEF HeadsKnown
<1> QED BY <1>6, <1>7, <1>8, <1>9 DEF UpgradeInv

(* The ends of the loops, Close and Crash move the program counter only.   *)
LEMMA ControlStep ==
  ASSUME UpgradeInv, ChartDone \/ ArtifactsDone \/ Close \/ Crash
  PROVE  UpgradeInv'
<1>1. TypeOK /\ LoopsAreDone /\ (crashes = 0 => HeadsKnown)
  BY DEF UpgradeInv
<1>2. UNCHANGED <<rows, heads_table, heads, chart, artifacts, had_heads, rebuilt>>
  BY DEF ChartDone, ArtifactsDone, Close, Crash
<1>3. ChartIsExact' /\ ArtifactsAreExact' /\ HeadsAreOwn' /\ (HeadsRight => HeadsRight')
  BY <1>2, UpgradeKeeps
<1>4. CASE ChartDone
  <2>1. /\ pc = "chart_rows" /\ chart.last_id = Len(rows) /\ UNCHANGED crashes
        /\ pc' = IF rebuilt \/ ~had_heads THEN "heads_delete" ELSE "artifacts"
    BY <1>4 DEF ChartDone
  <2>2. TypeOK' /\ LoopsAreDone'
    BY <1>1, <1>2, <2>1 DEF TypeOK, LoopsAreDone
  <2>3. ASSUME crashes' = 0 PROVE HeadsKnown'
    BY <1>1, <1>2, <1>3, <2>1, <2>3 DEF HeadsKnown
  <2> QED BY <1>3, <2>2, <2>3 DEF UpgradeInv
<1>5. CASE ArtifactsDone
  <2>1. pc = "artifact_rows" /\ artifacts.last_id = Len(rows) /\ UNCHANGED crashes /\ pc' = "open"
    BY <1>5 DEF ArtifactsDone
  <2>2. TypeOK' /\ LoopsAreDone'
    BY <1>1, <1>2, <2>1 DEF TypeOK, LoopsAreDone
  <2>3. ASSUME crashes' = 0 PROVE HeadsKnown'
    BY <1>1, <1>2, <1>3, <2>1, <2>3 DEF HeadsKnown
  <2> QED BY <1>3, <2>2, <2>3 DEF UpgradeInv
<1>6. CASE Close
  <2>1. pc = "open" /\ UNCHANGED crashes /\ pc' = "closed"
    BY <1>6 DEF Close
  <2>2. TypeOK' /\ LoopsAreDone'
    BY <1>1, <1>2, <2>1 DEF TypeOK, LoopsAreDone
  <2>3. ASSUME crashes' = 0 PROVE HeadsKnown'
    BY <1>1, <1>2, <1>3, <2>1, <2>3 DEF HeadsKnown, TypeOK
  <2> QED BY <1>3, <2>2, <2>3 DEF UpgradeInv
<1>7. CASE Crash
  <2>1. crashes < MaxCrashes /\ crashes' = crashes + 1 /\ pc' = "closed"
    BY <1>7 DEF Crash
  <2>2. crashes' \in 0 .. MaxCrashes /\ crashes' # 0
    BY <1>1, <2>1, UpgradeAssumption DEF TypeOK
  <2>3. TypeOK' /\ LoopsAreDone'
    BY <1>1, <1>2, <2>1, <2>2 DEF TypeOK, LoopsAreDone
  <2> QED BY <1>3, <2>2, <2>3 DEF UpgradeInv
<1> QED BY <1>4, <1>5, <1>6, <1>7

(* The two statements on the heads keep the invariant, and the second one  *)
(* makes every head right.                                                 *)
LEMMA DeleteHeadsStep == UpgradeInv /\ DeleteHeads => UpgradeInv'
<1> SUFFICES ASSUME UpgradeInv, DeleteHeads PROVE UpgradeInv'
  OBVIOUS
<1>1. TypeOK /\ HeadsAreOwn /\ LoopsAreDone
  BY DEF UpgradeInv
<1>2. /\ pc = "heads_delete" /\ pc' = "heads_insert"
      /\ UNCHANGED <<rows, heads_table, chart, artifacts, had_heads, rebuilt, crashes>>
      /\ heads' = [s \in Source |-> IF heads[s] \in chart.listed THEN heads[s] ELSE 0]
  BY DEF DeleteHeads
<1>3. \A s \in Source : heads'[s] \in {heads[s], 0} /\ (heads'[s] # 0 => heads'[s] \in chart.listed)
  BY <1>2
<1>4. heads' \in [Source -> Nat]
  BY <1>1, <1>2 DEF TypeOK
<1>5. TypeOK' /\ LoopsAreDone'
  BY <1>1, <1>2, <1>4 DEF TypeOK, LoopsAreDone
<1>6. ChartIsExact' /\ ArtifactsAreExact'
  BY <1>2, UpgradeKeeps
<1>7. HeadsAreOwn'
  BY <1>1, <1>2, <1>3 DEF HeadsAreOwn, Ids
<1>8. HeadsKnown'
  BY <1>2, <1>3 DEF HeadsKnown
<1> QED BY <1>5, <1>6, <1>7, <1>8 DEF UpgradeInv

LEMMA InsertHeadsStep == UpgradeInv /\ InsertHeads => UpgradeInv'
<1> SUFFICES ASSUME UpgradeInv, InsertHeads PROVE UpgradeInv'
  OBVIOUS
<1> DEFINE of(s) == {i \in chart.listed : rows[i].source = s}
           right(s) == {i \in Ids : rows[i].source = s /\ Shown(i)}
<1>1. TypeOK /\ HeadsAreOwn /\ LoopsAreDone /\ rows \in Seq(Row) /\ ChartIsExact
  BY DEF UpgradeInv, TypeOK
<1>2. /\ pc = "heads_insert" /\ pc' = "artifacts"
      /\ UNCHANGED <<rows, heads_table, chart, artifacts, had_heads, rebuilt, crashes>>
      /\ heads' = [s \in Source |-> IF of(s) = {} THEN heads[s] ELSE LastId(of(s))]
  BY DEF InsertHeads
<1>3. chart.listed = {i \in Ids : Shown(i)}
  <2>1. Exact(chart, {i \in Ids : Shown(i)}) /\ chart.last_id = Len(rows)
    BY <1>1, <1>2 DEF TypeOK, ChartIsExact, LoopsAreDone
  <2>2. \A i \in Ids : i <= Len(rows)
    BY <1>1, IdsAre
  <2> QED BY <2>1, <2>2 DEF Exact
<1>4. \A s \in Source : of(s) = right(s)
  BY <1>3
<1>5. ASSUME NEW s \in Source
      PROVE  heads'[s] \in Nat
             /\ (heads'[s] # 0 => heads'[s] \in Ids /\ rows[heads'[s]].source = s)
  <2>1. CASE of(s) = {}
    BY <1>1, <1>2, <2>1 DEF TypeOK, HeadsAreOwn
  <2>2. CASE of(s) # {}
    <3>1. heads'[s] = LastId(right(s))
      BY <1>2, <1>4, <2>2
    <3> QED BY <1>1, <3>1, NewestIsOwn
  <2> QED BY <2>1, <2>2
<1>6. heads' \in [Source -> Nat]
  <2>1. heads' = [s \in Source |-> heads'[s]]
    BY <1>2
  <2> QED BY <1>5, <2>1
<1>7. TypeOK' /\ LoopsAreDone'
  BY <1>1, <1>2, <1>6 DEF TypeOK, LoopsAreDone
<1>8. ChartIsExact' /\ ArtifactsAreExact'
  BY <1>2, UpgradeKeeps
<1>9. HeadsAreOwn'
  BY <1>2, <1>5 DEF HeadsAreOwn, Ids
<1>10. ASSUME crashes' = 0 PROVE HeadsKnown'
  <2>1. ASSUME NEW s \in Source PROVE heads'[s] = LastId(right(s))
    <3>1. CASE of(s) # {}
      BY <1>2, <1>4, <3>1
    <3>2. CASE of(s) = {}
      <4>1. heads'[s] = heads[s] /\ right(s) = {}
        BY <1>2, <1>4, <3>2
      <4>2. heads[s] = 0
        <5> SUFFICES ASSUME heads[s] # 0 PROVE FALSE
          OBVIOUS
        <5>1. heads[s] \in chart.listed /\ rows[heads[s]].source = s
          BY <1>1, <1>2, <1>10 DEF UpgradeInv, HeadsKnown, HeadsAreOwn
        <5> QED BY <3>2, <5>1
      <4>3. LastId({}) = 0
        BY LastIdIs, {} \subseteq 0 .. 0
      <4> QED BY <4>1, <4>2, <4>3
    <3> QED BY <3>1, <3>2
  <2>2. HeadsRight'
    BY <1>2, <2>1 DEF HeadsRight, Ids, Shown
  <2> QED BY <1>2, <2>2 DEF HeadsKnown
<1> QED BY <1>7, <1>8, <1>9, <1>10 DEF UpgradeInv

(* An ingested row joins both indexes and its Source's head at once.       *)
LEMMA IngestStep ==
  ASSUME UpgradeInv, NEW row \in Row, Ingest(row)
  PROVE  UpgradeInv'
<1> DEFINE id == Len(rows) + 1
           old == {i \in Ids : Shown(i)}
           oldA == {i \in Ids : HasArtifacts(i)}
           shown == {i \in Ids' : Shown(i)'}
           arts == {i \in Ids' : HasArtifacts(i)'}
<1>1. /\ TypeOK /\ HeadsAreOwn /\ LoopsAreDone /\ rows \in Seq(Row) /\ ChartIsExact
      /\ ArtifactsAreExact /\ chart \in Index /\ artifacts \in Index
  BY DEF UpgradeInv, TypeOK
<1>2. /\ pc = "open" /\ rows' = Append(rows, row)
      /\ chart' = Insert(chart, {id}, IF row.kind = "event" THEN {} ELSE {id})
      /\ artifacts' = Insert(artifacts, {id}, IF row.kind = "artifact" THEN {id} ELSE {})
      /\ heads' = IF row.kind = "event" THEN heads ELSE [heads EXCEPT ![row.source] = id]
      /\ UNCHANGED <<heads_table, pc, had_heads, rebuilt, crashes>>
  BY DEF Ingest
<1>3. /\ Len(rows) \in Nat /\ id \in Nat /\ Ids = 1 .. Len(rows)
      /\ rows' \in Seq(Row) /\ Len(rows') = id /\ (Ids') = 1 .. id
      /\ rows'[id] = row /\ \A i \in Ids : rows'[i] = rows[i]
  BY <1>1, <1>2, IdsAre DEF Ids
<1>4. /\ chart.version = "current" /\ artifacts.version = "current"
      /\ chart.last_id = Len(rows) /\ artifacts.last_id = Len(rows)
      /\ Exact(chart, old) /\ Exact(artifacts, oldA)
  BY <1>1, <1>2 DEF TypeOK, LoopsAreDone, ChartIsExact, ArtifactsAreExact
<1>5. /\ shown \subseteq 1 .. id /\ arts \subseteq 1 .. id
      /\ \A i \in Ids : (i \in shown <=> i \in old) /\ (i \in arts <=> i \in oldA)
      /\ id \in shown <=> row.kind # "event"
      /\ id \in arts <=> row.kind = "artifact"
  BY <1>3 DEF Shown, HasArtifacts
<1>6. \A i \in 1 .. id : i \in Ids \/ i = id
  BY <1>3
<1>7. id \notin Ids /\ old \subseteq Ids /\ oldA \subseteq Ids
  BY <1>3
<1> HIDE DEF shown, arts, old, oldA
<1>8. /\ chart' \in Index /\ chart'.version = "current" /\ ExactTo(chart', shown, id)
  <2>1. chart' = Moved(chart, shown, id)
    <3>1. (chart.last_id + 1) .. id = {id}
      BY <1>3, <1>4
    <3>2. {i \in shown : chart.last_id < i /\ i <= id} =
            IF row.kind = "event" THEN {} ELSE {id}
      <4>1. \A i \in shown : (chart.last_id < i /\ i <= id) <=> i = id
        BY <1>3, <1>4, <1>5
      <4> HIDE DEF id
      <4> QED BY <1>5, <4>1
    <3> HIDE DEF id
    <3> QED BY <1>2, <3>1, <3>2 DEF Moved
  <2>2. ExactTo(chart, shown, chart.last_id)
    <3>1. {i \in old : i <= chart.last_id} = {i \in shown : i <= chart.last_id}
      <4>1. \A i \in shown : i <= chart.last_id => i \in Ids
        BY <1>3, <1>4, <1>5
      <4> QED BY <1>5, <1>7, <4>1
    <3> QED BY <1>4, <3>1 DEF Exact, ExactTo
  <2>3. id \in Nat /\ id \in 0 .. id /\ chart.last_id < id /\ shown \subseteq 1 .. id
    BY <1>3, <1>4, <1>5
  <2>4. chart \in Index /\ chart.version = "current"
    BY <1>1, <1>4
  <2> HIDE DEF id
  <2> QED BY ONLY <2>1, <2>2, <2>3, <2>4, InsertIsExact
<1>9. /\ artifacts' \in Index /\ artifacts'.version = "current" /\ ExactTo(artifacts', arts, id)
  <2>1. artifacts' = Moved(artifacts, arts, id)
    <3>1. (artifacts.last_id + 1) .. id = {id}
      BY <1>3, <1>4
    <3>2. {i \in arts : artifacts.last_id < i /\ i <= id} =
            IF row.kind = "artifact" THEN {id} ELSE {}
      <4>1. \A i \in arts : (artifacts.last_id < i /\ i <= id) <=> i = id
        BY <1>3, <1>4, <1>5
      <4> HIDE DEF id
      <4> QED BY <1>5, <4>1
    <3> HIDE DEF id
    <3> QED BY <1>2, <3>1, <3>2 DEF Moved
  <2>2. ExactTo(artifacts, arts, artifacts.last_id)
    <3>1. {i \in oldA : i <= artifacts.last_id} = {i \in arts : i <= artifacts.last_id}
      <4>1. \A i \in arts : i <= artifacts.last_id => i \in Ids
        BY <1>3, <1>4, <1>5
      <4> QED BY <1>5, <1>7, <4>1
    <3> QED BY <1>4, <3>1 DEF Exact, ExactTo
  <2>3. id \in Nat /\ id \in 0 .. id /\ artifacts.last_id < id /\ arts \subseteq 1 .. id
    BY <1>3, <1>4, <1>5
  <2>4. artifacts \in Index /\ artifacts.version = "current"
    BY <1>1, <1>4
  <2> HIDE DEF id
  <2> QED BY ONLY <2>1, <2>2, <2>3, <2>4, InsertIsExact
<1>10. heads' \in [Source -> Nat] /\ row.source \in Source
  BY <1>1, <1>2, <1>3 DEF TypeOK, Row
<1>11. TypeOK'
  BY <1>1, <1>2, <1>3, <1>8, <1>9, <1>10 DEF TypeOK
<1>12. ChartIsExact'
  <2>1. Exact(chart, {i \in Ids : Shown(i)})'
    BY <1>3, <1>8 DEF Exact, ExactTo, shown
  <2> QED BY <2>1 DEF ChartIsExact
<1>13. ArtifactsAreExact'
  <2>1. Exact(artifacts, {i \in Ids : HasArtifacts(i)})'
    BY <1>3, <1>9 DEF Exact, ExactTo, arts
  <2> QED BY <2>1 DEF ArtifactsAreExact
<1>14. LoopsAreDone'
  BY <1>3, <1>8, <1>9 DEF LoopsAreDone, ExactTo
<1>15. HeadsAreOwn'
  BY <1>1, <1>2, <1>3, <1>10 DEF HeadsAreOwn, TypeOK
<1>16. ASSUME crashes' = 0 PROVE HeadsKnown'
  <2>1. HeadsRight
    BY <1>2, <1>16 DEF UpgradeInv, HeadsKnown
  <2>2. ASSUME NEW s \in Source
        PROVE  heads'[s] = LastId({i \in Ids' : rows'[i].source = s /\ Shown(i)'})
    <3> DEFINE before == {i \in Ids : rows[i].source = s /\ Shown(i)}
               now == {i \in Ids' : rows'[i].source = s /\ Shown(i)'}
    <3>1. heads[s] = LastId(before)
      BY <2>1 DEF HeadsRight
    <3>2. CASE row.kind = "event" \/ s # row.source
      <4>1. heads'[s] = heads[s]
        BY <1>1, <1>2, <1>10, <3>2 DEF TypeOK
      <4>2. now = before
        <5>1. id \notin now
          BY <1>3, <3>2 DEF Shown
        <5>2. \A i \in Ids : i \in now <=> i \in before
          BY <1>3 DEF Shown
        <5> QED BY <1>3, <1>6, <5>1, <5>2
      <4> QED BY <3>1, <4>1, <4>2
    <3>3. CASE row.kind # "event" /\ s = row.source
      <4>1. heads'[s] = id
        BY <1>1, <1>2, <1>10, <3>3 DEF TypeOK
      <4>2. id \in now
        BY <1>3, <3>3 DEF Shown
      <4>3. now \subseteq 0 .. id /\ \A i \in now : i <= id
        BY <1>3
      <4> HIDE DEF now, id
      <4>4. LastId(now) = id
        BY <1>3, <4>2, <4>3, NewestOf
      <4> QED BY <4>1, <4>4 DEF now
    <3> QED BY <3>2, <3>3
  <2>3. HeadsRight'
    BY <2>2 DEF HeadsRight
  <2> QED BY <1>2, <2>3 DEF HeadsKnown
<1> QED BY <1>11, <1>12, <1>13, <1>14, <1>15, <1>16 DEF UpgradeInv

(* Every step keeps the invariant.                                         *)
LEMMA UpgradeNext == UpgradeInv /\ [Next]_vars => UpgradeInv'
<1> SUFFICES ASSUME UpgradeInv, [Next]_vars PROVE UpgradeInv'
  OBVIOUS
<1>1. CASE CreateTables
  BY <1>1, CreateTablesStep
<1>2. CASE ResetChart
  BY <1>2, ResetChartStep
<1>3. CASE \E n \in 1 .. BatchRows : CatchUpChart(n)
  BY <1>3, CatchUpChartStep
<1>4. CASE ChartDone \/ ArtifactsDone \/ Close \/ Crash
  BY <1>4, ControlStep
<1>5. CASE DeleteHeads
  BY <1>5, DeleteHeadsStep
<1>6. CASE InsertHeads
  BY <1>6, InsertHeadsStep
<1>7. CASE ResetArtifacts
  BY <1>7, ResetArtifactsStep
<1>8. CASE \E n \in 1 .. BatchRows : CatchUpArtifacts(n)
  BY <1>8, CatchUpArtifactsStep
<1>9. CASE \E row \in Row : Ingest(row)
  BY <1>9, IngestStep
<1>10. CASE UNCHANGED vars
  <2>1. UNCHANGED <<rows, heads_table, heads, chart, artifacts, pc, had_heads, rebuilt, crashes>>
    BY <1>10 DEF vars
  <2>2. TypeOK' /\ LoopsAreDone' /\ (crashes' = 0 => HeadsKnown')
    BY <2>1, UpgradeKeeps DEF UpgradeInv, TypeOK, LoopsAreDone, HeadsKnown
  <2> QED BY <2>1, <2>2, UpgradeKeeps DEF UpgradeInv
<1> QED BY <1>1, <1>2, <1>3, <1>4, <1>5, <1>6, <1>7, <1>8, <1>9, <1>10 DEF Next, Opening

(* Whatever an older build left and wherever opens were interrupted, an    *)
(* open store's indexes list the rows they should, each once; and its      *)
(* heads are right if no open was interrupted.                             *)
THEOREM OpenStoreIsExact == Spec => []OpenIsExact
<1>1. UpgradeInv => OpenIsExact
  <2>1. UpgradeInv => IndexesAreExact
    BY DEF UpgradeInv, TypeOK, ChartIsExact, ArtifactsAreExact, LoopsAreDone, IndexesAreExact
  <2>2. UpgradeInv => HeadsAfterUpgrade
    BY DEF UpgradeInv, HeadsKnown, HeadsAfterUpgrade
  <2> QED BY <2>1, <2>2 DEF UpgradeInv, OpenIsExact
<1> QED BY <1>1, UpgradeInit, UpgradeNext, PTL DEF Spec

-------------------------------------------------------------------------------
(* The alert engine.                                                       *)

RuleState ==
  [consecutive : Nat, fires : Nat, firing : BOOLEAN, lastFire : SUBSET Int, lastStep : SUBSET Nat,
   since : SUBSET Int]

RuleRow == [rule : Rules, state : RuleState, born : Nat]

Verdicts == {"skip", "unknown", "false", "true"}

(* What the proof reads of an entry of the log.                            *)
Entry(e) == e.tick \in BOOLEAN /\ e.step \in Nat /\ e.at \in Int

Logged(h) == \A j \in DOMAIN h : Entry(h[j])

LastOf(S) == {j \in S : \A i \in S : i <= j}

(* What the engine counts: a step it was true of, unless it is the one it  *)
(* was last true of.                                                       *)
Again(h, r, j) ==
  \E i \in Heard(h, r) : i < j /\ h[i].step = h[j].step /\ \A g \in Heard(h, r) : g <= i \/ j <= g

Advances(h, r) == {j \in Heard(h, r) : ~Again(h, r, j) /\ \A f \in Was(h, r, "false") : f < j}

Called(h, r) ==
  /\ MayAlert(h, r)
  /\ Cardinality(Advances(h, r)) >= r.rule.forSteps \/ (h[Len(h)].tick /\ r.rule.forSteps = 1)

(* What last_step, since_ns and last_fire_ns ought to be.                  *)
LastStep(h, r) == {h[j].step : j \in LastOf(Heard(h, r))}

Since(h, r) == {h[j].at : j \in Onset(h, r)}

LastFire(h, r) == {h[j].at : j \in LastOf(Fires(h, r))}

(* The state of a rule is what the log says of it.                         *)
Follows(h, r, s) ==
  /\ s.consecutive = Cardinality(Advances(h, r))
  /\ s.lastStep = LastStep(h, r)
  /\ s.since = Since(h, r)
  /\ s.fires = Cardinality(Fires(h, r))
  /\ s.lastFire = LastFire(h, r)
  /\ s.firing <=> \E j \in Fires(h, r) : \A f \in Was(h, r, "false") : f < j
  /\ Fires(h, r) # {} => LastOf(Fires(h, r)) # {}
  /\ Unbroken(h, r) # {} => Onset(h, r) # {}
  /\ Fires(h, r) \cap Was(h, r, "false") = {}
  /\ \A i, j \in Fires(h, r) : i < j => h[j].at - h[i].at >= r.rule.cooldown

LEMMA RuleBounds ==
  ASSUME NEW rule \in Rules
  PROVE  {rule.forSteps, rule.forDuration, rule.cooldown} \subseteq Nat /\ rule.maxFires \subseteq Nat
BY AlertsAssumption DEF AlertsAssumption

-------------------------------------------------------------------------------
(* One more entry of the log.                                              *)
LEMMA LogGrows ==
  ASSUME NEW h, NEW S, h \in Seq(S), NEW e
  PROVE  /\ Len(h) \in Nat /\ DOMAIN h = 1 .. Len(h)
         /\ Len(Append(h, e)) = Len(h) + 1
         /\ \A j \in 1 .. Len(h) : Append(h, e)[j] = h[j]
         /\ Append(h, e)[Len(h) + 1] = e
OBVIOUS

VerdictsGrow(h, e, r) ==
  \A v : /\ Was(h, r, v) \subseteq r.born + 1 .. Len(h)
         /\ Was(Append(h, e), r, v) =
              Was(h, r, v) \cup (IF e.verdict[r.rule.name] = v THEN {Len(h) + 1} ELSE {})

LEMMA WasGrows ==
  ASSUME NEW h, NEW S, h \in Seq(S), NEW e, NEW r, r.born \in Nat, r.born <= Len(h)
  PROVE  VerdictsGrow(h, e, r)
<1> SUFFICES ASSUME NEW v
             PROVE  /\ Was(h, r, v) \subseteq r.born + 1 .. Len(h)
                    /\ Was(Append(h, e), r, v) =
                         Was(h, r, v) \cup (IF e.verdict[r.rule.name] = v THEN {Len(h) + 1} ELSE {})
  BY DEF VerdictsGrow
<1> DEFINE g == Append(h, e)
<1>1. /\ Len(g) = Len(h) + 1 /\ Len(h) \in Nat /\ g[Len(h) + 1] = e
      /\ \A j \in 1 .. Len(h) : g[j] = h[j]
  BY LogGrows
<1>2. ASSUME NEW j PROVE j \in Was(g, r, v) <=>
        j \in Was(h, r, v) \cup (IF e.verdict[r.rule.name] = v THEN {Len(h) + 1} ELSE {})
  <2>1. CASE j \in r.born + 1 .. Len(h)
    BY <2>1, <1>1 DEF Was
  <2>2. CASE j = Len(h) + 1
    BY <2>2, <1>1 DEF Was
  <2>3. CASE j \notin r.born + 1 .. Len(h) + 1
    BY <2>3, <1>1 DEF Was
  <2> QED BY <2>1, <2>2, <2>3, <1>1
<1> QED BY <1>2 DEF Was

LEMMA FiresGrow ==
  ASSUME NEW h, NEW S, h \in Seq(S), NEW e, NEW r, r.born \in Nat, r.born <= Len(h)
  PROVE  /\ Fires(h, r) \subseteq r.born + 1 .. Len(h)
         /\ Fires(Append(h, e), r) =
              Fires(h, r) \cup (IF r.rule.name \in e.fired THEN {Len(h) + 1} ELSE {})
<1> DEFINE g == Append(h, e)
<1>1. /\ Len(g) = Len(h) + 1 /\ Len(h) \in Nat
      /\ \A j \in 1 .. Len(h) : g[j] = h[j]
      /\ g[Len(h) + 1] = e
  BY LogGrows
<1>2. ASSUME NEW j PROVE j \in Fires(g, r) <=>
        j \in Fires(h, r) \cup (IF r.rule.name \in e.fired THEN {Len(h) + 1} ELSE {})
  <2>1. CASE j \in r.born + 1 .. Len(h)
    BY <2>1, <1>1 DEF Fires
  <2>2. CASE j = Len(h) + 1
    BY <2>2, <1>1 DEF Fires
  <2>3. CASE j \notin r.born + 1 .. Len(h) + 1
    BY <2>3, <1>1 DEF Fires
  <2> QED BY <2>1, <2>2, <2>3, <1>1
<1> QED BY <1>2 DEF Fires

LEMMA HeardGrows ==
  ASSUME NEW h, NEW S, h \in Seq(S), NEW e, NEW r, r.born \in Nat, r.born <= Len(h)
  PROVE  /\ Heard(h, r) \subseteq r.born + 1 .. Len(h)
         /\ Heard(Append(h, e), r) =
              Heard(h, r) \cup (IF e.verdict[r.rule.name] = "true" /\ ~e.tick THEN {Len(h) + 1} ELSE {})
<1> DEFINE g == Append(h, e)
<1>1. /\ Len(h) \in Nat
      /\ \A j \in 1 .. Len(h) : g[j] = h[j]
      /\ g[Len(h) + 1] = e
  BY LogGrows
<1>0. VerdictsGrow(h, e, r)
  BY WasGrows
<1>3. \A v : /\ Was(h, r, v) \subseteq r.born + 1 .. Len(h)
             /\ Was(g, r, v) = Was(h, r, v) \cup (IF e.verdict[r.rule.name] = v THEN {Len(h) + 1} ELSE {})
  BY <1>0 DEF VerdictsGrow
<1>2. ASSUME NEW j PROVE j \in Heard(g, r) <=>
        j \in Heard(h, r) \cup (IF e.verdict[r.rule.name] = "true" /\ ~e.tick THEN {Len(h) + 1} ELSE {})
  <2>1. CASE j \in r.born + 1 .. Len(h)
    BY <2>1, <1>1, <1>3 DEF Heard
  <2>2. CASE j = Len(h) + 1
    BY <2>2, <1>1, <1>3 DEF Heard
  <2>3. CASE j \notin r.born + 1 .. Len(h) + 1
    BY <2>3, <1>1, <1>3 DEF Heard
  <2> QED BY <2>1, <2>2, <2>3, <1>1
<1> QED BY <1>3, <1>2 DEF Heard

(* The last of a set of places that gains one behind them all.             *)
LEMMA LatestGrows ==
  ASSUME NEW k \in Nat, NEW S, S \subseteq 1 .. k
  PROVE  LastOf(S \cup {k + 1}) = {k + 1}
<1>1. ASSUME NEW j PROVE j \in LastOf(S \cup {k + 1}) <=> j = k + 1
  <2>1. \A i \in S : i < k + 1
    OBVIOUS
  <2>2. k + 1 \in LastOf(S \cup {k + 1})
    BY <2>1 DEF LastOf
  <2>3. ASSUME j \in LastOf(S \cup {k + 1}), j \in S PROVE FALSE
    <3>1. k + 1 <= j
      BY <2>3 DEF LastOf
    <3> QED BY <3>1, <2>1, <2>3
  <2> QED BY <2>2, <2>3 DEF LastOf
<1> QED BY <1>1

(* A step repeats the one before it.                                       *)
LEMMA AgainGrows ==
  ASSUME NEW h, NEW S, h \in Seq(S), NEW e, NEW r, r.born \in Nat, r.born <= Len(h)
  PROVE  /\ \A j \in Heard(h, r) : Again(Append(h, e), r, j) <=> Again(h, r, j)
         /\ Again(Append(h, e), r, Len(h) + 1) <=> e.step \in LastStep(h, r)
<1> DEFINE g == Append(h, e)
           K == Len(h) + 1
<1>1. /\ Len(h) \in Nat
      /\ \A j \in 1 .. Len(h) : g[j] = h[j]
      /\ g[K] = e
  BY LogGrows
<1>2. /\ Heard(h, r) \subseteq r.born + 1 .. Len(h)
      /\ Heard(g, r) \subseteq Heard(h, r) \cup {K} /\ Heard(h, r) \subseteq Heard(g, r)
  BY HeardGrows
<1>3. ASSUME NEW j \in Heard(h, r) PROVE Again(g, r, j) <=> Again(h, r, j)
  <2>1. \A i \in Heard(g, r) : i < j => i \in Heard(h, r) /\ g[i] = h[i]
    BY <1>1, <1>2
  <2>2. g[j] = h[j] /\ j < K
    BY <1>1, <1>2
  <2>3. ASSUME Again(g, r, j) PROVE Again(h, r, j)
    BY <2>1, <2>2, <2>3, <1>2 DEF Again
  <2>4. ASSUME Again(h, r, j) PROVE Again(g, r, j)
    <3>1. PICK i \in Heard(h, r) :
            i < j /\ h[i].step = h[j].step /\ \A q \in Heard(h, r) : q <= i \/ j <= q
      BY <2>4 DEF Again
    <3>2. \A q \in Heard(g, r) : q <= i \/ j <= q
      BY <3>1, <1>1, <1>2
    <3>3. g[i] = h[i] /\ i \in Heard(g, r)
      BY <1>1, <1>2
    <3> QED BY <3>1, <3>2, <3>3, <2>2 DEF Again
  <2> QED BY <2>3, <2>4
<1>4. ASSUME Again(g, r, K) PROVE e.step \in LastStep(h, r)
  <2>1. PICK i \in Heard(g, r) :
          i < K /\ g[i].step = g[K].step /\ \A q \in Heard(g, r) : q <= i \/ K <= q
    BY <1>4 DEF Again
  <2>2. i \in Heard(h, r) /\ g[i] = h[i]
    BY <2>1, <1>1, <1>2
  <2>3. \A q \in Heard(h, r) : q <= i
    BY <2>1, <1>1, <1>2
  <2> QED BY <2>1, <2>2, <2>3, <1>1 DEF LastOf, LastStep
<1>5. ASSUME e.step \in LastStep(h, r) PROVE Again(g, r, K)
  <2>1. PICK i \in Heard(h, r) : h[i].step = e.step /\ \A q \in Heard(h, r) : q <= i
    BY <1>5 DEF LastOf, LastStep
  <2>2. \A q \in Heard(g, r) : q <= i \/ K <= q
    BY <2>1, <1>1, <1>2
  <2>3. i \in Heard(g, r) /\ i < K /\ g[i] = h[i]
    BY <1>1, <1>2
  <2> QED BY <2>1, <2>2, <2>3, <1>1 DEF Again
<1> QED BY <1>3, <1>4, <1>5

LEMMA AdvancesGrow ==
  ASSUME NEW h, NEW S, h \in Seq(S), NEW e, NEW r, r.born \in Nat, r.born <= Len(h)
  PROVE  LET v == e.verdict[r.rule.name] IN
         /\ Advances(h, r) \subseteq r.born + 1 .. Len(h)
         /\ v = "false" => Advances(Append(h, e), r) = {}
         /\ (v = "true" /\ ~e.tick /\ e.step \notin LastStep(h, r)) =>
              Advances(Append(h, e), r) = Advances(h, r) \cup {Len(h) + 1}
         /\ (v # "false" /\ (v # "true" \/ e.tick \/ e.step \in LastStep(h, r))) =>
              Advances(Append(h, e), r) = Advances(h, r)
<1> DEFINE g == Append(h, e)
           K == Len(h) + 1
           v == e.verdict[r.rule.name]
           again == e.step \in LastStep(h, r)
<1>1. Len(h) \in Nat
  BY LogGrows
<1>2. /\ Heard(h, r) \subseteq r.born + 1 .. Len(h)
      /\ Heard(g, r) = Heard(h, r) \cup (IF v = "true" /\ ~e.tick THEN {K} ELSE {})
  BY HeardGrows
<1>0. VerdictsGrow(h, e, r)
  BY WasGrows
<1>3. \A w : /\ Was(h, r, w) \subseteq r.born + 1 .. Len(h)
             /\ Was(g, r, w) = Was(h, r, w) \cup (IF v = w THEN {K} ELSE {})
  BY <1>0 DEF VerdictsGrow
<1>4. /\ \A j \in Heard(h, r) : Again(g, r, j) <=> Again(h, r, j)
      /\ Again(g, r, K) <=> again
  BY AgainGrows
<1> HIDE DEF g, K, v, again
<1>5. K \notin Heard(h, r) /\ K \notin Was(h, r, "false") /\ \A f \in Was(h, r, "false") : f < K
  BY <1>1, <1>2, <1>3 DEF K
<1>6. ASSUME v = "false" PROVE Advances(g, r) = {}
  <2>1. K \in Was(g, r, "false") /\ Heard(g, r) = Heard(h, r)
    BY <1>6, <1>2, <1>3
  <2>2. \A j \in Heard(h, r) : ~(K < j)
    BY <1>1, <1>2 DEF K
  <2> QED BY <2>1, <2>2 DEF Advances
<1>7. ASSUME v # "false", NEW j \in Heard(h, r) PROVE j \in Advances(g, r) <=> j \in Advances(h, r)
  <2>1. Was(g, r, "false") = Was(h, r, "false")
    BY <1>7, <1>3
  <2> QED BY <2>1, <1>2, <1>4, <1>7 DEF Advances
<1>8. ASSUME v # "false" PROVE K \in Advances(g, r) <=> (v = "true" /\ ~e.tick /\ ~again)
  <2>1. Was(g, r, "false") = Was(h, r, "false")
    BY <1>8, <1>3
  <2>2. K \in Heard(g, r) <=> (v = "true" /\ ~e.tick)
    BY <1>2, <1>5
  <2> QED BY <2>1, <2>2, <1>4, <1>5 DEF Advances
<1>9. Advances(h, r) \subseteq Heard(h, r) /\ Advances(g, r) \subseteq Heard(h, r) \cup {K}
  BY <1>2 DEF Advances
<1>10. ASSUME v = "true", ~e.tick, ~again PROVE Advances(g, r) = Advances(h, r) \cup {K}
  BY <1>7, <1>8, <1>9, <1>10
<1>11. ASSUME v # "false", v # "true" \/ e.tick \/ again PROVE Advances(g, r) = Advances(h, r)
  BY <1>7, <1>8, <1>9, <1>5, <1>11
<1>12. Advances(h, r) \subseteq r.born + 1 .. Len(h)
  BY <1>2, <1>9
<1> QED BY <1>6, <1>10, <1>11, <1>12 DEF g, K, v, again

LEMMA UnbrokenGrows ==
  ASSUME NEW h, NEW S, h \in Seq(S), NEW e, NEW r, r.born \in Nat, r.born <= Len(h)
  PROVE  LET v == e.verdict[r.rule.name] IN
         /\ Unbroken(h, r) \subseteq r.born + 1 .. Len(h)
         /\ v \in {"false", "unknown"} => Unbroken(Append(h, e), r) = {}
         /\ v = "true" => Unbroken(Append(h, e), r) = Unbroken(h, r) \cup {Len(h) + 1}
         /\ v = "skip" => Unbroken(Append(h, e), r) = Unbroken(h, r)
<1> DEFINE g == Append(h, e)
           K == Len(h) + 1
           v == e.verdict[r.rule.name]
<1>1. Len(h) \in Nat
  BY LogGrows
<1>0. VerdictsGrow(h, e, r)
  BY WasGrows
<1>2. \A w : /\ Was(h, r, w) \subseteq r.born + 1 .. Len(h)
             /\ Was(g, r, w) = Was(h, r, w) \cup (IF v = w THEN {K} ELSE {})
  BY <1>0 DEF VerdictsGrow
<1> HIDE DEF g, v
<1>3. ASSUME v \in {"false", "unknown"} PROVE Unbroken(g, r) = {}
  <2>1. K \in Was(g, r, "false") \cup Was(g, r, "unknown") /\ Was(g, r, "true") = Was(h, r, "true")
    BY <1>3, <1>2
  <2>2. \A j \in Was(h, r, "true") : ~(K < j)
    BY <1>1, <1>2
  <2> QED BY <2>1, <2>2 DEF Unbroken
<1>4. ASSUME v \in {"true", "skip"}
      PROVE  /\ Was(g, r, "false") = Was(h, r, "false")
             /\ Was(g, r, "unknown") = Was(h, r, "unknown")
  BY <1>4, <1>2
<1>5. ASSUME v = "true" PROVE Unbroken(g, r) = Unbroken(h, r) \cup {K}
  <2>1. Was(g, r, "true") = Was(h, r, "true") \cup {K}
    BY <1>5, <1>2
  <2>2. \A b \in Was(h, r, "false") \cup Was(h, r, "unknown") : b < K
    BY <1>1, <1>2
  <2> QED BY <2>1, <2>2, <1>4, <1>5 DEF Unbroken
<1>6. ASSUME v = "skip" PROVE Unbroken(g, r) = Unbroken(h, r)
  <2>1. Was(g, r, "true") = Was(h, r, "true")
    BY <1>6, <1>2
  <2> QED BY <2>1, <1>4, <1>6 DEF Unbroken
<1>7. Unbroken(h, r) \subseteq r.born + 1 .. Len(h)
  BY <1>2 DEF Unbroken
<1> QED BY <1>3, <1>5, <1>6, <1>7 DEF g, v

LEMMA OnsetGrows ==
  ASSUME NEW h, NEW S, h \in Seq(S), NEW e, NEW r, r.born \in Nat, r.born <= Len(h),
         e.verdict[r.rule.name] = "true", Unbroken(h, r) # {} => Onset(h, r) # {}
  PROVE  Onset(Append(h, e), r) = IF Onset(h, r) = {} THEN {Len(h) + 1} ELSE Onset(h, r)
<1> DEFINE g == Append(h, e)
           K == Len(h) + 1
<1>1. Len(h) \in Nat
  BY LogGrows
<1>2. /\ Unbroken(h, r) \subseteq r.born + 1 .. Len(h)
      /\ Unbroken(g, r) = Unbroken(h, r) \cup {K}
  BY UnbrokenGrows
<1> HIDE DEF g
<1>3. \A j \in Unbroken(h, r) : j < K /\ j <= K /\ ~(K <= j)
  BY <1>1, <1>2
<1>4. ASSUME Onset(h, r) = {} PROVE Onset(g, r) = {K}
  BY <1>4, <1>1, <1>2 DEF Onset
<1>5. ASSUME Onset(h, r) # {} PROVE Onset(g, r) = Onset(h, r)
  <2>1. PICK i \in Unbroken(h, r) : \A j \in Unbroken(h, r) : i <= j
    BY <1>5 DEF Onset
  <2>2. K \notin Onset(g, r)
    BY <2>1, <1>2, <1>3 DEF Onset
  <2> QED BY <2>2, <1>2, <1>3 DEF Onset
<1> QED BY <1>4, <1>5 DEF g

-------------------------------------------------------------------------------
(* What a verdict makes of a state, field by field.                        *)
Counts(s, v, step, tick) == v = "true" /\ ~tick /\ step \notin s.lastStep

Outcome(rule, s, v, step, now, tick, o) ==
  /\ o.state \in RuleState /\ o.fired \in BOOLEAN
  /\ o.state.consecutive =
       IF v = "false" THEN 0
       ELSE IF Counts(s, v, step, tick) THEN s.consecutive + 1 ELSE s.consecutive
  /\ o.state.lastStep = IF Counts(s, v, step, tick) THEN {step} ELSE s.lastStep
  /\ o.state.since =
       IF v \in {"false", "unknown"} THEN {}
       ELSE IF v = "true" /\ s.since = {} THEN {now} ELSE s.since
  /\ o.state.fires = IF o.fired THEN s.fires + 1 ELSE s.fires
  /\ o.state.lastFire = IF o.fired THEN {now} ELSE s.lastFire
  /\ o.state.firing = (v # "false" /\ (o.fired \/ s.firing))
  /\ o.fired <=>
       /\ v = "true"
       /\ o.state.consecutive >= rule.forSteps \/ (tick /\ rule.forSteps = 1)
       /\ \A since \in o.state.since : now - since >= rule.forDuration
       /\ ~(rule.mode = "edge" /\ s.firing)
       /\ \A last \in s.lastFire : now - last >= rule.cooldown
       /\ \A limit \in rule.maxFires : s.fires < limit
  /\ o.recovered <=> v = "false" /\ s.firing /\ rule.recovery

LEMMA JudgedIs ==
  ASSUME NEW rule \in Rules, NEW s \in RuleState, NEW v \in Verdicts, NEW step \in Nat, NEW now \in Int,
         NEW tick \in BOOLEAN
  PROVE  Outcome(rule, s, v, step, now, tick, Judged(rule, s, v, step, now, tick))
<1> DEFINE o == Judged(rule, s, v, step, now, tick)
<1>1. CASE v = "skip"
  BY <1>1 DEF Outcome, Judged, RuleState, Counts
<1>2. CASE v = "unknown"
  BY <1>2 DEF Outcome, Judged, RuleState, Counts
<1>3. CASE v = "false"
  BY <1>3 DEF Outcome, Judged, RuleState, Counts
<1>4. CASE v = "true"
  <2> DEFINE counted == Counted(s, step, tick)
             ready == [counted EXCEPT !.since = IF @ = {} THEN {now} ELSE @]
             fires == MayFire(rule, ready, now, tick)
  <2>1. o = [state |-> IF fires THEN [ready EXCEPT !.firing = TRUE, !.fires = @ + 1, !.lastFire = {now}] ELSE ready,
             fired |-> fires, recovered |-> FALSE]
    BY <1>4 DEF Judged
  <2>2. /\ counted \in RuleState /\ counted.since = s.since /\ counted.fires = s.fires
        /\ counted.lastFire = s.lastFire /\ counted.firing = s.firing
        /\ counted.consecutive = IF Counts(s, v, step, tick) THEN s.consecutive + 1 ELSE s.consecutive
        /\ counted.lastStep = IF Counts(s, v, step, tick) THEN {step} ELSE s.lastStep
    <3>1. CASE Counts(s, v, step, tick)
      <4>1. counted = [s EXCEPT !.consecutive = @ + 1, !.lastStep = {step}]
        BY <3>1 DEF Counted, Counts
      <4>2. {step} \in SUBSET Nat
        OBVIOUS
      <4>3. counted \in RuleState
        <5>1. counted = [consecutive |-> s.consecutive + 1, fires |-> s.fires, firing |-> s.firing,
                         lastFire |-> s.lastFire, lastStep |-> {step}, since |-> s.since]
          BY <4>1 DEF RuleState
        <5>2. s.consecutive + 1 \in Nat
          BY DEF RuleState
        <5> HIDE DEF counted
        <5> QED BY <5>1, <5>2, <4>2 DEF RuleState
      <4>4. counted.consecutive = s.consecutive + 1 /\ counted.lastStep = {step}
        BY <4>1 DEF RuleState
      <4>5. /\ counted.since = s.since /\ counted.fires = s.fires
            /\ counted.lastFire = s.lastFire /\ counted.firing = s.firing
        BY <4>1 DEF RuleState
      <4> HIDE DEF counted
      <4> QED BY <3>1, <4>3, <4>4, <4>5
    <3>2. CASE ~Counts(s, v, step, tick)
      <4>1. counted = s
        BY <3>2, <1>4 DEF Counted, Counts
      <4> QED BY <3>2, <4>1
    <3> QED BY <3>1, <3>2
  <2>3. /\ ready \in RuleState /\ ready.fires = s.fires
        /\ ready.since = IF s.since = {} THEN {now} ELSE s.since
        /\ ready.lastFire = s.lastFire /\ ready.firing = s.firing
        /\ ready.consecutive = counted.consecutive /\ ready.lastStep = counted.lastStep
    <3> HIDE DEF counted
    <3> QED BY <2>2 DEF RuleState
  <2>4. fires <=>
          /\ ready.consecutive >= rule.forSteps \/ (tick /\ rule.forSteps = 1)
          /\ \A since \in ready.since : now - since >= rule.forDuration
          /\ ~(rule.mode = "edge" /\ s.firing)
          /\ \A last \in s.lastFire : now - last >= rule.cooldown
          /\ \A limit \in rule.maxFires : s.fires < limit
    <3> HIDE DEF ready
    <3> QED BY <2>3 DEF MayFire
  <2>5. fires \in BOOLEAN
    BY DEF MayFire
  <2>6. /\ o.fired = fires /\ o.recovered = FALSE
        /\ o.state = IF fires THEN [ready EXCEPT !.firing = TRUE, !.fires = @ + 1, !.lastFire = {now}] ELSE ready
    <3> HIDE DEF ready, fires
    <3> QED BY <2>1
  <2>7. /\ o.state \in RuleState
        /\ o.state.consecutive = ready.consecutive /\ o.state.lastStep = ready.lastStep
        /\ o.state.since = ready.since
        /\ o.state.fires = IF o.fired THEN s.fires + 1 ELSE s.fires
        /\ o.state.lastFire = IF o.fired THEN {now} ELSE s.lastFire
        /\ o.state.firing = (o.fired \/ s.firing)
    <3> HIDE DEF ready, fires, o
    <3>1. CASE fires
      <4>1. o.state = [ready EXCEPT !.firing = TRUE, !.fires = @ + 1, !.lastFire = {now}] /\ o.fired = TRUE
        BY <3>1, <2>5, <2>6
      <4>2. {now} \in SUBSET Int
        OBVIOUS
      <4>3. o.state \in RuleState
        <5>1. o.state = [consecutive |-> ready.consecutive, fires |-> ready.fires + 1, firing |-> TRUE,
                         lastFire |-> {now}, lastStep |-> ready.lastStep, since |-> ready.since]
          BY <4>1, <2>3 DEF RuleState
        <5>2. ready.fires + 1 \in Nat
          BY <2>3 DEF RuleState
        <5> QED BY <5>1, <5>2, <4>2, <2>3 DEF RuleState
      <4>4. o.state.fires = s.fires + 1 /\ o.state.lastFire = {now} /\ o.state.firing = TRUE
        BY <4>1, <2>3 DEF RuleState
      <4>5. /\ o.state.consecutive = ready.consecutive /\ o.state.lastStep = ready.lastStep
            /\ o.state.since = ready.since
        BY <4>1, <2>3 DEF RuleState
      <4> QED BY <4>1, <4>3, <4>4, <4>5
    <3>2. CASE ~fires
      <4>1. o.state = ready /\ o.fired = FALSE
        BY <3>2, <2>5, <2>6
      <4>2. ready.firing = (FALSE \/ s.firing) /\ s.firing \in BOOLEAN
        BY <2>3 DEF RuleState
      <4> QED BY <4>1, <4>2, <2>3
    <3> QED BY <3>1, <3>2
  <2> HIDE DEF ready, fires, o, counted
  <2> QED BY <1>4, <2>2, <2>3, <2>4, <2>5, <2>6, <2>7 DEF o, Outcome
<1> QED BY <1>1, <1>2, <1>3, <1>4 DEF Verdicts

-------------------------------------------------------------------------------
(* One rule and one entry.                                                 *)
Evaluates(h, S, r, e, o) ==
  /\ h \in Seq(S) /\ (\A j \in 1 .. Len(h) : Entry(h[j])) /\ Entry(e)
  /\ r \in RuleRow /\ r.born <= Len(h) /\ Follows(h, r, r.state)
  /\ e.verdict[r.rule.name] \in Verdicts
  /\ o = Judged(r.rule, r.state, e.verdict[r.rule.name], e.step, e.at, e.tick)
  /\ r.rule.name \in e.fired <=> o.fired
  /\ r.rule.name \in e.recovered <=> o.recovered

LEMMA EvaluatesIs ==
  ASSUME NEW h, NEW S, NEW r, NEW e, NEW o, Evaluates(h, S, r, e, o)
  PROVE  Outcome(r.rule, r.state, e.verdict[r.rule.name], e.step, e.at, e.tick, o)
<1>1. /\ r.rule \in Rules /\ r.state \in RuleState /\ e.verdict[r.rule.name] \in Verdicts
      /\ e.step \in Nat /\ e.at \in Int /\ e.tick \in BOOLEAN
  BY DEF Evaluates, Entry, RuleRow
<1>2. o = Judged(r.rule, r.state, e.verdict[r.rule.name], e.step, e.at, e.tick)
  BY DEF Evaluates
<1> QED BY <1>1, <1>2, JudgedIs

(* The log behind a turn, and the places of the rule in it.                *)
LEMMA TurnPlaces ==
  ASSUME NEW h, NEW S, NEW r, NEW e, NEW o, Evaluates(h, S, r, e, o)
  PROVE  /\ h \in Seq(S) /\ r.born \in Nat /\ r.born <= Len(h) /\ Len(h) \in Nat
         /\ Len(Append(h, e)) = Len(h) + 1
         /\ \A j \in 1 .. Len(h) : Append(h, e)[j] = h[j] /\ Entry(h[j])
         /\ Append(h, e)[Len(h) + 1] = e /\ Entry(e)
         /\ {Fires(h, r), Heard(h, r), Advances(h, r), Unbroken(h, r)} \subseteq SUBSET (1 .. Len(h))
         /\ VerdictsGrow(h, e, r)
<1>1. /\ h \in Seq(S) /\ r.born \in Nat /\ r.born <= Len(h) /\ Entry(e)
      /\ \A j \in 1 .. Len(h) : Entry(h[j])
  BY DEF Evaluates, RuleRow
<1>2. /\ Len(h) \in Nat /\ Len(Append(h, e)) = Len(h) + 1 /\ Append(h, e)[Len(h) + 1] = e
      /\ \A j \in 1 .. Len(h) : Append(h, e)[j] = h[j]
  BY <1>1, LogGrows
<1>3. r.born + 1 .. Len(h) \subseteq 1 .. Len(h)
  BY <1>1, <1>2
<1>4. Fires(h, r) \subseteq r.born + 1 .. Len(h)
  BY <1>1, FiresGrow
<1>5. Heard(h, r) \subseteq r.born + 1 .. Len(h)
  BY <1>1, HeardGrows
<1>6. Advances(h, r) \subseteq r.born + 1 .. Len(h)
  BY <1>1, AdvancesGrow
<1>7. Unbroken(h, r) \subseteq r.born + 1 .. Len(h)
  BY <1>1, UnbrokenGrows
<1>8. VerdictsGrow(h, e, r)
  BY <1>1, WasGrows
<1> QED BY <1>1, <1>2, <1>3, <1>4, <1>5, <1>6, <1>7, <1>8

LEMMA PlacesCount ==
  ASSUME NEW k \in Nat, NEW T, T \subseteq 1 .. k
  PROVE  /\ IsFiniteSet(T) /\ Cardinality(T) \in Nat
         /\ Cardinality(T \cup {k + 1}) = Cardinality(T) + 1
<1>1. IsFiniteSet(1 .. k)
  BY FS_Interval
<1>2. IsFiniteSet(T)
  BY <1>1, FS_Subset
<1>3. k + 1 \notin T
  OBVIOUS
<1> QED BY <1>2, <1>3, FS_AddElement, FS_CardinalityType

LEMMA CountMoves ==
  ASSUME NEW h, NEW S, NEW r, NEW e, NEW o, Evaluates(h, S, r, e, o)
  PROVE  /\ o.state.consecutive = Cardinality(Advances(Append(h, e), r))
         /\ o.state.lastStep = LastStep(Append(h, e), r)
<1> DEFINE g == Append(h, e)
           K == Len(h) + 1
           v == e.verdict[r.rule.name]
<1>1. /\ h \in Seq(S) /\ r.born \in Nat /\ r.born <= Len(h) /\ Len(h) \in Nat
      /\ g[K] = e
      /\ \A j \in 1 .. Len(h) : g[j] = h[j]
      /\ Heard(h, r) \subseteq 1 .. Len(h) /\ Advances(h, r) \subseteq 1 .. Len(h)
  BY TurnPlaces
<1>2. /\ r.state.consecutive = Cardinality(Advances(h, r))
      /\ r.state.lastStep = LastStep(h, r)
  BY DEF Evaluates, Follows
<1>3. /\ v = "false" => Advances(g, r) = {}
      /\ (v = "true" /\ ~e.tick /\ e.step \notin LastStep(h, r)) =>
           Advances(g, r) = Advances(h, r) \cup {K}
      /\ (v # "false" /\ (v # "true" \/ e.tick \/ e.step \in LastStep(h, r))) =>
           Advances(g, r) = Advances(h, r)
  BY <1>1, AdvancesGrow
<1>4. Heard(g, r) = Heard(h, r) \cup (IF v = "true" /\ ~e.tick THEN {K} ELSE {})
  BY <1>1, HeardGrows
<1>0. Outcome(r.rule, r.state, v, e.step, e.at, e.tick, o)
  BY EvaluatesIs
<1>5. /\ o.state.consecutive =
           IF v = "false" THEN 0
           ELSE IF Counts(r.state, v, e.step, e.tick) THEN r.state.consecutive + 1 ELSE r.state.consecutive
      /\ o.state.lastStep = IF Counts(r.state, v, e.step, e.tick) THEN {e.step} ELSE r.state.lastStep
  BY <1>0 DEF Outcome
<1>6. Cardinality({}) = 0 /\ Cardinality(Advances(h, r) \cup {K}) = Cardinality(Advances(h, r)) + 1
  BY <1>1, PlacesCount, FS_EmptySet
<1>7. LastOf(Heard(h, r) \cup {K}) = {K}
  BY <1>1, LatestGrows
<1>8. \A j \in LastOf(Heard(h, r)) : g[j] = h[j]
  BY <1>1 DEF LastOf
<1> HIDE DEF g, K, v
<1>9. o.state.consecutive = Cardinality(Advances(g, r))
  BY <1>2, <1>3, <1>5, <1>6 DEF Counts
<1>10. CASE v = "true" /\ ~e.tick
  <2>1. LastOf(Heard(g, r)) = {K}
    BY <1>4, <1>7, <1>10
  <2>2. LastStep(g, r) = {e.step}
    BY <1>1, <2>1 DEF LastStep
  <2>3. ASSUME e.step \in r.state.lastStep PROVE r.state.lastStep = {e.step}
    BY <1>1, <1>2, <2>3 DEF LastOf, LastStep
  <2>4. o.state.lastStep = {e.step}
    BY <1>5, <1>10, <2>3 DEF Counts
  <2> QED BY <1>9, <2>1, <2>2, <2>4 DEF g
<1>11. CASE ~(v = "true" /\ ~e.tick)
  <2>1. Heard(g, r) = Heard(h, r) /\ o.state.lastStep = r.state.lastStep
    BY <1>4, <1>5, <1>11 DEF Counts
  <2>2. LastStep(g, r) = LastStep(h, r)
    BY <1>8, <2>1 DEF LastStep
  <2> QED BY <1>2, <1>9, <2>1, <2>2 DEF g
<1> QED BY <1>10, <1>11

LEMMA OnsetMoves ==
  ASSUME NEW h, NEW S, NEW r, NEW e, NEW o, Evaluates(h, S, r, e, o)
  PROVE  /\ o.state.since = Since(Append(h, e), r)
         /\ Unbroken(Append(h, e), r) # {} => Onset(Append(h, e), r) # {}
<1> DEFINE g == Append(h, e)
           K == Len(h) + 1
           v == e.verdict[r.rule.name]
<1>1. /\ h \in Seq(S) /\ r.born \in Nat /\ r.born <= Len(h) /\ Len(h) \in Nat
      /\ g[K] = e
      /\ \A j \in 1 .. Len(h) : g[j] = h[j]
      /\ Unbroken(h, r) \subseteq 1 .. Len(h)
  BY TurnPlaces
<1>2. /\ r.state.since = Since(h, r)
      /\ Unbroken(h, r) # {} => Onset(h, r) # {}
      /\ v \in Verdicts
  BY DEF Evaluates, Follows
<1>3. /\ v \in {"false", "unknown"} => Unbroken(g, r) = {}
      /\ v = "skip" => Unbroken(g, r) = Unbroken(h, r)
  BY <1>1, UnbrokenGrows
<1>4. v = "true" => Onset(g, r) = IF Onset(h, r) = {} THEN {K} ELSE Onset(h, r)
  BY <1>1, <1>2, OnsetGrows
<1>0. Outcome(r.rule, r.state, v, e.step, e.at, e.tick, o)
  BY EvaluatesIs
<1>5. o.state.since =
        IF v \in {"false", "unknown"} THEN {}
        ELSE IF v = "true" /\ r.state.since = {} THEN {e.at} ELSE r.state.since
  BY <1>0 DEF Outcome
<1>6. \A j \in Onset(h, r) : g[j] = h[j]
  BY <1>1 DEF Onset
<1>7. {g[j].at : j \in {K}} = {e.at}
  BY <1>1
<1>8. {g[j].at : j \in Onset(h, r)} = r.state.since /\ (r.state.since = {} <=> Onset(h, r) = {})
  BY <1>2, <1>6 DEF Since
<1> HIDE DEF g, K, v
<1>9. CASE v \in {"false", "unknown"}
  <2>1. Onset(g, r) = {} /\ Unbroken(g, r) = {}
    BY <1>3, <1>9 DEF Onset
  <2> QED BY <2>1, <1>5, <1>9 DEF g, Since
<1>10. CASE v = "skip"
  <2>1. Onset(g, r) = Onset(h, r) /\ Unbroken(g, r) = Unbroken(h, r)
    BY <1>3, <1>10 DEF Onset
  <2>2. o.state.since = r.state.since
    BY <1>5, <1>10
  <2> QED BY <2>1, <2>2, <1>2, <1>8 DEF g, Since
<1>11. CASE v = "true"
  <2>1. CASE Onset(h, r) = {}
    BY <2>1, <1>4, <1>5, <1>7, <1>8, <1>11 DEF g, Since
  <2>2. CASE Onset(h, r) # {}
    BY <2>2, <1>4, <1>5, <1>8, <1>11 DEF g, Since
  <2> QED BY <2>1, <2>2
<1> QED BY <1>2, <1>9, <1>10, <1>11 DEF Verdicts

(* Whether it fires is whether it is due.                                  *)
LEMMA FiredIsDue ==
  ASSUME NEW h, NEW S, NEW r, NEW e, NEW o, Evaluates(h, S, r, e, o)
  PROVE  o.fired <=> Called(Append(h, e), r)
<1> DEFINE g == Append(h, e)
           K == Len(h) + 1
           v == e.verdict[r.rule.name]
           s == r.state
           past == Fires(g, r) \ {K}
<1>1. /\ h \in Seq(S) /\ r.born \in Nat /\ r.born <= Len(h) /\ Len(h) \in Nat
      /\ Len(g) = K /\ g[K] = e /\ Entry(e)
      /\ \A j \in 1 .. Len(h) : g[j] = h[j] /\ Entry(h[j])
      /\ Fires(h, r) \subseteq 1 .. Len(h)
      /\ VerdictsGrow(h, e, r)
  BY TurnPlaces
<1>2. /\ s.fires = Cardinality(Fires(h, r))
      /\ s.lastFire = LastFire(h, r)
      /\ s.firing <=> \E j \in Fires(h, r) : \A f \in Was(h, r, "false") : f < j
      /\ Fires(h, r) # {} => LastOf(Fires(h, r)) # {}
      /\ Fires(h, r) \cap Was(h, r, "false") = {}
      /\ \A i, j \in Fires(h, r) : i < j => h[j].at - h[i].at >= r.rule.cooldown
      /\ r.rule \in Rules
  BY DEF Evaluates, Follows, RuleRow
<1>3. past = Fires(h, r)
  <2>1. Fires(g, r) = Fires(h, r) \cup (IF r.rule.name \in e.fired THEN {K} ELSE {})
    BY <1>1, FiresGrow
  <2> QED BY <2>1, <1>1
<1>4. /\ Was(g, r, "true") = Was(h, r, "true") \cup (IF v = "true" THEN {K} ELSE {})
      /\ Was(h, r, "true") \subseteq r.born + 1 .. Len(h)
      /\ Was(g, r, "false") = Was(h, r, "false") \cup (IF v = "false" THEN {K} ELSE {})
      /\ Was(h, r, "false") \subseteq r.born + 1 .. Len(h)
  BY <1>1 DEF VerdictsGrow
<1>0. Outcome(r.rule, s, v, e.step, e.at, e.tick, o)
  BY EvaluatesIs
<1>5. o.state.consecutive = Cardinality(Advances(g, r))
  BY CountMoves
<1>6. o.state.since = Since(g, r)
  BY OnsetMoves
<1> HIDE DEF g, K, v, s, past
<1>7. K \in Was(g, r, "true") <=> v = "true"
  <2>1. K \notin Was(h, r, "true")
    BY <1>1, <1>4 DEF K
  <2> QED BY <2>1, <1>4
<1>8. (\A since \in o.state.since : e.at - since >= r.rule.forDuration)
        <=> \A j \in Onset(g, r) : e.at - g[j].at >= r.rule.forDuration
  BY <1>6 DEF Since
<1>9. ASSUME v = "true"
      PROVE  ~s.firing <=> \A j \in past : \E f \in Was(g, r, "false") : j < f
  <2>1. Was(g, r, "false") = Was(h, r, "false")
    BY <1>4, <1>9
  <2>2. \A j \in Fires(h, r), f \in Was(h, r, "false") : j \in Int /\ f \in Int
    BY <1>1, <1>4
  <2>3. \A j \in Fires(h, r), f \in Was(h, r, "false") : j # f
    BY <1>2
  <2>4. \A j \in Fires(h, r), f \in Was(h, r, "false") : j < f <=> ~(f < j)
    BY <2>2, <2>3
  <2> QED BY <2>1, <2>4, <1>2, <1>3
<1>10. (\A last \in s.lastFire : e.at - last >= r.rule.cooldown)
         <=> \A j \in past : e.at - g[j].at >= r.rule.cooldown
  <2>1. \A j \in Fires(h, r) : g[j] = h[j] /\ h[j].at \in Int /\ j \in Nat
    BY <1>1 DEF Entry
  <2>2. r.rule.cooldown \in Nat /\ e.at \in Int
    <3>1. Entry(e) /\ r.rule \in Rules
      BY DEF Evaluates, RuleRow
    <3>2. r.rule.cooldown \in Nat
      BY <3>1, RuleBounds
    <3> QED BY <3>1, <3>2 DEF Entry
  <2>3. ASSUME \A j \in past : e.at - g[j].at >= r.rule.cooldown, NEW last \in s.lastFire
        PROVE  e.at - last >= r.rule.cooldown
    BY <2>1, <2>3, <1>2, <1>3 DEF LastFire, LastOf
  <2>4. ASSUME \A last \in s.lastFire : e.at - last >= r.rule.cooldown, NEW j \in past
        PROVE  e.at - g[j].at >= r.rule.cooldown
    <3>1. PICK i \in Fires(h, r) : \A q \in Fires(h, r) : q <= i
      BY <2>4, <1>2, <1>3 DEF LastOf
    <3>2. e.at - h[i].at >= r.rule.cooldown
      BY <2>4, <3>1, <1>2 DEF LastFire, LastOf
    <3>3. j \in Fires(h, r) /\ (j = i \/ j < i)
      BY <3>1, <2>1, <1>3
    <3>4. j < i => h[i].at - h[j].at >= r.rule.cooldown
      BY <3>1, <3>3, <1>2
    <3> QED BY <2>1, <2>2, <3>1, <3>2, <3>3, <3>4
  <2> QED BY <2>3, <2>4
<1>11. s.fires = Cardinality(past) /\ Len(g) = K /\ g[Len(g)] = e
  BY <1>1, <1>2, <1>3
<1>12. o.fired <=>
         /\ v = "true"
         /\ Cardinality(Advances(g, r)) >= r.rule.forSteps \/ (e.tick /\ r.rule.forSteps = 1)
         /\ \A since \in o.state.since : e.at - since >= r.rule.forDuration
         /\ ~(r.rule.mode = "edge" /\ s.firing)
         /\ \A last \in s.lastFire : e.at - last >= r.rule.cooldown
         /\ \A limit \in r.rule.maxFires : s.fires < limit
  BY <1>0, <1>5 DEF Outcome
<1>13. Called(g, r) <=>
         /\ K \in Was(g, r, "true")
         /\ Cardinality(Advances(g, r)) >= r.rule.forSteps \/ (e.tick /\ r.rule.forSteps = 1)
         /\ \A j \in Onset(g, r) : e.at - g[j].at >= r.rule.forDuration
         /\ r.rule.mode = "edge" => \A j \in past : \E f \in Was(g, r, "false") : j < f
         /\ \A j \in past : e.at - g[j].at >= r.rule.cooldown
         /\ \A limit \in r.rule.maxFires : Cardinality(past) < limit
  BY <1>11 DEF Called, MayAlert, past
<1>14. ASSUME v = "true" PROVE o.fired <=> Called(g, r)
  BY <1>14, <1>7, <1>8, <1>9, <1>10, <1>11, <1>12, <1>13
<1>15. ASSUME v # "true" PROVE o.fired <=> Called(g, r)
  BY <1>15, <1>7, <1>12, <1>13
<1>16. o.fired <=> Called(g, r)
  BY <1>14, <1>15
<1> QED BY <1>16 DEF g

LEMMA RecoveredIsDue ==
  ASSUME NEW h, NEW S, NEW r, NEW e, NEW o, Evaluates(h, S, r, e, o)
  PROVE  o.recovered <=> RecoveryDue(Append(h, e), r)
<1> DEFINE g == Append(h, e)
           K == Len(h) + 1
           v == e.verdict[r.rule.name]
           s == r.state
<1>1. /\ h \in Seq(S) /\ r.born \in Nat /\ r.born <= Len(h) /\ Len(h) \in Nat
      /\ Len(g) = K
      /\ Fires(h, r) \subseteq 1 .. Len(h)
      /\ VerdictsGrow(h, e, r)
  BY TurnPlaces
<1>2. s.firing <=> \E j \in Fires(h, r) : \A f \in Was(h, r, "false") : f < j
  BY DEF Evaluates, Follows
<1>3. /\ Was(g, r, "false") = Was(h, r, "false") \cup (IF v = "false" THEN {K} ELSE {})
      /\ Was(h, r, "false") \subseteq r.born + 1 .. Len(h)
  BY <1>1 DEF VerdictsGrow
<1>4. Fires(g, r) = Fires(h, r) \cup (IF r.rule.name \in e.fired THEN {K} ELSE {})
  BY <1>1, FiresGrow
<1>0. Outcome(r.rule, s, v, e.step, e.at, e.tick, o)
  BY EvaluatesIs
<1>5. /\ o.recovered <=> v = "false" /\ s.firing /\ r.rule.recovery
      /\ o.fired => v = "true"
  BY <1>0 DEF Outcome
<1>6. r.rule.name \in e.fired <=> o.fired
  BY DEF Evaluates
<1>7. K \notin Was(h, r, "false") /\ \A f \in Was(h, r, "false") : f # K
  BY <1>1, <1>3
<1> HIDE DEF g, v, s, K
<1>8. ASSUME v = "false"
      PROVE  s.firing <=> \E j \in Fires(g, r) : \A f \in Was(g, r, "false") : f < j \/ f = Len(g)
  <2>1. Fires(g, r) = Fires(h, r) /\ Was(g, r, "false") = Was(h, r, "false") \cup {K}
    BY <1>3, <1>4, <1>5, <1>6, <1>8
  <2> QED BY <2>1, <1>1, <1>2, <1>7
<1>9. Len(g) \in Was(g, r, "false") <=> v = "false"
  BY <1>1, <1>3, <1>7
<1>10. o.recovered <=> RecoveryDue(g, r)
  BY <1>5, <1>8, <1>9 DEF RecoveryDue
<1> QED BY <1>10 DEF g

LEMMA FiresMove ==
  ASSUME NEW h, NEW S, NEW r, NEW e, NEW o, Evaluates(h, S, r, e, o)
  PROVE  /\ o.state.fires = Cardinality(Fires(Append(h, e), r))
         /\ o.state.lastFire = LastFire(Append(h, e), r)
         /\ o.state.firing <=>
              \E j \in Fires(Append(h, e), r) : \A f \in Was(Append(h, e), r, "false") : f < j
         /\ Fires(Append(h, e), r) # {} => LastOf(Fires(Append(h, e), r)) # {}
         /\ Fires(Append(h, e), r) \cap Was(Append(h, e), r, "false") = {}
         /\ \A i, j \in Fires(Append(h, e), r) :
              i < j => Append(h, e)[j].at - Append(h, e)[i].at >= r.rule.cooldown
<1> DEFINE g == Append(h, e)
           K == Len(h) + 1
           v == e.verdict[r.rule.name]
           s == r.state
<1>1. /\ h \in Seq(S) /\ r.born \in Nat /\ r.born <= Len(h) /\ Len(h) \in Nat
      /\ Len(g) = K /\ g[K] = e
      /\ \A j \in 1 .. Len(h) : g[j] = h[j] /\ Entry(h[j])
      /\ Fires(h, r) \subseteq 1 .. Len(h)
      /\ VerdictsGrow(h, e, r)
  BY TurnPlaces
<1>2. /\ s.fires = Cardinality(Fires(h, r))
      /\ s.lastFire = LastFire(h, r)
      /\ s.firing <=> \E j \in Fires(h, r) : \A f \in Was(h, r, "false") : f < j
      /\ Fires(h, r) # {} => LastOf(Fires(h, r)) # {}
      /\ Fires(h, r) \cap Was(h, r, "false") = {}
      /\ \A i, j \in Fires(h, r) : i < j => h[j].at - h[i].at >= r.rule.cooldown
  BY DEF Evaluates, Follows
<1>3. /\ Was(g, r, "false") = Was(h, r, "false") \cup (IF v = "false" THEN {K} ELSE {})
      /\ Was(h, r, "false") \subseteq r.born + 1 .. Len(h)
  BY <1>1 DEF VerdictsGrow
<1>4. Fires(g, r) = Fires(h, r) \cup (IF r.rule.name \in e.fired THEN {K} ELSE {})
  BY <1>1, FiresGrow
<1>0. Outcome(r.rule, s, v, e.step, e.at, e.tick, o)
  BY EvaluatesIs
<1>5. /\ o.state.fires = IF o.fired THEN s.fires + 1 ELSE s.fires
      /\ o.state.lastFire = IF o.fired THEN {e.at} ELSE s.lastFire
      /\ o.state.firing = (v # "false" /\ (o.fired \/ s.firing))
      /\ o.fired => v = "true"
  BY <1>0 DEF Outcome
<1>6. r.rule.name \in e.fired <=> o.fired
  BY DEF Evaluates
<1>7. \A f \in Was(h, r, "false") : f < K /\ f # K
  BY <1>1, <1>3
<1>8. Cardinality(Fires(h, r) \cup {K}) = Cardinality(Fires(h, r)) + 1
  BY <1>1, PlacesCount
<1>9. LastOf(Fires(h, r) \cup {K}) = {K}
  BY <1>1, LatestGrows
<1>10. \A j \in Fires(h, r) : g[j] = h[j] /\ j < K /\ j # K
  BY <1>1
<1>11. o.fired <=> Called(g, r)
  BY FiredIsDue
<1> HIDE DEF g, v, s, K
<1>12. ASSUME o.fired
       PROVE  /\ o.state.fires = Cardinality(Fires(g, r))
              /\ o.state.lastFire = LastFire(g, r)
              /\ o.state.firing <=> \E j \in Fires(g, r) : \A f \in Was(g, r, "false") : f < j
              /\ Fires(g, r) # {} => LastOf(Fires(g, r)) # {}
              /\ Fires(g, r) \cap Was(g, r, "false") = {}
              /\ \A i, j \in Fires(g, r) : i < j => g[j].at - g[i].at >= r.rule.cooldown
  <2>1. Fires(g, r) = Fires(h, r) \cup {K} /\ Was(g, r, "false") = Was(h, r, "false")
    BY <1>3, <1>4, <1>5, <1>6, <1>12
  <2>2. o.state.fires = Cardinality(Fires(g, r))
    BY <2>1, <1>2, <1>5, <1>8, <1>12
  <2>3. o.state.lastFire = LastFire(g, r)
    BY <2>1, <1>1, <1>5, <1>9, <1>12 DEF LastFire
  <2>4. o.state.firing /\ K \in Fires(g, r) /\ \A f \in Was(g, r, "false") : f < K
    BY <2>1, <1>5, <1>7, <1>12
  <2>5. Fires(g, r) \cap Was(g, r, "false") = {}
    BY <2>1, <1>2, <1>7
  <2>6. ASSUME NEW i \in Fires(g, r), NEW j \in Fires(g, r), i < j
        PROVE  g[j].at - g[i].at >= r.rule.cooldown
    <3>1. i \in Fires(h, r)
      <4>1. i = K => FALSE
        BY <2>1, <2>6, <1>1, <1>10
      <4> QED BY <4>1, <2>1
    <3>2. CASE j = K
      <4>1. \A q \in Fires(g, r) \ {K} : g[K].at - g[q].at >= r.rule.cooldown
        BY <1>1, <1>11, <1>12 DEF Called, MayAlert
      <4> QED BY <4>1, <3>1, <3>2, <1>10, <2>1
    <3>3. CASE j \in Fires(h, r)
      BY <3>1, <3>3, <2>6, <1>2, <1>10
    <3> QED BY <3>2, <3>3, <2>1
  <2> QED BY <2>1, <2>2, <2>3, <2>4, <2>5, <2>6, <1>9
<1>13. ASSUME ~o.fired
       PROVE  /\ o.state.fires = Cardinality(Fires(g, r))
              /\ o.state.lastFire = LastFire(g, r)
              /\ o.state.firing <=> \E j \in Fires(g, r) : \A f \in Was(g, r, "false") : f < j
              /\ Fires(g, r) # {} => LastOf(Fires(g, r)) # {}
              /\ Fires(g, r) \cap Was(g, r, "false") = {}
              /\ \A i, j \in Fires(g, r) : i < j => g[j].at - g[i].at >= r.rule.cooldown
  <2>1. Fires(g, r) = Fires(h, r)
    BY <1>4, <1>6, <1>13
  <2>2. o.state.fires = Cardinality(Fires(g, r))
    BY <2>1, <1>2, <1>5, <1>13
  <2>3. LastFire(g, r) = LastFire(h, r)
    BY <2>1, <1>10 DEF LastFire, LastOf
  <2>4. o.state.firing <=> \E j \in Fires(g, r) : \A f \in Was(g, r, "false") : f < j
    <3>1. CASE v = "false"
      <4>1. K \in Was(g, r, "false") /\ \A j \in Fires(h, r) : ~(K < j)
        BY <3>1, <1>1, <1>3, <1>10 DEF K
      <4> QED BY <4>1, <3>1, <2>1, <1>5
    <3>2. CASE v # "false"
      <4>1. Was(g, r, "false") = Was(h, r, "false")
        BY <3>2, <1>3
      <4> QED BY <4>1, <3>2, <2>1, <1>2, <1>5, <1>13
    <3> QED BY <3>1, <3>2
  <2>5. Fires(g, r) \cap Was(g, r, "false") = {}
    BY <2>1, <1>2, <1>3, <1>10
  <2>6. \A i, j \in Fires(g, r) : i < j => g[j].at - g[i].at >= r.rule.cooldown
    BY <2>1, <1>2, <1>10
  <2> QED BY <2>1, <2>2, <2>3, <2>4, <2>5, <2>6, <1>2, <1>5, <1>13
<1> QED BY <1>12, <1>13 DEF g

LEMMA TurnFollows ==
  ASSUME NEW h, NEW S, NEW r, NEW e, NEW o, Evaluates(h, S, r, e, o)
  PROVE  Follows(Append(h, e), r, o.state)
BY CountMoves, OnsetMoves, FiresMove DEF Follows

(* The log is asked for a rule and its beginning, not for its state.       *)
LEMMA SameRule ==
  ASSUME NEW h, NEW r, NEW q, q.rule = r.rule, q.born = r.born
  PROVE  /\ \A s : Follows(h, q, s) <=> Follows(h, r, s)
         /\ Called(h, q) <=> Called(h, r)
         /\ RecoveryDue(h, q) <=> RecoveryDue(h, r)
<1>1. \A v : Was(h, q, v) = Was(h, r, v)
  BY DEF Was
<1>2. Fires(h, q) = Fires(h, r)
  BY DEF Fires
<1>3. Heard(h, q) = Heard(h, r)
  BY <1>1 DEF Heard
<1>4. \A j : Again(h, q, j) <=> Again(h, r, j)
  BY <1>3 DEF Again
<1>5. Advances(h, q) = Advances(h, r)
  BY <1>1, <1>3, <1>4 DEF Advances
<1>6. Unbroken(h, q) = Unbroken(h, r)
  BY <1>1 DEF Unbroken
<1>7. Onset(h, q) = Onset(h, r)
  BY <1>6 DEF Onset
<1>8. LastStep(h, q) = LastStep(h, r) /\ Since(h, q) = Since(h, r) /\ LastFire(h, q) = LastFire(h, r)
  BY <1>2, <1>3, <1>7 DEF LastStep, Since, LastFire
<1>9. \A s : Follows(h, q, s) <=> Follows(h, r, s)
  BY <1>1, <1>2, <1>5, <1>6, <1>7, <1>8 DEF Follows
<1>10. Called(h, q) <=> Called(h, r)
  BY <1>1, <1>2, <1>5, <1>7 DEF Called, MayAlert
<1>11. RecoveryDue(h, q) <=> RecoveryDue(h, r)
  BY <1>1, <1>2 DEF RecoveryDue
<1> QED BY <1>9, <1>10, <1>11

-------------------------------------------------------------------------------
(* The engine.                                                             *)
RuleNames == {rule.name : rule \in Rules}

LogRow ==
  [tick : BOOLEAN, step : Nat, at : Int, metrics : MetricSets \cup {<<>>},
   verdict : UNION {[N -> Verdicts] : N \in SUBSET RuleNames}, fired : SUBSET RuleNames,
   recovered : SUBSET RuleNames]

NamesDiffer(rules) ==
  \A m, n \in DOMAIN rules : rules[m].rule.name = rules[n].rule.name => m = n

RowFits(h, r) ==
  /\ r.born <= Len(h) /\ Follows(h, r, r.state)
  /\ Len(h) > r.born =>
       /\ r.rule.name \in h[Len(h)].fired <=> Called(h, r)
       /\ r.rule.name \in h[Len(h)].recovered <=> RecoveryDue(h, r)

(* The engine has its fields.                                             *)
HasShape(e) == e = [rules |-> e.rules, series |-> e.series, last |-> e.last, started |-> e.started]

AlertsInv ==
  /\ HasShape(engine)
  /\ engine.rules \in Seq(RuleRow) /\ log \in Seq(LogRow)
  /\ NamesDiffer(engine.rules)
  /\ \A n \in DOMAIN engine.rules : RowFits(log, engine.rules[n])

LEMMA AlertsBegin == AlertsInit => AlertsInv
<1> SUFFICES ASSUME AlertsInit PROVE AlertsInv
  OBVIOUS
<1>1. engine = [rules |-> <<>>, series |-> <<>>, last |-> {}, started |-> 0] /\ log = <<>>
  BY DEF AlertsInit
<1>2. engine.rules = <<>> /\ DOMAIN engine.rules = {}
  BY <1>1
<1>3. HasShape(engine) /\ engine.rules \in Seq(RuleRow) /\ log \in Seq(LogRow)
  BY <1>1 DEF HasShape
<1> QED BY <1>2, <1>3 DEF AlertsInv, NamesDiffer

(* A rule that has just been added has no past.                            *)
LEMMA FreshFits ==
  ASSUME NEW h, NEW S, h \in Seq(S), NEW r, r.born = Len(h), r.state = Fresh
  PROVE  RowFits(h, r) /\ Fresh \in RuleState
<1>1. Len(h) \in Nat /\ r.born + 1 .. Len(h) = {}
  BY LogGrows
<1>2. (\A v : Was(h, r, v) = {}) /\ Fires(h, r) = {}
  BY <1>1 DEF Was, Fires
<1>3. Heard(h, r) = {} /\ Unbroken(h, r) = {}
  BY <1>2 DEF Heard, Unbroken
<1>4. Advances(h, r) = {} /\ Onset(h, r) = {}
  BY <1>3 DEF Advances, Onset
<1>5. LastStep(h, r) = {} /\ Since(h, r) = {} /\ LastFire(h, r) = {}
  BY <1>2, <1>3, <1>4 DEF LastStep, Since, LastFire, LastOf
<1>6. Cardinality({}) = 0
  BY FS_EmptySet
<1>7. Follows(h, r, Fresh)
  BY <1>2, <1>3, <1>4, <1>5, <1>6 DEF Follows, Fresh
<1>8. ~(Len(h) > r.born) /\ r.born <= Len(h)
  BY <1>1
<1>9. Fresh \in RuleState
  BY DEF Fresh, RuleState
<1> QED BY <1>7, <1>8, <1>9 DEF RowFits

LEMMA AddRuleKeeps ==
  ASSUME AlertsInv, NEW rule \in Rules, AddRule(rule)
  PROVE  AlertsInv'
<1> DEFINE row == [rule |-> rule, state |-> Fresh, born |-> Len(log)]
           rules == engine.rules
<1>1. /\ engine' = [engine EXCEPT !.rules = Append(@, row)] /\ log' = log
      /\ \A k \in DOMAIN rules : rules[k].rule.name # rule.name
  BY DEF AddRule
<1>2. /\ HasShape(engine)
      /\ rules \in Seq(RuleRow) /\ log \in Seq(LogRow) /\ NamesDiffer(rules)
      /\ \A n \in DOMAIN rules : RowFits(log, rules[n])
  BY DEF AlertsInv
<1>3. RowFits(log, row) /\ Fresh \in RuleState
  BY <1>2, FreshFits
<1>4. row \in RuleRow /\ row.rule = rule
  BY <1>2, <1>3 DEF RuleRow
<1>5. HasShape(engine') /\ engine'.rules = Append(rules, row)
  BY <1>1, <1>2 DEF HasShape
<1> HIDE DEF row, rules
<1>6. /\ Append(rules, row) \in Seq(RuleRow)
      /\ DOMAIN rules = 1 .. Len(rules) /\ Len(rules) \in Nat
      /\ DOMAIN Append(rules, row) = DOMAIN rules \cup {Len(rules) + 1}
      /\ Len(rules) + 1 \notin DOMAIN rules
      /\ \A n \in DOMAIN rules : Append(rules, row)[n] = rules[n]
      /\ Append(rules, row)[Len(rules) + 1] = row
  BY <1>2, <1>4
<1>7. NamesDiffer(Append(rules, row))
  BY <1>1, <1>2, <1>4, <1>6 DEF NamesDiffer
<1>8. \A n \in DOMAIN Append(rules, row) : RowFits(log, Append(rules, row)[n])
  BY <1>2, <1>3, <1>6
<1> QED BY <1>1, <1>2, <1>5, <1>6, <1>7, <1>8 DEF AlertsInv

(* A sequence without its k-th element.                                    *)
LEMMA RestIs ==
  ASSUME NEW S, NEW s \in Seq(S), NEW k \in DOMAIN s
  PROVE  LET rest == SubSeq(s, 1, k - 1) \o SubSeq(s, k + 1, Len(s)) IN
         /\ rest \in Seq(S) /\ DOMAIN rest = 1 .. Len(s) - 1
         /\ \A n \in DOMAIN rest : n < k => n \in DOMAIN s /\ rest[n] = s[n]
         /\ \A n \in DOMAIN rest : ~(n < k) => n + 1 \in DOMAIN s /\ rest[n] = s[n + 1]
<1> DEFINE a == SubSeq(s, 1, k - 1)
           b == SubSeq(s, k + 1, Len(s))
<1>1. Len(s) \in Nat /\ DOMAIN s = 1 .. Len(s) /\ k \in 1 .. Len(s) /\ \A i \in 1 .. Len(s) : s[i] \in S
  OBVIOUS
<1>2. a \in Seq(S) /\ Len(a) = k - 1 /\ \A i \in 1 .. k - 1 : a[i] = s[i]
  <2>1. 1 \in Int /\ k - 1 \in Int /\ \A i \in 1 .. k - 1 : s[i] \in S
    BY <1>1
  <2>2. /\ a \in Seq(S) /\ Len(a) = IF 1 <= k - 1 THEN k - 1 - 1 + 1 ELSE 0
        /\ \A i \in 1 .. k - 1 - 1 + 1 : a[i] = s[1 + i - 1]
    BY <2>1, SubSeqProperties
  <2> HIDE DEF a
  <2>3. \A i \in 1 .. k - 1 : i \in 1 .. k - 1 - 1 + 1 /\ 1 + i - 1 = i
    BY <1>1
  <2> QED BY <1>1, <2>2, <2>3
<1>3. b \in Seq(S) /\ Len(b) = Len(s) - k /\ \A i \in 1 .. Len(s) - k : b[i] = s[k + i]
  <2>1. k + 1 \in Int /\ Len(s) \in Int /\ \A i \in k + 1 .. Len(s) : s[i] \in S
    BY <1>1
  <2>2. /\ b \in Seq(S) /\ Len(b) = IF k + 1 <= Len(s) THEN Len(s) - (k + 1) + 1 ELSE 0
        /\ \A i \in 1 .. Len(s) - (k + 1) + 1 : b[i] = s[k + 1 + i - 1]
    BY <2>1, SubSeqProperties
  <2> HIDE DEF b
  <2>3. \A i \in 1 .. Len(s) - k : i \in 1 .. Len(s) - (k + 1) + 1 /\ k + 1 + i - 1 = k + i
    BY <1>1
  <2> QED BY <1>1, <2>2, <2>3
<1> HIDE DEF a, b
<1>4. /\ a \o b \in Seq(S) /\ Len(a \o b) = Len(a) + Len(b)
      /\ \A i \in 1 .. Len(a) + Len(b) : (a \o b)[i] = IF i <= Len(a) THEN a[i] ELSE b[i - Len(a)]
  BY <1>2, <1>3, ConcatProperties
<1>5. Len(a) + Len(b) = Len(s) - 1 /\ DOMAIN (a \o b) = 1 .. Len(s) - 1
  <2>1. Len(a) + Len(b) = Len(s) - 1
    BY <1>1, <1>2, <1>3
  <2>2. Len(a \o b) = Len(s) - 1 /\ a \o b \in Seq(S)
    BY <2>1, <1>4
  <2> HIDE DEF a, b
  <2> DEFINE c == a \o b
  <2>3. DOMAIN c = 1 .. Len(c)
    <3>1. c \in Seq(S)
      BY <2>2
    <3> HIDE DEF c
    <3> QED BY <3>1
  <2> QED BY <2>1, <2>2, <2>3
<1>6. ASSUME NEW n \in 1 .. Len(s) - 1, n < k
      PROVE  n \in DOMAIN s /\ (a \o b)[n] = s[n]
  <2>1. n \in 1 .. k - 1 /\ n <= Len(a) /\ n \in DOMAIN s
    BY <1>1, <1>2, <1>6
  <2> QED BY <2>1, <1>2, <1>4, <1>5
<1>7. ASSUME NEW n \in 1 .. Len(s) - 1, ~(n < k)
      PROVE  n + 1 \in DOMAIN s /\ (a \o b)[n] = s[n + 1]
  <2>1. n - Len(a) \in 1 .. Len(s) - k /\ k + (n - Len(a)) = n + 1 /\ ~(n <= Len(a)) /\ n + 1 \in DOMAIN s
    BY <1>1, <1>2, <1>7
  <2>2. (a \o b)[n] = b[n - Len(a)]
    BY <2>1, <1>4, <1>5
  <2>3. b[n - Len(a)] = s[k + (n - Len(a))]
    BY <2>1, <1>3
  <2> QED BY <2>1, <2>2, <2>3
<1> QED BY <1>4, <1>5, <1>6, <1>7 DEF a, b

LEMMA RemoveRuleKeeps ==
  ASSUME AlertsInv, NEW name, RemoveRule(name)
  PROVE  AlertsInv'
<1> DEFINE rules == engine.rules
<1>1. PICK k \in DOMAIN rules :
        engine' = [engine EXCEPT !.rules = SubSeq(@, 1, k - 1) \o SubSeq(@, k + 1, Len(@))] /\ log' = log
  BY DEF RemoveRule
<1>2. /\ HasShape(engine)
      /\ rules \in Seq(RuleRow) /\ log \in Seq(LogRow) /\ NamesDiffer(rules)
      /\ \A n \in DOMAIN rules : RowFits(log, rules[n])
  BY DEF AlertsInv
<1> DEFINE rest == SubSeq(rules, 1, k - 1) \o SubSeq(rules, k + 1, Len(rules))
<1>3. HasShape(engine') /\ engine'.rules = rest
  BY <1>1, <1>2 DEF HasShape
<1> HIDE DEF rules
<1>4. Len(rules) \in Nat /\ DOMAIN rules = 1 .. Len(rules) /\ k \in 1 .. Len(rules)
  BY <1>1, <1>2
<1>5. /\ rest \in Seq(RuleRow) /\ DOMAIN rest = 1 .. Len(rules) - 1
      /\ \A n \in DOMAIN rest : n < k => n \in DOMAIN rules /\ rest[n] = rules[n]
      /\ \A n \in DOMAIN rest : ~(n < k) => n + 1 \in DOMAIN rules /\ rest[n] = rules[n + 1]
  BY <1>1, <1>2, RestIs
<1> HIDE DEF rest
<1>6. NamesDiffer(rest)
  <2> SUFFICES ASSUME NEW m \in DOMAIN rest, NEW n \in DOMAIN rest, rest[m].rule.name = rest[n].rule.name
               PROVE  m = n
    BY DEF NamesDiffer
  <2>1. m \in Int /\ n \in Int /\ k \in Int
    BY <1>4, <1>5
  <2>2. CASE m < k /\ n < k
    BY <2>2, <1>2, <1>5 DEF NamesDiffer
  <2>3. CASE m < k /\ ~(n < k)
    <3>1. m = n + 1
      BY <2>3, <1>2, <1>5 DEF NamesDiffer
    <3> QED BY <3>1, <2>1, <2>3
  <2>4. CASE ~(m < k) /\ n < k
    <3>1. m + 1 = n
      BY <2>4, <1>2, <1>5 DEF NamesDiffer
    <3> QED BY <3>1, <2>1, <2>4
  <2>5. CASE ~(m < k) /\ ~(n < k)
    <3>1. m + 1 = n + 1
      BY <2>5, <1>2, <1>5 DEF NamesDiffer
    <3> QED BY <3>1, <2>1
  <2> QED BY <2>2, <2>3, <2>4, <2>5
<1>7. ASSUME NEW n \in DOMAIN rest PROVE RowFits(log, rest[n])
  <2>1. CASE n < k
    BY <2>1, <1>2, <1>5
  <2>2. CASE ~(n < k)
    BY <2>2, <1>2, <1>5
  <2> QED BY <2>1, <2>2
<1> QED BY <1>1, <1>2, <1>3, <1>5, <1>6, <1>7 DEF AlertsInv

(* Names tell the rules apart.                                             *)
LEMMA NamedPlaces ==
  ASSUME NEW rules, NamesDiffer(rules), NEW n \in DOMAIN rules
  PROVE  /\ (CHOOSE k \in DOMAIN rules : rules[k].rule.name = rules[n].rule.name) = n
         /\ \A ids \in SUBSET DOMAIN rules :
              rules[n].rule.name \in {rules[k].rule.name : k \in ids} <=> n \in ids
<1>1. \A k \in DOMAIN rules : rules[k].rule.name = rules[n].rule.name <=> k = n
  BY DEF NamesDiffer
<1>2. (CHOOSE k \in DOMAIN rules : rules[k].rule.name = rules[n].rule.name) = n
  BY <1>1
<1>3. ASSUME NEW ids \in SUBSET DOMAIN rules
      PROVE  rules[n].rule.name \in {rules[k].rule.name : k \in ids} <=> n \in ids
  BY <1>1
<1> QED BY <1>2, <1>3

LEMMA VerdictIs ==
  ASSUME NEW rule, NEW step, NEW now, NEW metrics, NEW samples, NEW last, NEW tick
  PROVE  Verdict(rule, step, now, metrics, samples, last, tick) \in Verdicts
BY DEF Verdict, Verdicts

(* What Process did: the entry e it logged, and an outcome for each rule.  *)
Processed(rules, e, outcome) ==
  /\ \A n \in DOMAIN rules :
       LET r == rules[n]
           name == r.rule.name IN
       /\ e.verdict[name] \in Verdicts
       /\ outcome[n] = Judged(r.rule, r.state, e.verdict[name], e.step, e.at, e.tick)
       /\ name \in e.fired <=> outcome[n].fired
       /\ name \in e.recovered <=> outcome[n].recovered
  /\ engine'.rules = [n \in DOMAIN rules |-> [rules[n] EXCEPT !.state = outcome[n].state]]
  /\ log' = Append(log, e)

LEMMA ProcessIs ==
  ASSUME AlertsInv, NEW step \in Nat, NEW now \in Int, NEW tick \in BOOLEAN,
         NEW metrics \in MetricSets \cup {<<>>}, Process(step, now, metrics, tick)
  PROVE  /\ \E e \in LogRow : \E outcome : Processed(engine.rules, e, outcome)
         /\ HasShape(engine')
<1> DEFINE rules == engine.rules
           NamesOf(ids) == {rules[k].rule.name : k \in ids}
           PlaceOf(name) == CHOOSE k \in DOMAIN rules : rules[k].rule.name = name
           last == IF tick THEN engine.last ELSE {now}
<1>1. HasShape(engine) /\ rules \in Seq(RuleRow) /\ NamesDiffer(rules)
  BY DEF AlertsInv
<1> DEFINE SamplesSet == {[m \in {n \in DOMAIN metrics : metrics[n] # NotNumeric} |->
                            [at |-> now, step |-> step, value |-> metrics[m]]]}
           VerdictsOf(samples) ==
             [k \in DOMAIN rules |-> Verdict(rules[k].rule, step, now, metrics, samples, last, tick)]
           OutcomeOf(verdict) ==
             [k \in DOMAIN rules |-> Judged(rules[k].rule, rules[k].state, verdict[k], step, now, tick)]
           EngineOf(samples, outcome) ==
             [engine EXCEPT !.series = Retained(samples), !.last = last,
                !.rules = [k \in DOMAIN rules |-> [rules[k] EXCEPT !.state = outcome[k].state]]]
           EntryOf(verdict, outcome) ==
             [tick |-> tick, step |-> step, at |-> now, metrics |-> metrics,
              verdict |-> [name \in NamesOf(DOMAIN rules) |-> verdict[PlaceOf(name)]],
              fired |-> NamesOf({k \in DOMAIN rules : outcome[k].fired}),
              recovered |-> NamesOf({k \in DOMAIN rules : outcome[k].recovered})]
<1>0. \E samples \in SamplesSet : \E verdict \in {VerdictsOf(samples)} : \E outcome \in {OutcomeOf(verdict)} :
        /\ Len(log) < MaxInputs
        /\ Cardinality(DOMAIN Retained(samples)) <= MaxSeries
        /\ engine' = EngineOf(samples, outcome)
        /\ log' = Append(log, EntryOf(verdict, outcome))
  BY Zenon DEF Process
<1>2. PICK samples, verdict, outcome :
        /\ verdict = VerdictsOf(samples) /\ outcome = OutcomeOf(verdict)
        /\ engine' = EngineOf(samples, outcome)
        /\ log' = Append(log, EntryOf(verdict, outcome))
  <2> HIDE DEF SamplesSet, VerdictsOf, OutcomeOf, EngineOf, EntryOf
  <2> QED BY <1>0
<1> DEFINE said == [name \in NamesOf(DOMAIN rules) |-> verdict[PlaceOf(name)]]
           fired == NamesOf({k \in DOMAIN rules : outcome[k].fired})
           recovered == NamesOf({k \in DOMAIN rules : outcome[k].recovered})
           moved == [k \in DOMAIN rules |-> [rules[k] EXCEPT !.state = outcome[k].state]]
           e == [tick |-> tick, step |-> step, at |-> now, metrics |-> metrics, verdict |-> said,
                 fired |-> fired, recovered |-> recovered]
<1>3. \A n \in DOMAIN rules : verdict[n] \in Verdicts
  BY <1>2, VerdictIs
<1>4. ASSUME NEW n \in DOMAIN rules
      PROVE  /\ PlaceOf(rules[n].rule.name) = n
             /\ \A ids \in SUBSET DOMAIN rules : rules[n].rule.name \in NamesOf(ids) <=> n \in ids
             /\ rules[n].rule.name \in RuleNames
  <2> HIDE DEF rules
  <2>0. rules[n] \in RuleRow
    BY <1>1
  <2>1. rules[n].rule \in Rules
    BY <2>0 DEF RuleRow
  <2> QED BY <1>1, <2>1, NamedPlaces DEF RuleNames
<1>5. engine'.rules = moved /\ HasShape(engine')
  <2> HIDE DEF moved, last
  <2> QED BY <1>1, <1>2 DEF moved, HasShape
<1>6. /\ NamesOf(DOMAIN rules) \in SUBSET RuleNames
      /\ \A name \in NamesOf(DOMAIN rules) : said[name] \in Verdicts
      /\ fired \in SUBSET RuleNames /\ recovered \in SUBSET RuleNames
  <2> HIDE DEF rules, PlaceOf
  <2>1. NamesOf(DOMAIN rules) \in SUBSET RuleNames
    BY <1>4
  <2>2. ASSUME NEW name \in NamesOf(DOMAIN rules) PROVE said[name] \in Verdicts
    <3>1. PICK n \in DOMAIN rules : name = rules[n].rule.name
      OBVIOUS
    <3>2. PlaceOf(name) = n
      BY <3>1, <1>4
    <3> QED BY <3>2, <1>3
  <2> QED BY <2>1, <2>2
<1>7. said \in UNION {[N -> Verdicts] : N \in SUBSET RuleNames}
  <2>1. said \in [NamesOf(DOMAIN rules) -> Verdicts]
    <3> HIDE DEF NamesOf, PlaceOf, rules
    <3> QED BY <1>6
  <2> HIDE DEF said, NamesOf
  <2> QED BY <2>1, <1>6
<1>8. e \in LogRow
  <2> HIDE DEF said, fired, recovered
  <2> QED BY <1>6, <1>7 DEF LogRow
<1>9. ASSUME NEW n \in DOMAIN rules
      PROVE  /\ said[rules[n].rule.name] = verdict[n]
             /\ rules[n].rule.name \in fired <=> outcome[n].fired
             /\ rules[n].rule.name \in recovered <=> outcome[n].recovered
  <2>1. rules[n].rule.name \in NamesOf(DOMAIN rules)
    OBVIOUS
  <2>2. said[rules[n].rule.name] = verdict[n]
    <3> HIDE DEF NamesOf, PlaceOf, rules
    <3> QED BY <2>1, <1>4
  <2>3. /\ {k \in DOMAIN rules : outcome[k].fired} \in SUBSET DOMAIN rules
        /\ {k \in DOMAIN rules : outcome[k].recovered} \in SUBSET DOMAIN rules
    OBVIOUS
  <2>4. /\ rules[n].rule.name \in fired <=> n \in {k \in DOMAIN rules : outcome[k].fired}
        /\ rules[n].rule.name \in recovered <=> n \in {k \in DOMAIN rules : outcome[k].recovered}
    <3> HIDE DEF NamesOf, rules
    <3> QED BY <2>3, <1>4
  <2> HIDE DEF fired, recovered, rules, said
  <2> QED BY <2>2, <2>4
<1>10. /\ e.tick = tick /\ e.step = step /\ e.at = now /\ e.verdict = said /\ e.fired = fired
       /\ e.recovered = recovered
  <2> HIDE DEF said, fired, recovered
  <2> QED OBVIOUS
<1>11. log' = Append(log, e)
  BY <1>2
<1> HIDE DEF rules, NamesOf, PlaceOf, said, fired, recovered, e, moved
<1>12. ASSUME NEW n \in DOMAIN rules
       PROVE  /\ e.verdict[rules[n].rule.name] \in Verdicts
              /\ outcome[n] = Judged(rules[n].rule, rules[n].state, e.verdict[rules[n].rule.name], e.step, e.at, e.tick)
              /\ rules[n].rule.name \in e.fired <=> outcome[n].fired
              /\ rules[n].rule.name \in e.recovered <=> outcome[n].recovered
  <2>1. outcome[n] = Judged(rules[n].rule, rules[n].state, verdict[n], step, now, tick)
    BY <1>2
  <2> QED BY <2>1, <1>3, <1>9, <1>10
<1>13. Processed(rules, e, outcome)
  BY <1>5, <1>11, <1>12 DEF Processed, moved
<1> QED BY <1>5, <1>8, <1>13 DEF rules

LEMMA ProcessKeeps ==
  ASSUME AlertsInv, NEW step \in Nat, NEW now \in Int, NEW tick \in BOOLEAN,
         NEW metrics \in MetricSets \cup {<<>>}, Process(step, now, metrics, tick)
  PROVE  AlertsInv'
<1> DEFINE rules == engine.rules
<1>1. /\ rules \in Seq(RuleRow) /\ log \in Seq(LogRow) /\ NamesDiffer(rules)
      /\ \A n \in DOMAIN rules : RowFits(log, rules[n])
  BY DEF AlertsInv
<1>0. PICK e \in LogRow : \E outcome : Processed(rules, e, outcome)
  BY ProcessIs
<1>2. PICK outcome : Processed(rules, e, outcome)
  BY <1>0
<1>3. HasShape(engine')
  BY ProcessIs
<1> DEFINE RowOf(n) == [rules[n] EXCEPT !.state = outcome[n].state]
<1>4. engine'.rules = [n \in DOMAIN rules |-> RowOf(n)] /\ log' = Append(log, e)
  BY <1>2 DEF Processed
<1> HIDE DEF rules
<1>5. Len(log) \in Nat /\ Len(Append(log, e)) = Len(log) + 1 /\ Append(log, e)[Len(log) + 1] = e
  BY <1>1, LogGrows
<1>6. ASSUME NEW n \in DOMAIN rules PROVE rules[n] \in RuleRow /\ RowFits(log, rules[n])
  BY <1>1
<1>7. Entry(e) /\ \A j \in 1 .. Len(log) : Entry(log[j])
  <2>1. ASSUME NEW q \in LogRow PROVE Entry(q)
    BY DEF LogRow, Entry
  <2> QED BY <2>1, <1>1
<1>8. ASSUME NEW n \in DOMAIN rules PROVE Evaluates(log, LogRow, rules[n], e, outcome[n])
  <2>1. /\ e.verdict[rules[n].rule.name] \in Verdicts
        /\ outcome[n] = Judged(rules[n].rule, rules[n].state, e.verdict[rules[n].rule.name], e.step, e.at, e.tick)
        /\ rules[n].rule.name \in e.fired <=> outcome[n].fired
        /\ rules[n].rule.name \in e.recovered <=> outcome[n].recovered
    BY <1>2 DEF Processed
  <2>2. rules[n].born <= Len(log) /\ Follows(log, rules[n], rules[n].state)
    BY <1>6 DEF RowFits
  <2> QED BY <2>1, <2>2, <1>1, <1>6, <1>7 DEF Evaluates
<1>9. ASSUME NEW n \in DOMAIN rules
      PROVE  /\ RowOf(n) \in RuleRow /\ RowOf(n).rule = rules[n].rule /\ RowOf(n).born = rules[n].born
             /\ RowOf(n).state = outcome[n].state
  <2>1. Evaluates(log, LogRow, rules[n], e, outcome[n])
    BY <1>8
  <2>2. Outcome(rules[n].rule, rules[n].state, e.verdict[rules[n].rule.name], e.step, e.at, e.tick, outcome[n])
    BY <2>1, EvaluatesIs
  <2>3. outcome[n].state \in RuleState
    BY <2>2 DEF Outcome
  <2> QED BY <2>3, <1>6 DEF RuleRow
<1>10. ASSUME NEW n \in DOMAIN rules PROVE RowFits(Append(log, e), RowOf(n))
  <2> DEFINE r == rules[n]
             g == Append(log, e)
  <2>1. Evaluates(log, LogRow, r, e, outcome[n])
    BY <1>8
  <2>2. Follows(g, r, outcome[n].state)
    BY <2>1, TurnFollows
  <2>3. outcome[n].fired <=> Called(g, r)
    BY <2>1, FiredIsDue
  <2>4. outcome[n].recovered <=> RecoveryDue(g, r)
    BY <2>1, RecoveredIsDue
  <2>5. /\ r.rule.name \in e.fired <=> outcome[n].fired
        /\ r.rule.name \in e.recovered <=> outcome[n].recovered
        /\ r.born <= Len(log) /\ r.born \in Nat
    BY <2>1 DEF Evaluates, RuleRow
  <2> DEFINE q == RowOf(n)
  <2>6. q.rule = r.rule /\ q.born = r.born /\ q.state = outcome[n].state
    BY <1>9
  <2> HIDE DEF r, g, q
  <2>7. /\ Follows(g, q, outcome[n].state) <=> Follows(g, r, outcome[n].state)
        /\ Called(g, q) <=> Called(g, r)
        /\ RecoveryDue(g, q) <=> RecoveryDue(g, r)
    BY <2>6, SameRule
  <2>8. Len(g) = Len(log) + 1 /\ g[Len(g)] = e
    BY <1>5 DEF g
  <2>9. q.born <= Len(g)
    BY <2>5, <2>6, <2>8, <1>5
  <2>10. RowFits(g, q)
    BY <2>2, <2>3, <2>4, <2>5, <2>6, <2>7, <2>8, <2>9 DEF RowFits
  <2> QED BY <2>10 DEF g, q
<1> DEFINE moved == [n \in DOMAIN rules |-> RowOf(n)]
<1>11. moved \in Seq(RuleRow)
  <2>1. DOMAIN rules = 1 .. Len(rules) /\ Len(rules) \in Nat
    BY <1>1
  <2> HIDE DEF RowOf
  <2> QED BY <2>1, <1>9
<1>12. NamesDiffer(moved)
  <2> HIDE DEF RowOf
  <2> QED BY <1>1, <1>9 DEF NamesDiffer
<1>13. \A n \in DOMAIN moved : RowFits(Append(log, e), moved[n])
  <2> HIDE DEF RowOf
  <2> QED BY <1>10
<1>14. Append(log, e) \in Seq(LogRow)
  BY <1>1
<1> HIDE DEF moved
<1> QED BY <1>3, <1>4, <1>11, <1>12, <1>13, <1>14 DEF AlertsInv, moved

LEMMA AlertsKeep == AlertsInv /\ [AlertsNext]_alertVars => AlertsInv'
<1> SUFFICES ASSUME AlertsInv, [AlertsNext]_alertVars PROVE AlertsInv'
  OBVIOUS
<1>1. ASSUME NEW rule \in Rules, AddRule(rule) PROVE AlertsInv'
  BY <1>1, AddRuleKeeps
<1>2. ASSUME NEW rule \in Rules, RemoveRule(rule.name) PROVE AlertsInv'
  BY <1>2, RemoveRuleKeeps
<1>3. ASSUME NEW step \in Nat, NEW now \in Int, Tick(step, now) PROVE AlertsInv'
  BY <1>3, ProcessKeeps DEF Tick
<1>4. ASSUME NEW step \in Nat, NEW now \in Int, NEW metrics \in MetricSets, Step(step, now, metrics)
      PROVE  AlertsInv'
  BY <1>4, ProcessKeeps DEF Step
<1>5. CASE UNCHANGED alertVars
  <2>1. engine' = engine /\ log' = log
    BY <1>5 DEF alertVars
  <2> QED BY <2>1 DEF AlertsInv
<1> QED BY <1>1, <1>2, <1>3, <1>4, <1>5 DEF AlertsNext

(* Where no step comes back, the steps heard for the first time are those  *)
(* that differ from the one heard before.                                  *)
LEMMA LastBefore ==
  ASSUME NEW b \in Nat, NEW S, S \subseteq 1 .. b, S # {}
  PROVE  \E m \in S : \A n \in S : n <= m
<1> DEFINE T == {n .. b : n \in S}
<1>1. T \subseteq FiniteSubsetsOf(Nat) /\ T # {}
  <2>1. ASSUME NEW n \in S PROVE n .. b \in SUBSET Nat /\ IsFiniteSet(n .. b)
    BY FS_Interval
  <2> QED BY <2>1 DEF FiniteSubsetsOf
<1>2. \E x \in T : \A y \in T : ~(<<y, x>> \in StrictSubsetOrdering(Nat))
  <2> HIDE DEF T
  <2> QED BY <1>1, FS_StrictSubsetOrderingWellFounded, WFMin
<1>3. PICK m \in S : \A n \in S : ~(<<n .. b, m .. b>> \in StrictSubsetOrdering(Nat))
  BY <1>2
<1>4. ASSUME NEW n \in S, n > m PROVE FALSE
  <2>1. n .. b \subseteq m .. b /\ m \in m .. b /\ m \notin n .. b /\ m .. b \subseteq Nat
    BY <1>4
  <2>2. <<n .. b, m .. b>> \in StrictSubsetOrdering(Nat)
    BY <2>1 DEF StrictSubsetOrdering
  <2> QED BY <1>3, <2>2
<1> QED BY <1>3, <1>4

LEMMA DistinctSteps ==
  ASSUME NEW h, NEW S, h \in Seq(S), NEW r, r.born \in Nat, ~Returns(h, r)
  PROVE  Steps(h, r) = Advances(h, r)
<1>1. Len(h) \in Nat
  BY LogGrows
<1>2. \A j \in Heard(h, r) : j \in r.born + 1 .. Len(h) /\ ~h[j].tick
  BY DEF Heard, Was
<1>3. ASSUME NEW j \in Heard(h, r), NEW i \in Heard(h, r), i < j, h[i].step = h[j].step
      PROVE  Again(h, r, j)
  <2> DEFINE B == {g \in Heard(h, r) : g < j}
  <2>1. B \subseteq 1 .. Len(h) /\ B # {}
    BY <1>1, <1>2, <1>3
  <2>2. PICK m \in B : \A g \in B : g <= m
    <3> HIDE DEF B
    <3> QED BY <1>1, <2>1, LastBefore
  <2>3. m \in Heard(h, r) /\ m < j /\ i <= m
    BY <2>2, <1>3
  <2>4. h[m].step = h[j].step
    <3>1. CASE m = i
      BY <3>1, <1>3
    <3>2. CASE m # i
      <4>1. i < m
        BY <3>2, <2>3, <1>2, <1>1
      <4> QED BY <4>1, <2>3, <1>2, <1>3 DEF Returns
    <3> QED BY <3>1, <3>2
  <2>5. \A g \in Heard(h, r) : g <= m \/ j <= g
    BY <2>2, <1>2, <1>1
  <2> QED BY <2>3, <2>4, <2>5 DEF Again
<1>4. ASSUME NEW j \in Heard(h, r), Again(h, r, j)
      PROVE  \E i \in Heard(h, r) : i < j /\ h[i].step = h[j].step
  BY <1>4 DEF Again
<1> QED BY <1>3, <1>4 DEF Steps, Advances

(* An alert is sent exactly when the log of all that the engine was given  *)
(* calls for it, for any rules, any order of steps and any clock           *)
(* (alert/mod.rs process): the four counters and times that a rule keeps   *)
(* say what the whole history says, and where no step comes back after     *)
(* another, for_steps counts distinct steps.                               *)
THEOREM AlertsStayJustified == AlertsSpec => []AlertsAreJustified
<1>1. AlertsInv => AlertsAreJustified
  <2> SUFFICES ASSUME AlertsInv, NEW n \in DOMAIN engine.rules, Len(log) > engine.rules[n].born
               PROVE  LET r == engine.rules[n]
                          fired == r.rule.name \in log[Len(log)].fired IN
                      /\ fired => MayAlert(log, r)
                      /\ ~Returns(log, r) => (fired <=> MayAlert(log, r) /\ Lasted(log, r))
                      /\ r.rule.name \in log[Len(log)].recovered <=> RecoveryDue(log, r)
    BY DEF AlertsAreJustified
  <2> DEFINE r == engine.rules[n]
  <2> HIDE DEF r
  <2>1. RowFits(log, r) /\ r.born \in Nat /\ log \in Seq(LogRow)
    <3>1. /\ engine.rules \in Seq(RuleRow) /\ log \in Seq(LogRow)
          /\ RowFits(log, r)
      BY DEF AlertsInv, r
    <3>2. r \in RuleRow
      BY <3>1 DEF r
    <3> QED BY <3>1, <3>2 DEF RuleRow
  <2>2. ~Returns(log, r) => Steps(log, r) = Advances(log, r)
    BY <2>1, DistinctSteps
  <2>3. /\ r.rule.name \in log[Len(log)].fired <=> Called(log, r)
        /\ r.rule.name \in log[Len(log)].recovered <=> RecoveryDue(log, r)
    BY <2>1 DEF RowFits, r
  <2>4. Called(log, r) => MayAlert(log, r)
    BY DEF Called
  <2>5. ~Returns(log, r) => (Called(log, r) <=> MayAlert(log, r) /\ Lasted(log, r))
    BY <2>2 DEF Called, Lasted
  <2> QED BY <2>3, <2>4, <2>5 DEF r
<1> QED BY <1>1, AlertsBegin, AlertsKeep, PTL DEF AlertsSpec

-------------------------------------------------------------------------------
(* The dispatcher.                                                         *)

Pending == [event : Events, number : Nat]

Keys == {e.key : e \in Events}

FateRow == [key : Keys, at : Nat, fate : {"pending", "dropped", "suppressed", "delivered", "failed"}]

WorkerRow ==
  [at : {"recv", "wait", "post", "backoff", "release", "discard", "uncounted", "drain", "gone"},
   held : Pending \cup {Idle}, attempt : Nat, until : Int, tokens : Int, refill : Nat,
   dedup : SUBSET [key : Keys, at : Nat]]

Carrying == {"try", "refused", "uncounted"}

Bearers ==
  {r \in [at : Carrying \cup {"send"}, event : Events, left : SUBSET Channels, channel : Channels, held : Pending] :
     r.held.event = r.event}

CallerRow ==
  [at : {"idle", "close", "join"}] \cup [at : {"send"}, event : Events, left : SUBSET Channels] \cup Bearers

Counters ==
  [accepted : Int, pending : Int, completed : Int, dropped : Int, failed : Int, suppressed : Int]

TypesFit ==
  /\ stats \in Counters /\ clock \in Nat /\ flushed \in Int
  /\ bytes \in [Channels -> Int] /\ inbox \in [Channels -> Seq(Pending)]
  /\ sealed \in [Channels -> BOOLEAN]
  /\ worker \in [Channels -> WorkerRow] /\ caller \in [Client -> CallerRow]
  /\ fates \in [Channels -> Seq(FateRow)] /\ started \in [Channels -> Seq(Nat)]

(* What the callers carry for a channel.                                   *)
InHands(c) ==
  {<<t, caller[t].held, caller[t].at>> :
     t \in {u \in Client : caller[u].at \in Carrying /\ caller[u].channel = c}}

(* A Pending that is not settled yet.                                      *)
Open(f, p) ==
  /\ p \in Pending /\ p.number \in DOMAIN f
  /\ f[p.number].fate = "pending" /\ f[p.number].key = p.event.key

(* One channel: its queue, what its worker holds and where it stands, the  *)
(* fates and what callers carry.                                           *)
Fit(q, h, a, f, C) ==
  /\ q \in Seq(Pending) /\ h \in Pending \cup {Idle} /\ f \in Seq(FateRow)
  /\ C \subseteq Client \X Pending \X Carrying
  /\ \A i \in DOMAIN q : Open(f, q[i])
  /\ \A x \in C : Open(f, x[2])
  /\ h = Idle <=> a \in {"recv", "drain", "gone"}
  /\ h # Idle /\ a # "release" => Open(f, h)
  /\ a = "release" => h.number \in DOMAIN f /\ f[h.number].fate # "pending"
  /\ \A i, j \in DOMAIN q : q[i].number = q[j].number => i = j
  /\ \A x, y \in C : x[2].number = y[2].number => x = y
  /\ \A i \in DOMAIN q : \A x \in C : q[i].number # x[2].number
  /\ h # Idle => /\ \A i \in DOMAIN q : q[i].number # h.number
                 /\ \A x \in C : x[2].number # h.number

(* Those with their bytes.                                                 *)
Holding(q, h, a, C) ==
  Range(q) \cup {x[2] : x \in {y \in C : y[3] # "uncounted"}}
    \cup (IF h # Idle /\ a # "uncounted" THEN {h} ELSE {})

Settled(f, g, n, fate, time) ==
  /\ g \in Seq(FateRow) /\ DOMAIN g = DOMAIN f
  /\ \A k \in DOMAIN f : k # n => g[k] = f[k]
  /\ g[n].fate = fate /\ g[n].at = time /\ g[n].key = f[n].key

-------------------------------------------------------------------------------
(* Sequences.                                                              *)
LEMMA AppendIs ==
  ASSUME NEW S, NEW s \in Seq(S), NEW x \in S
  PROVE  /\ Append(s, x) \in Seq(S)
         /\ Len(s) \in Nat /\ DOMAIN s = 1 .. Len(s) /\ DOMAIN Append(s, x) = 1 .. Len(s) + 1
         /\ \A i \in DOMAIN s : i \in DOMAIN Append(s, x) /\ Append(s, x)[i] = s[i] /\ s[i] \in S
         /\ Append(s, x)[Len(s) + 1] = x /\ Len(s) + 1 \in DOMAIN Append(s, x)
         /\ \A i \in DOMAIN Append(s, x) : i \in DOMAIN s \/ i = Len(s) + 1
         /\ Len(s) + 1 \notin DOMAIN s
<1>1. PICK n \in Nat : n = Len(s) /\ DOMAIN s = 1 .. n
  OBVIOUS
<1>2. /\ Append(s, x) \in Seq(S) /\ Len(Append(s, x)) = n + 1 /\ Append(s, x)[n + 1] = x
      /\ \A i \in 1 .. n : Append(s, x)[i] = s[i]
  BY <1>1, AppendProperties
<1>3. DOMAIN Append(s, x) = 1 .. n + 1
  BY <1>2, LenProperties
<1>4. \A i \in 1 .. n : s[i] \in S /\ i \in 1 .. n + 1
  BY <1>1, ElementOfSeq
<1>5. n + 1 \notin 1 .. n /\ n + 1 \in 1 .. n + 1 /\ \A i \in 1 .. n + 1 : i \in 1 .. n \/ i = n + 1
  BY <1>1
<1> QED BY <1>1, <1>2, <1>3, <1>4, <1>5

LEMMA TailIs ==
  ASSUME NEW S, NEW s \in Seq(S), s # <<>>
  PROVE  /\ Head(s) \in S /\ Tail(s) \in Seq(S) /\ 1 \in DOMAIN s /\ Head(s) = s[1]
         /\ \A i \in DOMAIN Tail(s) : i + 1 \in DOMAIN s /\ i \in Nat /\ i + 1 # 1 /\ Tail(s)[i] = s[i + 1]
         /\ \A i \in DOMAIN s : i = 1 \/ \E j \in DOMAIN Tail(s) : Tail(s)[j] = s[i]
<1>1. PICK n \in Nat : n = Len(s) /\ DOMAIN s = 1 .. n /\ n > 0
  OBVIOUS
<1>2. /\ Head(s) \in S /\ Head(s) = s[1] /\ Tail(s) \in Seq(S) /\ Len(Tail(s)) = n - 1
      /\ \A i \in 1 .. n - 1 : Tail(s)[i] = s[i + 1]
  BY <1>1, HeadTailProperties
<1>3. DOMAIN Tail(s) = 1 .. n - 1
  BY <1>1, <1>2, LenProperties
<1>4. ASSUME NEW i \in DOMAIN s, i # 1 PROVE \E j \in DOMAIN Tail(s) : Tail(s)[j] = s[i]
  <2>1. i - 1 \in 1 .. n - 1 /\ (i - 1) + 1 = i
    BY <1>1, <1>4
  <2> QED BY <1>2, <1>3, <2>1
<1>5. 1 \in 1 .. n /\ \A i \in 1 .. n - 1 : i + 1 \in 1 .. n /\ i \in Nat /\ i + 1 # 1
  BY <1>1
<1> QED BY <1>1, <1>2, <1>3, <1>4, <1>5

-------------------------------------------------------------------------------
(* Moves of one channel.                                                   *)
LEMMA RangeIs == \A q : Range(q) = {q[i] : i \in DOMAIN q}
BY DEF Range

LEMMA OpenStays ==
  ASSUME NEW f, NEW g, NEW n, NEW fate, NEW time, Settled(f, g, n, fate, time), NEW p, Open(f, p), p.number # n
  PROVE  Open(g, p)
BY DEF Settled, Open

LEMMA FatesGrow ==
  ASSUME NEW q, NEW h, NEW a, NEW f, NEW C, Fit(q, h, a, f, C), NEW r \in FateRow
  PROVE  Fit(q, h, a, Append(f, r), C)
<1> DEFINE g == Append(f, r)
<1>1. /\ g \in Seq(FateRow) /\ \A n \in DOMAIN f : n \in DOMAIN g /\ g[n] = f[n]
  BY AppendIs DEF Fit
<1> HIDE DEF g
<1>2. \A p : Open(f, p) => Open(g, p)
  BY <1>1 DEF Open
<1>3. a = "release" => h.number \in DOMAIN g /\ g[h.number].fate # "pending"
  BY <1>1 DEF Fit
<1>4. Fit(q, h, a, g, C)
  BY <1>1, <1>2, <1>3 DEF Fit
<1> QED BY <1>4 DEF g

(* A caller reserves.                                                      *)
Arrives(f, r, x) ==
  /\ x \in Client \X Pending \X Carrying /\ x[3] = "try" /\ x[2].number = Len(f) + 1
  /\ r \in FateRow /\ r.fate = "pending" /\ r.key = x[2].event.key

LEMMA Reserving ==
  ASSUME NEW q, NEW h, NEW a, NEW f, NEW C, Fit(q, h, a, f, C), NEW r, NEW x, Arrives(f, r, x)
  PROVE  /\ Fit(q, h, a, Append(f, r), C \cup {x})
         /\ Holding(q, h, a, C \cup {x}) = Holding(q, h, a, C) \cup {x[2]}
         /\ x[2] \notin Holding(q, h, a, C)
<1> DEFINE g == Append(f, r)
           D == C \cup {x}
           p == x[2]
<1>0. f \in Seq(FateRow) /\ r \in FateRow /\ p \in Pending /\ p.number = Len(f) + 1
      /\ r.fate = "pending" /\ r.key = p.event.key
  BY DEF Fit, Arrives
<1>1. /\ \A k \in DOMAIN f : k \in DOMAIN g /\ g[k] = f[k]
      /\ g[p.number] = r /\ p.number \in DOMAIN g /\ p.number \notin DOMAIN f
  BY <1>0, AppendIs
<1>2. Fit(q, h, a, g, C)
  BY <1>0, FatesGrow
<1> HIDE DEF g
<1>3. Open(g, p)
  BY <1>0, <1>1 DEF Open
<1>4. \A o : Open(f, o) => o.number # p.number
  BY <1>1 DEF Open
<1>5. h # Idle => h.number # p.number
  BY <1>1, <1>4 DEF Fit
<1>6. x \in Client \X Pending \X Carrying /\ x[2] = p /\ x[3] # "uncounted"
  BY DEF Arrives
<1> HIDE DEF p
<1>7. /\ \A i \in DOMAIN q : q[i].number # p.number
      /\ \A y \in C : y[2].number # p.number
  BY <1>4 DEF Fit
<1>8. Fit(q, h, a, g, D)
  <2>1. /\ D \subseteq Client \X Pending \X Carrying
        /\ \A y \in D : Open(g, y[2])
        /\ \A y, z \in D : y[2].number = z[2].number => y = z
        /\ \A i \in DOMAIN q : \A y \in D : q[i].number # y[2].number
        /\ h # Idle => \A y \in D : y[2].number # h.number
    <3>1. /\ C \subseteq Client \X Pending \X Carrying
          /\ \A y \in C : Open(g, y[2])
          /\ \A y, z \in C : y[2].number = z[2].number => y = z
          /\ \A i \in DOMAIN q : \A y \in C : q[i].number # y[2].number
          /\ h # Idle => \A y \in C : y[2].number # h.number
      BY <1>2 DEF Fit
    <3> QED BY <1>3, <1>5, <1>6, <1>7, <3>1
  <2> HIDE DEF D
  <2> QED BY <1>2, <2>1 DEF Fit
<1>9. Holding(q, h, a, D) = Holding(q, h, a, C) \cup {p}
  BY <1>6 DEF Holding
<1>10. p \notin Holding(q, h, a, C)
  BY <1>5, <1>6, <1>7, RangeIs DEF Holding
<1> QED BY <1>1, <1>8, <1>9, <1>10 DEF g, p

(* A caller puts what it reserved into the queue.                          *)
LEMMA Queueing ==
  ASSUME NEW q, NEW h, NEW a, NEW f, NEW C, Fit(q, h, a, f, C), NEW x \in C, x[3] = "try"
  PROVE  /\ Fit(Append(q, x[2]), h, a, f, C \ {x})
         /\ Holding(Append(q, x[2]), h, a, C \ {x}) = Holding(q, h, a, C)
<1> DEFINE p == x[2]
           r == Append(q, p)
           D == C \ {x}
<1>1. q \in Seq(Pending) /\ p \in Pending
  BY DEF Fit
<1>2. /\ r \in Seq(Pending) /\ \A i \in DOMAIN q : i \in DOMAIN r /\ r[i] = q[i]
      /\ r[Len(q) + 1] = p /\ Len(q) + 1 \in DOMAIN r
      /\ \A i \in DOMAIN r : i \in DOMAIN q \/ i = Len(q) + 1
  BY <1>1, AppendIs
<1> DEFINE n == Len(q) + 1
<1> HIDE DEF r
<1>3. \A i \in DOMAIN r : (i \in DOMAIN q /\ r[i] = q[i]) \/ (i = n /\ r[i] = p)
  BY <1>2
<1> HIDE DEF n
<1>4. /\ \A y \in D : y \in C /\ y[2].number # p.number
      /\ \A i \in DOMAIN q : q[i].number # p.number
      /\ h # Idle => p.number # h.number
      /\ Open(f, p)
  BY DEF Fit
<1> HIDE DEF p, D
<1>5. Fit(r, h, a, f, D)
  <2>1. /\ \A i \in DOMAIN r : Open(f, r[i])
        /\ \A i \in DOMAIN r : \A y \in D : r[i].number # y[2].number
        /\ h # Idle => \A i \in DOMAIN r : r[i].number # h.number
    BY <1>3, <1>4, SMTT(30) DEF Fit
  <2>2. \A i, j \in DOMAIN q : q[i].number = q[j].number => i = j
    BY DEF Fit
  <2>3. \A i, j \in DOMAIN r : r[i].number = r[j].number => i = j
    BY <1>3, <1>4, <2>2
  <2> QED BY <1>2, <1>3, <2>1, <2>3 DEF Fit, D
<1>6. Range(r) = Range(q) \cup {p}
  BY <1>2, <1>3, RangeIs DEF n
<1>7. {y[2] : y \in {z \in C : z[3] # "uncounted"}} = {y[2] : y \in {z \in D : z[3] # "uncounted"}} \cup {p}
  BY DEF D, p
<1>8. Holding(r, h, a, D) = Holding(q, h, a, C)
  BY <1>6, <1>7 DEF Holding
<1> QED BY <1>5, <1>8 DEF r, p, D

(* A caller goes on with what it carries.                                  *)
LEMMA CarryingOn ==
  ASSUME NEW q, NEW h, NEW a, NEW f, NEW C, Fit(q, h, a, f, C), NEW x \in C, NEW z,
         NEW t, NEW p, NEW s, NEW u \in Carrying, x = <<t, p, s>>, z = <<t, p, u>>
  PROVE  /\ Fit(q, h, a, f, (C \ {x}) \cup {z})
         /\ s # "uncounted" /\ u # "uncounted" => Holding(q, h, a, (C \ {x}) \cup {z}) = Holding(q, h, a, C)
         /\ s # "uncounted" /\ u = "uncounted" =>
              Holding(q, h, a, (C \ {x}) \cup {z}) = Holding(q, h, a, C) \ {p} /\ p \in Holding(q, h, a, C)
<1> DEFINE D == (C \ {x}) \cup {z}
<1>1. x \in C /\ x[2] = p /\ x[3] = s /\ z[2] = p /\ z[3] = u /\ z \in Client \X Pending \X Carrying
  BY DEF Fit
<1>2. \A y \in C \ {x} : y[2].number # p.number
  BY <1>1 DEF Fit
<1>3. Fit(q, h, a, f, D)
  <2>1. /\ D \subseteq Client \X Pending \X Carrying
        /\ \A y \in D : Open(f, y[2])
        /\ \A i \in DOMAIN q : \A y \in D : q[i].number # y[2].number
        /\ h # Idle => \A y \in D : y[2].number # h.number
    BY <1>1 DEF Fit
  <2>2. \A y, w \in D : y[2].number = w[2].number => y = w
    BY <1>1, <1>2 DEF Fit
  <2> QED BY <2>1, <2>2 DEF Fit
<1>4. {y[2] : y \in {w \in C : w[3] # "uncounted"}} =
        {y[2] : y \in {w \in C \ {x} : w[3] # "uncounted"}} \cup (IF s # "uncounted" THEN {p} ELSE {})
  BY <1>1
<1>5. {y[2] : y \in {w \in D : w[3] # "uncounted"}} =
        {y[2] : y \in {w \in C \ {x} : w[3] # "uncounted"}} \cup (IF u # "uncounted" THEN {p} ELSE {})
  BY <1>1
<1>6. p \notin {y[2] : y \in {w \in C \ {x} : w[3] # "uncounted"}} /\ p \notin Range(q) /\ p # h
  BY <1>1, <1>2, RangeIs, DispatchAssumption DEF Fit, Pending
<1> HIDE DEF D
<1> QED BY <1>3, <1>4, <1>5, <1>6 DEF Holding, D

(* What a caller carries is settled.                                       *)
LEMMA CallerSettles ==
  ASSUME NEW q, NEW h, NEW a, NEW f, NEW C, Fit(q, h, a, f, C), NEW x \in C, x[3] = "uncounted",
         NEW g, NEW fate, NEW time, Settled(f, g, x[2].number, fate, time)
  PROVE  /\ Fit(q, h, a, g, C \ {x})
         /\ Holding(q, h, a, C \ {x}) = Holding(q, h, a, C)
<1> DEFINE n == x[2].number
           D == C \ {x}
<1>1. /\ \A y \in D : y \in C /\ y[2].number # n
      /\ \A i \in DOMAIN q : q[i].number # n
      /\ h # Idle => h.number # n
  BY DEF Fit
<1>2. \A p : Open(f, p) /\ p.number # n => Open(g, p)
  BY OpenStays
<1>3. /\ \A i \in DOMAIN q : Open(g, q[i])
      /\ \A y \in D : Open(g, y[2])
      /\ h # Idle /\ a # "release" => Open(g, h)
  BY <1>1, <1>2 DEF Fit
<1>4. a = "release" => h.number \in DOMAIN g /\ g[h.number].fate # "pending"
  BY <1>1 DEF Fit, Settled
<1>5. Fit(q, h, a, g, D)
  BY <1>1, <1>3, <1>4 DEF Fit, Settled
<1>6. {y[2] : y \in {w \in C : w[3] # "uncounted"}} = {y[2] : y \in {w \in D : w[3] # "uncounted"}}
  OBVIOUS
<1> HIDE DEF D
<1> QED BY <1>5, <1>6 DEF Holding, D

(* The worker takes the head of the queue.                                 *)
LEMMA Taking ==
  ASSUME NEW q, NEW a, NEW f, NEW C, Fit(q, Idle, a, f, C), q # <<>>,
         NEW b \in {"wait", "post", "backoff", "discard"}
  PROVE  /\ Fit(Tail(q), Head(q), b, f, C) /\ Head(q) # Idle /\ Open(f, Head(q)) /\ Head(q) \in Pending
         /\ Holding(Tail(q), Head(q), b, C) = Holding(q, Idle, a, C)
<1> DEFINE p == Head(q)
           r == Tail(q)
<1>1. q \in Seq(Pending)
  BY DEF Fit
<1>2. /\ p \in Pending /\ r \in Seq(Pending) /\ 1 \in DOMAIN q /\ p = q[1]
      /\ \A i \in DOMAIN r : i + 1 \in DOMAIN q /\ i \in Nat /\ i + 1 # 1 /\ r[i] = q[i + 1]
      /\ \A i \in DOMAIN q : i = 1 \/ \E j \in DOMAIN r : r[j] = q[i]
  BY <1>1, TailIs
<1> HIDE DEF p, r
<1>3. p # Idle
  BY <1>2, DispatchAssumption DEF Pending
<1>4. Fit(r, p, b, f, C)
  <2>1. Open(f, p) /\ \A x \in C : x[2].number # p.number
    BY <1>2 DEF Fit
  <2>2. \A i \in DOMAIN r : Open(f, r[i]) /\ r[i].number # p.number /\ \A x \in C : r[i].number # x[2].number
    BY <1>2, SMTT(30) DEF Fit
  <2>3. ASSUME NEW i \in DOMAIN r, NEW j \in DOMAIN r, r[i].number = r[j].number PROVE i = j
    <3>1. /\ i + 1 \in DOMAIN q /\ j + 1 \in DOMAIN q /\ i \in Nat /\ j \in Nat
          /\ q[i + 1].number = q[j + 1].number
      BY <1>2, <2>3
    <3>2. \A k, l \in DOMAIN q : q[k].number = q[l].number => k = l
      BY DEF Fit
    <3>3. i + 1 = j + 1
      BY <3>1, <3>2
    <3> QED BY <3>1, <3>3
  <2> QED BY <1>2, <1>3, <2>1, <2>2, <2>3 DEF Fit
<1>5. Range(q) = Range(r) \cup {p}
  <2>1. \A i \in DOMAIN q : q[i] = p \/ \E j \in DOMAIN r : r[j] = q[i]
    BY <1>2
  <2>2. \A j \in DOMAIN r : \E i \in DOMAIN q : q[i] = r[j]
    BY <1>2
  <2> QED BY <1>2, <2>1, <2>2, RangeIs
<1>6. Holding(r, p, b, C) = Holding(q, Idle, a, C)
  BY <1>3, <1>5 DEF Holding
<1>7. Open(f, p)
  BY <1>2 DEF Fit
<1> QED BY <1>2, <1>3, <1>4, <1>6, <1>7 DEF p, r

(* What the worker holds is settled: it keeps the bytes for a moment, or   *)
(* has given them back before.                                             *)
LEMMA WorkerSettles ==
  ASSUME NEW q, NEW h, NEW a, NEW f, NEW C, Fit(q, h, a, f, C), h # Idle, a # "release",
         NEW g, NEW fate, fate # "pending", NEW time, Settled(f, g, h.number, fate, time)
  PROVE  /\ Fit(q, h, "release", g, C) /\ Fit(q, Idle, "drain", g, C)
         /\ a # "uncounted" => Holding(q, h, "release", C) = Holding(q, h, a, C)
         /\ a = "uncounted" => Holding(q, Idle, "drain", C) = Holding(q, h, a, C)
<1> DEFINE n == h.number
<1>1. /\ \A y \in C : y[2].number # n
      /\ \A i \in DOMAIN q : q[i].number # n
  BY DEF Fit
<1>2. \A p : Open(f, p) /\ p.number # n => Open(g, p)
  BY OpenStays
<1>3. /\ \A i \in DOMAIN q : Open(g, q[i])
      /\ \A y \in C : Open(g, y[2])
  BY <1>1, <1>2 DEF Fit
<1>4. n \in DOMAIN g /\ g[n].fate # "pending"
  BY DEF Fit, Open, Settled
<1>5. Fit(q, h, "release", g, C)
  BY <1>1, <1>3, <1>4 DEF Fit, Settled
<1>6. Fit(q, Idle, "drain", g, C)
  BY <1>1, <1>3, <1>4 DEF Fit, Settled
<1> QED BY <1>5, <1>6 DEF Holding

(* The worker gives back the bytes of what it holds.                       *)
LEMMA LettingGo ==
  ASSUME NEW q, NEW h, NEW a, NEW f, NEW C, Fit(q, h, a, f, C), h # Idle, a # "uncounted"
  PROVE  /\ h \in Holding(q, h, a, C) /\ h \in Pending
         /\ a = "release" => /\ Fit(q, Idle, "recv", f, C)
                             /\ Holding(q, Idle, "recv", C) = Holding(q, h, a, C) \ {h}
         /\ a # "release" => /\ Fit(q, h, "uncounted", f, C)
                             /\ Holding(q, h, "uncounted", C) = Holding(q, h, a, C) \ {h}
<1>1. h \notin Range(q) /\ h \notin {x[2] : x \in {y \in C : y[3] # "uncounted"}}
  BY RangeIs DEF Fit
<1>2. a = "release" => Fit(q, Idle, "recv", f, C)
  BY DEF Fit
<1>3. a # "release" => Fit(q, h, "uncounted", f, C)
  BY DEF Fit
<1> QED BY <1>1, <1>2, <1>3 DEF Holding, Fit

(* The worker goes on with what it holds.                                  *)
LEMMA WorkingOn ==
  ASSUME NEW q, NEW h, NEW a, NEW f, NEW C, Fit(q, h, a, f, C)
  PROVE  /\ h # Idle /\ a # "release" => \A b \in {"wait", "post", "backoff", "discard"} :
              /\ Fit(q, h, b, f, C)
              /\ a # "uncounted" => Holding(q, h, b, C) = Holding(q, h, a, C)
         /\ h = Idle => \A b \in {"recv", "drain", "gone"} :
              Fit(q, h, b, f, C) /\ Holding(q, h, b, C) = Holding(q, h, a, C)
BY DEF Fit, Holding


-------------------------------------------------------------------------------
(* The invariant.                                                          *)
Told == Ended({"delivered", "suppressed"})

(* A channel's Pendings, the bytes they hold, and the end of its worker.   *)
Kept(q, h, a, f, C, held, shut) ==
  /\ Fit(q, h, a, f, C)
  /\ IsFiniteSet(Bytes(Holding(q, h, a, C)))
  /\ held = Cardinality(Bytes(Holding(q, h, a, C))) /\ held <= PendingBytes
  /\ a \in {"drain", "gone"} => shut
  /\ a = "gone" => q = <<>>

ChannelFits(c) ==
  Kept(inbox[c], worker[c].held, worker[c].at, fates[c], InHands(c), bytes[c], sealed[c])

(* Where the counters stand.                                               *)
CountsFit ==
  /\ IsFiniteSet(Ended({"pending"})) /\ IsFiniteSet(Told)
  /\ stats.pending = Cardinality(Ended({"pending"}))
  /\ stats.completed = Cardinality(Told) + stats.failed
  /\ stats.accepted = stats.pending + stats.completed + stats.dropped
  /\ flushed <= Cardinality(Told)

(* What a worker remembers was delivered.                                  *)
Delivery(f, key, at) ==
  \E k \in DOMAIN f : f[k].fate = "delivered" /\ f[k].key = key /\ f[k].at = at

Justified(f) ==
  \A n \in DOMAIN f :
    f[n].fate = "suppressed" =>
      \E k \in DOMAIN f :
        f[k].fate = "delivered" /\ f[k].key = f[n].key /\ f[n].at - f[k].at \in 0 .. DedupWindow - 1

MemoryFits(c) ==
  /\ \A d \in worker[c].dedup : d.at <= clock /\ Delivery(fates[c], d.key, d.at)
  /\ Justified(fates[c])

(* The bucket of a channel that began the deliveries s, with `tokens` left *)
(* at its last refill, `now`.  Since each delivery no more have begun than *)
(* the bucket held and what flowed in, less what is left.                  *)
Paced(s, tokens, now) ==
  /\ tokens \in Nat /\ tokens <= RateLimit * Minute
  /\ \A i \in DOMAIN s :
       /\ s[i] <= now
       /\ (Len(s) - i + 1) * Minute + tokens <= RateLimit * Minute + (now - s[i]) * RateLimit
  /\ \A i, j \in DOMAIN s : i < j => (j - i + 1 - RateLimit) * Minute <= (s[j] - s[i]) * RateLimit

BucketFits(c) ==
  /\ worker[c].refill <= clock
  /\ Paced(started[c], worker[c].tokens, worker[c].refill)
  /\ worker[c].at = "wait" =>
       /\ worker[c].tokens < Minute
       /\ Minute - worker[c].tokens <= (worker[c].until - worker[c].refill) * RateLimit

DispatchInv ==
  /\ TypesFit /\ CountsFit
  /\ \A c \in Channels : ChannelFits(c) /\ MemoryFits(c)
  /\ RateLimit > 0 => \A c \in Channels : BucketFits(c)

-------------------------------------------------------------------------------
(* Sizes.                                                                  *)
LEMMA OneMore ==
  ASSUME NEW S, IsFiniteSet(S), NEW x, x \notin S
  PROVE  IsFiniteSet(S \cup {x}) /\ Cardinality(S \cup {x}) = Cardinality(S) + 1
BY FS_AddElement

LEMMA OneLess ==
  ASSUME NEW S, IsFiniteSet(S), NEW x \in S
  PROVE  /\ IsFiniteSet(S \ {x}) /\ Cardinality(S \ {x}) \in Nat
         /\ Cardinality(S) = Cardinality(S \ {x}) + 1
<1> DEFINE R == S \ {x}
<1>1. IsFiniteSet(R) /\ x \notin R /\ R \cup {x} = S
  BY FS_RemoveElement
<1> HIDE DEF R
<1>2. Cardinality(R \cup {x}) = Cardinality(R) + 1 /\ Cardinality(R) \in Nat
  BY <1>1, OneMore, FS_CardinalityType
<1> QED BY <1>1, <1>2 DEF R

(* A Pending's bytes.                                                      *)
LEMMA BytesOfOne ==
  ASSUME NEW p, p.event.size \in Nat
  PROVE  /\ IsFiniteSet({p} \X (1 .. p.event.size))
         /\ Cardinality({p} \X (1 .. p.event.size)) = p.event.size
<1> DEFINE b == p.event.size
           S == {p}
           T == 1 .. b
<1> HIDE DEF b
<1>1. IsFiniteSet(S) /\ Cardinality(S) = 1
  BY FS_Singleton
<1>2. b \in Nat
  BY DEF b
<1>3. IsFiniteSet(T) /\ Cardinality(T) = b
  <2>1. IsFiniteSet(1 .. b) /\ Cardinality(1 .. b) = IF 1 > b THEN 0 ELSE b - 1 + 1
    BY <1>2, FS_Interval
  <2> QED BY <1>2, <2>1
<1> HIDE DEF S, T
<1>4. IsFiniteSet(S \X T) /\ Cardinality(S \X T) = Cardinality(S) * Cardinality(T)
  BY <1>1, <1>3, FS_Product
<1>5. Cardinality(S \X T) = b
  BY <1>1, <1>2, <1>3, <1>4
<1> QED BY <1>4, <1>5 DEF S, T, b

LEMMA BytesGrow ==
  ASSUME NEW P, IsFiniteSet(Bytes(P)), NEW p \in Pending, p \notin P
  PROVE  /\ IsFiniteSet(Bytes(P \cup {p}))
         /\ Cardinality(Bytes(P \cup {p})) = Cardinality(Bytes(P)) + p.event.size
         /\ Cardinality(Bytes(P)) \in Nat
<1> DEFINE U == Bytes(P)
           V == {p} \X (1 .. p.event.size)
<1>1. Bytes(P \cup {p}) = U \cup V
  BY DEF Bytes
<1>2. U \cap V = {}
  BY DEF Bytes
<1>3. p.event.size \in Nat
  BY DispatchAssumption DEF Pending
<1>4. IsFiniteSet(V) /\ Cardinality(V) = p.event.size
  BY <1>3, BytesOfOne
<1> HIDE DEF U, V
<1>5. IsFiniteSet(U \cup V)
      /\ Cardinality(U \cup V) = Cardinality(U) + Cardinality(V) - Cardinality(U \cap V)
  BY <1>4, FS_Union DEF U
<1>6. Cardinality(U \cap V) = 0 /\ Cardinality(U) \in Nat
  BY <1>2, FS_EmptySet, FS_CardinalityType DEF U
<1>7. Cardinality(U \cup V) = Cardinality(U) + p.event.size
  BY <1>3, <1>4, <1>5, <1>6
<1> QED BY <1>1, <1>5, <1>6, <1>7 DEF U

LEMMA BytesShrink ==
  ASSUME NEW P, IsFiniteSet(Bytes(P)), NEW p \in P, p \in Pending
  PROVE  /\ IsFiniteSet(Bytes(P \ {p})) /\ p.event.size \in Nat
         /\ Cardinality(Bytes(P \ {p})) = Cardinality(Bytes(P)) - p.event.size
         /\ Cardinality(Bytes(P)) \in Nat
<1> DEFINE Q == P \ {p}
<1>1. Q \cup {p} = P /\ p \notin Q
  OBVIOUS
<1>2. Bytes(Q) \subseteq Bytes(P)
  BY DEF Bytes
<1>3. IsFiniteSet(Bytes(Q))
  BY <1>2, FS_Subset
<1> HIDE DEF Q
<1>4. /\ Cardinality(Bytes(Q \cup {p})) = Cardinality(Bytes(Q)) + p.event.size
      /\ Cardinality(Bytes(Q)) \in Nat
  BY <1>1, <1>3, BytesGrow
<1>5. p.event.size \in Nat
  BY DispatchAssumption DEF Pending
<1>6. Cardinality(Bytes(P)) = Cardinality(Bytes(Q)) + p.event.size
  BY <1>1, <1>4
<1>7. Cardinality(Bytes(P)) \in Nat
  BY FS_CardinalityType
<1>8. Cardinality(Bytes(Q)) = Cardinality(Bytes(P)) - p.event.size
  BY <1>4, <1>5, <1>6
<1> QED BY <1>3, <1>5, <1>7, <1>8 DEF Q

-------------------------------------------------------------------------------
(* The bucket.                                                             *)
LEMMA Limits ==
  /\ Minute \in Nat /\ Minute > 0 /\ QueueSize \in Nat /\ PendingBytes \in Nat
  /\ RateLimit \in Nat /\ DedupWindow \in Nat /\ MaxRetries \in Nat
BY DispatchAssumption

(* Rounding up waits long enough.                                          *)
LEMMA RoundedUp ==
  ASSUME NEW a \in Nat, NEW r \in Nat, r > 0
  PROVE  (a + r - 1) \div r \in Int /\ a <= ((a + r - 1) \div r) * r
<1> DEFINE b == a + r - 1
           q == b \div r
           m == b % r
<1>1. b \in Nat
  OBVIOUS
<1> HIDE DEF b
<1>2. q \in Int /\ m \in 0 .. r - 1 /\ b = q * r + m
  BY <1>1
<1> HIDE DEF q, m
<1>3. q * r \in Int
  BY <1>2
<1> DEFINE x == q * r
<1> HIDE DEF x
<1>4. a <= x
  BY <1>2, <1>3 DEF b, x
<1> QED BY <1>2, <1>4 DEF b, q, x

(* Time flows in at the rate.                                              *)
LEMMA Flow ==
  ASSUME NEW x \in Int, NEW y \in Int, NEW z \in Int, NEW r \in Nat
  PROVE  /\ (y - x) * r + (z - y) * r = (z - x) * r
         /\ (y - x) * r \in Int
         /\ x <= y => 0 <= (y - x) * r /\ (z - y) * r <= (z - x) * r
<1>1. (y - x) * r = y * r - x * r /\ (z - y) * r = z * r - y * r /\ (z - x) * r = z * r - x * r
  OBVIOUS
<1>2. x * r \in Int /\ y * r \in Int /\ z * r \in Int
  OBVIOUS
<1>3. x <= y => x * r <= y * r
  OBVIOUS
<1> QED BY <1>1, <1>2, <1>3

(* The tokens after a refill.                                              *)
LEMMA PacedAt ==
  ASSUME NEW s \in Seq(Nat), NEW tokens, NEW now \in Nat, Paced(s, tokens, now), NEW time \in Nat, now <= time,
         NEW left \in Nat, left <= RateLimit * Minute, left <= tokens + (time - now) * RateLimit
  PROVE  Paced(s, left, time)
<1>0. DOMAIN s = 1 .. Len(s) /\ \A i \in 1 .. Len(s) : s[i] \in Nat
  BY ElementOfSeq, LenProperties
<1>1. /\ \A i \in DOMAIN s : s[i] \in Nat /\ i \in Nat /\ s[i] <= now
      /\ Len(s) \in Nat /\ tokens \in Nat /\ RateLimit \in Nat /\ Minute \in Nat
  BY <1>0, Limits DEF Paced
<1>2. ASSUME NEW i \in DOMAIN s
      PROVE  s[i] <= time /\ (Len(s) - i + 1) * Minute + left <= RateLimit * Minute + (time - s[i]) * RateLimit
  <2>1. PICK x \in Int : x = (Len(s) - i + 1) * Minute
    BY <1>1
  <2>2. PICK y \in Int : y = RateLimit * Minute
    BY <1>1
  <2>3. PICK u \in Int : u = (now - s[i]) * RateLimit
    BY <1>1
  <2>4. PICK v \in Int : v = (time - now) * RateLimit
    BY <1>1
  <2>5. (time - s[i]) * RateLimit = u + v
    BY <1>1, <2>3, <2>4, Flow
  <2>6. x + tokens <= y + u
    BY <2>1, <2>2, <2>3 DEF Paced
  <2>7. left <= tokens + v
    BY <2>4
  <2>8. x + left <= y + (u + v)
    BY <1>1, <2>6, <2>7
  <2>9. s[i] <= time
    BY <1>1
  <2> QED BY <2>1, <2>2, <2>5, <2>8, <2>9
<1> QED BY <1>2 DEF Paced

(* A delivery begins.                                                      *)
LEMMA PacedOn ==
  ASSUME NEW s \in Seq(Nat), NEW tokens, NEW now \in Nat, Paced(s, tokens, now), NEW time \in Nat, now <= time,
         NEW left \in Nat, left + Minute <= RateLimit * Minute,
         left + Minute <= tokens + (time - now) * RateLimit
  PROVE  Paced(Append(s, time), left, time)
<1> DEFINE g == Append(s, time)
           n == Len(s)
<1>0. n \in Nat /\ RateLimit \in Nat /\ Minute \in Nat /\ left + Minute \in Nat
  BY Limits, LenProperties
<1>1. Paced(s, left + Minute, time)
  BY <1>0, PacedAt
<1>2. /\ DOMAIN s = 1 .. n /\ DOMAIN g = 1 .. n + 1 /\ g[n + 1] = time
      /\ \A i \in DOMAIN s : g[i] = s[i] /\ s[i] \in Nat /\ i \in Nat
      /\ \A i \in DOMAIN g : i \in DOMAIN s \/ i = n + 1
  BY AppendIs
<1>3. Len(g) = n + 1
  BY AppendProperties
<1> HIDE DEF g, n
<1>4. PICK y \in Int : y = RateLimit * Minute
  BY <1>0
<1>5. ASSUME NEW i \in DOMAIN s
      PROVE  (Len(g) - i + 1) * Minute + left <= y + (time - s[i]) * RateLimit
  <2>1. (Len(g) - i + 1) * Minute = (n - i + 1) * Minute + Minute
    BY <1>0, <1>2, <1>3
  <2>2. (n - i + 1) * Minute + (left + Minute) <= y + (time - s[i]) * RateLimit
    BY <1>1, <1>4 DEF Paced, n
  <2>3. (n - i + 1) * Minute \in Int /\ (time - s[i]) * RateLimit \in Int
    BY <1>0, <1>2, SMTT(30)
  <2> QED BY <1>0, <2>1, <2>2, <2>3
<1>6. ASSUME NEW i \in DOMAIN g
      PROVE  g[i] <= time /\ (Len(g) - i + 1) * Minute + left <= y + (time - g[i]) * RateLimit
  <2>1. CASE i \in DOMAIN s
    BY <1>1, <1>2, <1>5, <2>1 DEF Paced
  <2>2. CASE i = n + 1
    <3>1. (Len(g) - i + 1) * Minute = Minute /\ (time - g[i]) * RateLimit = 0 /\ g[i] <= time
      BY <1>0, <1>2, <1>3, <2>2
    <3>2. Minute + left <= y
      BY <1>0, <1>4
    <3> QED BY <3>1, <3>2
  <2> QED BY <1>2, <2>1, <2>2
<1>7. ASSUME NEW i \in DOMAIN g, NEW j \in DOMAIN g, i < j
      PROVE  (j - i + 1 - RateLimit) * Minute <= (g[j] - g[i]) * RateLimit
  <2>1. i \in DOMAIN s
    BY <1>0, <1>2, <1>7
  <2>2. CASE j \in DOMAIN s
    BY <1>1, <1>2, <1>7, <2>1, <2>2 DEF Paced
  <2>3. CASE j = n + 1
    <3>1. PICK k \in Int : k = Len(g) - i + 1
      BY <1>0, <1>2, <1>3, <2>1
    <3>2. PICK d \in Int : d = time - s[i]
      BY <1>2, <2>1
    <3>3. j - i + 1 - RateLimit = k - RateLimit
      BY <1>0, <1>3, <2>3, <3>1
    <3>4. (k - RateLimit) * Minute = k * Minute - y
      BY <1>0, <1>4
    <3>5. k * Minute \in Int /\ d * RateLimit \in Int
      BY <1>0
    <3>6. g[j] - g[i] = d
      BY <1>2, <2>1, <2>3, <3>2
    <3>7. k * Minute + left <= y + d * RateLimit
      BY <1>5, <2>1, <3>1, <3>2
    <3>8. k * Minute - y <= d * RateLimit
      BY <3>5, <3>7
    <3> QED BY <3>3, <3>4, <3>6, <3>8
  <2> QED BY <1>2, <2>2, <2>3
<1>8. left <= y
  BY <1>0, <1>4
<1> QED BY <1>4, <1>6, <1>7, <1>8 DEF Paced, g

-------------------------------------------------------------------------------
(* Who carries what, and what has ended.                                   *)
Mine(t, r, c) == IF r.at \in Carrying /\ r.channel = c THEN {<<t, r.held, r.at>>} ELSE {}

LEMMA HandsMove ==
  ASSUME TypesFit, NEW t \in Client, NEW r, Place(t, r), NEW c
  PROVE  /\ InHands(c)' = (InHands(c) \ Mine(t, caller[t], c)) \cup Mine(t, r, c)
         /\ Mine(t, caller[t], c) \subseteq InHands(c)
<1>1. caller'[t] = r /\ \A u \in Client : u # t => caller'[u] = caller[u]
  BY DEF Place, TypesFit
<1>2. \A u \in Client : \A x \in Mine(u, caller[u], c) : x[1] = u
  BY DEF Mine
<1>3. InHands(c) = UNION {Mine(u, caller[u], c) : u \in Client}
  BY DEF InHands, Mine
<1>4. InHands(c)' = UNION {Mine(u, caller'[u], c) : u \in Client}
  BY DEF InHands, Mine
<1>5. ASSUME NEW x PROVE x \in InHands(c)' <=> x \in (InHands(c) \ Mine(t, caller[t], c)) \cup Mine(t, r, c)
  BY <1>1, <1>2, <1>3, <1>4
<1>6. Mine(t, caller[t], c) \subseteq InHands(c)
  BY <1>3
<1> QED BY <1>5, <1>6

LEMMA RowReplaced ==
  ASSUME NEW f \in Seq(FateRow), NEW n \in DOMAIN f, NEW r \in FateRow, NEW g, g = [f EXCEPT ![n] = r]
  PROVE  g \in Seq(FateRow) /\ DOMAIN g = DOMAIN f /\ g[n] = r /\ \A k \in DOMAIN f : k # n => g[k] = f[k]
<1>1. n \in 1 .. Len(f)
  BY LenProperties
<1> QED BY <1>1, ExceptSeq

(* A Pending comes to its end.                                             *)
LEMMA Settles ==
  ASSUME TypesFit, NEW c \in Channels, NEW p, Open(fates[c], p),
         NEW fate \in {"dropped", "suppressed", "delivered", "failed"}, Fate(c, p, fate)
  PROVE  /\ fates' \in [Channels -> Seq(FateRow)]
         /\ Settled(fates[c], fates'[c], p.number, fate, clock)
         /\ \A d \in Channels : d # c => fates'[d] = fates[d]
<1> DEFINE f == fates[c]
           n == p.number
           r == [f[n] EXCEPT !.fate = fate, !.at = clock]
           g == [f EXCEPT ![n] = r]
<1>1. f \in Seq(FateRow) /\ n \in DOMAIN f /\ clock \in Nat
  BY DEF TypesFit, Open
<1>2. f[n] \in FateRow
  BY <1>1, LenProperties, ElementOfSeq
<1>3. r \in FateRow /\ r.key = f[n].key /\ r.fate = fate /\ r.at = clock
  BY <1>1, <1>2 DEF FateRow
<1>4. fates' = [fates EXCEPT ![c] = g]
  BY DEF Fate, TypesFit
<1> HIDE DEF f, n, r
<1>5. g \in Seq(FateRow) /\ DOMAIN g = DOMAIN f /\ g[n] = r /\ \A k \in DOMAIN f : k # n => g[k] = f[k]
  BY <1>1, <1>3, RowReplaced
<1> HIDE DEF g
<1>6. /\ fates' \in [Channels -> Seq(FateRow)] /\ fates'[c] = g
      /\ \A d \in Channels : d # c => fates'[d] = fates[d]
  BY <1>4, <1>5 DEF TypesFit
<1> QED BY <1>3, <1>5, <1>6 DEF Settled, f, n

(* What a settlement does to the sets of what has ended.                   *)
LEMMA EndsMove ==
  ASSUME TypesFit, CountsFit, NEW c \in Channels, NEW p, Open(fates[c], p),
         NEW fate \in {"dropped", "suppressed", "delivered", "failed"}, Fate(c, p, fate)
  PROVE  /\ IsFiniteSet(Ended({"pending"})') /\ IsFiniteSet(Told')
         /\ Cardinality(Ended({"pending"})') = Cardinality(Ended({"pending"})) - 1
         /\ Cardinality(Ended({"pending"})) \in Nat /\ Cardinality(Told) \in Nat
         /\ Cardinality(Told') = Cardinality(Told) + (IF fate \in {"delivered", "suppressed"} THEN 1 ELSE 0)
<1> DEFINE x == <<c, p.number>>
           P == Ended({"pending"})
<1>1. Settled(fates[c], fates'[c], p.number, fate, clock) /\ \A d \in Channels : d # c => fates'[d] = fates[d]
  BY Settles
<1>2. x \in P /\ x \notin Told
  BY DEF Ended, Told, Open
<1>3. P' = P \ {x}
  BY <1>1 DEF Ended, Settled, Open
<1>4. Told' = IF fate \in {"delivered", "suppressed"} THEN Told \cup {x} ELSE Told
  <2>1. ASSUME NEW y PROVE y \in Told' <=> y \in Told \/ (fate \in {"delivered", "suppressed"} /\ y = x)
    BY <1>1 DEF Told, Ended, Settled, Open
  <2> QED BY <2>1
<1> HIDE DEF P, x
<1>5. IsFiniteSet(P) /\ IsFiniteSet(Told)
  BY DEF CountsFit, P
<1>6. IsFiniteSet(P') /\ Cardinality(P') \in Nat /\ Cardinality(P) = Cardinality(P') + 1
  BY <1>2, <1>3, <1>5, OneLess
<1>7. Cardinality(P') = Cardinality(P) - 1 /\ Cardinality(P) \in Nat /\ Cardinality(Told) \in Nat
  BY <1>5, <1>6, FS_CardinalityType
<1>8. IsFiniteSet(Told') /\ Cardinality(Told') = Cardinality(Told) + (IF fate \in {"delivered", "suppressed"} THEN 1 ELSE 0)
  <2>1. CASE fate \in {"delivered", "suppressed"}
    BY <1>2, <1>4, <1>5, <2>1, OneMore
  <2>2. CASE fate \notin {"delivered", "suppressed"}
    BY <1>4, <1>5, <1>7, <2>2
  <2> QED BY <2>1, <2>2
<1> QED BY <1>6, <1>7, <1>8 DEF P

(* What a new row does to them.                                            *)
LEMMA EndsGrow ==
  ASSUME TypesFit, CountsFit, NEW c \in Channels, NEW r \in FateRow, r.fate \in {"pending", "dropped"},
         fates' = [fates EXCEPT ![c] = Append(fates[c], r)]
  PROVE  /\ IsFiniteSet(Ended({"pending"})') /\ IsFiniteSet(Told')
         /\ Cardinality(Ended({"pending"})') = Cardinality(Ended({"pending"})) + (IF r.fate = "pending" THEN 1 ELSE 0)
         /\ Cardinality(Ended({"pending"})) \in Nat /\ Told' = Told
<1> DEFINE f == fates[c]
           g == Append(f, r)
           n == Len(f) + 1
           x == <<c, n>>
           P == Ended({"pending"})
<1>1. f \in Seq(FateRow)
  BY DEF TypesFit
<1>2. /\ \A k \in DOMAIN f : k \in DOMAIN g /\ g[k] = f[k]
      /\ g[n] = r /\ n \in DOMAIN g /\ n \notin DOMAIN f /\ \A k \in DOMAIN g : k \in DOMAIN f \/ k = n
  BY <1>1, AppendIs
<1>3. fates'[c] = g /\ \A d \in Channels : d # c => fates'[d] = fates[d]
  BY DEF TypesFit
<1> HIDE DEF g, n
<1>4. Told' = Told
  <2>1. ASSUME NEW y PROVE y \in Told' <=> y \in Told
    BY <1>2, <1>3 DEF Told, Ended
  <2> QED BY <2>1
<1>5. x \notin P
  BY <1>2 DEF Ended
<1>6. P' = IF r.fate = "pending" THEN P \cup {x} ELSE P
  <2>1. ASSUME NEW y PROVE y \in P' <=> y \in P \/ (r.fate = "pending" /\ y = x)
    BY <1>2, <1>3 DEF Ended
  <2> QED BY <2>1
<1> HIDE DEF P, x
<1>7. IsFiniteSet(P) /\ Cardinality(P) \in Nat /\ IsFiniteSet(Told)
  BY FS_CardinalityType DEF CountsFit, P
<1>8. IsFiniteSet(P') /\ Cardinality(P') = Cardinality(P) + (IF r.fate = "pending" THEN 1 ELSE 0)
  <2>1. CASE r.fate = "pending"
    BY <1>5, <1>6, <1>7, <2>1, OneMore
  <2>2. CASE r.fate # "pending"
    BY <1>6, <1>7, <2>2
  <2> QED BY <2>1, <2>2
<1> QED BY <1>4, <1>7, <1>8 DEF P

-------------------------------------------------------------------------------
(* Callers.                                                                *)
LEMMA PlaceFits ==
  ASSUME TypesFit, NEW t \in Client, NEW r \in CallerRow, Place(t, r)
  PROVE  caller' \in [Client -> CallerRow]
BY DEF Place, TypesFit

(* What a caller carries.                                                  *)
LEMMA BearersAre ==
  ASSUME TypesFit, NEW t \in Client, caller[t].at \in Carrying
  PROVE  /\ caller[t] \in Bearers /\ caller[t].channel \in Channels /\ caller[t].held \in Pending
         /\ caller[t].held.event = caller[t].event
         /\ <<t, caller[t].held, caller[t].at>> \in InHands(caller[t].channel)
         /\ \A u \in Carrying \cup {"send"} : [caller[t] EXCEPT !.at = u] \in Bearers
<1>1. caller[t] \in CallerRow
  BY DEF TypesFit
<1>2. caller[t] \in Bearers
  BY <1>1 DEF CallerRow, Carrying
<1>3. \A u \in Carrying \cup {"send"} : [caller[t] EXCEPT !.at = u] \in Bearers
  BY <1>2 DEF Bearers
<1> QED BY <1>2, <1>3 DEF Bearers, InHands

LEMMA CountersMove ==
  ASSUME NEW s \in Counters, NEW i \in Int, NEW j \in Int, NEW k \in Int
  PROVE  /\ [s EXCEPT !.pending = i, !.dropped = j] \in Counters
         /\ [s EXCEPT !.pending = i, !.completed = j] \in Counters
         /\ [s EXCEPT !.pending = i, !.completed = j, !.failed = k] \in Counters
         /\ [s EXCEPT !.pending = i, !.completed = j, !.suppressed = k] \in Counters
         /\ [s EXCEPT !.accepted = i, !.dropped = j] \in Counters
         /\ [s EXCEPT !.accepted = i, !.pending = j] \in Counters
BY DEF Counters

(* The counters after each end.                                            *)
LEMMA FinishCounts ==
  ASSUME NEW s \in Counters
  PROVE  /\ Finish(s, TRUE, FALSE, FALSE) = [s EXCEPT !.pending = @ - 1, !.dropped = @ + 1]
         /\ Finish(s, FALSE, TRUE, FALSE) = [s EXCEPT !.pending = @ - 1, !.completed = @ + 1, !.failed = @ + 1]
         /\ Finish(s, FALSE, FALSE, TRUE) = [s EXCEPT !.pending = @ - 1, !.completed = @ + 1, !.suppressed = @ + 1]
         /\ Finish(s, FALSE, FALSE, FALSE) = [s EXCEPT !.pending = @ - 1, !.completed = @ + 1]
         /\ {Finish(s, TRUE, FALSE, FALSE), Finish(s, FALSE, TRUE, FALSE),
             Finish(s, FALSE, FALSE, TRUE), Finish(s, FALSE, FALSE, FALSE)} \subseteq Counters
<1>1. Finish(s, TRUE, FALSE, FALSE) = [s EXCEPT !.pending = @ - 1, !.dropped = @ + 1]
  BY DEF Finish, Counters
<1>2. Finish(s, FALSE, TRUE, FALSE) = [s EXCEPT !.pending = @ - 1, !.completed = @ + 1, !.failed = @ + 1]
  BY DEF Finish, Counters
<1>3. Finish(s, FALSE, FALSE, TRUE) = [s EXCEPT !.pending = @ - 1, !.completed = @ + 1, !.suppressed = @ + 1]
  BY DEF Finish, Counters
<1>4. Finish(s, FALSE, FALSE, FALSE) = [s EXCEPT !.pending = @ - 1, !.completed = @ + 1]
  BY DEF Finish, Counters
<1>5. s.pending - 1 \in Int /\ s.dropped + 1 \in Int /\ s.completed + 1 \in Int
      /\ s.failed + 1 \in Int /\ s.suppressed + 1 \in Int
  BY DEF Counters
<1>6. /\ [s EXCEPT !.pending = @ - 1, !.dropped = @ + 1] \in Counters
      /\ [s EXCEPT !.pending = @ - 1, !.completed = @ + 1, !.failed = @ + 1] \in Counters
      /\ [s EXCEPT !.pending = @ - 1, !.completed = @ + 1, !.suppressed = @ + 1] \in Counters
      /\ [s EXCEPT !.pending = @ - 1, !.completed = @ + 1] \in Counters
  BY <1>5, CountersMove
<1> QED BY <1>1, <1>2, <1>3, <1>4, <1>6

(* A caller's step, by what it does to the channels: it leaves them alone, *)
(* reserves, or moves what it reserved.                                    *)
LEMMA CallerTypes ==
  ASSUME TypesFit, \A c \in Channels : ChannelFits(c), NEW t \in Client, Calling(t)
  PROVE  TypesFit'
<1>1. ASSUME NEW e \in Events, Begin(t, e) PROVE TypesFit'
  <2>1. [at |-> "send", event |-> e, left |-> {c \in Channels : Accepts(c, e)}] \in CallerRow
    BY DEF CallerRow
  <2> QED BY <1>1, <2>1, PlaceFits DEF Begin, TypesFit
<1>2. ASSUME NEW c \in Channels, Reserve(t, c) PROVE TypesFit'
  <2> DEFINE e == caller[t].event
             n == Len(fates[c]) + 1
             p == [event |-> e, number |-> n]
             left == caller[t].left \ {c}
  <2>1. e \in Events /\ left \in SUBSET Channels
    BY <1>2 DEF Reserve, TypesFit, CallerRow, Bearers
  <2>2. fates[c] \in Seq(FateRow) /\ n \in Nat
    BY LenProperties DEF TypesFit
  <2>3. p \in Pending
    BY <2>1, <2>2 DEF Pending
  <2> HIDE DEF n
  <2>4. \A fate \in {"dropped", "pending"} : [key |-> e.key, at |-> clock, fate |-> fate] \in FateRow
    BY <2>1 DEF FateRow, Keys, TypesFit
  <2>5. fates' \in [Channels -> Seq(FateRow)]
    <3>1. PICK r \in FateRow : fates' = [fates EXCEPT ![c] = Append(@, r)]
      BY <1>2, <2>4 DEF Reserve
    <3>2. Append(fates[c], r) \in Seq(FateRow)
      BY <2>2, AppendProperties
    <3> QED BY <3>1, <3>2 DEF TypesFit
  <2>6. /\ [at |-> "send", event |-> e, left |-> left] \in CallerRow
        /\ [at |-> "try", event |-> e, left |-> left, channel |-> c, held |-> p] \in CallerRow
    BY <2>1, <2>3 DEF CallerRow, Bearers, Carrying
  <2>7. caller' \in [Client -> CallerRow]
    BY <1>2, <2>6, PlaceFits DEF Reserve, n
  <2>8. e.size \in Nat
    BY <2>1, DispatchAssumption
  <2>9. stats' \in Counters
    <3>1. /\ [stats EXCEPT !.accepted = @ + 1, !.dropped = @ + 1] \in Counters
          /\ [stats EXCEPT !.accepted = @ + 1, !.pending = @ + 1] \in Counters
      <4>1. stats \in Counters /\ stats.accepted + 1 \in Int /\ stats.dropped + 1 \in Int /\ stats.pending + 1 \in Int
        BY DEF TypesFit, Counters
      <4> QED BY <4>1, CountersMove
    <3> QED BY <1>2, <3>1 DEF Reserve, TurnedAway
  <2>10. bytes' \in [Channels -> Int]
    BY <1>2, <2>8, SMTT(30) DEF Reserve, TypesFit
  <2> QED BY <1>2, <2>5, <2>7, <2>9, <2>10 DEF Reserve, TypesFit
<1>3. CASE TrySend(t)
  <2> DEFINE c == caller[t].channel
  <2>1. /\ c \in Channels /\ caller[t].held \in Pending
        /\ \A u \in Carrying \cup {"send"} : [caller[t] EXCEPT !.at = u] \in CallerRow
    BY <1>3, BearersAre DEF TrySend, Carrying, CallerRow
  <2>2. caller' \in [Client -> CallerRow]
    BY <1>3, <2>1, PlaceFits DEF TrySend, Carrying
  <2>3. Append(inbox[c], caller[t].held) \in Seq(Pending)
    BY <2>1, AppendProperties DEF TypesFit
  <2>4. inbox' \in [Channels -> Seq(Pending)]
    BY <1>3, <2>1, <2>3 DEF TrySend, TypesFit
  <2> QED BY <1>3, <2>2, <2>4 DEF TrySend, TypesFit
<1>4. CASE RefusedBytes(t)
  <2>1. /\ caller[t].channel \in Channels /\ caller[t].event \in Events
        /\ \A u \in Carrying \cup {"send"} : [caller[t] EXCEPT !.at = u] \in CallerRow
    BY <1>4, BearersAre DEF RefusedBytes, Carrying, CallerRow, Bearers
  <2>2. caller' \in [Client -> CallerRow]
    BY <1>4, <2>1, PlaceFits DEF RefusedBytes, Carrying
  <2>3. caller[t].event.size \in Nat
    BY <2>1, DispatchAssumption
  <2> QED BY <1>4, <2>1, <2>2, <2>3 DEF RefusedBytes, TypesFit
<1>5. CASE RefusedCount(t)
  <2> DEFINE c == caller[t].channel
             p == caller[t].held
  <2>1. /\ c \in Channels /\ p \in Pending /\ <<t, p, "uncounted">> \in InHands(c)
        /\ \A u \in Carrying \cup {"send"} : [caller[t] EXCEPT !.at = u] \in CallerRow
    BY <1>5, BearersAre DEF RefusedCount, Carrying, CallerRow
  <2>2. caller' \in [Client -> CallerRow]
    BY <1>5, <2>1, PlaceFits DEF RefusedCount
  <2>3. Open(fates[c], p)
    BY <2>1 DEF ChannelFits, Kept, Fit
  <2>4. fates' \in [Channels -> Seq(FateRow)]
    BY <1>5, <2>1, <2>3, Settles DEF RefusedCount
  <2>5. stats' \in Counters
    BY <1>5, FinishCounts DEF RefusedCount, TypesFit
  <2> QED BY <1>5, <2>2, <2>4, <2>5 DEF RefusedCount, TypesFit
<1>6. CASE SendReturns(t) \/ CloseReturns(t) \/ CloseStores(t) \/ CloseCancels(t)
  <2>1. \A u \in {"idle", "close", "join"} : [at |-> u] \in CallerRow
    BY DEF CallerRow
  <2>2. caller' \in [Client -> CallerRow]
    BY <1>6, <2>1, PlaceFits DEF SendReturns, CloseReturns, CloseStores, CloseCancels
  <2> QED BY <1>6, <2>2 DEF SendReturns, CloseReturns, CloseStores, CloseCancels, TypesFit
<1>7. CASE Flush(t)
  BY <1>7 DEF Flush, TypesFit, Counters
<1> QED BY <1>1, <1>2, <1>3, <1>4, <1>5, <1>6, <1>7 DEF Calling

(* A channel that nothing touches.                                         *)
LEMMA ChannelStays ==
  ASSUME NEW c \in Channels, ChannelFits(c), InHands(c)' = InHands(c), inbox'[c] = inbox[c], fates'[c] = fates[c],
         worker'[c].held = worker[c].held, worker'[c].at = worker[c].at, bytes'[c] = bytes[c], sealed'[c] = sealed[c]
  PROVE  ChannelFits(c)'
BY DEF ChannelFits

LEMMA HandsStay ==
  ASSUME TypesFit, NEW t \in Client, NEW r, Place(t, r), caller[t].at \notin Carrying, r.at \notin Carrying, NEW c
  PROVE  InHands(c)' = InHands(c)
BY HandsMove DEF Mine

(* A caller goes on to r with what it carries, or puts it down.            *)
LEMMA HandsGoOn ==
  ASSUME TypesFit, NEW t \in Client, caller[t].at \in Carrying, NEW u, Place(t, [caller[t] EXCEPT !.at = u]),
         NEW c, c = caller[t].channel
  PROVE  /\ \A d : d # c => InHands(d)' = InHands(d)
         /\ InHands(c)' = (InHands(c) \ {<<t, caller[t].held, caller[t].at>>})
                            \cup (IF u \in Carrying THEN {<<t, caller[t].held, u>>} ELSE {})
<1> DEFINE r == [caller[t] EXCEPT !.at = u]
<1>1. caller[t] \in Bearers
  BY BearersAre
<1>2. r.at = u /\ r.channel = c /\ r.held = caller[t].held
  BY <1>1 DEF Bearers
<1> HIDE DEF r
<1>3. \A d : InHands(d)' = (InHands(d) \ Mine(t, caller[t], d)) \cup Mine(t, r, d)
  BY HandsMove DEF r
<1> QED BY <1>2, <1>3 DEF Mine

(* The bytes of a channel whose Pendings change.                           *)
LEMMA KeptIs ==
  ASSUME NEW q, NEW h, NEW a, NEW f, NEW C, NEW held, NEW shut, Kept(q, h, a, f, C, held, shut)
  PROVE  held \in Nat /\ Fit(q, h, a, f, C)
BY FS_CardinalityType DEF Kept

LEMMA CallerChannels ==
  ASSUME TypesFit, \A c \in Channels : ChannelFits(c), NEW t \in Client, Calling(t)
  PROVE  \A c \in Channels : ChannelFits(c)'
<1> DEFINE Goal == \A c \in Channels : ChannelFits(c)'
<1>1. ASSUME NEW e \in Events, Begin(t, e) PROVE Goal
  <2>1. \A c : InHands(c)' = InHands(c)
    BY <1>1, HandsStay DEF Begin, Carrying
  <2> QED BY <1>1, <2>1, ChannelStays DEF Begin
<1>2. ASSUME NEW c \in Channels, Reserve(t, c) PROVE Goal
  <2> DEFINE e == caller[t].event
             p == [event |-> e, number |-> Len(fates[c]) + 1]
             left == caller[t].left \ {c}
             q == inbox[c]
             h == worker[c].held
             a == worker[c].at
             f == fates[c]
             C == InHands(c)
             x == <<t, p, "try">>
  <2>1. e \in Events /\ e.size \in Nat /\ caller[t].at \notin Carrying /\ p \in Pending
    <3>1. e \in Events
      BY <1>2 DEF Reserve, TypesFit, CallerRow, Bearers
    <3>2. fates[c] \in Seq(FateRow) /\ Len(fates[c]) + 1 \in Nat
      BY LenProperties DEF TypesFit
    <3> QED BY <1>2, <3>1, <3>2, DispatchAssumption DEF Reserve, Carrying, Pending
  <2>2. PICK r \in FateRow :
          /\ r.key = e.key /\ r.fate = (IF closed \/ e.size > PendingBytes - bytes[c] THEN "dropped" ELSE "pending")
          /\ fates' = [fates EXCEPT ![c] = Append(f, r)]
    <3> DEFINE r == [key |-> e.key, at |-> clock,
                     fate |-> IF closed \/ e.size > PendingBytes - bytes[c] THEN "dropped" ELSE "pending"]
    <3>1. r \in FateRow
      BY <2>1 DEF FateRow, Keys, TypesFit
    <3> QED BY <1>2, <3>1 DEF Reserve
  <2>3. fates'[c] = Append(f, r) /\ \A d \in Channels : d # c => fates'[d] = fates[d]
    BY <2>2 DEF TypesFit
  <2>4. Kept(q, h, a, f, C, bytes[c], sealed[c])
    BY DEF ChannelFits
  <2>5. CASE closed \/ e.size > PendingBytes - bytes[c]
    <3>1. Place(t, [at |-> "send", event |-> e, left |-> left]) /\ UNCHANGED bytes
      BY <1>2, <2>5 DEF Reserve
    <3>2. \A d : InHands(d)' = InHands(d)
      BY <2>1, <3>1, HandsStay DEF Carrying
    <3>3. Kept(q, h, a, Append(f, r), C, bytes[c], sealed[c])
      BY <2>4, FatesGrow DEF Kept
    <3>4. ChannelFits(c)'
      BY <1>2, <2>3, <3>1, <3>2, <3>3 DEF Reserve, ChannelFits
    <3> QED BY <1>2, <2>3, <3>1, <3>2, <3>4, ChannelStays DEF Reserve
  <2>6. CASE ~(closed \/ e.size > PendingBytes - bytes[c])
    <3>1. /\ Place(t, [at |-> "try", event |-> e, left |-> left, channel |-> c, held |-> p])
          /\ bytes' = [bytes EXCEPT ![c] = @ + e.size]
      BY <1>2, <2>6 DEF Reserve
    <3>2. InHands(c)' = C \cup {x} /\ \A d \in Channels : d # c => InHands(d)' = InHands(d)
      <4> DEFINE r2 == [at |-> "try", event |-> e, left |-> left, channel |-> c, held |-> p]
      <4>1. \A d : Mine(t, caller[t], d) = {} /\ Mine(t, r2, d) = IF d = c THEN {x} ELSE {}
        BY <2>1 DEF Carrying, Mine
      <4> HIDE DEF r2
      <4>2. \A d : InHands(d)' = (InHands(d) \ Mine(t, caller[t], d)) \cup Mine(t, r2, d)
        BY <3>1, HandsMove DEF r2
      <4> QED BY <4>1, <4>2
    <3>3. /\ bytes'[c] = bytes[c] + e.size /\ bytes[c] \in Nat /\ bytes'[c] <= PendingBytes
          /\ \A d \in Channels : d # c => bytes'[d] = bytes[d]
      BY <2>1, <2>4, <2>6, <3>1, KeptIs, Limits DEF TypesFit
    <3>4. /\ Fit(q, h, a, Append(f, r), C \cup {x})
          /\ Holding(q, h, a, C \cup {x}) = Holding(q, h, a, C) \cup {p}
          /\ p \notin Holding(q, h, a, C)
      <4>1. r.fate = "pending" /\ r.key = e.key
        BY <2>2, <2>6
      <4>2. Fit(q, h, a, f, C)
        BY <2>4, KeptIs
      <4>3. /\ x \in Client \X Pending \X Carrying /\ x[2] = p /\ x[3] = "try"
            /\ p.number = Len(f) + 1 /\ p.event = e
        BY <2>1 DEF Carrying
      <4> HIDE DEF e, p, x, q, h, a, f, C
      <4>4. Arrives(f, r, x)
        BY <4>1, <4>3 DEF Arrives
      <4> QED BY <4>2, <4>3, <4>4, Reserving
    <3> HIDE DEF q, h, a, f, C, x, p
    <3>5. /\ IsFiniteSet(Bytes(Holding(q, h, a, C) \cup {p}))
          /\ Cardinality(Bytes(Holding(q, h, a, C) \cup {p})) = bytes[c] + p.event.size
      BY <2>1, <2>4, <3>4, BytesGrow DEF Kept
    <3>6. Kept(q, h, a, Append(f, r), C \cup {x}, bytes'[c], sealed[c])
      BY <2>4, <3>3, <3>4, <3>5 DEF Kept, p
    <3>7. ChannelFits(c)'
      BY <1>2, <2>3, <3>2, <3>6 DEF Reserve, ChannelFits, q, h, a, f
    <3> QED BY <1>2, <2>3, <3>2, <3>3, <3>7, ChannelStays DEF Reserve
  <2> QED BY <2>5, <2>6
<1>3. ASSUME caller[t].at \in Carrying, TrySend(t) \/ RefusedBytes(t) \/ RefusedCount(t) PROVE Goal
  <2>0. PICK c, p : c = caller[t].channel /\ p = caller[t].held
    OBVIOUS
  <2> DEFINE q == inbox[c]
             h == worker[c].held
             a == worker[c].at
             f == fates[c]
             C == InHands(c)
             s == caller[t].at
             x == <<t, p, s>>
  <2>1. c \in Channels /\ p \in Pending /\ p.event = caller[t].event /\ x \in C /\ x[2] = p /\ x[3] = s
    BY <1>3, <2>0, BearersAre
  <2>2. Kept(q, h, a, f, C, bytes[c], sealed[c]) /\ Fit(q, h, a, f, C) /\ bytes[c] \in Nat
    BY <2>1, KeptIs DEF ChannelFits
  <2>3. ASSUME NEW u, Place(t, [caller[t] EXCEPT !.at = u])
        PROVE  /\ \A d \in Channels : d # c => InHands(d)' = InHands(d)
               /\ InHands(c)' = (C \ {x}) \cup (IF u \in Carrying THEN {<<t, p, u>>} ELSE {})
    BY <1>3, <2>0, <2>3, HandsGoOn
  <2>4. CASE TrySend(t) /\ Len(q) < QueueSize /\ ~sealed[c]
    <3>0. Place(t, [caller[t] EXCEPT !.at = "send"])
      BY <2>0, <2>4 DEF TrySend
    <3>1. inbox' = [inbox EXCEPT ![c] = Append(@, p)] /\ x[3] = "try"
      BY <2>0, <2>1, <2>4 DEF TrySend
    <3>2. InHands(c)' = C \ {x} /\ \A d \in Channels : d # c => InHands(d)' = InHands(d)
      BY <2>3, <3>0 DEF Carrying
    <3>3. inbox'[c] = Append(q, p) /\ \A d \in Channels : d # c => inbox'[d] = inbox[d]
      BY <2>1, <3>1 DEF TypesFit
    <3>4. /\ Fit(Append(q, p), h, a, f, C \ {x})
          /\ Holding(Append(q, p), h, a, C \ {x}) = Holding(q, h, a, C)
      <4> HIDE DEF x, q, h, a, f, C
      <4>1. Fit(q, h, a, f, C) /\ x \in C /\ x[3] = "try"
        BY <2>1, <2>2, <3>1
      <4>2. /\ Fit(Append(q, x[2]), h, a, f, C \ {x})
            /\ Holding(Append(q, x[2]), h, a, C \ {x}) = Holding(q, h, a, C)
        BY <4>1, Queueing
      <4>3. x[2] = p
        BY <2>1
      <4> QED BY <4>2, <4>3
    <3> HIDE DEF q, h, a, f, C, x
    <3>5. Kept(Append(q, p), h, a, f, C \ {x}, bytes[c], sealed[c])
      BY <2>2, <2>4, <3>4 DEF Kept
    <3>6. ChannelFits(c)'
      BY <2>1, <2>4, <3>2, <3>3, <3>5 DEF TrySend, ChannelFits, h, a, f
    <3> QED BY <2>4, <3>2, <3>3, <3>6, ChannelStays DEF TrySend
  <2>5. CASE TrySend(t) /\ ~(Len(q) < QueueSize /\ ~sealed[c])
    <3> DEFINE D == (C \ {x}) \cup {<<t, p, "refused">>}
    <3>1. Place(t, [caller[t] EXCEPT !.at = "refused"]) /\ inbox' = inbox /\ s = "try"
      BY <2>0, <2>5 DEF TrySend
    <3>2. InHands(c)' = D /\ \A d \in Channels : d # c => InHands(d)' = InHands(d)
      BY <2>3, <3>1 DEF Carrying
    <3>3. Fit(q, h, a, f, D) /\ Holding(q, h, a, D) = Holding(q, h, a, C)
      <4>1. PICK z : z = <<t, p, "refused">>
        OBVIOUS
      <4>2. x = <<t, p, s>> /\ x \in C /\ s = "try" /\ "refused" \in Carrying /\ Fit(q, h, a, f, C)
        BY <2>1, <2>2, <3>1 DEF Carrying
      <4>3. D = (C \ {x}) \cup {z}
        BY <4>1
      <4> HIDE DEF q, h, a, f, C, D, x, s
      <4> QED BY <4>1, <4>2, <4>3, CarryingOn
    <3> HIDE DEF q, h, a, f, C, D
    <3>4. Kept(q, h, a, f, D, bytes[c], sealed[c])
      BY <2>2, <3>3 DEF Kept
    <3>5. ChannelFits(c)'
      BY <2>1, <2>5, <3>1, <3>2, <3>4 DEF TrySend, ChannelFits, q, h, a, f
    <3> QED BY <2>5, <3>1, <3>2, <3>5, ChannelStays DEF TrySend
  <2>6. CASE RefusedBytes(t)
    <3> DEFINE D == (C \ {x}) \cup {<<t, p, "uncounted">>}
    <3>1. Place(t, [caller[t] EXCEPT !.at = "uncounted"]) /\ s = "refused"
          /\ bytes' = [bytes EXCEPT ![c] = @ - p.event.size]
      BY <2>0, <2>1, <2>6 DEF RefusedBytes
    <3>2. InHands(c)' = D /\ \A d \in Channels : d # c => InHands(d)' = InHands(d)
      BY <2>3, <3>1 DEF Carrying
    <3>3. /\ Fit(q, h, a, f, D) /\ Holding(q, h, a, D) = Holding(q, h, a, C) \ {p}
          /\ p \in Holding(q, h, a, C)
      <4>1. PICK z : z = <<t, p, "uncounted">>
        OBVIOUS
      <4>2. x = <<t, p, s>> /\ x \in C /\ s = "refused" /\ "uncounted" \in Carrying /\ Fit(q, h, a, f, C)
        BY <2>1, <2>2, <3>1 DEF Carrying
      <4>3. D = (C \ {x}) \cup {z}
        BY <4>1
      <4> HIDE DEF q, h, a, f, C, D, x, s
      <4> QED BY <4>1, <4>2, <4>3, CarryingOn
    <3>4. bytes'[c] = bytes[c] - p.event.size /\ \A d \in Channels : d # c => bytes'[d] = bytes[d]
      BY <2>1, <3>1 DEF TypesFit
    <3> HIDE DEF q, h, a, f, C, D
    <3>5. /\ IsFiniteSet(Bytes(Holding(q, h, a, C) \ {p})) /\ p.event.size \in Nat
          /\ Cardinality(Bytes(Holding(q, h, a, C) \ {p})) = bytes[c] - p.event.size
      BY <2>1, <2>2, <3>3, BytesShrink DEF Kept
    <3>6. bytes'[c] <= PendingBytes
      BY <2>2, <3>4, <3>5, Limits DEF Kept
    <3>7. Kept(q, h, a, f, D, bytes'[c], sealed[c])
      BY <2>2, <3>3, <3>4, <3>5, <3>6 DEF Kept
    <3>8. ChannelFits(c)'
      BY <2>1, <2>6, <3>2, <3>7 DEF RefusedBytes, ChannelFits, q, h, a, f
    <3> QED BY <2>6, <3>2, <3>4, <3>8, ChannelStays DEF RefusedBytes
  <2>7. CASE RefusedCount(t)
    <3>1. Place(t, [caller[t] EXCEPT !.at = "send"]) /\ s = "uncounted" /\ Fate(c, p, "dropped")
      BY <2>0, <2>7 DEF RefusedCount
    <3>2. InHands(c)' = C \ {x} /\ \A d \in Channels : d # c => InHands(d)' = InHands(d)
      BY <2>3, <3>1 DEF Carrying
    <3>3. Open(f, p)
      BY <2>1, <2>2 DEF Fit
    <3>4. Settled(f, fates'[c], p.number, "dropped", clock) /\ \A d \in Channels : d # c => fates'[d] = fates[d]
      BY <2>1, <3>1, <3>3, Settles
    <3>5. Fit(q, h, a, fates'[c], C \ {x}) /\ Holding(q, h, a, C \ {x}) = Holding(q, h, a, C)
      BY <2>1, <2>2, <3>1, <3>4, CallerSettles
    <3> HIDE DEF q, h, a, f, C, x
    <3>6. Kept(q, h, a, fates'[c], C \ {x}, bytes[c], sealed[c])
      BY <2>2, <3>5 DEF Kept
    <3>7. ChannelFits(c)'
      BY <2>1, <2>7, <3>2, <3>6 DEF RefusedCount, ChannelFits, q, h, a
    <3> QED BY <2>7, <3>2, <3>4, <3>7, ChannelStays DEF RefusedCount
  <2> QED BY <1>3, <2>4, <2>5, <2>6, <2>7
<1>4. CASE SendReturns(t) \/ CloseReturns(t) \/ CloseStores(t) \/ CloseCancels(t)
  <2>1. \A c : InHands(c)' = InHands(c)
    BY <1>4, HandsStay DEF SendReturns, CloseReturns, CloseStores, CloseCancels, Carrying
  <2> QED BY <1>4, <2>1, ChannelStays DEF SendReturns, CloseReturns, CloseStores, CloseCancels
<1>5. CASE Flush(t)
  <2>1. \A c : InHands(c)' = InHands(c)
    BY <1>5 DEF Flush, InHands
  <2> QED BY <1>5, <2>1, ChannelStays DEF Flush
<1>6. TrySend(t) \/ RefusedBytes(t) \/ RefusedCount(t) => caller[t].at \in Carrying
  BY DEF TrySend, RefusedBytes, RefusedCount, Carrying
<1> QED BY <1>1, <1>2, <1>3, <1>4, <1>5, <1>6 DEF Calling

LEMMA CountsStay ==
  ASSUME CountsFit, UNCHANGED <<stats, fates, flushed>>
  PROVE  CountsFit'
<1>1. Ended({"pending"})' = Ended({"pending"}) /\ Told' = Told
  BY DEF Ended, Told
<1> QED BY <1>1 DEF CountsFit

(* The counters after an end that Finish counts.                           *)
LEMMA CountsMove ==
  ASSUME TypesFit, CountsFit, NEW c \in Channels, NEW p, Open(fates[c], p), flushed' = flushed,
         NEW fate \in {"dropped", "suppressed", "delivered", "failed"}, Fate(c, p, fate),
         \/ fate = "dropped" /\ stats' = Finish(stats, TRUE, FALSE, FALSE)
         \/ fate = "failed" /\ stats' = Finish(stats, FALSE, TRUE, FALSE)
         \/ fate = "suppressed" /\ stats' = Finish(stats, FALSE, FALSE, TRUE)
         \/ fate = "delivered" /\ stats' = Finish(stats, FALSE, FALSE, FALSE)
  PROVE  CountsFit' /\ stats' \in Counters
<1>1. /\ IsFiniteSet(Ended({"pending"})') /\ IsFiniteSet(Told')
      /\ Cardinality(Ended({"pending"})') = Cardinality(Ended({"pending"})) - 1
      /\ Cardinality(Ended({"pending"})) \in Nat /\ Cardinality(Told) \in Nat
      /\ Cardinality(Told') = Cardinality(Told) + (IF fate \in {"delivered", "suppressed"} THEN 1 ELSE 0)
  BY EndsMove
<1>2. stats \in Counters /\ flushed \in Int
  BY DEF TypesFit
<1>3. stats' \in Counters
  BY <1>2, FinishCounts
<1>4. /\ stats.pending \in Int /\ stats.accepted \in Int /\ stats.dropped \in Int
      /\ stats.completed \in Int /\ stats.failed \in Int
  BY <1>2 DEF Counters
<1>5. /\ stats'.pending = stats.pending - 1 /\ stats'.accepted = stats.accepted
      /\ stats'.dropped = stats.dropped + (IF fate = "dropped" THEN 1 ELSE 0)
      /\ stats'.completed = stats.completed + (IF fate = "dropped" THEN 0 ELSE 1)
      /\ stats'.failed = stats.failed + (IF fate = "failed" THEN 1 ELSE 0)
  <2>1. CASE fate = "dropped" /\ stats' = Finish(stats, TRUE, FALSE, FALSE)
    <3>1. stats' = [stats EXCEPT !.pending = @ - 1, !.dropped = @ + 1]
      BY <1>2, <2>1, FinishCounts
    <3>2. /\ stats'.pending = stats.pending - 1 /\ stats'.accepted = stats.accepted /\ stats'.dropped = stats.dropped + 1
          /\ stats'.completed = stats.completed /\ stats'.failed = stats.failed
      BY <1>2, <3>1 DEF Counters
    <3>3. (IF fate = "dropped" THEN 1 ELSE 0) = 1 /\ (IF fate = "failed" THEN 1 ELSE 0) = 0
          /\ (IF fate = "dropped" THEN 0 ELSE 1) = 0
      BY <2>1
    <3> QED BY <1>4, <3>2, <3>3
  <2>2. CASE fate = "failed" /\ stats' = Finish(stats, FALSE, TRUE, FALSE)
    <3>1. stats' = [stats EXCEPT !.pending = @ - 1, !.completed = @ + 1, !.failed = @ + 1]
      BY <1>2, <2>2, FinishCounts
    <3>2. /\ stats'.pending = stats.pending - 1 /\ stats'.accepted = stats.accepted /\ stats'.dropped = stats.dropped
          /\ stats'.completed = stats.completed + 1 /\ stats'.failed = stats.failed + 1
      BY <1>2, <3>1 DEF Counters
    <3>3. (IF fate = "dropped" THEN 1 ELSE 0) = 0 /\ (IF fate = "failed" THEN 1 ELSE 0) = 1
          /\ (IF fate = "dropped" THEN 0 ELSE 1) = 1
      BY <2>2
    <3> QED BY <1>4, <3>2, <3>3
  <2>3. CASE fate = "suppressed" /\ stats' = Finish(stats, FALSE, FALSE, TRUE)
    <3>1. stats' = [stats EXCEPT !.pending = @ - 1, !.completed = @ + 1, !.suppressed = @ + 1]
      BY <1>2, <2>3, FinishCounts
    <3>2. /\ stats'.pending = stats.pending - 1 /\ stats'.accepted = stats.accepted /\ stats'.dropped = stats.dropped
          /\ stats'.completed = stats.completed + 1 /\ stats'.failed = stats.failed
      BY <1>2, <3>1 DEF Counters
    <3>3. (IF fate = "dropped" THEN 1 ELSE 0) = 0 /\ (IF fate = "failed" THEN 1 ELSE 0) = 0
          /\ (IF fate = "dropped" THEN 0 ELSE 1) = 1
      BY <2>3
    <3> QED BY <1>4, <3>2, <3>3
  <2>4. CASE fate = "delivered" /\ stats' = Finish(stats, FALSE, FALSE, FALSE)
    <3>1. stats' = [stats EXCEPT !.pending = @ - 1, !.completed = @ + 1]
      BY <1>2, <2>4, FinishCounts
    <3>2. /\ stats'.pending = stats.pending - 1 /\ stats'.accepted = stats.accepted /\ stats'.dropped = stats.dropped
          /\ stats'.completed = stats.completed + 1 /\ stats'.failed = stats.failed
      BY <1>2, <3>1 DEF Counters
    <3>3. (IF fate = "dropped" THEN 1 ELSE 0) = 0 /\ (IF fate = "failed" THEN 1 ELSE 0) = 0
          /\ (IF fate = "dropped" THEN 0 ELSE 1) = 1
      BY <2>4
    <3> QED BY <1>4, <3>2, <3>3
  <2> QED BY <2>1, <2>2, <2>3, <2>4
<1>6. /\ stats.pending = Cardinality(Ended({"pending"}))
      /\ stats.completed = Cardinality(Told) + stats.failed
      /\ stats.accepted = stats.pending + stats.completed + stats.dropped
      /\ flushed <= Cardinality(Told)
  BY DEF CountsFit
<1>7. /\ stats'.pending = Cardinality(Ended({"pending"})')
      /\ stats'.completed = Cardinality(Told') + stats'.failed
      /\ stats'.accepted = stats'.pending + stats'.completed + stats'.dropped
      /\ flushed' <= Cardinality(Told')
  <2>1. CASE fate = "dropped"
    BY <1>1, <1>2, <1>4, <1>5, <1>6, <2>1
  <2>2. CASE fate = "failed"
    BY <1>1, <1>2, <1>4, <1>5, <1>6, <2>2
  <2>3. CASE fate \in {"suppressed", "delivered"}
    BY <1>1, <1>2, <1>4, <1>5, <1>6, <2>3
  <2> QED BY <2>1, <2>2, <2>3
<1> QED BY <1>1, <1>3, <1>7 DEF CountsFit

LEMMA CallerCounts ==
  ASSUME TypesFit, CountsFit, \A c \in Channels : ChannelFits(c), NEW t \in Client, Calling(t)
  PROVE  CountsFit'
<1>1. ASSUME NEW c \in Channels, Reserve(t, c) PROVE CountsFit'
  <2> DEFINE e == caller[t].event
  <2>1. e \in Events
    BY <1>1 DEF Reserve, TypesFit, CallerRow, Bearers
  <2>2. PICK r \in FateRow :
          /\ r.fate = (IF closed \/ e.size > PendingBytes - bytes[c] THEN "dropped" ELSE "pending")
          /\ fates' = [fates EXCEPT ![c] = Append(fates[c], r)]
    <3> DEFINE r == [key |-> e.key, at |-> clock,
                     fate |-> IF closed \/ e.size > PendingBytes - bytes[c] THEN "dropped" ELSE "pending"]
    <3>1. r \in FateRow
      BY <2>1 DEF FateRow, Keys, TypesFit
    <3> QED BY <1>1, <3>1 DEF Reserve
  <2>3. /\ IsFiniteSet(Ended({"pending"})') /\ IsFiniteSet(Told') /\ Told' = Told
        /\ Cardinality(Ended({"pending"})') = Cardinality(Ended({"pending"})) + (IF r.fate = "pending" THEN 1 ELSE 0)
        /\ Cardinality(Ended({"pending"})) \in Nat
    BY <2>2, EndsGrow
  <2>4. stats \in Counters
    BY DEF TypesFit
  <2>5. CASE closed \/ e.size > PendingBytes - bytes[c]
    <3>1. stats' = [stats EXCEPT !.accepted = @ + 1, !.dropped = @ + 1] /\ flushed' = flushed
      BY <1>1, <2>5 DEF Reserve, TurnedAway
    <3>2. /\ stats'.accepted = stats.accepted + 1 /\ stats'.dropped = stats.dropped + 1
          /\ stats'.pending = stats.pending /\ stats'.completed = stats.completed /\ stats'.failed = stats.failed
      BY <2>4, <3>1 DEF Counters
    <3> QED BY <2>2, <2>3, <2>4, <2>5, <3>1, <3>2 DEF CountsFit, Counters
  <2>6. CASE ~(closed \/ e.size > PendingBytes - bytes[c])
    <3>1. stats' = [stats EXCEPT !.accepted = @ + 1, !.pending = @ + 1] /\ flushed' = flushed
      BY <1>1, <2>6 DEF Reserve
    <3>2. /\ stats'.accepted = stats.accepted + 1 /\ stats'.dropped = stats.dropped
          /\ stats'.pending = stats.pending + 1 /\ stats'.completed = stats.completed /\ stats'.failed = stats.failed
      BY <2>4, <3>1 DEF Counters
    <3> QED BY <2>2, <2>3, <2>4, <2>6, <3>1, <3>2 DEF CountsFit, Counters
  <2> QED BY <2>5, <2>6
<1>2. CASE RefusedCount(t)
  <2>1. PICK c \in Channels, p \in Pending : c = caller[t].channel /\ p = caller[t].held /\ <<t, p, "uncounted">> \in InHands(c)
    BY <1>2, BearersAre DEF RefusedCount, Carrying
  <2>2. Open(fates[c], p)
    BY <2>1 DEF ChannelFits, Kept, Fit
  <2>3. Fate(c, p, "dropped") /\ stats' = Finish(stats, TRUE, FALSE, FALSE) /\ flushed' = flushed
    BY <1>2, <2>1 DEF RefusedCount
  <2> QED BY <2>2, <2>3, CountsMove
<1>3. CASE Flush(t)
  <2>1. /\ UNCHANGED <<stats, fates>> /\ flushed' = stats.accepted
        /\ stats.pending = 0 /\ stats.failed = 0 /\ stats.dropped = 0
    BY <1>3 DEF Flush
  <2>2. Ended({"pending"})' = Ended({"pending"}) /\ Told' = Told
    BY <2>1 DEF Ended, Told
  <2>3. Cardinality(Told) \in Nat /\ stats.completed \in Int
    BY FS_CardinalityType DEF CountsFit, TypesFit, Counters
  <2>4. flushed' <= Cardinality(Told)
    BY <2>1, <2>3 DEF CountsFit
  <2> QED BY <2>1, <2>2, <2>4 DEF CountsFit
<1>4. CASE \/ \E e \in Events : Begin(t, e)
           \/ TrySend(t) \/ RefusedBytes(t) \/ SendReturns(t) \/ CloseStores(t) \/ CloseCancels(t) \/ CloseReturns(t)
  <2>1. UNCHANGED <<stats, fates, flushed>>
    BY <1>4 DEF Begin, TrySend, RefusedBytes, SendReturns, CloseStores, CloseCancels, CloseReturns
  <2> QED BY <2>1, CountsStay
<1> QED BY <1>1, <1>2, <1>3, <1>4 DEF Calling

-------------------------------------------------------------------------------
(* What has happened stays.                                                *)

(* From f to g what has ended stays, and no suppression is new.            *)
Keeps(f, g) ==
  /\ \A n \in DOMAIN f : f[n].fate # "pending" => n \in DOMAIN g /\ g[n] = f[n]
  /\ \A n \in DOMAIN g : g[n].fate = "suppressed" => n \in DOMAIN f /\ g[n] = f[n]

LEMMA MemoryStays ==
  ASSUME NEW c \in Channels, MemoryFits(c), worker'[c].dedup \subseteq worker[c].dedup, Keeps(fates[c], fates'[c]),
         clock \in Nat, clock' \in Nat, clock <= clock', TypesFit
  PROVE  MemoryFits(c)'
<1> DEFINE f == fates[c]
           g == fates'[c]
<1>1. ASSUME NEW k \in DOMAIN f, f[k].fate = "delivered" PROVE k \in DOMAIN g /\ g[k] = f[k]
  BY <1>1 DEF Keeps
<1>2. ASSUME NEW d \in worker'[c].dedup PROVE d.at <= clock' /\ Delivery(g, d.key, d.at)
  <2>1. d.at <= clock /\ Delivery(f, d.key, d.at) /\ d.at \in Nat
    BY DEF MemoryFits, TypesFit, WorkerRow
  <2> QED BY <1>1, <2>1 DEF Delivery
<1>3. Justified(g)
  <2> SUFFICES ASSUME NEW n \in DOMAIN g, g[n].fate = "suppressed"
               PROVE  \E k \in DOMAIN g :
                        g[k].fate = "delivered" /\ g[k].key = g[n].key /\ g[n].at - g[k].at \in 0 .. DedupWindow - 1
    BY DEF Justified
  <2>1. n \in DOMAIN f /\ g[n] = f[n]
    BY DEF Keeps
  <2>2. PICK k \in DOMAIN f :
          f[k].fate = "delivered" /\ f[k].key = f[n].key /\ f[n].at - f[k].at \in 0 .. DedupWindow - 1
    BY <2>1 DEF MemoryFits, Justified
  <2>3. k \in DOMAIN g /\ g[k] = f[k]
    BY <1>1, <2>2
  <2> QED BY <2>1, <2>2, <2>3
<1> QED BY <1>2, <1>3 DEF MemoryFits

LEMMA KeepsSettled ==
  ASSUME NEW f, NEW g, NEW n, NEW fate, NEW time, Settled(f, g, n, fate, time), f[n].fate = "pending",
         fate # "suppressed"
  PROVE  Keeps(f, g)
BY DEF Settled, Keeps

LEMMA KeepsAppend ==
  ASSUME NEW f \in Seq(FateRow), NEW r \in FateRow, r.fate # "suppressed"
  PROVE  Keeps(f, Append(f, r))
<1> DEFINE g == Append(f, r)
<1>1. /\ \A n \in DOMAIN f : n \in DOMAIN g /\ g[n] = f[n]
      /\ \A n \in DOMAIN g : n \in DOMAIN f \/ g[n] = r
  BY AppendIs
<1> HIDE DEF g
<1> QED BY <1>1 DEF Keeps, g

LEMMA CallerMemory ==
  ASSUME TypesFit, \A c \in Channels : ChannelFits(c) /\ MemoryFits(c), NEW t \in Client, Calling(t)
  PROVE  \A c \in Channels : MemoryFits(c)'
<1>1. \A c \in Channels : Keeps(fates[c], fates'[c])
  <2>1. ASSUME NEW c \in Channels, Reserve(t, c) PROVE \A d \in Channels : Keeps(fates[d], fates'[d])
    <3> DEFINE e == caller[t].event
    <3>1. e \in Events
      BY <2>1 DEF Reserve, TypesFit, CallerRow, Bearers
    <3>2. PICK r \in FateRow : r.fate \in {"dropped", "pending"} /\ fates' = [fates EXCEPT ![c] = Append(fates[c], r)]
      <4> DEFINE r == [key |-> e.key, at |-> clock,
                       fate |-> IF closed \/ e.size > PendingBytes - bytes[c] THEN "dropped" ELSE "pending"]
      <4>1. r \in FateRow /\ r.fate \in {"dropped", "pending"}
        BY <3>1 DEF FateRow, Keys, TypesFit
      <4> QED BY <2>1, <4>1 DEF Reserve
    <3>3. Keeps(fates[c], Append(fates[c], r))
      BY <3>2, KeepsAppend DEF TypesFit
    <3> QED BY <3>2, <3>3 DEF TypesFit, Keeps
  <2>2. CASE RefusedCount(t)
    <3>1. PICK c \in Channels, p \in Pending :
            c = caller[t].channel /\ p = caller[t].held /\ <<t, p, "uncounted">> \in InHands(c)
      BY <2>2, BearersAre DEF RefusedCount, Carrying
    <3>2. Open(fates[c], p) /\ Fate(c, p, "dropped")
      BY <2>2, <3>1 DEF ChannelFits, Kept, Fit, RefusedCount
    <3>3. Settled(fates[c], fates'[c], p.number, "dropped", clock) /\ \A d \in Channels : d # c => fates'[d] = fates[d]
      BY <3>2, Settles
    <3>4. Keeps(fates[c], fates'[c])
      BY <3>2, <3>3, KeepsSettled DEF Open
    <3> QED BY <3>3, <3>4 DEF Keeps
  <2>3. CASE UNCHANGED fates
    BY <2>3 DEF Keeps
  <2> QED BY <2>1, <2>2, <2>3
       DEF Calling, Begin, TrySend, RefusedBytes, SendReturns, Flush, CloseStores, CloseCancels, CloseReturns
<1>2. UNCHANGED <<worker, clock>>
  BY DEF Calling, Begin, Reserve, TrySend, RefusedBytes, RefusedCount, SendReturns, Flush, CloseStores, CloseCancels,
         CloseReturns
<1>3. clock \in Nat
  BY DEF TypesFit
<1> QED BY <1>1, <1>2, <1>3, MemoryStays

LEMMA CallerBuckets ==
  ASSUME NEW t \in Client, Calling(t), NEW c \in Channels, BucketFits(c)
  PROVE  BucketFits(c)'
<1>1. UNCHANGED <<worker, clock, started>>
  BY DEF Calling, Begin, Reserve, TrySend, RefusedBytes, RefusedCount, SendReturns, Flush, CloseStores, CloseCancels,
         CloseReturns
<1> QED BY <1>1 DEF BucketFits

-------------------------------------------------------------------------------
(* Workers.                                                                *)
Stage == {"recv", "wait", "post", "backoff", "release", "discard", "uncounted", "drain", "gone"}

Memories == SUBSET [key : Keys, at : Nat]

(* The rows a step leaves.                                                *)
LEMMA RowAt ==
  ASSUME NEW w \in WorkerRow, NEW a \in Stage
  PROVE  [w EXCEPT !.at = a] \in WorkerRow
BY DEF WorkerRow, Stage, Memories

LEMMA RowTaken ==
  ASSUME NEW w \in WorkerRow, NEW h \in Pending \cup {Idle}, NEW d \in Memories
  PROVE  [w EXCEPT !.held = h, !.dedup = d, !.attempt = 0] \in WorkerRow
BY DEF WorkerRow, Stage, Memories

LEMMA RowPaced ==
  ASSUME NEW w \in WorkerRow, NEW i \in Nat, NEW k \in Int
  PROVE  [w EXCEPT !.refill = i, !.tokens = k] \in WorkerRow
BY DEF WorkerRow, Stage, Memories

LEMMA RowWaits ==
  ASSUME NEW w \in WorkerRow, NEW a \in Stage, NEW u \in Int
  PROVE  [w EXCEPT !.at = a, !.until = u] \in WorkerRow
BY DEF WorkerRow, Stage, Memories

LEMMA RowRetries ==
  ASSUME NEW w \in WorkerRow, NEW a \in Stage, NEW n \in Nat, NEW u \in Int
  PROVE  [w EXCEPT !.at = a, !.attempt = n, !.until = u] \in WorkerRow
BY DEF WorkerRow, Stage, Memories

LEMMA RowSent ==
  ASSUME NEW w \in WorkerRow, NEW a \in Stage, NEW d \in Memories
  PROVE  [w EXCEPT !.at = a, !.dedup = d] \in WorkerRow
BY DEF WorkerRow, Stage, Memories

LEMMA RowHolds ==
  ASSUME NEW w \in WorkerRow, NEW a \in Stage, NEW h \in Pending \cup {Idle}
  PROVE  [w EXCEPT !.at = a, !.held = h] \in WorkerRow
BY DEF WorkerRow, Stage, Memories

LEMMA RowWakes ==
  ASSUME NEW w \in WorkerRow, NEW a \in Stage, NEW k \in Int, NEW i \in Nat
  PROVE  [w EXCEPT !.at = a, !.tokens = k, !.refill = i] \in WorkerRow
BY DEF WorkerRow, Stage, Memories

LEMMA BecomesIs ==
  ASSUME TypesFit, NEW c \in Channels, NEW v \in WorkerRow, Becomes(c, v)
  PROVE  /\ worker' \in [Channels -> WorkerRow] /\ worker'[c] = v
         /\ \A d \in Channels : d # c => worker'[d] = worker[d]
BY DEF TypesFit, Becomes

(* A refill.                                                               *)
LEMMA RefilledIs ==
  ASSUME TypesFit, NEW c \in Channels, BucketFits(c), RateLimit > 0
  PROVE  /\ Refilled(c) \in Nat /\ Refilled(c) <= RateLimit * Minute
         /\ Refilled(c) <= worker[c].tokens + (clock - worker[c].refill) * RateLimit
         /\ clock \in Nat /\ worker[c].refill \in Nat /\ worker[c].refill <= clock
         /\ Paced(started[c], worker[c].tokens, worker[c].refill) /\ started[c] \in Seq(Nat)
<1>1. /\ worker[c].tokens \in Nat /\ worker[c].refill \in Nat /\ clock \in Nat /\ worker[c].refill <= clock
      /\ Paced(started[c], worker[c].tokens, worker[c].refill) /\ started[c] \in Seq(Nat)
  BY DEF TypesFit, WorkerRow, BucketFits, Paced
<1>2. PICK full \in Nat : full = RateLimit * Minute
  BY Limits
<1>3. PICK x \in Nat : x = (clock - worker[c].refill) * RateLimit
  BY <1>1, Limits, Flow
<1>4. Refilled(c) = IF worker[c].tokens + x < full THEN worker[c].tokens + x ELSE full
  BY <1>2, <1>3 DEF Refilled
<1> QED BY <1>1, <1>2, <1>3, <1>4

(* A delivery that is not suppressed starts, or waits for its token.       *)
Starts(c, v) ==
  IF RateLimit = 0 THEN v.at = "post" /\ Begins(c)
  ELSE /\ v.refill = clock
       /\ IF Refilled(c) < Minute
          THEN /\ v.at = "wait" /\ v.tokens = Refilled(c) /\ UNCHANGED started
               /\ v.until = clock + (Minute - Refilled(c) + RateLimit - 1) \div RateLimit
          ELSE v.at = "post" /\ v.tokens = Refilled(c) - Minute /\ Begins(c)

LEMMA RecvIs ==
  ASSUME TypesFit, NEW c \in Channels, Recv(c), RateLimit > 0 => BucketFits(c)
  PROVE  \E p \in Pending, v \in WorkerRow :
           /\ p = Head(inbox[c]) /\ v.held = p /\ v.dedup = {d \in worker[c].dedup : clock - d.at < DedupWindow}
           /\ Becomes(c, v)
           /\ \/ /\ v.at = "release" /\ v.tokens = worker[c].tokens /\ v.refill = worker[c].refill
                 /\ stats' = Finish(stats, FALSE, FALSE, TRUE) /\ Fate(c, p, "suppressed") /\ UNCHANGED started
                 /\ \E d \in v.dedup : d.key = p.event.key
              \/ UNCHANGED <<stats, fates>> /\ Starts(c, v)
<1> DEFINE w == worker[c]
           p == Head(inbox[c])
           recent == {d \in w.dedup : clock - d.at < DedupWindow}
           taken == [w EXCEPT !.held = p, !.dedup = recent, !.attempt = 0]
           tokens == Refilled(c)
           left == IF tokens < Minute THEN tokens ELSE tokens - Minute
           paced == [taken EXCEPT !.refill = clock, !.tokens = left]
           until == clock + (Minute - tokens + RateLimit - 1) \div RateLimit
<1>1. w \in WorkerRow /\ clock \in Nat /\ inbox[c] \in Seq(Pending) /\ inbox[c] # <<>>
  BY DEF TypesFit, Recv
<1>2. p \in Pending /\ recent \in Memories
  BY <1>1, TailIs DEF WorkerRow, Memories
<1>3. taken \in WorkerRow /\ taken.held = p /\ taken.dedup = recent
      /\ taken.tokens = w.tokens /\ taken.refill = w.refill /\ taken.at = w.at /\ taken.until = w.until
  <2> HIDE DEF w, p, recent
  <2>1. w \in WorkerRow /\ p \in Pending \cup {Idle} /\ recent \in Memories
    BY <1>1, <1>2
  <2>2. taken \in WorkerRow
    BY <2>1, RowTaken
  <2> QED BY <2>1, <2>2 DEF WorkerRow
<1>4. CASE /\ \E d \in recent : d.key = p.event.key
           /\ stats' = Finish(stats, FALSE, FALSE, TRUE)
           /\ Fate(c, p, "suppressed")
           /\ Becomes(c, [taken EXCEPT !.at = "release"])
           /\ UNCHANGED started
  <2> DEFINE v == [taken EXCEPT !.at = "release"]
  <2> HIDE DEF taken
  <2>1. v \in WorkerRow
    BY <1>3, RowAt DEF Stage
  <2>2. v.at = "release" /\ v.held = p /\ v.dedup = recent /\ v.tokens = w.tokens /\ v.refill = w.refill
    BY <1>3 DEF WorkerRow
  <2> HIDE DEF v
  <2> QED BY <1>2, <1>4, <2>1, <2>2 DEF v
<1>5. CASE /\ UNCHANGED <<stats, fates>>
           /\ IF RateLimit = 0
              THEN Becomes(c, [taken EXCEPT !.at = "post"]) /\ Begins(c)
              ELSE IF tokens < Minute
              THEN /\ Becomes(c, [paced EXCEPT !.at = "wait", !.until = until])
                   /\ UNCHANGED started
              ELSE Becomes(c, [paced EXCEPT !.at = "post"]) /\ Begins(c)
  <2>1. CASE RateLimit = 0
    <3> DEFINE v == [taken EXCEPT !.at = "post"]
    <3> HIDE DEF taken
    <3>1. v \in WorkerRow
      BY <1>3, RowAt DEF Stage
    <3>2. v.at = "post" /\ v.held = p /\ v.dedup = recent
      BY <1>3 DEF WorkerRow
    <3>3. Becomes(c, v) /\ Begins(c)
      BY <1>5, <2>1
    <3> HIDE DEF v
    <3> QED BY <1>2, <1>5, <2>1, <3>1, <3>2, <3>3 DEF Starts
  <2>2. CASE RateLimit # 0
    <3>1. tokens \in Nat /\ left \in Int /\ until \in Int
      <4>1. tokens \in Nat /\ Minute \in Nat /\ RateLimit \in Nat /\ RateLimit > 0
        BY <2>2, RefilledIs, Limits
      <4>2. left \in Int
        BY <4>1
      <4>3. until \in Int
        <5> HIDE DEF tokens
        <5> QED BY <1>1, <4>1
      <4> QED BY <4>1, <4>2, <4>3
    <3> HIDE DEF taken, left, until
    <3>2. paced \in WorkerRow /\ paced.held = p /\ paced.dedup = recent /\ paced.tokens = left /\ paced.refill = clock
      <4> HIDE DEF w, p, recent
      <4>1. paced \in WorkerRow
        BY <1>1, <1>3, <3>1, RowPaced
      <4> QED BY <1>3, <4>1 DEF WorkerRow
    <3> HIDE DEF paced
    <3>3. CASE tokens < Minute
      <4> DEFINE v == [paced EXCEPT !.at = "wait", !.until = until]
      <4>1. v \in WorkerRow
        BY <3>1, <3>2, RowWaits DEF Stage
      <4>2. v.at = "wait" /\ v.until = until /\ v.held = p /\ v.dedup = recent /\ v.tokens = left /\ v.refill = clock
        BY <3>2 DEF WorkerRow
      <4>3. Becomes(c, v) /\ UNCHANGED started
        BY <1>5, <2>2, <3>3
      <4> HIDE DEF v
      <4>4. Starts(c, v)
        BY <2>2, <3>3, <4>2, <4>3 DEF Starts, left, until
      <4> QED BY <1>2, <1>5, <4>1, <4>2, <4>3, <4>4
    <3>4. CASE ~(tokens < Minute)
      <4> DEFINE v == [paced EXCEPT !.at = "post"]
      <4>1. v \in WorkerRow
        BY <3>2, RowAt DEF Stage
      <4>2. v.at = "post" /\ v.held = p /\ v.dedup = recent /\ v.tokens = left /\ v.refill = clock
        BY <3>2 DEF WorkerRow
      <4>3. Becomes(c, v) /\ Begins(c)
        BY <1>5, <2>2, <3>4
      <4> HIDE DEF v
      <4>4. Starts(c, v)
        BY <2>2, <3>4, <4>2, <4>3 DEF Starts, left
      <4> QED BY <1>2, <1>5, <4>1, <4>2, <4>3, <4>4
    <3> QED BY <3>3, <3>4
  <2> QED BY <2>1, <2>2
<1> QED BY <1>4, <1>5 DEF Recv

(* The worker of c turns to a, with h in its hands and m remembered.       *)
Turned(c, a, h, m) ==
  /\ worker' \in [Channels -> WorkerRow]
  /\ worker'[c].at = a /\ worker'[c].held = h /\ worker'[c].dedup = m
  /\ \A d \in Channels : d # c => worker'[d] = worker[d]

SameBucket(c) ==
  worker'[c].tokens = worker[c].tokens /\ worker'[c].refill = worker[c].refill /\ worker'[c].at # "wait"

LEMMA AdvanceIs ==
  ASSUME TypesFit, NEW c \in Channels, NEW a \in Stage, Advance(c, a), a # "wait"
  PROVE  Turned(c, a, worker[c].held, worker[c].dedup) /\ SameBucket(c)
<1> DEFINE v == [worker[c] EXCEPT !.at = a]
<1>1. worker[c] \in WorkerRow
  BY DEF TypesFit
<1>2. v \in WorkerRow
  BY <1>1, RowAt
<1>3. /\ v.at = a /\ v.held = worker[c].held /\ v.dedup = worker[c].dedup
      /\ v.tokens = worker[c].tokens /\ v.refill = worker[c].refill
  BY <1>1 DEF WorkerRow
<1>4. Becomes(c, v)
  BY DEF Advance
<1> HIDE DEF v
<1>5. /\ worker' \in [Channels -> WorkerRow] /\ worker'[c] = v
      /\ \A d \in Channels : d # c => worker'[d] = worker[d]
  BY <1>2, <1>4, BecomesIs
<1> QED BY <1>3, <1>5 DEF Turned, SameBucket

LEMMA HoldsIs ==
  ASSUME TypesFit, NEW c \in Channels, NEW a \in Stage, a # "wait", NEW h \in Pending \cup {Idle},
         Becomes(c, [worker[c] EXCEPT !.at = a, !.held = h])
  PROVE  Turned(c, a, h, worker[c].dedup) /\ SameBucket(c)
<1> DEFINE v == [worker[c] EXCEPT !.at = a, !.held = h]
<1>1. worker[c] \in WorkerRow
  BY DEF TypesFit
<1>2. v \in WorkerRow
  BY <1>1, RowHolds
<1>3. /\ v.at = a /\ v.held = h /\ v.dedup = worker[c].dedup
      /\ v.tokens = worker[c].tokens /\ v.refill = worker[c].refill
  BY <1>1 DEF WorkerRow
<1>4. Becomes(c, v)
  OBVIOUS
<1> HIDE DEF v
<1> QED BY <1>2, <1>3, <1>4, BecomesIs DEF Turned, SameBucket

LEMMA WakeIs ==
  ASSUME TypesFit, NEW c \in Channels, Wake(c)
  PROVE  /\ Turned(c, "post", worker[c].held, worker[c].dedup)
         /\ worker'[c].tokens = 0 /\ worker'[c].refill = clock
<1> DEFINE v == [worker[c] EXCEPT !.at = "post", !.tokens = 0, !.refill = clock]
<1>1. worker[c] \in WorkerRow /\ clock \in Nat
  BY DEF TypesFit
<1>2. v \in WorkerRow
  <2>1. "post" \in Stage /\ 0 \in Int
    BY DEF Stage
  <2> QED BY <1>1, <2>1, RowWakes
<1>3. v.at = "post" /\ v.held = worker[c].held /\ v.dedup = worker[c].dedup /\ v.tokens = 0 /\ v.refill = clock
  BY <1>1 DEF WorkerRow
<1>4. Becomes(c, v)
  BY DEF Wake
<1> HIDE DEF v
<1> QED BY <1>2, <1>3, <1>4, BecomesIs DEF Turned

LEMMA RetryIs ==
  ASSUME TypesFit, NEW c \in Channels, NEW delay \in Backoffs, Retry(c, delay)
  PROVE  Turned(c, "backoff", worker[c].held, worker[c].dedup) /\ SameBucket(c)
<1> DEFINE n == worker[c].attempt + 1
           u == clock + delay
           v == [worker[c] EXCEPT !.at = "backoff", !.attempt = n, !.until = u]
<1>1. worker[c] \in WorkerRow /\ n \in Nat /\ u \in Int
  BY DispatchAssumption, SMTT(30) DEF TypesFit, WorkerRow
<1>2. Becomes(c, v)
  BY DEF Retry
<1> HIDE DEF n, u
<1>3. v \in WorkerRow
  BY <1>1, RowRetries, "backoff" \in Stage DEF Stage
<1>4. /\ v.at = "backoff" /\ v.held = worker[c].held /\ v.dedup = worker[c].dedup
      /\ v.tokens = worker[c].tokens /\ v.refill = worker[c].refill
  BY <1>1 DEF WorkerRow
<1> HIDE DEF v
<1> QED BY <1>2, <1>3, <1>4, BecomesIs DEF Turned, SameBucket

LEMMA DeliveredIs ==
  ASSUME TypesFit, NEW c \in Channels, ChannelFits(c), NEW sent \in BOOLEAN, Delivered(c, sent)
  PROVE  /\ worker[c].held \in Pending /\ worker[c].held # Idle /\ Open(fates[c], worker[c].held)
         /\ Turned(c, "release", worker[c].held, Remembered(c, worker[c].held, sent)) /\ SameBucket(c)
<1> DEFINE p == worker[c].held
           m == Remembered(c, p, sent)
           v == [worker[c] EXCEPT !.at = "release", !.dedup = m]
<1>1. worker[c] \in WorkerRow /\ clock \in Nat /\ worker[c].at = "post"
  BY DEF TypesFit, Delivered
<1>2. p # Idle /\ p \in Pending /\ Open(fates[c], p)
  BY <1>1 DEF ChannelFits, Kept, Fit
<1>3. worker[c].dedup \in Memories /\ [key |-> p.event.key, at |-> clock] \in [key : Keys, at : Nat]
  BY <1>1, <1>2 DEF WorkerRow, Memories, Pending, Keys
<1>4. m \in Memories
  BY <1>3 DEF Remembered, Memories
<1>5. Becomes(c, v)
  BY DEF Delivered
<1> HIDE DEF m
<1>6. v \in WorkerRow
  BY <1>1, <1>4, RowSent, "release" \in Stage DEF Stage
<1>7. v.at = "release" /\ v.held = p /\ v.dedup = m /\ v.tokens = worker[c].tokens /\ v.refill = worker[c].refill
  BY <1>1 DEF WorkerRow
<1> HIDE DEF v
<1> QED BY <1>2, <1>5, <1>6, <1>7, BecomesIs DEF Turned, SameBucket, m

(* What a worker holds at each stage.                                      *)
LEMMA HoldsWhen ==
  ASSUME TypesFit, NEW c \in Channels, ChannelFits(c)
  PROVE  /\ worker[c].at \in {"wait", "post", "backoff", "release", "discard", "uncounted"} =>
              worker[c].held # Idle /\ worker[c].held \in Pending /\ worker[c].held.event.size \in Nat
         /\ worker[c].at \in {"recv", "drain", "gone"} => worker[c].held = Idle
         /\ worker[c].held # Idle /\ worker[c].at # "release" => Open(fates[c], worker[c].held)
         /\ worker[c].at \in Stage /\ worker[c].held \in Pending \cup {Idle}
<1>1. worker[c].at \in Stage /\ worker[c].held \in Pending \cup {Idle}
  BY DEF TypesFit, WorkerRow, Stage
<1>2. \A p \in Pending : p.event.size \in Nat
  BY DispatchAssumption DEF Pending
<1> QED BY <1>1, <1>2 DEF ChannelFits, Kept, Fit

(* What a worker's step leaves to the other channels.                      *)
LEMMA Apart ==
  ASSUME TypesFit, NEW c \in Channels, Working(c)
  PROVE  /\ UNCHANGED <<caller, clock, flushed>> /\ \A d : InHands(d)' = InHands(d)
         /\ \A d \in Channels : d # c =>
              /\ inbox'[d] = inbox[d] /\ worker'[d] = worker[d] /\ bytes'[d] = bytes[d]
              /\ fates'[d] = fates[d] /\ started'[d] = started[d] /\ sealed'[d] = sealed[d]
<1>1. UNCHANGED <<caller, clock, flushed>>
  BY DEF Working, Recv, Wake, PostAgain, ReleaseBytes, Retry, Delivered, Break, DiscardBytes, DiscardCount, DrainNext
<1>2. \A d : InHands(d)' = InHands(d)
  BY <1>1 DEF InHands
<1>3. ASSUME NEW d \in Channels, d # c PROVE inbox'[d] = inbox[d] /\ bytes'[d] = bytes[d] /\ sealed'[d] = sealed[d]
  BY <1>3 DEF TypesFit, Working, Recv, Wake, PostAgain, ReleaseBytes, Retry, Delivered, Break, DiscardBytes,
              DiscardCount, DrainNext
<1>4. ASSUME NEW d \in Channels, d # c PROVE fates'[d] = fates[d] /\ started'[d] = started[d]
  BY <1>4 DEF TypesFit, Working, Recv, Wake, PostAgain, ReleaseBytes, Retry, Delivered, Break, DiscardBytes,
              DiscardCount, DrainNext, Fate, Begins
<1>5. ASSUME NEW d \in Channels, d # c PROVE worker'[d] = worker[d]
  BY <1>5 DEF TypesFit, Working, Recv, Wake, PostAgain, ReleaseBytes, Retry, Delivered, Break, DiscardBytes,
              DiscardCount, DrainNext, Becomes, Advance
<1> QED BY <1>1, <1>2, <1>3, <1>4, <1>5

(* A step of the worker that ends nothing and begins no delivery.          *)
LEMMA QuietWork ==
  ASSUME TypesFit, CountsFit, NEW c \in Channels, MemoryFits(c), RateLimit > 0 => BucketFits(c),
         UNCHANGED <<stats, fates, flushed, clock, started>>, NEW a, NEW h,
         Turned(c, a, h, worker[c].dedup), SameBucket(c)
  PROVE  CountsFit' /\ MemoryFits(c)' /\ (RateLimit > 0 => BucketFits(c)')
<1>1. CountsFit'
  BY CountsStay
<1>2. MemoryFits(c)'
  <2>1. Keeps(fates[c], fates'[c])
    BY DEF Keeps
  <2>2. clock \in Nat /\ clock' \in Nat /\ clock <= clock'
    BY DEF TypesFit
  <2>3. worker'[c].dedup \subseteq worker[c].dedup
    BY DEF Turned
  <2> QED BY <2>1, <2>2, <2>3, MemoryStays
<1>3. RateLimit > 0 => BucketFits(c)'
  BY DEF BucketFits, SameBucket
<1> QED BY <1>1, <1>2, <1>3

(* A channel after a step of its worker.                                   *)
LEMMA ChannelTurns ==
  ASSUME NEW c \in Channels, InHands(c)' = InHands(c), NEW a, NEW h, NEW m, Turned(c, a, h, m),
         Kept(inbox'[c], h, a, fates'[c], InHands(c), bytes'[c], sealed'[c])
  PROVE  ChannelFits(c)'
BY DEF ChannelFits, Turned

LEMMA PostAgainFits ==
  ASSUME TypesFit, CountsFit, NEW c \in Channels, ChannelFits(c), MemoryFits(c), RateLimit > 0 => BucketFits(c),
         \/ PostAgain(c)
         \/ \E delay \in Backoffs : Retry(c, delay)
         \/ Break(c)
  PROVE  /\ TypesFit' /\ CountsFit' /\ ChannelFits(c)' /\ MemoryFits(c)' /\ (RateLimit > 0 => BucketFits(c)')
<1> DEFINE q == inbox[c]
           h == worker[c].held
           a == worker[c].at
           f == fates[c]
           C == InHands(c)
<1>1. UNCHANGED <<stats, fates, flushed, clock, started, inbox, bytes, caller>> /\ C' = C
  BY DEF PostAgain, Retry, Break, InHands
<1>2. Kept(q, h, a, f, C, bytes[c], sealed[c])
  BY DEF ChannelFits
<1>3. \E b \in Stage : /\ Turned(c, b, h, worker[c].dedup) /\ SameBucket(c)
                       /\ \/ h # Idle /\ a \notin {"release", "uncounted"} /\ b \in {"post", "backoff", "discard"}
                             /\ UNCHANGED sealed
                          \/ h = Idle /\ b = "drain" /\ sealed' = [sealed EXCEPT ![c] = TRUE]
  <2>1. CASE PostAgain(c)
    BY <2>1, AdvanceIs, HoldsWhen DEF PostAgain, Stage
  <2>2. CASE \E delay \in Backoffs : Retry(c, delay)
    BY <2>2, RetryIs, HoldsWhen DEF Retry, Stage
  <2>3. CASE Break(c)
    BY <2>3, AdvanceIs DEF Break, Stage
  <2> QED BY <2>1, <2>2, <2>3
<1>4. PICK b \in Stage : /\ Turned(c, b, h, worker[c].dedup) /\ SameBucket(c)
                         /\ \/ h # Idle /\ a \notin {"release", "uncounted"} /\ b \in {"post", "backoff", "discard"}
                               /\ UNCHANGED sealed
                            \/ h = Idle /\ b = "drain" /\ sealed' = [sealed EXCEPT ![c] = TRUE]
  BY <1>3
<1>5. TypesFit'
  BY <1>1, <1>4 DEF TypesFit, Turned
<1>6. Kept(q, h, b, f, C, bytes[c], sealed'[c])
  <2>1. Fit(q, h, b, f, C) /\ Holding(q, h, b, C) = Holding(q, h, a, C)
    <3> HIDE DEF q, h, a, f, C
    <3>1. Fit(q, h, a, f, C)
      BY <1>2, KeptIs
    <3> QED BY <1>4, <3>1, WorkingOn
  <2>2. b = "drain" => sealed'[c]
    BY <1>4 DEF TypesFit
  <2>3. b \notin {"drain", "gone"} \/ b = "drain"
    BY <1>4
  <2> HIDE DEF q, h, a, f, C
  <2> QED BY <1>2, <2>1, <2>2, <2>3 DEF Kept
<1>7. ChannelFits(c)'
  BY <1>1, <1>4, <1>6, ChannelTurns
<1> QED BY <1>1, <1>4, <1>5, <1>7, QuietWork

LEMMA BytesGoBack ==
  ASSUME TypesFit, CountsFit, NEW c \in Channels, ChannelFits(c), MemoryFits(c), RateLimit > 0 => BucketFits(c),
         ReleaseBytes(c) \/ DiscardBytes(c)
  PROVE  /\ TypesFit' /\ CountsFit' /\ ChannelFits(c)' /\ MemoryFits(c)' /\ (RateLimit > 0 => BucketFits(c)')
<1> DEFINE q == inbox[c]
           h == worker[c].held
           a == worker[c].at
           f == fates[c]
           C == InHands(c)
           k == IF a = "release" THEN Idle ELSE h
           b == IF a = "release" THEN "recv" ELSE "uncounted"
<1>1. UNCHANGED <<stats, fates, flushed, clock, started, inbox, sealed, caller>> /\ C' = C
  BY DEF ReleaseBytes, DiscardBytes, InHands
<1>2. Kept(q, h, a, f, C, bytes[c], sealed[c])
  BY DEF ChannelFits
<1>3. a \in {"release", "discard"} /\ h # Idle /\ h \in Pending /\ h.event.size \in Nat
  BY HoldsWhen DEF ReleaseBytes, DiscardBytes
<1>4. Turned(c, b, k, worker[c].dedup) /\ SameBucket(c)
  <2>1. CASE ReleaseBytes(c)
    <3>1. a = "release" /\ Becomes(c, [worker[c] EXCEPT !.at = "recv", !.held = Idle])
      BY <2>1 DEF ReleaseBytes
    <3>2. "recv" \in Stage /\ "recv" # "wait" /\ Idle \in Pending \cup {Idle}
      BY DEF Stage
    <3>3. Turned(c, "recv", Idle, worker[c].dedup) /\ SameBucket(c)
      BY <3>1, <3>2, HoldsIs
    <3> QED BY <3>1, <3>3
  <2>2. CASE DiscardBytes(c)
    BY <2>2, AdvanceIs DEF DiscardBytes, Stage
  <2> QED BY <2>1, <2>2
<1>5. bytes' = [bytes EXCEPT ![c] = @ - h.event.size]
  BY DEF ReleaseBytes, DiscardBytes
<1>6. bytes' \in [Channels -> Int] /\ bytes'[c] = bytes[c] - h.event.size
  BY <1>3, <1>5 DEF TypesFit
<1>7. TypesFit'
  BY <1>1, <1>4, <1>6 DEF TypesFit, Turned
<1>8. Kept(q, k, b, f, C, bytes'[c], sealed[c])
  <2>1. h \in Holding(q, h, a, C) /\ Fit(q, k, b, f, C) /\ Holding(q, k, b, C) = Holding(q, h, a, C) \ {h}
    <3> HIDE DEF q, h, a, f, C
    <3>1. Fit(q, h, a, f, C) /\ a # "uncounted"
      BY <1>2, <1>3, KeptIs
    <3> QED BY <1>3, <3>1, LettingGo
  <2>2. bytes[c] \in Nat
    BY <1>2, KeptIs
  <2>3. b \notin {"drain", "gone"}
    OBVIOUS
  <2> HIDE DEF q, h, a, f, C, k, b
  <2>4. /\ IsFiniteSet(Bytes(Holding(q, h, a, C) \ {h}))
        /\ Cardinality(Bytes(Holding(q, h, a, C) \ {h})) = bytes[c] - h.event.size
    BY <1>2, <1>3, <2>1, BytesShrink DEF Kept
  <2>5. bytes'[c] <= PendingBytes
    BY <1>2, <1>3, <1>6, <2>2, Limits DEF Kept
  <2> QED BY <1>2, <1>6, <2>1, <2>3, <2>4, <2>5 DEF Kept
<1>9. ChannelFits(c)'
  BY <1>1, <1>4, <1>8, ChannelTurns
<1> HIDE DEF k, b
<1> QED BY <1>1, <1>4, <1>7, <1>9, QuietWork

LEMMA DrainFits ==
  ASSUME TypesFit, CountsFit, NEW c \in Channels, ChannelFits(c), MemoryFits(c), RateLimit > 0 => BucketFits(c),
         DrainNext(c)
  PROVE  /\ TypesFit' /\ CountsFit' /\ ChannelFits(c)' /\ MemoryFits(c)' /\ (RateLimit > 0 => BucketFits(c)')
<1> DEFINE q == inbox[c]
           f == fates[c]
           C == InHands(c)
<1>1. UNCHANGED <<stats, fates, flushed, clock, started, bytes, sealed, caller>> /\ C' = C
  BY DEF DrainNext, InHands
<1>2. worker[c].at = "drain" /\ worker[c].held = Idle
  BY HoldsWhen DEF DrainNext
<1>3. Kept(q, Idle, "drain", f, C, bytes[c], sealed[c])
  BY <1>2 DEF ChannelFits
<1>4. CASE q = <<>>
  <2>1. Turned(c, "gone", Idle, worker[c].dedup) /\ SameBucket(c)
    BY <1>2, <1>4, AdvanceIs DEF DrainNext, Stage
  <2>2. inbox' = inbox
    BY <1>4 DEF DrainNext
  <2>3. Kept(q, Idle, "gone", f, C, bytes[c], sealed[c])
    <3> HIDE DEF q, f, C
    <3>1. Fit(q, Idle, "gone", f, C) /\ Holding(q, Idle, "gone", C) = Holding(q, Idle, "drain", C)
      BY <1>3, KeptIs, WorkingOn
    <3> QED BY <1>3, <1>4, <3>1 DEF Kept
  <2>4. ChannelFits(c)'
    BY <1>1, <2>1, <2>2, <2>3, ChannelTurns
  <2>5. TypesFit'
    BY <1>1, <2>1, <2>2 DEF TypesFit, Turned
  <2> QED BY <1>1, <2>1, <2>4, <2>5, QuietWork
<1>5. CASE q # <<>>
  <2> DEFINE p == Head(q)
  <2>1. inbox' = [inbox EXCEPT ![c] = Tail(@)] /\ Becomes(c, [worker[c] EXCEPT !.at = "discard", !.held = p])
    BY <1>5 DEF DrainNext
  <2>2. inbox' \in [Channels -> Seq(Pending)] /\ inbox'[c] = Tail(q) /\ p \in Pending
    <3>1. q \in Seq(Pending) /\ Tail(q) \in Seq(Pending) /\ p \in Pending
      BY <1>5, TailIs DEF TypesFit
    <3> QED BY <2>1, <3>1 DEF TypesFit
  <2>3. Turned(c, "discard", p, worker[c].dedup) /\ SameBucket(c)
    <3> HIDE DEF p
    <3>1. "discard" \in Stage /\ "discard" # "wait" /\ p \in Pending \cup {Idle}
      BY <2>2 DEF Stage
    <3> QED BY <2>1, <3>1, HoldsIs
  <2>4. Kept(Tail(q), p, "discard", f, C, bytes[c], sealed[c])
    <3> HIDE DEF q, f, C
    <3>1. Fit(Tail(q), p, "discard", f, C) /\ Holding(Tail(q), p, "discard", C) = Holding(q, Idle, "drain", C)
      BY <1>3, <1>5, KeptIs, Taking
    <3> HIDE DEF p
    <3> QED BY <1>3, <3>1 DEF Kept
  <2>5. ChannelFits(c)'
    BY <1>1, <2>2, <2>3, <2>4, ChannelTurns
  <2>6. TypesFit'
    BY <1>1, <2>2, <2>3 DEF TypesFit, Turned
  <2> QED BY <1>1, <2>3, <2>5, <2>6, QuietWork
<1> QED BY <1>4, <1>5

LEMMA DiscardFits ==
  ASSUME TypesFit, CountsFit, NEW c \in Channels, ChannelFits(c), MemoryFits(c), RateLimit > 0 => BucketFits(c),
         DiscardCount(c)
  PROVE  /\ TypesFit' /\ CountsFit' /\ ChannelFits(c)' /\ MemoryFits(c)' /\ (RateLimit > 0 => BucketFits(c)')
<1> DEFINE q == inbox[c]
           p == worker[c].held
           f == fates[c]
           C == InHands(c)
<1>1. UNCHANGED <<flushed, clock, started, bytes, inbox, caller>> /\ C' = C
  BY DEF DiscardCount, InHands
<1>2. worker[c].at = "uncounted" /\ p # Idle /\ p \in Pending /\ Open(f, p)
  BY HoldsWhen DEF DiscardCount
<1>3. Kept(q, p, "uncounted", f, C, bytes[c], sealed[c])
  BY <1>2 DEF ChannelFits
<1>4. Fate(c, p, "dropped") /\ stats' = Finish(stats, TRUE, FALSE, FALSE)
  BY DEF DiscardCount
<1>5. /\ fates' \in [Channels -> Seq(FateRow)]
      /\ Settled(f, fates'[c], p.number, "dropped", clock)
  <2> HIDE DEF p
  <2> QED BY <1>2, <1>4, Settles
<1>6. CountsFit' /\ stats' \in Counters
  <2>1. flushed' = flushed /\ Open(fates[c], p)
    BY <1>1, <1>2
  <2> HIDE DEF p
  <2> QED BY <1>4, <2>1, CountsMove
<1>7. Turned(c, "drain", Idle, worker[c].dedup) /\ SameBucket(c)
  <2>1. "drain" \in Stage /\ "drain" # "wait" /\ Idle \in Pending \cup {Idle}
    BY DEF Stage
  <2> QED BY <2>1, HoldsIs DEF DiscardCount
<1>8. sealed' \in [Channels -> BOOLEAN] /\ sealed'[c]
  BY DEF DiscardCount, TypesFit
<1>9. TypesFit'
  BY <1>1, <1>5, <1>6, <1>7, <1>8 DEF TypesFit, Turned
<1>10. ChannelFits(c)'
  <2> DEFINE g == fates'[c]
  <2> HIDE DEF q, p, f, C, g
  <2>1. Fit(q, p, "uncounted", f, C)
    BY <1>3, KeptIs
  <2>2. Settled(f, g, p.number, "dropped", clock)
    BY <1>5 DEF g
  <2>3. Fit(q, Idle, "drain", g, C) /\ Holding(q, Idle, "drain", C) = Holding(q, p, "uncounted", C)
    BY <1>2, <2>1, <2>2, WorkerSettles
  <2>4. Kept(q, Idle, "drain", g, C, bytes[c], sealed'[c])
    BY <1>3, <1>8, <2>3 DEF Kept
  <2> QED BY <1>1, <1>7, <2>4, ChannelTurns DEF q, g, C
<1>11. MemoryFits(c)'
  <2>1. Keeps(f, fates'[c])
    BY <1>2, <1>5, KeepsSettled DEF Open
  <2>2. clock \in Nat /\ clock' \in Nat /\ clock <= clock' /\ worker'[c].dedup \subseteq worker[c].dedup
    BY <1>1, <1>7 DEF TypesFit, Turned
  <2> QED BY <2>1, <2>2, MemoryStays
<1>12. RateLimit > 0 => BucketFits(c)'
  BY <1>1, <1>7 DEF BucketFits, SameBucket
<1> QED BY <1>6, <1>9, <1>10, <1>11, <1>12

(* A key that is remembered beside the others was delivered now.           *)
LEMMA MemoryGrows ==
  ASSUME NEW c \in Channels, MemoryFits(c), TypesFit, clock' = clock, NEW p, Open(fates[c], p),
         NEW fate, fate \in {"delivered", "failed"}, Settled(fates[c], fates'[c], p.number, fate, clock),
         worker'[c].dedup = Remembered(c, p, fate = "delivered")
  PROVE  MemoryFits(c)'
<1> DEFINE f == fates[c]
           g == fates'[c]
           new == [key |-> p.event.key, at |-> clock]
<1>1. Keeps(f, g)
  BY KeepsSettled DEF Open
<1>2. \A d \in worker'[c].dedup : d \in worker[c].dedup \/ (d = new /\ fate = "delivered")
  BY DEF Remembered
<1>3. fate = "delivered" => Delivery(g, new.key, new.at)
  BY DEF Delivery, Open, Settled
<1>4. ASSUME NEW d \in worker[c].dedup PROVE d.at <= clock' /\ Delivery(g, d.key, d.at)
  <2>1. d.at <= clock /\ Delivery(f, d.key, d.at)
    BY DEF MemoryFits
  <2> QED BY <1>1, <2>1 DEF Delivery, Keeps
<1>5. new.at <= clock'
  BY DEF TypesFit
<1>6. Justified(g)
  <2> SUFFICES ASSUME NEW n \in DOMAIN g, g[n].fate = "suppressed"
               PROVE  \E k \in DOMAIN g :
                        g[k].fate = "delivered" /\ g[k].key = g[n].key /\ g[n].at - g[k].at \in 0 .. DedupWindow - 1
    BY DEF Justified
  <2>1. n \in DOMAIN f /\ g[n] = f[n]
    BY <1>1 DEF Keeps
  <2>2. PICK k \in DOMAIN f :
          f[k].fate = "delivered" /\ f[k].key = f[n].key /\ f[n].at - f[k].at \in 0 .. DedupWindow - 1
    BY <2>1 DEF MemoryFits, Justified
  <2>3. k \in DOMAIN g /\ g[k] = f[k]
    BY <1>1, <2>2 DEF Keeps
  <2> QED BY <2>1, <2>2, <2>3
<1> HIDE DEF new
<1> QED BY <1>2, <1>3, <1>4, <1>5, <1>6 DEF MemoryFits

LEMMA DeliveredFits ==
  ASSUME TypesFit, CountsFit, NEW c \in Channels, ChannelFits(c), MemoryFits(c), RateLimit > 0 => BucketFits(c),
         NEW sent \in BOOLEAN, Delivered(c, sent)
  PROVE  /\ TypesFit' /\ CountsFit' /\ ChannelFits(c)' /\ MemoryFits(c)' /\ (RateLimit > 0 => BucketFits(c)')
<1> DEFINE q == inbox[c]
           p == worker[c].held
           f == fates[c]
           C == InHands(c)
           fate == IF sent THEN "delivered" ELSE "failed"
<1>1. UNCHANGED <<flushed, clock, started, bytes, inbox, sealed, caller>> /\ C' = C
  BY DEF Delivered, InHands
<1>2. /\ worker[c].at = "post" /\ p # Idle /\ p \in Pending /\ Open(f, p)
      /\ Turned(c, "release", p, Remembered(c, p, sent)) /\ SameBucket(c)
  BY DeliveredIs DEF Delivered
<1>3. Kept(q, p, "post", f, C, bytes[c], sealed[c])
  BY <1>2 DEF ChannelFits
<1>4. Fate(c, p, fate) /\ stats' = Finish(stats, FALSE, ~sent, FALSE)
  BY DEF Delivered
<1>5. fate \in {"delivered", "failed"} /\ (sent <=> fate = "delivered") /\ sent = (fate = "delivered")
  OBVIOUS
<1>6. /\ fates' \in [Channels -> Seq(FateRow)]
      /\ Settled(f, fates'[c], p.number, fate, clock)
  <2> HIDE DEF p, fate
  <2> QED BY <1>2, <1>4, <1>5, Settles
<1>7. CountsFit' /\ stats' \in Counters
  <2>1. flushed' = flushed /\ Open(fates[c], p)
    BY <1>1, <1>2
  <2>2. \/ fate = "failed" /\ stats' = Finish(stats, FALSE, TRUE, FALSE)
        \/ fate = "delivered" /\ stats' = Finish(stats, FALSE, FALSE, FALSE)
    <3>1. CASE sent
      <4>1. (~sent) = FALSE
        BY <3>1
      <4> QED BY <1>4, <3>1, <4>1
    <3>2. CASE ~sent
      <4>1. (~sent) = TRUE
        BY <3>2
      <4> QED BY <1>4, <3>2, <4>1
    <3> QED BY <3>1, <3>2
  <2> HIDE DEF p, fate
  <2> QED BY <1>4, <1>5, <2>1, <2>2, CountsMove
<1>8. TypesFit'
  BY <1>1, <1>2, <1>6, <1>7 DEF TypesFit, Turned
<1>9. ChannelFits(c)'
  <2> DEFINE g == fates'[c]
             m == Remembered(c, p, sent)
  <2>0. Turned(c, "release", p, m) /\ worker[c].at = "post" /\ p # Idle
    BY <1>2
  <2> HIDE DEF q, p, f, C, g, m, fate
  <2>1. Fit(q, p, "post", f, C)
    BY <1>3, KeptIs
  <2>2. Settled(f, g, p.number, fate, clock) /\ fate # "pending"
    BY <1>5, <1>6 DEF g
  <2>3. Fit(q, p, "release", g, C) /\ Holding(q, p, "release", C) = Holding(q, p, "post", C)
    BY <2>0, <2>1, <2>2, WorkerSettles
  <2>4. Kept(q, p, "release", g, C, bytes[c], sealed[c])
    BY <1>3, <2>3 DEF Kept
  <2> QED BY <1>1, <2>0, <2>4, ChannelTurns DEF q, g, C
<1>10. MemoryFits(c)'
  <2>1. worker'[c].dedup = Remembered(c, p, fate = "delivered")
    BY <1>2, <1>5 DEF Turned
  <2>2. Open(fates[c], p) /\ clock' = clock /\ Settled(fates[c], fates'[c], p.number, fate, clock)
    BY <1>1, <1>2, <1>6
  <2> HIDE DEF p, fate
  <2> QED BY <1>5, <2>1, <2>2, MemoryGrows
<1>11. RateLimit > 0 => BucketFits(c)'
  BY <1>1, <1>2 DEF BucketFits, SameBucket
<1> QED BY <1>7, <1>8, <1>9, <1>10, <1>11

LEMMA WakeFits ==
  ASSUME TypesFit, CountsFit, NEW c \in Channels, ChannelFits(c), MemoryFits(c), RateLimit > 0 => BucketFits(c),
         Wake(c)
  PROVE  /\ TypesFit' /\ CountsFit' /\ ChannelFits(c)' /\ MemoryFits(c)' /\ (RateLimit > 0 => BucketFits(c)')
<1> DEFINE q == inbox[c]
           h == worker[c].held
           f == fates[c]
           C == InHands(c)
<1>1. UNCHANGED <<stats, fates, flushed, clock, bytes, inbox, sealed, caller>> /\ C' = C
  BY DEF Wake, InHands
<1>2. /\ worker[c].at = "wait" /\ h # Idle
      /\ Turned(c, "post", h, worker[c].dedup) /\ worker'[c].tokens = 0 /\ worker'[c].refill = clock
  BY WakeIs, HoldsWhen DEF Wake
<1>3. clock \in Nat /\ clock >= worker[c].until /\ started' = [started EXCEPT ![c] = Append(@, clock)]
  BY DEF Wake, Begins, TypesFit
<1>4. started' \in [Channels -> Seq(Nat)] /\ started'[c] = Append(started[c], clock)
  <2>1. Append(started[c], clock) \in Seq(Nat)
    BY <1>3, AppendProperties DEF TypesFit
  <2> QED BY <1>3, <2>1 DEF TypesFit
<1>5. TypesFit'
  BY <1>1, <1>2, <1>4 DEF TypesFit, Turned
<1>6. CountsFit'
  BY <1>1, CountsStay
<1>7. Kept(q, h, "wait", f, C, bytes[c], sealed[c])
  BY <1>2 DEF ChannelFits
<1>8. ChannelFits(c)'
  <2>0. Turned(c, "post", h, worker[c].dedup) /\ h # Idle
    BY <1>2
  <2> HIDE DEF q, h, f, C
  <2>1. Fit(q, h, "post", f, C) /\ Holding(q, h, "post", C) = Holding(q, h, "wait", C)
    BY <1>7, <2>0, KeptIs, WorkingOn
  <2>2. Kept(q, h, "post", f, C, bytes[c], sealed[c])
    BY <1>7, <2>1 DEF Kept
  <2> QED BY <1>1, <2>0, <2>2, ChannelTurns DEF q, f, C
<1>9. MemoryFits(c)'
  <2>1. Keeps(fates[c], fates'[c]) /\ worker'[c].dedup \subseteq worker[c].dedup
    BY <1>1, <1>2 DEF Keeps, Turned
  <2>2. clock \in Nat /\ clock' \in Nat /\ clock <= clock'
    BY <1>1, <1>3
  <2> QED BY <2>1, <2>2, MemoryStays
<1>10. ASSUME RateLimit > 0 PROVE BucketFits(c)'
  <2>1. PICK s \in Seq(Nat), tokens \in Nat, now \in Nat :
           s = started[c] /\ tokens = worker[c].tokens /\ now = worker[c].refill
    BY <1>10 DEF TypesFit, WorkerRow, BucketFits, Paced
  <2>2. /\ now <= clock /\ Paced(s, tokens, now) /\ tokens < Minute
        /\ Minute - tokens <= (worker[c].until - now) * RateLimit
    BY <1>2, <1>10, <2>1 DEF BucketFits
  <2>3. worker[c].until \in Int
    BY DEF TypesFit, WorkerRow
  <2>4. PICK u \in Int : u = worker[c].until - now
    BY <2>3
  <2>5. PICK v \in Int : v = clock - now
    BY <1>3
  <2>6. u <= v
    BY <1>3, <2>3, <2>4, <2>5
  <2>7. u * RateLimit <= v * RateLimit /\ u * RateLimit \in Int /\ v * RateLimit \in Int
    BY <2>6, Limits
  <2>8. 0 + Minute <= tokens + (clock - now) * RateLimit
    <3>1. PICK x \in Int, y \in Int : x = u * RateLimit /\ y = v * RateLimit /\ x <= y
      BY <2>7
    <3>2. Minute - tokens <= x
      <4>1. Minute - tokens <= (worker[c].until - now) * RateLimit
        BY <2>2
      <4>2. (worker[c].until - now) * RateLimit = x
        BY <2>4, <3>1
      <4> QED BY <4>1, <4>2
    <3>3. Minute <= tokens + y
      BY <3>1, <3>2, Limits
    <3>4. (clock - now) * RateLimit = y
      BY <2>5, <3>1
    <3> QED BY <3>3, <3>4, Limits
  <2>9. 0 + Minute <= RateLimit * Minute
    BY <1>10, Limits
  <2>10. Paced(Append(s, clock), 0, clock)
    BY <1>3, <2>2, <2>8, <2>9, PacedOn
  <2> QED BY <1>1, <1>2, <1>3, <1>4, <2>1, <2>10 DEF BucketFits, Turned
<1> QED BY <1>5, <1>6, <1>8, <1>9, <1>10

(* The bucket after a delivery starts, or waits for its token.             *)
LEMMA StartsPaced ==
  ASSUME TypesFit, NEW c \in Channels, RateLimit > 0, BucketFits(c), NEW v, v \in WorkerRow, Starts(c, v),
         worker'[c] = v, clock' = clock
  PROVE  BucketFits(c)'
<1>1. PICK s \in Seq(Nat), tokens \in Nat, now \in Nat, full \in Nat :
         /\ s = started[c] /\ tokens = worker[c].tokens /\ now = worker[c].refill /\ full = Refilled(c)
         /\ full <= RateLimit * Minute /\ full <= tokens + (clock - now) * RateLimit
         /\ now <= clock /\ Paced(s, tokens, now)
  <2>1. worker[c].tokens \in Nat
    BY DEF BucketFits, Paced
  <2> QED BY <2>1, RefilledIs
<1>2. clock \in Nat /\ v.refill = clock /\ RateLimit # 0
  BY DEF TypesFit, Starts
<1>3. CASE full < Minute
  <2>1. /\ v.at = "wait" /\ v.tokens = full /\ started' = started
        /\ v.until = clock + (Minute - full + RateLimit - 1) \div RateLimit
    BY <1>1, <1>2, <1>3 DEF Starts
  <2>2. Paced(s, full, clock)
    BY <1>1, <1>2, PacedAt
  <2>3. PICK need \in Nat : need = Minute - full
    BY <1>3, Limits
  <2>4. PICK n : n = (need + RateLimit - 1) \div RateLimit
    OBVIOUS
  <2>5. n \in Int /\ need <= n * RateLimit
    BY <2>4, RoundedUp, Limits
  <2>6. v.until = clock + n
    BY <2>1, <2>3, <2>4
  <2>7. v.until - v.refill = n
    BY <1>2, <2>5, <2>6
  <2>8. Minute - v.tokens <= (v.until - v.refill) * RateLimit
    BY <2>1, <2>3, <2>5, <2>7
  <2> QED BY <1>1, <1>2, <1>3, <2>1, <2>2, <2>8 DEF BucketFits
<1>4. CASE ~(full < Minute)
  <2>1. v.at = "post" /\ v.tokens = full - Minute /\ started' = [started EXCEPT ![c] = Append(@, clock)]
    BY <1>1, <1>2, <1>4 DEF Starts, Begins
  <2>2. PICK left \in Nat : left = full - Minute
    BY <1>4, Limits
  <2>3. left + Minute = full
    BY <2>2, Limits
  <2>4. Paced(Append(s, clock), left, clock)
    BY <1>1, <1>2, <2>3, PacedOn
  <2>5. started'[c] = Append(s, clock)
    BY <1>1, <2>1 DEF TypesFit
  <2>6. v.at # "wait" /\ v.tokens = left /\ v.refill = clock /\ clock <= clock
    BY <1>2, <2>1, <2>2
  <2>7. Paced(started'[c], v.tokens, v.refill)
    BY <2>4, <2>5, <2>6
  <2> QED BY <2>6, <2>7 DEF BucketFits
<1> QED BY <1>3, <1>4

(* A suppression is justified by what is remembered.                       *)
LEMMA MemoryJustifies ==
  ASSUME NEW c \in Channels, MemoryFits(c), TypesFit, clock' = clock, NEW p, Open(fates[c], p),
         Settled(fates[c], fates'[c], p.number, "suppressed", clock), worker'[c].dedup \subseteq worker[c].dedup,
         NEW d \in worker[c].dedup, d.key = p.event.key, clock - d.at < DedupWindow
  PROVE  MemoryFits(c)'
<1> DEFINE f == fates[c]
           g == fates'[c]
           n == p.number
<1>1. /\ DOMAIN g = DOMAIN f /\ n \in DOMAIN g /\ f[n].fate = "pending" /\ g[n].fate = "suppressed"
      /\ g[n].at = clock /\ g[n].key = p.event.key /\ \A k \in DOMAIN f : k # n => g[k] = f[k]
  BY DEF Open, Settled
<1>2. \A key, at : Delivery(f, key, at) => Delivery(g, key, at)
  BY <1>1 DEF Delivery
<1>3. \A e \in worker'[c].dedup : e.at <= clock' /\ Delivery(g, e.key, e.at)
  BY <1>2 DEF MemoryFits
<1>4. Justified(g)
  <2> SUFFICES ASSUME NEW m \in DOMAIN g, g[m].fate = "suppressed"
               PROVE  \E k \in DOMAIN g :
                        g[k].fate = "delivered" /\ g[k].key = g[m].key /\ g[m].at - g[k].at \in 0 .. DedupWindow - 1
    BY DEF Justified
  <2>1. CASE m = n
    <3>1. d.at \in Nat /\ clock \in Nat /\ d.at <= clock /\ Delivery(g, d.key, d.at)
      BY <1>2 DEF TypesFit, WorkerRow, MemoryFits
    <3>2. PICK k \in DOMAIN g : g[k].fate = "delivered" /\ g[k].key = d.key /\ g[k].at = d.at
      BY <3>1 DEF Delivery
    <3>3. clock - d.at \in 0 .. DedupWindow - 1
      BY <3>1, Limits
    <3> QED BY <1>1, <2>1, <3>2, <3>3
  <2>2. CASE m # n
    <3>1. g[m] = f[m] /\ m \in DOMAIN f
      BY <1>1, <2>2
    <3>2. PICK k \in DOMAIN f :
            f[k].fate = "delivered" /\ f[k].key = f[m].key /\ f[m].at - f[k].at \in 0 .. DedupWindow - 1
      BY <3>1 DEF MemoryFits, Justified
    <3>3. g[k] = f[k]
      BY <1>1, <3>2
    <3> QED BY <1>1, <3>1, <3>2, <3>3
  <2> QED BY <2>1, <2>2
<1> QED BY <1>3, <1>4 DEF MemoryFits

LEMMA RecvFits ==
  ASSUME TypesFit, CountsFit, NEW c \in Channels, ChannelFits(c), MemoryFits(c), RateLimit > 0 => BucketFits(c),
         Recv(c)
  PROVE  /\ TypesFit' /\ CountsFit' /\ ChannelFits(c)' /\ MemoryFits(c)' /\ (RateLimit > 0 => BucketFits(c)')
<1> DEFINE q == inbox[c]
           f == fates[c]
           C == InHands(c)
<1>1. UNCHANGED <<flushed, clock, bytes, sealed, caller>> /\ C' = C
  BY DEF Recv, InHands
<1>2. worker[c].at = "recv" /\ worker[c].held = Idle /\ q # <<>> /\ q \in Seq(Pending)
  BY HoldsWhen DEF Recv, TypesFit
<1>3. Kept(q, Idle, "recv", f, C, bytes[c], sealed[c])
  BY <1>2 DEF ChannelFits
<1>4. inbox' \in [Channels -> Seq(Pending)] /\ inbox'[c] = Tail(q)
  <2>1. Tail(q) \in Seq(Pending)
    BY <1>2, TailIs
  <2> QED BY <2>1 DEF Recv, TypesFit
<1>5. PICK p \in Pending, v \in WorkerRow :
        /\ p = Head(q) /\ v.held = p /\ v.dedup = {d \in worker[c].dedup : clock - d.at < DedupWindow}
        /\ Becomes(c, v)
        /\ \/ /\ v.at = "release" /\ v.tokens = worker[c].tokens /\ v.refill = worker[c].refill
              /\ stats' = Finish(stats, FALSE, FALSE, TRUE) /\ Fate(c, p, "suppressed") /\ UNCHANGED started
              /\ \E d \in v.dedup : d.key = p.event.key
           \/ UNCHANGED <<stats, fates>> /\ Starts(c, v)
  BY RecvIs
<1>6. Turned(c, v.at, p, v.dedup) /\ worker'[c] = v
  BY <1>5, BecomesIs DEF Turned
<1>7. /\ p # Idle /\ Open(f, p)
      /\ \A b \in {"wait", "post"} : Kept(Tail(q), p, b, f, C, bytes[c], sealed[c])
  <2> HIDE DEF q, f, C
  <2>1. Fit(q, Idle, "recv", f, C)
    BY <1>3, KeptIs
  <2>2. ASSUME NEW b \in {"wait", "post"}
        PROVE  /\ Fit(Tail(q), p, b, f, C) /\ p # Idle /\ Open(f, p)
               /\ Holding(Tail(q), p, b, C) = Holding(q, Idle, "recv", C)
    BY <1>2, <1>5, <2>1, Taking
  <2> QED BY <1>3, <2>2 DEF Kept
<1>8. v.dedup \subseteq worker[c].dedup /\ \A d \in v.dedup : clock - d.at < DedupWindow
  BY <1>5
<1>9. CASE /\ v.at = "release" /\ v.tokens = worker[c].tokens /\ v.refill = worker[c].refill
           /\ stats' = Finish(stats, FALSE, FALSE, TRUE) /\ Fate(c, p, "suppressed") /\ UNCHANGED started
           /\ \E d \in v.dedup : d.key = p.event.key
  <2>1. /\ fates' \in [Channels -> Seq(FateRow)]
        /\ Settled(f, fates'[c], p.number, "suppressed", clock)
    BY <1>7, <1>9, Settles
  <2>2. CountsFit' /\ stats' \in Counters
    BY <1>1, <1>7, <1>9, CountsMove
  <2>3. TypesFit'
    BY <1>1, <1>4, <1>6, <1>9, <2>1, <2>2 DEF TypesFit, Turned
  <2>4. ChannelFits(c)'
    <3> DEFINE g == fates'[c]
    <3>1. Turned(c, "release", p, v.dedup) /\ inbox'[c] = Tail(q)
      BY <1>4, <1>6, <1>9
    <3>2. PICK r : r = Tail(q)
      OBVIOUS
    <3> HIDE DEF q, f, C, g
    <3>3. Fit(r, p, "post", f, C) /\ Settled(f, g, p.number, "suppressed", clock) /\ p # Idle
      BY <1>7, <2>1, <3>2, KeptIs DEF g
    <3>4. Fit(r, p, "release", g, C) /\ Holding(r, p, "release", C) = Holding(r, p, "post", C)
      BY <3>3, WorkerSettles
    <3>5. Kept(r, p, "release", g, C, bytes[c], sealed[c])
      BY <1>7, <3>2, <3>4 DEF Kept
    <3> QED BY <1>1, <3>1, <3>2, <3>5, ChannelTurns DEF g, C
  <2>5. MemoryFits(c)'
    <3>1. PICK d \in worker[c].dedup : d.key = p.event.key /\ clock - d.at < DedupWindow
      BY <1>8, <1>9
    <3>2. worker'[c].dedup \subseteq worker[c].dedup
      BY <1>6, <1>8
    <3> QED BY <1>1, <1>7, <2>1, <3>1, <3>2, MemoryJustifies
  <2>6. RateLimit > 0 => BucketFits(c)'
    BY <1>1, <1>6, <1>9 DEF BucketFits
  <2> QED BY <2>2, <2>3, <2>4, <2>5, <2>6
<1>10. CASE UNCHANGED <<stats, fates>> /\ Starts(c, v)
  <2>1. v.at \in {"wait", "post"} /\ (UNCHANGED started \/ Begins(c))
    BY <1>10 DEF Starts
  <2>2. started' \in [Channels -> Seq(Nat)]
    <3>1. Append(started[c], clock) \in Seq(Nat)
      BY AppendProperties DEF TypesFit
    <3> QED BY <2>1, <3>1 DEF TypesFit, Begins
  <2>3. CountsFit'
    BY <1>1, <1>10, CountsStay
  <2>4. TypesFit'
    BY <1>1, <1>4, <1>6, <1>10, <2>2 DEF TypesFit, Turned
  <2>5. ChannelFits(c)'
    <3>1. Kept(inbox'[c], p, v.at, fates'[c], C, bytes'[c], sealed'[c])
      BY <1>1, <1>4, <1>7, <1>10, <2>1
    <3> QED BY <1>1, <1>6, <3>1, ChannelTurns
  <2>6. MemoryFits(c)'
    <3>1. Keeps(fates[c], fates'[c]) /\ worker'[c].dedup \subseteq worker[c].dedup
      BY <1>6, <1>8, <1>10 DEF Keeps
    <3>2. clock \in Nat /\ clock' \in Nat /\ clock <= clock'
      BY <1>1 DEF TypesFit
    <3> QED BY <3>1, <3>2, MemoryStays
  <2>7. RateLimit > 0 => BucketFits(c)'
    BY <1>1, <1>6, <1>10, StartsPaced
  <2> QED BY <2>3, <2>4, <2>5, <2>6, <2>7
<1> QED BY <1>5, <1>9, <1>10

LEMMA WorkerKeeps ==
  ASSUME DispatchInv, NEW c \in Channels, Working(c)
  PROVE  DispatchInv'
<1>1. /\ TypesFit /\ CountsFit /\ ChannelFits(c) /\ MemoryFits(c) /\ (RateLimit > 0 => BucketFits(c))
  BY DEF DispatchInv
<1>2. /\ TypesFit' /\ CountsFit' /\ ChannelFits(c)' /\ MemoryFits(c)' /\ (RateLimit > 0 => BucketFits(c)')
  <2>1. CASE PostAgain(c) \/ (\E delay \in Backoffs : Retry(c, delay)) \/ Break(c)
    BY <1>1, <2>1, PostAgainFits
  <2>2. CASE ReleaseBytes(c) \/ DiscardBytes(c)
    BY <1>1, <2>2, BytesGoBack
  <2>3. CASE DrainNext(c)
    BY <1>1, <2>3, DrainFits
  <2>4. CASE DiscardCount(c)
    BY <1>1, <2>4, DiscardFits
  <2>5. CASE \E sent \in BOOLEAN : Delivered(c, sent)
    BY <1>1, <2>5, DeliveredFits
  <2>6. CASE Wake(c)
    BY <1>1, <2>6, WakeFits
  <2>7. CASE Recv(c)
    BY <1>1, <2>7, RecvFits
  <2> QED BY <2>1, <2>2, <2>3, <2>4, <2>5, <2>6, <2>7 DEF Working
<1>3. ASSUME NEW d \in Channels, d # c
      PROVE  ChannelFits(d)' /\ MemoryFits(d)' /\ (RateLimit > 0 => BucketFits(d)')
  <2>1. /\ UNCHANGED <<caller, clock, flushed>> /\ InHands(d)' = InHands(d)
        /\ inbox'[d] = inbox[d] /\ worker'[d] = worker[d] /\ bytes'[d] = bytes[d]
        /\ fates'[d] = fates[d] /\ started'[d] = started[d] /\ sealed'[d] = sealed[d]
    BY <1>1, <1>3, Apart
  <2>2. ChannelFits(d) /\ MemoryFits(d) /\ (RateLimit > 0 => BucketFits(d))
    BY DEF DispatchInv
  <2>3. ChannelFits(d)'
    BY <2>1, <2>2, ChannelStays
  <2>4. MemoryFits(d)'
    BY <2>1, <2>2 DEF MemoryFits
  <2>5. RateLimit > 0 => BucketFits(d)'
    BY <2>1, <2>2 DEF BucketFits
  <2> QED BY <2>3, <2>4, <2>5
<1> QED BY <1>2, <1>3 DEF DispatchInv

LEMMA CallerKeeps ==
  ASSUME DispatchInv, NEW t \in Client, Calling(t)
  PROVE  DispatchInv'
<1>1. /\ TypesFit /\ CountsFit /\ \A c \in Channels : ChannelFits(c) /\ MemoryFits(c)
      /\ RateLimit > 0 => \A c \in Channels : BucketFits(c)
  BY DEF DispatchInv
<1>2. TypesFit' /\ CountsFit' /\ \A c \in Channels : ChannelFits(c)' /\ MemoryFits(c)'
  BY <1>1, CallerTypes, CallerCounts, CallerChannels, CallerMemory
<1>3. RateLimit > 0 => \A c \in Channels : BucketFits(c)'
  BY <1>1, CallerBuckets
<1> QED BY <1>2, <1>3 DEF DispatchInv

(* Time passes, or nothing happens.                                        *)
LEMMA TimeKeeps ==
  ASSUME DispatchInv, ClockAdvances \/ UNCHANGED dispatchVars
  PROVE  DispatchInv'
<1>1. /\ UNCHANGED <<stats, bytes, inbox, sealed, worker, caller, fates, started, flushed>>
      /\ clock \in Nat /\ clock' \in Nat /\ clock <= clock'
  BY DEF ClockAdvances, dispatchVars, DispatchInv, TypesFit
<1>2. TypesFit'
  BY <1>1 DEF DispatchInv, TypesFit
<1>3. CountsFit'
  BY <1>1, CountsStay DEF DispatchInv
<1>4. ASSUME NEW c \in Channels
      PROVE  ChannelFits(c)' /\ MemoryFits(c)' /\ (RateLimit > 0 => BucketFits(c)')
  <2>1. TypesFit /\ ChannelFits(c) /\ MemoryFits(c) /\ (RateLimit > 0 => BucketFits(c))
    BY DEF DispatchInv
  <2>2. InHands(c)' = InHands(c)
    BY <1>1 DEF InHands
  <2>3. ChannelFits(c)'
    BY <1>1, <2>1, <2>2, ChannelStays
  <2>4. MemoryFits(c)'
    <3>1. Keeps(fates[c], fates'[c]) /\ worker'[c].dedup \subseteq worker[c].dedup
      BY <1>1 DEF Keeps
    <3> QED BY <1>1, <2>1, <3>1, MemoryStays
  <2>5. ASSUME RateLimit > 0 PROVE BucketFits(c)'
    <3>1. worker[c].refill \in Nat /\ BucketFits(c)
      BY <2>1, <2>5 DEF TypesFit, WorkerRow
    <3> QED BY <1>1, <3>1 DEF BucketFits
  <2> QED BY <2>3, <2>4, <2>5
<1> QED BY <1>2, <1>3, <1>4 DEF DispatchInv

LEMMA DispatchBegins == ASSUME DispatchInit PROVE DispatchInv
<1>1. /\ \A c \in Channels : InHands(c) = {} /\ inbox[c] = <<>> /\ fates[c] = <<>> /\ started[c] = <<>>
      /\ \A c \in Channels : bytes[c] = 0 /\ sealed[c] = FALSE /\ worker[c] = NoWork
      /\ clock = 0 /\ flushed = 0
  BY DEF DispatchInit, InHands, Carrying
<1>2. NoWork \in WorkerRow
  <2>1. RateLimit * Minute \in Int
    BY Limits
  <2> QED BY <2>1 DEF NoWork, WorkerRow
<1>3. TypesFit
  <2>1. [at |-> "idle"] \in CallerRow
    BY DEF CallerRow
  <2>2. stats \in Counters
    BY DEF DispatchInit, Counters
  <2> QED BY <1>2, <2>1, <2>2 DEF DispatchInit, TypesFit
<1>4. CountsFit
  <2>1. Ended({"pending"}) = {} /\ Told = {}
    BY <1>1 DEF Ended, Told
  <2>2. stats.pending = 0 /\ stats.completed = 0 /\ stats.failed = 0 /\ stats.accepted = 0 /\ stats.dropped = 0
    BY DEF DispatchInit
  <2>3. IsFiniteSet({}) /\ Cardinality({}) = 0
    BY FS_EmptySet
  <2>4. flushed = 0
    BY <1>1
  <2> QED BY <2>1, <2>2, <2>3, <2>4 DEF CountsFit
<1>5. ASSUME NEW c \in Channels PROVE ChannelFits(c) /\ MemoryFits(c) /\ (RateLimit > 0 => BucketFits(c))
  <2>1. NoWork.at = "recv" /\ NoWork.held = Idle /\ NoWork.dedup = {} /\ NoWork.tokens = RateLimit * Minute /\ NoWork.refill = 0
    BY DEF NoWork
  <2>2. Fit(<<>>, Idle, "recv", <<>>, {})
    BY DEF Fit
  <2>3. Holding(<<>>, Idle, "recv", {}) = {}
    BY RangeIs DEF Holding
  <2>4. Bytes({}) = {}
    BY DEF Bytes
  <2>5. Kept(<<>>, Idle, "recv", <<>>, {}, 0, FALSE)
    BY <2>2, <2>3, <2>4, FS_EmptySet, Limits, SMTT(30) DEF Kept
  <2>6. ChannelFits(c)
    BY <1>1, <2>1, <2>5 DEF ChannelFits
  <2>7. MemoryFits(c)
    BY <1>1, <2>1 DEF MemoryFits, Justified
  <2>8. RateLimit > 0 => BucketFits(c)
    <3>1. RateLimit * Minute \in Nat
      BY Limits
    <3> QED BY <1>1, <2>1, <3>1 DEF BucketFits, Paced
  <2> QED BY <2>6, <2>7, <2>8
<1> QED BY <1>3, <1>4, <1>5 DEF DispatchInv

(* What the invariant says of the Pendings that exist, wherever they are.  *)
LEMMA ReservedIs ==
  ASSUME NEW c
  PROVE  Reserved(c) = Holding(inbox[c], worker[c].held, worker[c].at, InHands(c))
<1>1. {x[2] : x \in {y \in InHands(c) : y[3] # "uncounted"}} =
        {caller[t].held : t \in {u \in Client : caller[u].at \in {"try", "refused"} /\ caller[u].channel = c}}
  <2>1. ASSUME NEW p
        PROVE  (\E x \in InHands(c) : x[3] # "uncounted" /\ p = x[2])
                 <=> \E t \in Client : caller[t].at \in {"try", "refused"} /\ caller[t].channel = c /\ p = caller[t].held
    <3>1. ASSUME NEW x \in InHands(c), x[3] # "uncounted"
          PROVE  \E t \in Client : caller[t].at \in {"try", "refused"} /\ caller[t].channel = c /\ x[2] = caller[t].held
      <4>1. PICK t \in Client : /\ caller[t].at \in Carrying /\ caller[t].channel = c
                                /\ x = <<t, caller[t].held, caller[t].at>>
        BY DEF InHands
      <4>2. x[2] = caller[t].held /\ x[3] = caller[t].at
        BY <4>1
      <4> QED BY <3>1, <4>1, <4>2 DEF Carrying
    <3>2. ASSUME NEW t \in Client, caller[t].at \in {"try", "refused"}, caller[t].channel = c
          PROVE  \E x \in InHands(c) : x[3] # "uncounted" /\ caller[t].held = x[2]
      <4> DEFINE x == <<t, caller[t].held, caller[t].at>>
      <4>1. x \in InHands(c)
        BY <3>2 DEF InHands, Carrying
      <4>2. x[3] # "uncounted" /\ caller[t].held = x[2]
        BY <3>2
      <4> HIDE DEF x
      <4> QED BY <4>1, <4>2
    <3> QED BY <3>1, <3>2
  <2> QED BY <2>1
<1> QED BY <1>1 DEF Reserved, Holding

LEMMA InvIsHonest == ASSUME DispatchInv PROVE DispatchIsHonest
<1>1. /\ TypesFit /\ CountsFit /\ \A c \in Channels : ChannelFits(c) /\ MemoryFits(c)
      /\ RateLimit > 0 => \A c \in Channels : BucketFits(c)
  BY DEF DispatchInv
<1>2. PendingsAddUp
  <2>1. ASSUME NEW c \in Channels
        PROVE  /\ bytes[c] = Cardinality(Bytes(Reserved(c))) /\ bytes[c] <= PendingBytes
               /\ worker[c].at = "gone" => inbox[c] = <<>>
    BY <1>1, ReservedIs DEF ChannelFits, Kept
  <2> QED BY <1>1, <2>1 DEF PendingsAddUp, CountsFit
<1>3. SuppressedWereDelivered
  BY <1>1 DEF SuppressedWereDelivered, MemoryFits, Justified
<1>4. RateHolds
  BY <1>1 DEF RateHolds, BucketFits, Paced
<1>5. flushed <= Cardinality(Ended({"delivered", "suppressed"}))
  BY <1>1 DEF CountsFit, Told
<1> QED BY <1>2, <1>3, <1>4, <1>5 DEF DispatchIsHonest

-------------------------------------------------------------------------------
(* The dispatcher tells the truth about every alert it was given, for any  *)
(* channels, events, callers and limits: whatever refusals, retries,       *)
(* cancellations and closes come between, each is settled once and its     *)
(* bytes are given back once, a suppressed one repeats a delivery within   *)
(* the window, no channel outruns its rate, and a flush that reports       *)
(* success left nothing undelivered (alert-http send, worker,              *)
(* Pending::drop, flush).                                                  *)
THEOREM DispatchStaysHonest == DispatchSpec => []DispatchIsHonest
<1>1. DispatchInit => DispatchInv
  BY DispatchBegins
<1>2. DispatchInv /\ [DispatchNext]_dispatchVars => DispatchInv'
  BY CallerKeeps, WorkerKeeps, TimeKeeps DEF DispatchNext
<1>3. DispatchInv => DispatchIsHonest
  BY InvIsHonest
<1> QED BY <1>1, <1>2, <1>3, PTL DEF DispatchSpec

===============================================================================

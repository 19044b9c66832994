----------------------------- MODULE StoreUpgrade -----------------------------
(***************************************************************************)
(* SnapshotStore::open on a store that an older build, or an interrupted   *)
(* open, left behind.  The raw snapshots stay; the tables derived from     *)
(* them (heads, chart index, artifact index) are created, upgraded and     *)
(* caught up in a series of transactions of their own, and the process may *)
(* die between any two of them.                                            *)
(*                                                                         *)
(* Each index is what its insert leaves of the rows it has visited: the    *)
(* ids it lists, and its position.  A second insert of an id is an error   *)
(* (both key their tables by it), which `count' shows.                     *)
(***************************************************************************)
EXTENDS Integers, Sequences, FiniteSets, FiniteSetsExt

CONSTANTS
  Source,
  BatchRows,   \* LIMIT 64, rows caught up per transaction
  MaxRows,
  MaxCrashes

ASSUME UpgradeAssumption ==
  /\ BatchRows \in Nat \ {0}
  /\ MaxRows \in Nat
  /\ MaxCrashes \in Nat

VARIABLES
  rows,         \* snapshots, row n having id n
  heads_table,  \* snapshot_heads exists
  heads,        \* its entries, 0 for none
  chart,        \* chart_index_meta, chart_observations, chart_runs
  artifacts,    \* artifact_index_meta, artifact_lineage
  pc,           \* place in open; "closed" before it and "open" after it
  had_heads,    \* local: has_heads
  rebuilt,      \* local: what chart_index::initialize returned
  crashes

vars == <<rows, heads_table, heads, chart, artifacts, pc, had_heads, rebuilt, crashes>>

Row == [source : Source, kind : {"plain", "artifact", "event"}]

Ids == DOMAIN rows

(* Rows the chart index lists (all but Tracker events), and those that     *)
(* carry artifact records.                                                 *)
Shown(i) == rows[i].kind # "event"

HasArtifacts(i) == rows[i].kind = "artifact"

LastId(ids) == Max({0} \cup ids)

Index == [version : {"old", "current"}, last_id : Nat, listed : SUBSET Nat, count : Nat]

(* Absent tables and an outdated version are treated alike.                *)
OldIndex == [version |-> "old", last_id |-> 0, listed |-> {}, count |-> 0]

EmptyIndex == [OldIndex EXCEPT !.version = "current"]

(* Mutant: the position is one row behind.                                 *)
InsertBehind(index, ids, some) ==
  [index EXCEPT !.last_id = LastId(ids) - 1,
                !.listed = @ \cup some,
                !.count = @ + Cardinality(some)]

(* Mutant: rows that are not listed do not move the position.              *)
InsertListedOnly(index, ids, some) ==
  [index EXCEPT !.last_id = LastId({@} \cup some),
                !.listed = @ \cup some,
                !.count = @ + Cardinality(some)]

(* insert, for the rows `ids', of which the index lists those in `some'.   *)
Insert(index, ids, some) ==
  [index EXCEPT !.last_id = LastId(ids),
                !.listed = @ \cup some,
                !.count = @ + Cardinality(some)]

(* What an older build can have left: no heads, heads that follow events   *)
(* too, or the tables as they are now with the artifact index to upgrade.  *)
Init ==
  /\ rows \in UNION {[1 .. n -> Row] : n \in 0 .. MaxRows}
  /\ artifacts = OldIndex
  /\ \/ /\ heads_table = FALSE
        /\ heads = [s \in Source |-> 0]
        /\ chart = OldIndex
     \/ /\ heads_table = TRUE
        /\ heads = [s \in Source |-> LastId({i \in Ids : rows[i].source = s})]
        /\ chart = OldIndex
     \/ /\ heads_table = TRUE
        /\ heads = [s \in Source |-> LastId({i \in Ids : rows[i].source = s /\ Shown(i)})]
        /\ chart \in {OldIndex, Insert(EmptyIndex, Ids, {i \in Ids : Shown(i)})}
  /\ pc = "closed"
  /\ had_heads = FALSE
  /\ rebuilt = FALSE
  /\ crashes = 0

(* The first transaction of open: missing tables are created, and missing  *)
(* heads filled in with each Source's last row, whatever its kind.         *)
CreateTables ==
  /\ pc = "closed"
  /\ had_heads' = heads_table
  /\ heads_table' = TRUE
  /\ heads' = IF heads_table THEN heads
              ELSE [s \in Source |-> LastId({i \in Ids : rows[i].source = s})]
  /\ pc' = "chart"
  /\ UNCHANGED <<rows, chart, artifacts, rebuilt, crashes>>

(* chart_index::initialize: an outdated index is dropped for an empty one. *)
ResetChart ==
  /\ pc = "chart"
  /\ rebuilt' = (chart.version # "current")
  /\ chart' = IF chart.version # "current" THEN EmptyIndex ELSE chart
  /\ pc' = "chart_rows"
  /\ UNCHANGED <<rows, heads_table, heads, artifacts, had_heads, crashes>>

(* The rows of one catch-up transaction: at least one, fewer than          *)
(* BatchRows where the byte budget ends it.                                *)
NextRows(index, n) == {i \in Ids : index.last_id < i /\ i <= index.last_id + n}

CatchUpChart(n) ==
  LET ids == NextRows(chart, n)
  IN /\ pc = "chart_rows"
     /\ chart.last_id + n <= Len(rows)
     /\ chart' = Insert(chart, ids, {i \in ids : Shown(i)})
     /\ UNCHANGED <<rows, heads_table, heads, artifacts, pc, had_heads, rebuilt, crashes>>

(* No row is left; heads are looked at only after an upgrade.              *)
ChartDone ==
  /\ pc = "chart_rows"
  /\ chart.last_id = Len(rows)
  /\ pc' = IF rebuilt \/ ~had_heads THEN "heads_delete" ELSE "artifacts"
  /\ UNCHANGED <<rows, heads_table, heads, chart, artifacts, had_heads, rebuilt, crashes>>

(* The two statements on snapshot_heads commit one by one.                 *)
DeleteHeads ==
  /\ pc = "heads_delete"
  /\ heads' = [s \in Source |-> IF heads[s] \in chart.listed THEN heads[s] ELSE 0]
  /\ pc' = "heads_insert"
  /\ UNCHANGED <<rows, heads_table, chart, artifacts, had_heads, rebuilt, crashes>>

InsertHeads ==
  LET of(s) == {i \in chart.listed : rows[i].source = s}
  IN /\ pc = "heads_insert"
     /\ heads' = [s \in Source |-> IF of(s) = {} THEN heads[s] ELSE LastId(of(s))]
     /\ pc' = "artifacts"
     /\ UNCHANGED <<rows, heads_table, chart, artifacts, had_heads, rebuilt, crashes>>

(* artifact_index::initialize, the same way.                               *)
ResetArtifacts ==
  /\ pc = "artifacts"
  /\ artifacts' = IF artifacts.version # "current" THEN EmptyIndex ELSE artifacts
  /\ pc' = "artifact_rows"
  /\ UNCHANGED <<rows, heads_table, heads, chart, had_heads, rebuilt, crashes>>

CatchUpArtifacts(n) ==
  LET ids == NextRows(artifacts, n)
  IN /\ pc = "artifact_rows"
     /\ artifacts.last_id + n <= Len(rows)
     /\ artifacts' = Insert(artifacts, ids, {i \in ids : HasArtifacts(i)})
     /\ UNCHANGED <<rows, heads_table, heads, chart, pc, had_heads, rebuilt, crashes>>

ArtifactsDone ==
  /\ pc = "artifact_rows"
  /\ artifacts.last_id = Len(rows)
  /\ pc' = "open"
  /\ UNCHANGED <<rows, heads_table, heads, chart, artifacts, had_heads, rebuilt, crashes>>

(* A snapshot stored by ingest_page: row, both indexes and head at once.   *)
Ingest(row) ==
  LET id == Len(rows) + 1
  IN /\ pc = "open"
     /\ Len(rows) < MaxRows
     /\ rows' = Append(rows, row)
     /\ chart' = Insert(chart, {id}, IF row.kind = "event" THEN {} ELSE {id})
     /\ artifacts' = Insert(artifacts, {id}, IF row.kind = "artifact" THEN {id} ELSE {})
     /\ heads' = IF row.kind = "event" THEN heads ELSE [heads EXCEPT ![row.source] = id]
     /\ UNCHANGED <<heads_table, pc, had_heads, rebuilt, crashes>>

Close ==
  /\ pc = "open"
  /\ pc' = "closed"
  /\ UNCHANGED <<rows, heads_table, heads, chart, artifacts, had_heads, rebuilt, crashes>>

(* The process dies; what has been committed stays.                        *)
Crash ==
  /\ pc # "closed"
  /\ crashes < MaxCrashes
  /\ crashes' = crashes + 1
  /\ pc' = "closed"
  /\ UNCHANGED <<rows, heads_table, heads, chart, artifacts, had_heads, rebuilt>>

Opening ==
  \/ ResetChart
  \/ \E n \in 1 .. BatchRows : CatchUpChart(n)
  \/ ChartDone
  \/ DeleteHeads
  \/ InsertHeads
  \/ ResetArtifacts
  \/ \E n \in 1 .. BatchRows : CatchUpArtifacts(n)
  \/ ArtifactsDone

Next ==
  \/ CreateTables
  \/ Opening
  \/ \E row \in Row : Ingest(row)
  \/ Close
  \/ Crash

Spec == Init /\ [][Next]_vars

(* open runs on while the process lives.                                   *)
FairSpec == Spec /\ WF_vars(Opening)

-------------------------------------------------------------------------------
(* Tables and locals have the declared shape, and past its check each      *)
(* index has the version this build reads.                                 *)
TypeOK ==
  /\ rows \in Seq(Row)
  /\ heads_table \in BOOLEAN
  /\ heads \in [Source -> Nat]
  /\ chart \in Index
  /\ artifacts \in Index
  /\ pc \in {"closed", "chart", "chart_rows", "heads_delete", "heads_insert",
             "artifacts", "artifact_rows", "open"}
  /\ had_heads \in BOOLEAN
  /\ rebuilt \in BOOLEAN
  /\ crashes \in 0 .. MaxCrashes
  /\ pc \notin {"closed", "chart"} => chart.version = "current"
  /\ pc \in {"artifact_rows", "open"} => artifacts.version = "current"
  /\ pc # "closed" => heads_table

(* The index lists, once each, the wanted rows up to its position.         *)
Exact(index, wanted) ==
  /\ index.last_id <= Len(rows)
  /\ index.listed = {i \in wanted : i <= index.last_id}
  /\ index.count = Cardinality(index.listed)

(* An index of the current version is exact for the rows it has visited at *)
(* every moment, so an interrupted catch-up resumes without omission or    *)
(* repetition; and an open store has both indexes caught up.               *)
IndexesAreExact ==
  /\ chart.version = "current" => Exact(chart, {i \in Ids : Shown(i)})
  /\ artifacts.version = "current" => Exact(artifacts, {i \in Ids : HasArtifacts(i)})
  /\ pc = "open" =>
       \A index \in {chart, artifacts} : index.version = "current" /\ index.last_id = Len(rows)

HeadsRight ==
  \A s \in Source : heads[s] = LastId({i \in Ids : rows[i].source = s /\ Shown(i)})

(* An upgrade that was not interrupted leaves every head on its Source's   *)
(* newest observation, whatever the older build had kept there, and normal *)
(* operation keeps it so.                                                  *)
HeadsAfterUpgrade == pc = "open" /\ crashes = 0 => HeadsRight

(* An open store is usable: its indexes are exact, and so are its heads    *)
(* unless an open was interrupted.                                         *)
OpenIsExact == TypeOK /\ IndexesAreExact /\ HeadsAfterUpgrade

(* An open that is not interrupted returns: both catch-up loops end.       *)
OpenReturns == pc = "chart" ~> pc \in {"open", "closed"}

(* What the comment on the rebuild in open says: after an index upgrade    *)
(* the heads are those of the non-event observations.                      *)
HeadsAreRebuilt == pc = "open" => HeadsRight

===============================================================================

-------------------------------- MODULE UiServer ------------------------------
(* The server's dashboard settings: one shared workspace document and one  *)
(* row of preferences per browser, each with a revision and the last       *)
(* mutation that wrote it.  Every operation is one metadata transaction.   *)
EXTENDS UiDocuments

CONSTANTS
  Experiment, RegisteredRun, RegisteredSource,  \* the registry's rows: never deleted
  BrowserId,      \* the identities new_id can mint
  MaxBrowsers

(* Identities are UUIDs: there are more of them than browsers admitted.    *)
ASSUME BrowserAssumption ==
  /\ None \notin BrowserId \cup MutationId
  /\ IsFiniteSet(BrowserId) /\ MaxBrowsers \in Nat /\ MaxBrowsers <= Cardinality(BrowserId)

(* The tables as initialize creates them.                                  *)
EmptyTables ==
  [workspaces |-> [revision |-> 0, sets |-> <<>>, mutation |-> None, payload |-> None],
   browsers |-> [b \in {} |-> None]]

DefaultPreferences ==
  [revision |-> 0, theme |-> "light", width |-> 280, selected |-> [e \in {} |-> None],
   runColors |-> [r \in {} |-> None], mutation |-> None, payload |-> None]

(* What a row shows: its document, not its mutation.                       *)
WorkspaceDocument(row) == [revision |-> row.revision, sets |-> row.sets]

BrowserDocument(row) == Restrict(row, {"revision", "theme", "width", "selected", "runColors"})

Reply(db, status, value) == [db |-> db, status |-> status, value |-> value]

(* ApiError: invalid input and a missing bootstrap are both 400.           *)
Refused(db) == Reply(db, 400, None)

Conflict(db, current) == Reply(db, 409, current)

-------------------------------------------------------------------------------
(* ui_state: the shared document, and the row of a known browser or a new  *)
(* one, unless the registry is full.                                       *)
UiState(db, id, fresh) ==
  LET known == id \in DOMAIN db.browsers
      b == IF known THEN id ELSE fresh
      rows == IF known THEN db.browsers
              ELSE [x \in DOMAIN db.browsers \cup {fresh} |->
                      IF x = fresh THEN DefaultPreferences ELSE db.browsers[x]]
  IN IF ~known /\ Cardinality(DOMAIN db.browsers) >= MaxBrowsers THEN Refused(db)
     ELSE Reply([db EXCEPT !.browsers = rows], 200,
                [cookie |-> b, workspaces |-> WorkspaceDocument(db.workspaces),
                 browser |-> BrowserDocument(rows[b])])

(* Only the latest mutation is recognised, and only with its own payload.  *)
Retry(row, input) == row.mutation = input.mutation /\ row.payload = input

Reused(row, input) == row.mutation = input.mutation /\ row.payload # input

RevisionIgnored(row, input) == TRUE

RevisionMatches(row, input) == row.revision = input.revision

SetExperiments(sets) ==
  {<<sets[i].experimentId, sets[i].id>> : i \in DOMAIN sets}

SelectionsIn(selected, sets) ==
  {e \in DOMAIN selected : <<e, selected[e]>> \in SetExperiments(sets)}

(* validate_workspace_relations: experiments and Sources must be known.    *)
RelationsHold(sets) ==
  \A i \in DOMAIN sets :
    /\ sets[i].experimentId \in Experiment
    /\ \A j \in DOMAIN sets[i].panels : SourceIds(sets[i].panels[j]) \subseteq RegisteredSource

PruneKeepsMutation(row, sets) ==
  LET kept == SelectionsIn(row.selected, sets)
  IN IF kept = DOMAIN row.selected THEN row
     ELSE [row EXCEPT !.selected = Restrict(@, kept), !.revision = @ + 1]

(* prune_selections: a pruned row advances and forgets its mutation.       *)
PruneRow(row, sets) ==
  LET kept == SelectionsIn(row.selected, sets)
  IN IF kept = DOMAIN row.selected THEN row
     ELSE [row EXCEPT !.selected = Restrict(@, kept), !.revision = @ + 1,
                      !.mutation = None, !.payload = None]

PruneNothing(browsers, sets) == browsers

PruneSelections(browsers, sets) == [b \in DOMAIN browsers |-> PruneRow(browsers[b], sets)]

(* save_workspaces.  The row keeps the sets encoded.                       *)
SaveWorkspaces(db, id, input) ==
  LET row == db.workspaces
      stored == Each(input.sets, EncodeSet)
      changed == row.sets # stored
      pruned == IF changed THEN PruneSelections(db.browsers, stored) ELSE db.browsers
      next == [revision |-> IF changed THEN row.revision + 1 ELSE row.revision,
               sets |-> stored, mutation |-> input.mutation, payload |-> input]
  IN IF id \notin DOMAIN db.browsers \/ ~ValidWorkspaces(input) THEN Refused(db)
     ELSE IF Reused(row, input) THEN Conflict(db, WorkspaceDocument(row))
     ELSE IF Retry(row, input) THEN Reply(db, 200, WorkspaceDocument(row))
     ELSE IF ~RevisionMatches(row, input) THEN Conflict(db, WorkspaceDocument(row))
     ELSE IF \/ ~RelationsHold(input.sets)
             \/ changed /\ row.revision = MaxRevision
             \/ \E b \in DOMAIN pruned : pruned[b].revision > MaxRevision
          THEN Refused(db)
     ELSE Reply([db EXCEPT !.workspaces = next, !.browsers = pruned], 200,
                WorkspaceDocument(next))

(* save_browser_preferences.                                               *)
SaveBrowserPreferences(db, id, input) ==
  LET row == db.browsers[id]
      asked == Restrict(input, {"theme", "width", "selected", "runColors"})
      changed == Restrict(row, DOMAIN asked) # asked
      next == [f \in DOMAIN row |->
                 CASE f = "revision" -> IF changed THEN row.revision + 1 ELSE row.revision
                   [] f = "mutation" -> input.mutation
                   [] f = "payload" -> input
                   [] OTHER -> asked[f]]
  IN IF id \notin DOMAIN db.browsers \/ ~ValidBrowser(input) THEN Refused(db)
     ELSE IF Reused(row, input) THEN Conflict(db, BrowserDocument(row))
     ELSE IF Retry(row, input) THEN Reply(db, 200, BrowserDocument(row))
     ELSE IF ~RevisionMatches(row, input) THEN Conflict(db, BrowserDocument(row))
     ELSE IF \/ SelectionsIn(input.selected, db.workspaces.sets) # DOMAIN input.selected
             \/ ~(DOMAIN input.runColors \subseteq RegisteredRun)
             \/ changed /\ row.revision = MaxRevision
          THEN Refused(db)
     ELSE Reply([db EXCEPT !.browsers[id] = next], 200, BrowserDocument(next))

-------------------------------------------------------------------------------
(* The HTTP handlers: a body that does not decode is refused before the    *)
(* engine sees it.                                                         *)

PutWorkspaces(db, cookie, body) ==
  LET sets == Each(body.sets, DecodeSet)
  IN IF sets = Invalid THEN Refused(db)
     ELSE SaveWorkspaces(db, cookie, [body EXCEPT !.sets = sets])

PutBrowser(db, cookie, body) ==
  LET selected == DecodeMap(body.selected, MaxSets)
      runColors == DecodeMap(body.runColors, MaxRunColors)
  IN IF Invalid \in {selected, runColors} THEN Refused(db)
     ELSE SaveBrowserPreferences(db, cookie,
            [body EXCEPT !.selected = selected, !.runColors = runColors])

===============================================================================

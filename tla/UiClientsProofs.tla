----------------------------- MODULE UiClientsProofs ---------------------------
(***************************************************************************)
(* What holds of the dashboard's settings for any browsers, workspaces and *)
(* limits, over a network that loses and delays.                           *)
(***************************************************************************)
EXTENDS UiClients, FiniteSetTheorems, SequenceTheorems, TLAPS

-------------------------------------------------------------------------------
(* The server alone: every selection is of a workspace that is there.      *)
RowsSelect(browsers, sets) ==
  \A b \in DOMAIN browsers :
    /\ "selected" \in DOMAIN browsers[b]
    /\ \A e \in DOMAIN browsers[b].selected :
         <<e, browsers[b].selected[e]>> \in SetExperiments(sets)

TablesFit(d) ==
  /\ d = [workspaces |-> d.workspaces, browsers |-> d.browsers]
  /\ RowsSelect(d.browsers, d.workspaces.sets)

LEMMA ReplyFields ==
  ASSUME NEW d, NEW status, NEW value
  PROVE  /\ Reply(d, status, value).db = d /\ Reply(d, status, value).status = status
         /\ Reply(d, status, value).value = value
         /\ Refused(d).db = d /\ Refused(d).status = 400
         /\ Conflict(d, value).db = d /\ Conflict(d, value).status = 409 /\ Conflict(d, value).value = value
BY DEF Reply, Refused, Conflict

LEMMA NewBrowsers ==
  ASSUME NEW w0, NEW b0, NEW bs, NEW d, d = [workspaces |-> w0, browsers |-> b0]
  PROVE  [d EXCEPT !.browsers = bs] = [workspaces |-> w0, browsers |-> bs]
OBVIOUS

LEMMA NewTables ==
  ASSUME NEW w0, NEW b0, NEW w, NEW bs, NEW d, d = [workspaces |-> w0, browsers |-> b0]
  PROVE  [d EXCEPT !.workspaces = w, !.browsers = bs] = [workspaces |-> w, browsers |-> bs]
<1>1. PICK e : e = [d EXCEPT !.workspaces = w]
  OBVIOUS
<1>2. e = [workspaces |-> w, browsers |-> b0]
  BY <1>1
<1>3. [d EXCEPT !.workspaces = w, !.browsers = bs] = [e EXCEPT !.browsers = bs]
  BY <1>1
<1> QED BY <1>2, <1>3, NewBrowsers

LEMMA OtherTables ==
  ASSUME NEW d, TablesFit(d)
  PROVE  /\ \A bs : [d EXCEPT !.browsers = bs] = [workspaces |-> d.workspaces, browsers |-> bs]
         /\ \A w, bs : [d EXCEPT !.workspaces = w, !.browsers = bs] = [workspaces |-> w, browsers |-> bs]
<1>1. d = [workspaces |-> d.workspaces, browsers |-> d.browsers]
  BY DEF TablesFit
<1>2. PICK w0, b0 : w0 = d.workspaces /\ b0 = d.browsers
  OBVIOUS
<1>3. d = [workspaces |-> w0, browsers |-> b0]
  BY <1>1, <1>2
<1>4. ASSUME NEW bs
      PROVE  [d EXCEPT !.browsers = bs] = [workspaces |-> d.workspaces, browsers |-> bs]
  BY <1>2, <1>3, NewBrowsers
<1>5. ASSUME NEW w, NEW bs
      PROVE  [d EXCEPT !.workspaces = w, !.browsers = bs] = [workspaces |-> w, browsers |-> bs]
  BY <1>3, NewTables
<1> QED BY <1>4, <1>5

LEMMA NewTablesFit ==
  ASSUME NEW w, NEW bs, RowsSelect(bs, w.sets)
  PROVE  TablesFit([workspaces |-> w, browsers |-> bs])
BY DEF TablesFit

Kinds == {"state", "workspaces", "browser"}

Statuses == {200, 400, 409}

LEMMA UiStateFits ==
  ASSUME NEW d, TablesFit(d), NEW id, NEW fresh
  PROVE  TablesFit(UiState(d, id, fresh).db) /\ UiState(d, id, fresh).status \in Statuses
<1> DEFINE known == id \in DOMAIN d.browsers
           rows == IF known THEN d.browsers
                   ELSE [x \in DOMAIN d.browsers \cup {fresh} |->
                           IF x = fresh THEN DefaultPreferences ELSE d.browsers[x]]
<1>0. UiState(d, id, fresh).status \in Statuses
  BY ReplyFields DEF UiState, Statuses
<1>1. UiState(d, id, fresh).db = d \/ UiState(d, id, fresh).db = [d EXCEPT !.browsers = rows]
  BY ReplyFields DEF UiState
<1>2. "selected" \in DOMAIN DefaultPreferences /\ DOMAIN DefaultPreferences.selected = {}
  BY DEF DefaultPreferences
<1>3. RowsSelect(rows, d.workspaces.sets)
  BY <1>2 DEF RowsSelect, TablesFit
<1>4. TablesFit([d EXCEPT !.browsers = rows])
  <2> HIDE DEF rows
  <2>1. [d EXCEPT !.browsers = rows] = [workspaces |-> d.workspaces, browsers |-> rows]
    BY OtherTables
  <2> QED BY <1>3, <2>1, NewTablesFit
<1> HIDE DEF rows
<1> QED BY <1>0, <1>1, <1>4

LEMMA PrunedSelect ==
  ASSUME NEW browsers, NEW sets, \A b \in DOMAIN browsers : "selected" \in DOMAIN browsers[b]
  PROVE  RowsSelect(PruneSelections(browsers, sets), sets)
<1>1. ASSUME NEW row, "selected" \in DOMAIN row
      PROVE  LET new == PruneRow(row, sets)
             IN /\ "selected" \in DOMAIN new
                /\ \A e \in DOMAIN new.selected : <<e, new.selected[e]>> \in SetExperiments(sets)
  <2> DEFINE kept == SelectionsIn(row.selected, sets)
  <2>1. \A e \in kept : e \in DOMAIN row.selected /\ <<e, row.selected[e]>> \in SetExperiments(sets)
    BY DEF SelectionsIn
  <2>2. CASE kept = DOMAIN row.selected
    <3>1. PruneRow(row, sets) = row
      BY <2>2 DEF PruneRow
    <3> QED BY <1>1, <2>1, <2>2, <3>1
  <2>3. CASE kept # DOMAIN row.selected
    <3> HIDE DEF kept
    <3>1. PruneRow(row, sets) =
            [row EXCEPT !.selected = Restrict(@, kept), !.revision = @ + 1,
                        !.mutation = None, !.payload = None]
      BY <2>3 DEF PruneRow, kept
    <3>2. PruneRow(row, sets).selected = Restrict(row.selected, kept) /\ "selected" \in DOMAIN PruneRow(row, sets)
      BY <1>1, <3>1
    <3> QED BY <2>1, <3>2 DEF Restrict
  <2> QED BY <2>2, <2>3
<1> QED BY <1>1 DEF PruneSelections, RowsSelect

LEMMA SaveWorkspacesFits ==
  ASSUME NEW d, TablesFit(d), NEW id, NEW input
  PROVE  TablesFit(SaveWorkspaces(d, id, input).db) /\ SaveWorkspaces(d, id, input).status \in Statuses
<1> DEFINE row == d.workspaces
           stored == Each(input.sets, EncodeSet)
           changed == row.sets # stored
           pruned == IF changed THEN PruneSelections(d.browsers, stored) ELSE d.browsers
           next == [revision |-> IF changed THEN row.revision + 1 ELSE row.revision,
                    sets |-> stored, mutation |-> input.mutation, payload |-> input]
<1> HIDE DEF stored
<1>0. SaveWorkspaces(d, id, input).status \in Statuses
  BY ReplyFields DEF SaveWorkspaces, Statuses
<1>1. \/ SaveWorkspaces(d, id, input).db = d
      \/ SaveWorkspaces(d, id, input).db = [d EXCEPT !.workspaces = next, !.browsers = pruned]
  BY ReplyFields DEF SaveWorkspaces, stored
<1>2. next.sets = stored
  OBVIOUS
<1>3. RowsSelect(pruned, stored)
  <2>1. CASE changed
    BY <2>1, PrunedSelect DEF TablesFit, RowsSelect
  <2>2. CASE ~changed
    BY <2>2 DEF TablesFit
  <2> QED BY <2>1, <2>2
<1>4. TablesFit([d EXCEPT !.workspaces = next, !.browsers = pruned])
  <2> HIDE DEF next, pruned
  <2>1. [d EXCEPT !.workspaces = next, !.browsers = pruned] = [workspaces |-> next, browsers |-> pruned]
    BY OtherTables, ZenonT(40)
  <2> QED BY <1>2, <1>3, <2>1, NewTablesFit
<1> HIDE DEF next, pruned
<1> QED BY <1>0, <1>1, <1>4

LEMMA SaveBrowserFits ==
  ASSUME NEW d, TablesFit(d), NEW id, NEW input
  PROVE  TablesFit(SaveBrowserPreferences(d, id, input).db) /\ SaveBrowserPreferences(d, id, input).status \in Statuses
<1> DEFINE row == d.browsers[id]
           asked == Restrict(input, {"theme", "width", "selected", "runColors"})
           changed == Restrict(row, DOMAIN asked) # asked
           next == [f \in DOMAIN row |->
                      CASE f = "revision" -> IF changed THEN row.revision + 1 ELSE row.revision
                        [] f = "mutation" -> input.mutation
                        [] f = "payload" -> input
                        [] OTHER -> asked[f]]
           all == SelectionsIn(input.selected, d.workspaces.sets) = DOMAIN input.selected
<1>0. SaveBrowserPreferences(d, id, input).status \in Statuses
  BY ReplyFields DEF SaveBrowserPreferences, Statuses
<1>1. \/ SaveBrowserPreferences(d, id, input).db = d
      \/ /\ SaveBrowserPreferences(d, id, input).db = [d EXCEPT !.browsers[id] = next]
         /\ id \in DOMAIN d.browsers /\ all
  BY ReplyFields DEF SaveBrowserPreferences
<1>2. asked["selected"] = input.selected
  BY DEF Restrict
<1>3. id \in DOMAIN d.browsers => "selected" \in DOMAIN row
  BY DEF TablesFit, RowsSelect
<1>4. id \in DOMAIN d.browsers => "selected" \in DOMAIN next /\ next.selected = input.selected
  <2> HIDE DEF asked
  <2> QED BY <1>2, <1>3
<1> HIDE DEF next
<1>5. ASSUME id \in DOMAIN d.browsers, all
      PROVE  RowsSelect([d.browsers EXCEPT ![id] = next], d.workspaces.sets)
  BY <1>4, <1>5 DEF RowsSelect, TablesFit, SelectionsIn
<1>6. ASSUME id \in DOMAIN d.browsers
      PROVE  [d EXCEPT !.browsers[id] = next] = [workspaces |-> d.workspaces, browsers |-> [d.browsers EXCEPT ![id] = next]]
  <2>1. PICK w0, b0 : d = [workspaces |-> w0, browsers |-> b0]
    BY DEF TablesFit
  <2> QED BY <2>1
<1> QED BY <1>0, <1>1, <1>5, <1>6, NewTablesFit

LEMMA ServedFits ==
  ASSUME TablesFit(db), NEW m, m.kind \in {"state", "workspaces", "browser"}
  PROVE  TablesFit(Served(m).db) /\ Served(m).status \in Statuses
<1>1. CASE m.kind = "state"
  BY <1>1, UiStateFits DEF Served
<1>2. CASE m.kind = "workspaces"
  <2>1. Served(m) = PutWorkspaces(db, m.cookie, m.body)
    BY <1>2 DEF Served
  <2> QED BY <2>1, SaveWorkspacesFits, ReplyFields DEF PutWorkspaces, Statuses
<1>3. CASE m.kind = "browser"
  <2>1. Served(m) = PutBrowser(db, m.cookie, m.body)
    BY <1>3 DEF Served
  <2> QED BY <2>1, SaveBrowserFits, ReplyFields DEF PutBrowser, Statuses
<1> QED BY <1>1, <1>2, <1>3
(* Every message is of one of the three concerns, so that the server       *)
(* answers each by one of its three operations, and every answer has one   *)
(* of the statuses a browser tells apart.                                  *)
OfAKind(messages) ==
  \A m \in messages : m.kind \in Kinds /\ (m.to # "server" => m.status \in Statuses)

LEMMA RequestsHaveAKind ==
  ASSUME NEW c, NEW s, OfAKind(s.out)
  PROVE  /\ OfAKind(Flush(c, s).out) /\ OfAKind(Bootstrap(c, s).out)
         /\ OfAKind(Submit(c, s).out)
         /\ \A p : OfAKind(UpdateBrowser(c, s, p).out)
<1>1. ASSUME NEW t, OfAKind(t.out)
      PROVE  OfAKind(Flush(c, t).out)
  <2>1. \A body : LET r == Request(c, t.k, "browser", body, None)
                  IN r.kind \in Kinds /\ r.to = "server"
    BY DEF Request, Kinds
  <2>2. \A k, out : Step(k, out).out = out
    BY DEF Step
  <2>3. \/ Flush(c, t).out = t.out
        \/ \E body : Flush(c, t).out = t.out \cup {Request(c, t.k, "browser", body, None)}
    BY <2>2 DEF Flush
  <2> HIDE DEF Kinds
  <2> QED BY <1>1, <2>1, <2>3 DEF OfAKind
<1>2. OfAKind(Bootstrap(c, s).out)
  BY DEF Bootstrap, Step, Request, OfAKind, Kinds
<1>3. OfAKind(Submit(c, s).out)
  BY DEF Submit, Step, Request, OfAKind, Kinds
<1>4. ASSUME NEW p
      PROVE  OfAKind(UpdateBrowser(c, s, p).out)
  <2>1. PICK t : t = Step([s.k EXCEPT !.queued = Merge(@, p)], s.out)
    OBVIOUS
  <2>2. OfAKind(t.out)
    BY <2>1 DEF Step
  <2> QED BY <1>1, <2>1, <2>2 DEF UpdateBrowser
<1> QED BY <1>1, <1>2, <1>3, <1>4

SettingsInv == TablesFit(db) /\ OfAKind(net)

LEMMA InitSettings == Init => SettingsInv
BY DEF Init, SettingsInv, EmptyTables, TablesFit, RowsSelect, OfAKind

LEMMA TakeKeeps ==
  ASSUME SettingsInv, NEW c, NEW s, NEW consumed, Take(c, s, consumed), OfAKind(s.out), UNCHANGED db
  PROVE  SettingsInv'
BY DEF Take, SettingsInv, OfAKind

(* Steps that start with nothing to send.                                  *)
LEMMA NothingToSend ==
  ASSUME NEW k
  PROVE  OfAKind(Step(k, {}).out)
BY DEF Step, OfAKind

LEMMA UserKeeps ==
  ASSUME SettingsInv, NEW c \in Client,
         \/ Load(c)
         \/ \E id \in SetId, e \in Experiment, r \in 0 .. client[c].workspaces.revision : Save(c, id, e, r)
         \/ \E id \in SetId : Remove(c, id)
         \/ RetrySave(c)
         \/ \E theme \in Themes : ChooseTheme(c, theme)
         \/ \E e \in Experiment, id \in SetId \cup {None} : Select(c, e, id)
         \/ RetryAll(c)
  PROVE  SettingsInv'
<1>1. CASE Load(c)
  BY <1>1, TakeKeeps, RequestsHaveAKind, NothingToSend DEF Load
<1>2. ASSUME NEW id \in SetId, NEW e \in Experiment, NEW r \in 0 .. client[c].workspaces.revision, Save(c, id, e, r)
      PROVE  SettingsInv'
  BY <1>2, TakeKeeps, RequestsHaveAKind, NothingToSend DEF Save
<1>3. ASSUME NEW id \in SetId, Remove(c, id)
      PROVE  SettingsInv'
  BY <1>3, TakeKeeps, RequestsHaveAKind, NothingToSend DEF Remove
<1>4. CASE RetrySave(c)
  BY <1>4, TakeKeeps, RequestsHaveAKind, NothingToSend DEF RetrySave
<1>5. ASSUME NEW theme \in Themes, ChooseTheme(c, theme)
      PROVE  SettingsInv'
  BY <1>5, TakeKeeps, RequestsHaveAKind, NothingToSend DEF ChooseTheme
<1>6. ASSUME NEW e \in Experiment, NEW id \in SetId \cup {None}, Select(c, e, id)
      PROVE  SettingsInv'
  BY <1>6, TakeKeeps, RequestsHaveAKind, NothingToSend DEF Select
<1>7. CASE RetryAll(c)
  BY <1>7, TakeKeeps, RequestsHaveAKind, NothingToSend DEF RetryAll
<1> QED BY <1>1, <1>2, <1>3, <1>4, <1>5, <1>6, <1>7

LEMMA AnswersKeep ==
  ASSUME SettingsInv, NEW c \in Client, NEW m \in net, Receive(c, m)
  PROVE  SettingsInv'
<1>1. m.kind \in Kinds /\ m.status \in Statuses /\ UNCHANGED db
  BY ClientAssumption DEF SettingsInv, OfAKind, Receive
<1>2. CASE m.kind = "state"
  BY <1>1, <1>2, TakeKeeps, RequestsHaveAKind, NothingToSend DEF Receive, StateAnswer
<1>3. CASE m.kind = "workspaces"
  <2>1. WorkspaceAnswer(c, m)
    BY <1>3 DEF Receive
  <2>2. CASE m.status = 200 /\ client[c].pending.record # None
    <3>1. PICK k, p : Take(c, UpdateBrowser(c, Step(k, {}), p), {m})
      BY <2>1, <2>2 DEF WorkspaceAnswer
    <3>2. OfAKind(UpdateBrowser(c, Step(k, {}), p).out)
      BY RequestsHaveAKind, NothingToSend
    <3> QED BY <1>1, <3>1, <3>2, TakeKeeps
  <2>3. CASE m.status = 200 /\ client[c].pending.record = None
    BY <1>1, <2>1, <2>3, TakeKeeps, RequestsHaveAKind, NothingToSend DEF WorkspaceAnswer
  <2>4. CASE m.status = 409
    BY <1>1, <2>1, <2>4, TakeKeeps, NothingToSend DEF WorkspaceAnswer
  <2>5. CASE m.status = 400
    BY <1>1, <2>1, <2>5, TakeKeeps, NothingToSend DEF WorkspaceAnswer
  <2> QED BY <1>1, <2>2, <2>3, <2>4, <2>5 DEF Statuses
<1>4. CASE m.kind = "browser"
  <2>1. BrowserAnswer(c, m)
    BY <1>4 DEF Receive
  <2>2. CASE m.status = 200
    BY <1>1, <2>1, <2>2, TakeKeeps, RequestsHaveAKind, NothingToSend DEF BrowserAnswer
  <2>3. CASE m.status = 409
    BY <1>1, <2>1, <2>3, TakeKeeps, RequestsHaveAKind, NothingToSend DEF BrowserAnswer
  <2>4. CASE m.status = 400
    BY <1>1, <2>1, <2>4, TakeKeeps, RequestsHaveAKind, NothingToSend DEF BrowserAnswer
  <2> QED BY <1>1, <2>2, <2>3, <2>4 DEF Statuses
<1> QED BY <1>1, <1>2, <1>3, <1>4 DEF Kinds

LEMMA GiveUpKeeps ==
  ASSUME SettingsInv, NEW c \in Client, GiveUp(c)
  PROVE  SettingsInv'
BY TakeKeeps, RequestsHaveAKind, NothingToSend DEF GiveUp

LEMMA ServeKeeps ==
  ASSUME SettingsInv, NEW m \in net, Serve(m)
  PROVE  SettingsInv'
<1>1. m.kind \in Kinds
  BY DEF SettingsInv, OfAKind
<1>2. PICK d : d = Served(m).db
  OBVIOUS
<1>3. TablesFit(d) /\ Served(m).status \in Statuses
  BY <1>1, <1>2, ServedFits DEF SettingsInv, Kinds
<1>4. db' = d
  BY <1>2 DEF Serve
<1>5. \A n \in net' : n \in net \/ (n.kind = m.kind /\ n.status = Served(m).status)
  BY DEF Serve
<1> QED BY <1>1, <1>3, <1>4, <1>5 DEF SettingsInv, OfAKind

LEMMA NextSettings == SettingsInv /\ [Next]_vars => SettingsInv'
<1> SUFFICES ASSUME SettingsInv, [Next]_vars
             PROVE  SettingsInv'
  OBVIOUS
<1>1. CASE UNCHANGED vars
  BY <1>1 DEF vars, SettingsInv, TablesFit, RowsSelect, OfAKind
<1>2. CASE Next
  BY <1>2, UserKeeps, AnswersKeep, GiveUpKeeps, ServeKeeps DEF Next
<1> QED BY <1>1, <1>2

(* A browser's selected workspace exists, in the experiment it is selected *)
(* for: save_browser_preferences admits no other, and prune_selections     *)
(* runs in the transaction of save_workspaces that takes one away.  For    *)
(* any number of browsers and requests, served late, twice or never.       *)
THEOREM SelectionsStayThere == Spec => []SelectionsExist
<1>1. SettingsInv => SelectionsExist
  BY DEF SettingsInv, TablesFit, RowsSelect, SelectionsExist
<1> QED BY <1>1, InitSettings, NextSettings, PTL DEF Spec

-------------------------------------------------------------------------------
(* The theme a browser shows.  What follows looks at one browser c at a    *)
(* time: k is its store, ch and st its history, rows the server's rows, M  *)
(* its requests and answers in transit, O the identities it may come to    *)
(* use.                                                                    *)

ClientFields ==
  {"cookie", "ready", "sent", "workspaces", "browser", "boot", "pending", "saving", "conflict",
   "patch", "body", "queued", "writing", "failed", "retrying"}

IsDocument(v) == {"theme", "revision"} \subseteq DOMAIN v /\ v.revision \in Nat

CoreFields ==
  {"cookie", "ready", "sent", "browser", "boot", "patch", "body", "queued", "writing"}

(* k2 is k but for the fields of S and those of no concern to the theme.   *)
Like(k2, k, S) == DOMAIN k2 = ClientFields /\ \A f \in CoreFields \ S : k2[f] = k[f]

Queued(k) == "theme" \in DOMAIN k.queued

Unsaved(k) == Queued(k) \/ "theme" \in DOMAIN k.patch

StoreFits(k, ch, st) ==
  /\ DOMAIN k = ClientFields /\ k.sent \in Nat /\ IsDocument(k.browser)
  /\ "revision" \notin DOMAIN k.queued
  /\ {k.boot, k.writing} \subseteq {None} \cup 1 .. k.sent
  /\ Queued(k) => k.queued.theme = ch
  /\ ~Queued(k) => k.browser.theme = ch \/ st
  /\ ~k.ready => /\ ~st /\ k.patch = NoPatch /\ k.cookie = None
                 /\ k.browser.theme = "light" /\ k.browser.revision = 0
  /\ k.writing # None => k.patch # NoPatch
  /\ k.patch # NoPatch =>
       /\ "theme" \in DOMAIN k.body /\ k.body.theme = k.browser.theme
       /\ "revision" \notin DOMAIN k.patch
       /\ "theme" \in DOMAIN k.patch =>
            k.patch.theme = k.browser.theme /\ (~Queued(k) => k.browser.theme = ch)

Requests(M) == {m \in M : m.to = "server"}

Answers(M, kind) == {m \in M : m.to # "server" /\ m.kind = kind}

RequestFits(c, k, m) ==
  /\ m.from = c /\ m.serial \in 1 .. k.sent /\ m.kind \in Kinds
  /\ m.kind = "browser" =>
       /\ k.ready /\ m.cookie = k.cookie /\ "theme" \in DOMAIN m.body
       /\ m.serial = k.writing => m.body = k.body
  /\ m.kind = "state" /\ m.serial = k.boot => m.cookie = k.cookie

Unanswered(serial, M) == serial # None /\ \A m \in Requests(M) : m.serial # serial

MailFits(c, k, M) ==
  /\ \A m \in Requests(M) : RequestFits(c, k, m)
  /\ \A m, n \in Requests(M) : m.serial = n.serial => m = n
  /\ \A m \in M \ Requests(M) : m.to = c /\ m.kind \in Kinds /\ m.status \in Statuses
  /\ \A m \in Answers(M, "state") : Unanswered(k.boot, M)
  /\ \A m \in Answers(M, "browser") : Unanswered(k.writing, M)
  /\ \A kind \in {"state", "browser"} : \A m, n \in Answers(M, kind) : m = n

States(M) == {m.value : m \in {n \in Answers(M, "state") : n.status = 200}}

RowFits(k, ch, st, rows, O) ==
  /\ O \subseteq DOMAIN rows
  /\ \A b \in O : IsDocument(rows[b])
  /\ k.ready =>
       /\ k.cookie \in O /\ k.browser.revision <= rows[k.cookie].revision
       /\ ~Unsaved(k) /\ ~st => rows[k.cookie].theme = ch

StateFits(k, ch, st, rows, O, v) ==
  /\ v.cookie \in O /\ IsDocument(v.browser)
  /\ v.browser.revision <= rows[v.cookie].revision
  /\ v.browser.revision = rows[v.cookie].revision => v.browser.theme = rows[v.cookie].theme
  /\ k.ready =>
       /\ v.cookie = k.cookie
       /\ ~Unsaved(k) /\ ~st /\ v.browser.revision >= k.browser.revision => v.browser.theme = ch
  /\ ~k.ready => v.browser.theme = "light" /\ rows[v.cookie].theme = "light"

WriteFits(k, ch, st, rows, M, m) ==
  /\ m.status \in {200, 409} =>
       /\ IsDocument(m.value)
       /\ k.browser.revision <= m.value.revision /\ m.value.revision <= rows[k.cookie].revision
  /\ m.status = 200 =>
       /\ m.value.theme = k.body.theme
       /\ ~Queued(k) /\ ~st =>
            /\ rows[k.cookie].theme = m.value.theme
            /\ \A v \in States(M) : v.browser.revision >= m.value.revision => v.browser.theme = m.value.theme
  /\ m.status = 409 /\ ~Unsaved(k) /\ ~st => m.value.theme = ch

Fits(c, k, ch, st, rows, M, O) ==
  /\ StoreFits(k, ch, st)
  /\ MailFits(c, k, M)
  /\ RowFits(k, ch, st, rows, O)
  /\ \A v \in States(M) : StateFits(k, ch, st, rows, O, v)
  /\ \A m \in Answers(M, "browser") : WriteFits(k, ch, st, rows, M, m)

Mail(c, messages) == {m \in messages : m.to = c \/ (m.to = "server" /\ m.from = c)}

Own(k, M) == (IF k.ready THEN {k.cookie} ELSE {}) \cup {v.cookie : v \in States(M)}

RowIsDocument(row) ==
  /\ {"theme", "revision", "mutation", "payload"} \subseteq DOMAIN row
  /\ IsDocument(row)
  /\ row.mutation # None => "theme" \in DOMAIN row.payload /\ row.theme = row.payload.theme

ThemeInv ==
  /\ DOMAIN client = Client /\ DOMAIN chosen = Client /\ DOMAIN stray = Client
  /\ \A m \in net : m.to = "server" => m.from \in Client
  /\ DOMAIN db.browsers \subseteq BrowserId
  /\ \A b \in DOMAIN db.browsers : RowIsDocument(db.browsers[b])
  /\ \A c \in Client : Fits(c, client[c], chosen[c], stray[c], db.browsers, Mail(c, net), Own(client[c], Mail(c, net)))
  /\ \A c, e \in Client : c # e => Own(client[c], Mail(c, net)) \cap Own(client[e], Mail(e, net)) = {}
(* A step that leaves the store as it is where it matters.                 *)
LEMMA SameFits ==
  ASSUME NEW c, NEW k, NEW ch, NEW st, NEW rows, NEW M, NEW O, Fits(c, k, ch, st, rows, M, O),
         NEW k2, Like(k2, k, {})
  PROVE  Fits(c, k2, ch, st, rows, M, O)
<1>1. /\ DOMAIN k2 = ClientFields /\ k2.cookie = k.cookie /\ k2.ready = k.ready /\ k2.sent = k.sent
      /\ k2.browser = k.browser /\ k2.boot = k.boot /\ k2.patch = k.patch /\ k2.body = k.body
      /\ k2.queued = k.queued /\ k2.writing = k.writing
  BY DEF Like, CoreFields
<1>2. StoreFits(k2, ch, st)
  BY <1>1 DEF Fits, StoreFits, Queued
<1>3. MailFits(c, k2, M)
  BY <1>1 DEF Fits, MailFits, RequestFits
<1>4. RowFits(k2, ch, st, rows, O)
  BY <1>1 DEF Fits, RowFits, Queued, Unsaved
<1>5. \A v \in States(M) : StateFits(k2, ch, st, rows, O, v)
  BY <1>1 DEF Fits, StateFits, Queued, Unsaved
<1>6. \A m \in Answers(M, "browser") : WriteFits(k2, ch, st, rows, M, m)
  BY <1>1 DEF Fits, WriteFits, Queued, Unsaved
<1> QED BY <1>2, <1>3, <1>4, <1>5, <1>6 DEF Fits

LEMMA StillUnanswered ==
  ASSUME NEW M, NEW q, NEW x, Unanswered(x, M), q.serial # x
  PROVE  Unanswered(x, M \cup {q})
BY DEF Unanswered, Requests

(* A request joins those in transit, the next in number.                   *)
LEMMA SentFits ==
  ASSUME NEW c, NEW k, NEW ch, NEW st, NEW rows, NEW M, NEW O, Fits(c, k, ch, st, rows, M, O),
         NEW k2, Like(k2, k, {"sent"}), k2.sent = k.sent + 1,
         NEW q, q.to = "server", q.from = c, q.serial = k.sent + 1, q.kind = "workspaces"
  PROVE  Fits(c, k2, ch, st, rows, M \cup {q}, O)
<1>1. /\ DOMAIN k2 = ClientFields /\ k2.cookie = k.cookie /\ k2.ready = k.ready
      /\ k2.browser = k.browser /\ k2.boot = k.boot /\ k2.patch = k.patch /\ k2.body = k.body
      /\ k2.queued = k.queued /\ k2.writing = k.writing
  BY DEF Like, CoreFields
<1>2. StoreFits(k2, ch, st)
  BY <1>1 DEF Fits, StoreFits, Queued
<1>3. /\ Requests(M \cup {q}) = Requests(M) \cup {q}
      /\ \A kind : Answers(M \cup {q}, kind) = Answers(M, kind)
      /\ States(M \cup {q}) = States(M)
  BY DEF Requests, Answers, States
<1>4. k.sent \in Nat /\ (k.boot # None => k.boot <= k.sent) /\ (k.writing # None => k.writing <= k.sent)
      /\ {k.boot, k.writing} \subseteq {None} \cup 1 .. k.sent
  BY DEF Fits, StoreFits
<1>5. \A m \in Requests(M) : m.serial \in 1 .. k.sent
  BY DEF Fits, MailFits, RequestFits
<1>6. \A m \in Requests(M) : RequestFits(c, k2, m)
  BY <1>1, <1>4 DEF Fits, MailFits, RequestFits
<1>7. RequestFits(c, k2, q)
  BY <1>4 DEF RequestFits, Kinds
<1>8. MailFits(c, k2, M \cup {q})
  <2>1. \A m, n \in Requests(M \cup {q}) : m.serial = n.serial => m = n
    BY <1>3, <1>4, <1>5 DEF Fits, MailFits
  <2>2. \A m \in (M \cup {q}) \ Requests(M \cup {q}) : m.to = c /\ m.kind \in Kinds /\ m.status \in Statuses
    BY DEF Fits, MailFits, Requests
  <2>0. k.sent + 1 # k.boot /\ k.sent + 1 # k.writing
    BY <1>4, ClientAssumption
  <2>3. \A m \in Answers(M, "state") : Unanswered(k2.boot, M \cup {q})
    BY <1>1, <2>0, StillUnanswered DEF Fits, MailFits
  <2>4. \A m \in Answers(M, "browser") : Unanswered(k2.writing, M \cup {q})
    BY <1>1, <2>0, StillUnanswered DEF Fits, MailFits
  <2> QED BY <1>3, <1>6, <1>7, <2>1, <2>2, <2>3, <2>4 DEF Fits, MailFits
<1>9. RowFits(k2, ch, st, rows, O)
  BY <1>1 DEF Fits, RowFits, Queued, Unsaved
<1>10. \A v \in States(M) : StateFits(k2, ch, st, rows, O, v)
  BY <1>1 DEF Fits, StateFits, Queued, Unsaved
<1>11. \A m \in Answers(M, "browser") : WriteFits(k2, ch, st, rows, M \cup {q}, m)
  BY <1>1, <1>3 DEF Fits, WriteFits, Queued, Unsaved
<1> QED BY <1>2, <1>3, <1>8, <1>9, <1>10, <1>11 DEF Fits

(* A bootstrap begins.                                                     *)
LEMMA BootFits ==
  ASSUME NEW c, NEW k, NEW ch, NEW st, NEW rows, NEW M, NEW O, Fits(c, k, ch, st, rows, M, O),
         k.boot = None, NEW k2, Like(k2, k, {"sent", "boot"}), k2.sent = k.sent + 1, k2.boot = k.sent + 1,
         NEW q, q.to = "server", q.from = c, q.serial = k.sent + 1, q.kind = "state", q.cookie = k.cookie
  PROVE  Fits(c, k2, ch, st, rows, M \cup {q}, O)
<1>1. /\ DOMAIN k2 = ClientFields /\ k2.cookie = k.cookie /\ k2.ready = k.ready
      /\ k2.browser = k.browser /\ k2.patch = k.patch /\ k2.body = k.body
      /\ k2.queued = k.queued /\ k2.writing = k.writing
  BY DEF Like, CoreFields
<1>2. StoreFits(k2, ch, st)
  BY <1>1 DEF Fits, StoreFits, Queued
<1>3. /\ Requests(M \cup {q}) = Requests(M) \cup {q}
      /\ \A kind : Answers(M \cup {q}, kind) = Answers(M, kind)
      /\ States(M \cup {q}) = States(M)
  BY DEF Requests, Answers, States
<1>4. k.sent \in Nat /\ (k.writing # None => k.writing <= k.sent)
      /\ {k.boot, k.writing} \subseteq {None} \cup 1 .. k.sent
  BY DEF Fits, StoreFits
<1>5. \A m \in Requests(M) : m.serial \in 1 .. k.sent
  BY DEF Fits, MailFits, RequestFits
<1>6. \A m \in Requests(M) : RequestFits(c, k2, m)
  BY <1>1, <1>4, <1>5 DEF Fits, MailFits, RequestFits
<1>7. RequestFits(c, k2, q)
  BY <1>1, <1>4 DEF RequestFits, Kinds
<1>8. Answers(M, "state") = {}
  BY DEF Fits, MailFits, Unanswered
<1>9. MailFits(c, k2, M \cup {q})
  <2>1. \A m, n \in Requests(M \cup {q}) : m.serial = n.serial => m = n
    BY <1>3, <1>4, <1>5 DEF Fits, MailFits
  <2>2. \A m \in (M \cup {q}) \ Requests(M \cup {q}) : m.to = c /\ m.kind \in Kinds /\ m.status \in Statuses
    BY DEF Fits, MailFits, Requests
  <2>0. k.sent + 1 # k.writing
    BY <1>4, ClientAssumption
  <2>3. \A m \in Answers(M, "browser") : Unanswered(k2.writing, M \cup {q})
    BY <1>1, <2>0, StillUnanswered DEF Fits, MailFits
  <2> QED BY <1>3, <1>6, <1>7, <1>8, <2>1, <2>2, <2>3 DEF Fits, MailFits
<1>10. RowFits(k2, ch, st, rows, O)
  BY <1>1 DEF Fits, RowFits, Queued, Unsaved
<1>11. \A v \in States(M) : StateFits(k2, ch, st, rows, O, v)
  BY <1>1 DEF Fits, StateFits, Queued, Unsaved
<1>12. \A m \in Answers(M, "browser") : WriteFits(k2, ch, st, rows, M \cup {q}, m)
  BY <1>1, <1>3 DEF Fits, WriteFits, Queued, Unsaved
<1> QED BY <1>2, <1>3, <1>9, <1>10, <1>11, <1>12 DEF Fits

(* What is queued is frozen into the body of a write.                      *)
LEMMA FrozenFits ==
  ASSUME NEW c, NEW k, NEW ch, NEW st, NEW rows, NEW M, NEW O, Fits(c, k, ch, st, rows, M, O),
         k.patch = NoPatch, k.writing = None, k.ready,
         NEW k2, Like(k2, k, {"patch", "body", "queued", "browser"}),
         k2.patch = k.queued, k2.queued = NoPatch, k2.browser = Merge(k.browser, k.queued),
         "theme" \in DOMAIN k2.body, k2.body.theme = k2.browser.theme
  PROVE  Fits(c, k2, ch, st, rows, M, O)
<1>1. /\ DOMAIN k2 = ClientFields /\ k2.cookie = k.cookie /\ k2.ready = k.ready
      /\ k2.sent = k.sent /\ k2.boot = k.boot /\ k2.writing = k.writing
  BY DEF Like, CoreFields
<1>2. DOMAIN NoPatch = {}
  BY DEF NoPatch
<1>3. IsDocument(k.browser) /\ "revision" \notin DOMAIN k.queued
  BY DEF Fits, StoreFits
<1>4. /\ IsDocument(k2.browser) /\ k2.browser.revision = k.browser.revision
      /\ k2.browser.theme = IF Queued(k) THEN k.queued.theme ELSE k.browser.theme
  BY <1>3 DEF IsDocument, Merge, Queued
<1>5. ~Queued(k2) /\ (Unsaved(k2) <=> Unsaved(k))
  BY <1>2 DEF Queued, Unsaved
<1>6. StoreFits(k2, ch, st)
  BY <1>1, <1>2, <1>3, <1>4, <1>5 DEF Fits, StoreFits, Queued
<1>7. MailFits(c, k2, M)
  <2>1. \A m \in Requests(M) : RequestFits(c, k2, m)
    <3>1. ASSUME NEW m \in Requests(M)
          PROVE  m.serial # None
      BY ClientAssumption DEF Fits, MailFits, RequestFits, StoreFits
    <3> QED BY <1>1, <3>1 DEF Fits, MailFits, RequestFits
  <2> QED BY <1>1, <2>1 DEF Fits, MailFits
<1>8. RowFits(k2, ch, st, rows, O)
  BY <1>1, <1>4, <1>5 DEF Fits, RowFits
<1>9. \A v \in States(M) : StateFits(k2, ch, st, rows, O, v)
  BY <1>1, <1>4, <1>5 DEF Fits, StateFits
<1>10. Answers(M, "browser") = {}
  BY DEF Fits, MailFits, Unanswered
<1> QED BY <1>6, <1>7, <1>8, <1>9, <1>10 DEF Fits

(* A frozen write is sent.                                                 *)
LEMMA WrittenFits ==
  ASSUME NEW c, NEW k, NEW ch, NEW st, NEW rows, NEW M, NEW O, Fits(c, k, ch, st, rows, M, O),
         k.writing = None, k.ready, k.patch # NoPatch,
         NEW k2, Like(k2, k, {"sent", "writing"}), k2.sent = k.sent + 1, k2.writing = k.sent + 1,
         NEW q, q.to = "server", q.from = c, q.serial = k.sent + 1, q.kind = "browser",
         q.cookie = k.cookie, q.body = k.body
  PROVE  Fits(c, k2, ch, st, rows, M \cup {q}, O)
<1>1. /\ DOMAIN k2 = ClientFields /\ k2.cookie = k.cookie /\ k2.ready = k.ready
      /\ k2.browser = k.browser /\ k2.patch = k.patch /\ k2.body = k.body
      /\ k2.queued = k.queued /\ k2.boot = k.boot
  BY DEF Like, CoreFields
<1>2. StoreFits(k2, ch, st)
  BY <1>1 DEF Fits, StoreFits, Queued
<1>3. /\ Requests(M \cup {q}) = Requests(M) \cup {q}
      /\ \A kind : Answers(M \cup {q}, kind) = Answers(M, kind)
      /\ States(M \cup {q}) = States(M)
  BY DEF Requests, Answers, States
<1>4. k.sent \in Nat /\ {k.boot, k.writing} \subseteq {None} \cup 1 .. k.sent
  BY DEF Fits, StoreFits
<1>5. \A m \in Requests(M) : m.serial \in 1 .. k.sent
  BY DEF Fits, MailFits, RequestFits
<1>6. \A m \in Requests(M) : RequestFits(c, k2, m)
  BY <1>1, <1>4, <1>5 DEF Fits, MailFits, RequestFits
<1>7. RequestFits(c, k2, q)
  <2>1. "theme" \in DOMAIN k.body
    BY DEF Fits, StoreFits
  <2> QED BY <1>1, <1>4, <2>1 DEF RequestFits, Kinds
<1>8. Answers(M, "browser") = {}
  BY DEF Fits, MailFits, Unanswered
<1>9. MailFits(c, k2, M \cup {q})
  <2>1. \A m, n \in Requests(M \cup {q}) : m.serial = n.serial => m = n
    BY <1>3, <1>4, <1>5 DEF Fits, MailFits
  <2>2. \A m \in (M \cup {q}) \ Requests(M \cup {q}) : m.to = c /\ m.kind \in Kinds /\ m.status \in Statuses
    BY DEF Fits, MailFits, Requests
  <2>3. k.sent + 1 # k.boot
    BY <1>4, ClientAssumption
  <2>4. \A m \in Answers(M, "state") : Unanswered(k2.boot, M \cup {q})
    BY <1>1, <2>3, StillUnanswered DEF Fits, MailFits
  <2> QED BY <1>3, <1>6, <1>7, <1>8, <2>1, <2>2, <2>4, ZenonT(40) DEF Fits, MailFits
<1>10. RowFits(k2, ch, st, rows, O)
  BY <1>1 DEF Fits, RowFits, Queued, Unsaved
<1>11. \A v \in States(M) : StateFits(k2, ch, st, rows, O, v)
  BY <1>1 DEF Fits, StateFits, Queued, Unsaved
<1> QED BY <1>2, <1>3, <1>8, <1>9, <1>10, <1>11 DEF Fits

(* Other choices are queued, none of them of a theme.                      *)
LEMMA QueuedFits ==
  ASSUME NEW c, NEW k, NEW ch, NEW st, NEW rows, NEW M, NEW O, Fits(c, k, ch, st, rows, M, O),
         NEW k2, Like(k2, k, {"queued"}), "revision" \notin DOMAIN k2.queued,
         Queued(k2) <=> Queued(k), Queued(k) => k2.queued.theme = k.queued.theme
  PROVE  Fits(c, k2, ch, st, rows, M, O)
<1>1. /\ DOMAIN k2 = ClientFields /\ k2.cookie = k.cookie /\ k2.ready = k.ready /\ k2.sent = k.sent
      /\ k2.browser = k.browser /\ k2.boot = k.boot /\ k2.patch = k.patch /\ k2.body = k.body
      /\ k2.writing = k.writing
  BY DEF Like, CoreFields
<1>2. StoreFits(k2, ch, st)
  BY <1>1 DEF Fits, StoreFits
<1>3. MailFits(c, k2, M)
  BY <1>1 DEF Fits, MailFits, RequestFits
<1>4. RowFits(k2, ch, st, rows, O)
  BY <1>1 DEF Fits, RowFits, Unsaved
<1>5. \A v \in States(M) : StateFits(k2, ch, st, rows, O, v)
  BY <1>1 DEF Fits, StateFits, Unsaved
<1>6. \A m \in Answers(M, "browser") : WriteFits(k2, ch, st, rows, M, m)
  BY <1>1 DEF Fits, WriteFits, Unsaved
<1> QED BY <1>2, <1>3, <1>4, <1>5, <1>6 DEF Fits

(* The user chooses a theme.                                               *)
LEMMA ChosenFits ==
  ASSUME NEW c, NEW k, NEW ch, NEW st, NEW rows, NEW M, NEW O, Fits(c, k, ch, st, rows, M, O),
         NEW k2, Like(k2, k, {"queued"}), "revision" \notin DOMAIN k2.queued, Queued(k2)
  PROVE  Fits(c, k2, k2.queued.theme, FALSE, rows, M, O)
<1>1. /\ DOMAIN k2 = ClientFields /\ k2.cookie = k.cookie /\ k2.ready = k.ready /\ k2.sent = k.sent
      /\ k2.browser = k.browser /\ k2.boot = k.boot /\ k2.patch = k.patch /\ k2.body = k.body
      /\ k2.writing = k.writing
  BY DEF Like, CoreFields
<1>2. StoreFits(k2, k2.queued.theme, FALSE)
  BY <1>1 DEF Fits, StoreFits
<1>3. MailFits(c, k2, M)
  BY <1>1 DEF Fits, MailFits, RequestFits
<1>4. RowFits(k2, k2.queued.theme, FALSE, rows, O)
  BY <1>1 DEF Fits, RowFits, Unsaved
<1>5. \A v \in States(M) : StateFits(k2, k2.queued.theme, FALSE, rows, O, v)
  BY <1>1 DEF Fits, StateFits, Unsaved
<1>6. \A m \in Answers(M, "browser") : WriteFits(k2, k2.queued.theme, FALSE, rows, M, m)
  BY <1>1 DEF Fits, WriteFits, Unsaved
<1> QED BY <1>2, <1>3, <1>4, <1>5, <1>6 DEF Fits

(* The bootstrap under way is over.                                        *)
LEMMA BootOverFits ==
  ASSUME NEW c, NEW k, NEW ch, NEW st, NEW rows, NEW M, NEW O, Fits(c, k, ch, st, rows, M, O),
         NEW k2, Like(k2, k, {"boot"}), k2.boot = None,
         NEW N, N = M \ Answers(M, "state")
  PROVE  Fits(c, k2, ch, st, rows, N, O) /\ Answers(N, "state") = {}
<1>1. /\ DOMAIN k2 = ClientFields /\ k2.cookie = k.cookie /\ k2.ready = k.ready /\ k2.sent = k.sent
      /\ k2.browser = k.browser /\ k2.patch = k.patch /\ k2.body = k.body
      /\ k2.queued = k.queued /\ k2.writing = k.writing
  BY DEF Like, CoreFields
<1>2. /\ Requests(N) = Requests(M) /\ Answers(N, "state") = {}
      /\ Answers(N, "browser") = Answers(M, "browser") /\ N \subseteq M
  BY DEF Requests, Answers
<1>3. States(N) = {}
  BY <1>2 DEF States
<1>4. StoreFits(k2, ch, st)
  BY <1>1 DEF Fits, StoreFits, Queued
<1>5. MailFits(c, k2, N)
  <2>1. ASSUME NEW m \in Requests(M)
        PROVE  RequestFits(c, k2, m)
    <3>1. RequestFits(c, k, m)
      BY DEF Fits, MailFits
    <3>2. m.serial # None
      BY <3>1, ClientAssumption DEF Fits, RequestFits, StoreFits
    <3> QED BY <1>1, <3>1, <3>2 DEF RequestFits
  <2>2. \A m \in Answers(M, "browser") : Unanswered(k2.writing, N)
    BY <1>1, <1>2 DEF Fits, MailFits, Unanswered
  <2>3. \A m \in N \ Requests(N) : m \in M \ Requests(M)
    BY <1>2
  <2> QED BY <1>2, <2>1, <2>2, <2>3 DEF Fits, MailFits
<1>6. RowFits(k2, ch, st, rows, O)
  BY <1>1 DEF Fits, RowFits, Queued, Unsaved
<1>7. ASSUME NEW m \in Answers(N, "browser")
      PROVE  WriteFits(k2, ch, st, rows, N, m)
  <2>1. WriteFits(k, ch, st, rows, M, m)
    BY <1>2 DEF Fits
  <2> QED BY <1>1, <1>3, <2>1, ZenonT(40) DEF WriteFits, Queued, Unsaved
<1>8. \A v \in States(N) : StateFits(k2, ch, st, rows, O, v)
  BY <1>3
<1>9. Fits(c, k2, ch, st, rows, N, O)
  BY <1>4, <1>5, <1>6, <1>7, <1>8 DEF Fits
<1> QED BY <1>2, <1>9

(* A document is adopted, unless a write keeps its own or it is older.     *)
LEMMA AdoptedFits ==
  ASSUME NEW c, NEW k, NEW ch, NEW st, NEW rows, NEW M, NEW O, Fits(c, k, ch, st, rows, M, O),
         k.boot = None, Answers(M, "state") = {},
         NEW v, StateFits(k, ch, st, rows, O, v),
         NEW k2, Like(k2, k, {"cookie", "ready", "browser"}), k2.cookie = v.cookie, k2.ready,
         k2.ready = TRUE,
         k2.browser = IF k.writing = None /\ k.patch = NoPatch /\ v.browser.revision >= k.browser.revision
                      THEN v.browser ELSE k.browser
  PROVE  Fits(c, k2, ch, st, rows, M, O)
<1>1. /\ DOMAIN k2 = ClientFields /\ k2.sent = k.sent
      /\ k2.boot = k.boot /\ k2.patch = k.patch /\ k2.body = k.body
      /\ k2.queued = k.queued /\ k2.writing = k.writing
  BY DEF Like, CoreFields
<1>2. (Queued(k2) <=> Queued(k)) /\ (Unsaved(k2) <=> Unsaved(k))
  BY <1>1 DEF Queued, Unsaved
<1>3. IsDocument(k2.browser) /\ IsDocument(v.browser) /\ IsDocument(k.browser)
  BY DEF Fits, StoreFits, StateFits
<1>4. ~k.ready => k.patch = NoPatch /\ k.writing = None /\ k.browser.revision = 0 /\ k.cookie = None
  BY DEF Fits, StoreFits
<1>5. k.ready => k2.cookie = k.cookie
  BY DEF StateFits
<1>6. DOMAIN NoPatch = {}
  BY DEF NoPatch
<1>7. CASE k2.browser = k.browser /\ k.ready
  <2>1. StoreFits(k2, ch, st)
    BY <1>1, <1>2, <1>3, <1>7 DEF Fits, StoreFits
  <2>2. MailFits(c, k2, M)
    BY <1>1, <1>5, <1>7 DEF Fits, MailFits, RequestFits
  <2>3. RowFits(k2, ch, st, rows, O)
    BY <1>1, <1>2, <1>5, <1>7 DEF Fits, RowFits
  <2>4. States(M) = {}
    BY DEF States
  <2>5. \A m \in Answers(M, "browser") : WriteFits(k2, ch, st, rows, M, m)
    BY <1>1, <1>2, <1>5, <1>7 DEF Fits, WriteFits
  <2> QED BY <2>1, <2>2, <2>3, <2>4, <2>5 DEF Fits
<1>8. CASE k2.browser = v.browser /\ k.writing = None /\ k.patch = NoPatch /\ v.browser.revision >= k.browser.revision
  <2>1. ~Queued(k) => v.browser.theme = ch \/ st
    <3>1. CASE k.ready
      BY <1>6, <1>8, <3>1 DEF StateFits, Unsaved
    <3>2. CASE ~k.ready
      BY <3>2 DEF StateFits, Fits, StoreFits
    <3> QED BY <3>1, <3>2
  <2>2. StoreFits(k2, ch, st)
    BY <1>1, <1>2, <1>3, <1>8, <2>1 DEF Fits, StoreFits
  <2>3. MailFits(c, k2, M)
    <3>1. ASSUME NEW m \in Requests(M)
          PROVE  RequestFits(c, k2, m)
      <4>1. RequestFits(c, k, m)
        BY DEF Fits, MailFits
      <4>2. m.serial # None
        BY <4>1, ClientAssumption DEF Fits, RequestFits, StoreFits
      <4> QED BY <1>1, <1>5, <4>1, <4>2 DEF RequestFits
    <3> QED BY <1>1, <3>1 DEF Fits, MailFits
  <2>4. ~Unsaved(k2) /\ ~st => rows[k2.cookie].theme = ch
    <3>1. CASE k.ready
      BY <1>2, <1>5, <3>1 DEF Fits, RowFits
    <3>2. CASE ~k.ready
      BY <1>2, <3>2 DEF Fits, StoreFits, StateFits, Unsaved
    <3> QED BY <3>1, <3>2
  <2>5. RowFits(k2, ch, st, rows, O)
    BY <1>8, <2>4 DEF Fits, RowFits, StateFits
  <2>6. States(M) = {}
    BY DEF States
  <2>7. Answers(M, "browser") = {}
    BY <1>8 DEF Fits, MailFits, Unanswered
  <2> QED BY <2>2, <2>3, <2>5, <2>6, <2>7 DEF Fits
<1>9. \/ /\ k2.browser = v.browser /\ k.writing = None /\ k.patch = NoPatch
         /\ v.browser.revision >= k.browser.revision
      \/ k2.browser = k.browser /\ k.ready
  BY <1>3, <1>4 DEF IsDocument
<1> QED BY <1>7, <1>8, <1>9

(* The write under way is over, for good or not; what it wrote is frozen.  *)
LEMMA WriteOverFits ==
  ASSUME NEW c, NEW k, NEW ch, NEW st, NEW rows, NEW M, NEW O, Fits(c, k, ch, st, rows, M, O),
         NEW k2, Like(k2, k, {"writing"}), k2.writing = None,
         NEW N, N = M \ Answers(M, "browser")
  PROVE  /\ Fits(c, k2, ch, st, rows, N, O) /\ Answers(N, "browser") = {}
         /\ \A m \in Answers(M, "browser") : WriteFits(k2, ch, st, rows, N, m) /\ k2.patch # NoPatch
<1>1. /\ DOMAIN k2 = ClientFields /\ k2.cookie = k.cookie /\ k2.ready = k.ready /\ k2.sent = k.sent
      /\ k2.browser = k.browser /\ k2.patch = k.patch /\ k2.body = k.body
      /\ k2.queued = k.queued /\ k2.boot = k.boot
  BY DEF Like, CoreFields
<1>2. /\ Requests(N) = Requests(M) /\ Answers(N, "browser") = {}
      /\ Answers(N, "state") = Answers(M, "state") /\ N \subseteq M
  BY DEF Requests, Answers
<1>3. States(N) = States(M)
  BY <1>2 DEF States
<1>4. StoreFits(k2, ch, st)
  BY <1>1 DEF Fits, StoreFits, Queued
<1>5. MailFits(c, k2, N)
  <2>1. ASSUME NEW m \in Requests(M)
        PROVE  RequestFits(c, k2, m)
    <3>1. RequestFits(c, k, m)
      BY DEF Fits, MailFits
    <3>2. m.serial # None
      BY <3>1, ClientAssumption DEF Fits, RequestFits, StoreFits
    <3> QED BY <1>1, <3>1, <3>2 DEF RequestFits
  <2>2. \A m \in Answers(M, "state") : Unanswered(k2.boot, N)
    BY <1>1, <1>2 DEF Fits, MailFits, Unanswered
  <2>3. \A m \in N \ Requests(N) : m \in M \ Requests(M)
    BY <1>2
  <2> QED BY <1>2, <2>1, <2>2, <2>3 DEF Fits, MailFits
<1>6. RowFits(k2, ch, st, rows, O)
  BY <1>1 DEF Fits, RowFits, Queued, Unsaved
<1>7. \A v \in States(M) : StateFits(k2, ch, st, rows, O, v)
  BY <1>1 DEF Fits, StateFits, Queued, Unsaved
<1>8. \A m \in Answers(M, "browser") : WriteFits(k2, ch, st, rows, N, m)
  BY <1>1, <1>3 DEF Fits, WriteFits, Queued, Unsaved
<1>9. \A m \in Answers(M, "browser") : k2.patch # NoPatch
  BY <1>1 DEF Fits, MailFits, Unanswered, StoreFits
<1> QED BY <1>2, <1>3, <1>4, <1>5, <1>6, <1>7, <1>8, <1>9 DEF Fits

(* A write was acknowledged.                                               *)
LEMMA AcknowledgedFits ==
  ASSUME NEW c, NEW k, NEW ch, NEW st, NEW rows, NEW M, NEW O, Fits(c, k, ch, st, rows, M, O),
         k.writing = None, k.patch # NoPatch, Answers(M, "browser") = {},
         NEW m, WriteFits(k, ch, st, rows, M, m), m.status = 200,
         NEW k2, Like(k2, k, {"browser", "patch", "body"}), k2.patch = NoPatch, k2.browser = m.value
  PROVE  Fits(c, k2, ch, st, rows, M, O)
<1>1. /\ DOMAIN k2 = ClientFields /\ k2.cookie = k.cookie /\ k2.ready = k.ready /\ k2.sent = k.sent
      /\ k2.boot = k.boot /\ k2.queued = k.queued /\ k2.writing = k.writing
  BY DEF Like, CoreFields
<1>2. DOMAIN NoPatch = {}
  BY DEF NoPatch
<1>3. k.ready /\ k.body.theme = k.browser.theme
  BY DEF Fits, StoreFits
<1>4. (Queued(k2) <=> Queued(k)) /\ (Unsaved(k2) <=> Queued(k))
  BY <1>1, <1>2 DEF Queued, Unsaved
<1>5. ~Queued(k) => m.value.theme = ch \/ st
  BY <1>3 DEF Fits, StoreFits, WriteFits
<1>6. StoreFits(k2, ch, st)
  BY <1>1, <1>2, <1>3, <1>4, <1>5 DEF Fits, StoreFits, WriteFits
<1>7. MailFits(c, k2, M)
  <2>1. ASSUME NEW r \in Requests(M)
        PROVE  RequestFits(c, k2, r)
    <3>1. RequestFits(c, k, r)
      BY DEF Fits, MailFits
    <3>2. r.serial # None
      BY <3>1, ClientAssumption DEF Fits, RequestFits, StoreFits
    <3> QED BY <1>1, <3>1, <3>2 DEF RequestFits
  <2> QED BY <1>1, <2>1 DEF Fits, MailFits
<1>8. RowFits(k2, ch, st, rows, O)
  BY <1>1, <1>3, <1>4, <1>5 DEF Fits, RowFits, WriteFits
<1>9. ASSUME NEW v \in States(M)
      PROVE  StateFits(k2, ch, st, rows, O, v)
  BY <1>1, <1>3, <1>4, <1>5 DEF Fits, StateFits, WriteFits
<1> QED BY <1>6, <1>7, <1>8, <1>9 DEF Fits

(* A write was refused: it goes back under what was queued since.          *)
LEMMA RequeuedFits ==
  ASSUME NEW c, NEW k, NEW ch, NEW st, NEW rows, NEW M, NEW O, Fits(c, k, ch, st, rows, M, O),
         k.writing = None, k.patch # NoPatch, Answers(M, "browser") = {},
         NEW k2, Like(k2, k, {"browser", "patch", "body", "queued"}), k2.patch = NoPatch,
         k2.queued = Merge(k.patch, k.queued),
         \/ k2.browser = k.browser
         \/ \E m : WriteFits(k, ch, st, rows, M, m) /\ m.status = 409 /\ k2.browser = m.value
  PROVE  Fits(c, k2, ch, st, rows, M, O)
<1>1. /\ DOMAIN k2 = ClientFields /\ k2.cookie = k.cookie /\ k2.ready = k.ready /\ k2.sent = k.sent
      /\ k2.boot = k.boot /\ k2.writing = k.writing
  BY DEF Like, CoreFields
<1>2. DOMAIN NoPatch = {}
  BY DEF NoPatch
<1>3. k.ready /\ "revision" \notin DOMAIN k.patch
  BY DEF Fits, StoreFits
<1>4. (Queued(k2) <=> Unsaved(k)) /\ (Unsaved(k2) <=> Unsaved(k)) /\ "revision" \notin DOMAIN k2.queued
  BY <1>2, <1>3 DEF Queued, Unsaved, Merge, Fits, StoreFits
<1>5. Queued(k2) => k2.queued.theme = ch
  BY DEF Queued, Merge, Fits, StoreFits
<1>6. /\ IsDocument(k2.browser) /\ k2.browser.revision <= rows[k.cookie].revision
      /\ k.browser.revision <= k2.browser.revision
      /\ ~Unsaved(k) /\ ~st => k2.browser.theme = ch
  <2>1. CASE k2.browser = k.browser
    BY <1>3, <2>1 DEF Fits, StoreFits, RowFits, IsDocument, Unsaved
  <2>2. CASE k2.browser # k.browser
    BY <2>2 DEF WriteFits
  <2> QED BY <2>1, <2>2
<1>7. StoreFits(k2, ch, st)
  BY <1>1, <1>2, <1>3, <1>4, <1>5, <1>6 DEF Fits, StoreFits
<1>8. MailFits(c, k2, M)
  <2>1. ASSUME NEW r \in Requests(M)
        PROVE  RequestFits(c, k2, r)
    <3>1. RequestFits(c, k, r)
      BY DEF Fits, MailFits
    <3>2. r.serial # None
      BY <3>1, ClientAssumption DEF Fits, RequestFits, StoreFits
    <3> QED BY <1>1, <3>1, <3>2 DEF RequestFits
  <2> QED BY <1>1, <2>1 DEF Fits, MailFits
<1>9. RowFits(k2, ch, st, rows, O)
  BY <1>1, <1>4, <1>6 DEF Fits, RowFits
<1>10. ASSUME NEW v \in States(M)
       PROVE  StateFits(k2, ch, st, rows, O, v)
  <2>1. StateFits(k, ch, st, rows, O, v) /\ IsDocument(v.browser) /\ IsDocument(k.browser)
    BY DEF Fits, StateFits, StoreFits
  <2>2. v.browser.revision >= k2.browser.revision => v.browser.revision >= k.browser.revision
    BY <1>6, <2>1 DEF IsDocument
  <2> QED BY <1>1, <1>3, <1>4, <2>1, <2>2 DEF StateFits
<1> QED BY <1>7, <1>8, <1>9, <1>10 DEF Fits

-------------------------------------------------------------------------------
(* The steps of a browser, from what it has in transit to what it has then *)
(* (N: what it neither sends nor takes in).                                *)

LEMMA StepFields ==
  ASSUME NEW k, NEW out
  PROVE  Step(k, out).k = k /\ Step(k, out).out = out
BY DEF Step

LEMMA RequestFields ==
  ASSUME NEW c, NEW k, NEW kind, NEW body, NEW edit
  PROVE  LET q == Request(c, k, kind, body, edit)
         IN /\ q.to = "server" /\ q.from = c /\ q.serial = k.sent + 1 /\ q.kind = kind
            /\ q.cookie = k.cookie /\ q.body = body
BY DEF Request

(* The body of a frozen write has the theme it was frozen with.            *)
LEMMA FrozenBody ==
  ASSUME NEW full, "theme" \in DOMAIN full, NEW mutation
  PROVE  LET b == Merge([full EXCEPT !.selected = EncodeMap(@), !.runColors = EncodeMap(@)],
                        [mutation |-> mutation])
         IN "theme" \in DOMAIN b /\ b.theme = full.theme
<1>1. PICK e : e = [full EXCEPT !.selected = EncodeMap(@), !.runColors = EncodeMap(@)]
  OBVIOUS
<1>2. DOMAIN e = DOMAIN full /\ e.theme = full.theme
  BY <1>1
<1>3. PICK p : p = [mutation |-> mutation]
  OBVIOUS
<1>4. DOMAIN p = {"mutation"}
  BY <1>3
<1>5. "theme" \in DOMAIN Merge(e, p) /\ Merge(e, p).theme = e.theme
  BY <1>2, <1>4 DEF Merge
<1> QED BY <1>1, <1>2, <1>3, <1>5

LEMMA FlushFits ==
  ASSUME NEW c, NEW s, NEW ch, NEW st, NEW rows, NEW N, NEW O,
         Fits(c, s.k, ch, st, rows, N \cup s.out, O)
  PROVE  Fits(c, Flush(c, s).k, ch, st, rows, N \cup Flush(c, s).out, O)
<1>1. PICK k : k = s.k
  OBVIOUS
<1>2. DOMAIN k = ClientFields /\ IsDocument(k.browser)
  BY <1>1 DEF Fits, StoreFits
<1>3. CASE ~MayWrite(k)
  <2>1. PICK k2 : k2 = [k EXCEPT !.saving = IF @ = Draining /\ k.writing = None THEN None ELSE @]
    OBVIOUS
  <2>2. Flush(c, s) = Step(k2, s.out)
    BY <1>1, <1>3, <2>1 DEF Flush
  <2>3. Like(k2, k, {})
    BY <1>2, <2>1 DEF Like, ClientFields, CoreFields
  <2> QED BY <1>1, <2>2, <2>3, StepFields, SameFits
<1>4. CASE MayWrite(k)
  <2> DEFINE full == Merge(k.browser, k.queued)
             body == [full EXCEPT !.selected = EncodeMap(@), !.runColors = EncodeMap(@)]
             bytes == Merge(body, [mutation |-> <<c, k.sent + 1>>])
             frozen == IF k.patch # NoPatch THEN k
                       ELSE [k EXCEPT !.patch = k.queued, !.queued = NoPatch, !.browser = full,
                                      !.body = bytes]
             next == [frozen EXCEPT !.sent = @ + 1, !.writing = k.sent + 1]
             q == Request(c, k, "browser", frozen.body, None)
  <2>1. Flush(c, s) = Step(next, s.out \cup {q})
    BY <1>1, <1>4 DEF Flush
  <2>2. "theme" \in DOMAIN full
    BY <1>2 DEF Merge, IsDocument
  <2>3. "theme" \in DOMAIN bytes /\ bytes.theme = full.theme
    <3> HIDE DEF full
    <3> QED BY <2>2, FrozenBody
  <2> HIDE DEF bytes
  <2>4. k.ready /\ k.writing = None /\ (k.patch = NoPatch => k.queued # NoPatch)
    BY <1>4 DEF MayWrite
  <2>5. PICK f : f = frozen
    OBVIOUS
  <2>6. /\ DOMAIN f = ClientFields /\ f.sent = k.sent /\ f.cookie = k.cookie
        /\ f.ready /\ f.writing = None /\ f.patch # NoPatch
        /\ Fits(c, f, ch, st, rows, N \cup s.out, O)
    <3>1. CASE k.patch # NoPatch
      BY <1>1, <1>2, <2>4, <2>5, <3>1
    <3>2. CASE k.patch = NoPatch
      <4>1. f = [k EXCEPT !.patch = k.queued, !.queued = NoPatch, !.browser = full, !.body = bytes]
        BY <2>5, <3>2
      <4> HIDE DEF full, frozen
      <4>2. /\ f.patch = k.queued /\ f.queued = NoPatch /\ f.browser = full /\ f.body = bytes
            /\ f.sent = k.sent /\ f.cookie = k.cookie /\ f.ready = k.ready /\ f.writing = k.writing
        BY <1>2, <4>1 DEF ClientFields
      <4>3. Like(f, k, {"patch", "body", "queued", "browser"})
        BY <1>2, <4>1 DEF Like, ClientFields, CoreFields
      <4>4. f.browser = Merge(k.browser, k.queued)
        BY <4>2 DEF full
      <4>5. Fits(c, f, ch, st, rows, N \cup s.out, O)
        BY <1>1, <2>3, <2>4, <3>2, <4>2, <4>3, <4>4, FrozenFits
      <4> QED BY <2>4, <3>2, <4>2, <4>3, <4>5 DEF Like
    <3> QED BY <3>1, <3>2
  <2>7. PICK k2 : k2 = [f EXCEPT !.sent = @ + 1, !.writing = k.sent + 1]
    OBVIOUS
  <2>8. PICK r : r = Request(c, k, "browser", f.body, None)
    OBVIOUS
  <2>9. Flush(c, s).k = k2 /\ Flush(c, s).out = s.out \cup {r}
    <3>1. next = k2 /\ q = r
      BY <2>5, <2>7, <2>8
    <3> HIDE DEF next, q
    <3> QED BY <2>1, <3>1, StepFields
  <2> HIDE DEF frozen, next, q
  <2>10. Like(k2, f, {"sent", "writing"}) /\ k2.sent = f.sent + 1 /\ k2.writing = f.sent + 1
    BY <2>6, <2>7 DEF Like, ClientFields, CoreFields
  <2>11. /\ r.to = "server" /\ r.from = c /\ r.serial = f.sent + 1 /\ r.kind = "browser"
         /\ r.cookie = f.cookie /\ r.body = f.body
    BY <2>6, <2>8, RequestFields
  <2>12. Fits(c, k2, ch, st, rows, (N \cup s.out) \cup {r}, O)
    BY <2>6, <2>10, <2>11, WrittenFits
  <2>13. (N \cup s.out) \cup {r} = N \cup (s.out \cup {r})
    OBVIOUS
  <2> QED BY <2>9, <2>12, <2>13
<1> QED BY <1>3, <1>4

LEMMA BootstrapFits ==
  ASSUME NEW c, NEW s, NEW ch, NEW st, NEW rows, NEW N, NEW O,
         Fits(c, s.k, ch, st, rows, N \cup s.out, O)
  PROVE  Fits(c, Bootstrap(c, s).k, ch, st, rows, N \cup Bootstrap(c, s).out, O)
<1>1. PICK k : k = s.k
  OBVIOUS
<1>2. DOMAIN k = ClientFields
  BY <1>1 DEF Fits, StoreFits
<1>3. CASE k.boot # None
  BY <1>1, <1>3 DEF Bootstrap
<1>4. CASE k.boot = None
  <2>1. PICK k2 : k2 = [k EXCEPT !.boot = k.sent + 1, !.sent = @ + 1]
    OBVIOUS
  <2>2. PICK r : r = Request(c, k, "state", None, None)
    OBVIOUS
  <2>3. Bootstrap(c, s).k = k2 /\ Bootstrap(c, s).out = s.out \cup {r}
    BY <1>1, <1>4, <2>1, <2>2, StepFields DEF Bootstrap
  <2>4. Like(k2, k, {"sent", "boot"}) /\ k2.sent = k.sent + 1 /\ k2.boot = k.sent + 1
    BY <1>2, <2>1 DEF Like, ClientFields, CoreFields
  <2>5. /\ r.to = "server" /\ r.from = c /\ r.serial = k.sent + 1 /\ r.kind = "state"
        /\ r.cookie = k.cookie
    BY <2>2, RequestFields
  <2>6. Fits(c, k2, ch, st, rows, (N \cup s.out) \cup {r}, O)
    BY <1>1, <1>4, <2>4, <2>5, BootFits
  <2>7. (N \cup s.out) \cup {r} = N \cup (s.out \cup {r})
    OBVIOUS
  <2> QED BY <2>3, <2>6, <2>7
<1> QED BY <1>3, <1>4

LEMMA SubmitFits ==
  ASSUME NEW c, NEW s, NEW ch, NEW st, NEW rows, NEW N, NEW O,
         Fits(c, s.k, ch, st, rows, N \cup s.out, O)
  PROVE  Fits(c, Submit(c, s).k, ch, st, rows, N \cup Submit(c, s).out, O)
<1>1. PICK k : k = s.k
  OBVIOUS
<1>2. DOMAIN k = ClientFields
  BY <1>1 DEF Fits, StoreFits
<1>3. PICK k2 : k2 = [k EXCEPT !.saving = k.sent + 1, !.sent = @ + 1]
  OBVIOUS
<1>4. PICK r : r = Request(c, k, "workspaces", k.pending.body, k.pending.edit)
  OBVIOUS
<1>5. Submit(c, s).k = k2 /\ Submit(c, s).out = s.out \cup {r}
  BY <1>1, <1>3, <1>4, StepFields DEF Submit
<1>6. Like(k2, k, {"sent"}) /\ k2.sent = k.sent + 1
  BY <1>2, <1>3 DEF Like, ClientFields, CoreFields
<1>7. r.to = "server" /\ r.from = c /\ r.serial = k.sent + 1 /\ r.kind = "workspaces"
  BY <1>4, RequestFields
<1>8. Fits(c, k2, ch, st, rows, (N \cup s.out) \cup {r}, O)
  BY <1>1, <1>6, <1>7, SentFits
<1>9. (N \cup s.out) \cup {r} = N \cup (s.out \cup {r})
  OBVIOUS
<1> QED BY <1>5, <1>8, <1>9

LEMMA UpdateFits ==
  ASSUME NEW c, NEW s, NEW ch, NEW st, NEW rows, NEW N, NEW O,
         Fits(c, s.k, ch, st, rows, N \cup s.out, O), NEW p, DOMAIN p = {"selected"}
  PROVE  Fits(c, UpdateBrowser(c, s, p).k, ch, st, rows, N \cup UpdateBrowser(c, s, p).out, O)
<1>1. PICK k : k = s.k
  OBVIOUS
<1>2. DOMAIN k = ClientFields /\ "revision" \notin DOMAIN k.queued
  BY <1>1 DEF Fits, StoreFits
<1>3. PICK k2 : k2 = [k EXCEPT !.queued = Merge(@, p)]
  OBVIOUS
<1>4. Like(k2, k, {"queued"}) /\ k2.queued = Merge(k.queued, p)
  BY <1>2, <1>3 DEF Like, ClientFields, CoreFields
<1>5. /\ Queued(k2) <=> Queued(k)
      /\ Queued(k) => k2.queued.theme = k.queued.theme
      /\ "revision" \notin DOMAIN k2.queued
  BY <1>2, <1>4 DEF Queued, Merge
<1>6. Fits(c, k2, ch, st, rows, N \cup s.out, O)
  BY <1>1, <1>4, <1>5, QueuedFits
<1>7. PICK t : t = Step(k2, s.out)
  OBVIOUS
<1>8. t.k = k2 /\ t.out = s.out /\ UpdateBrowser(c, s, p) = Flush(c, t)
  BY <1>1, <1>3, <1>7, StepFields DEF UpdateBrowser
<1> QED BY <1>6, <1>8, FlushFits

LEMMA ThemeFits ==
  ASSUME NEW c, NEW s, NEW ch, NEW st, NEW rows, NEW N, NEW O,
         Fits(c, s.k, ch, st, rows, N \cup s.out, O), NEW theme, NEW p, p = [theme |-> theme]
  PROVE  Fits(c, UpdateBrowser(c, s, p).k, theme, FALSE, rows, N \cup UpdateBrowser(c, s, p).out, O)
<1>1. PICK k : k = s.k
  OBVIOUS
<1>2. DOMAIN k = ClientFields /\ "revision" \notin DOMAIN k.queued
  BY <1>1 DEF Fits, StoreFits
<1>3. PICK k2 : k2 = [k EXCEPT !.queued = Merge(@, p)]
  OBVIOUS
<1>4. Like(k2, k, {"queued"}) /\ k2.queued = Merge(k.queued, p)
  BY <1>2, <1>3 DEF Like, ClientFields, CoreFields
<1>5. DOMAIN p = {"theme"} /\ p.theme = theme
  OBVIOUS
<1>6. /\ Queued(k2) /\ k2.queued.theme = theme
      /\ "revision" \notin DOMAIN k2.queued
  BY <1>2, <1>4, <1>5 DEF Queued, Merge
<1>7. Fits(c, k2, theme, FALSE, rows, N \cup s.out, O)
  BY <1>1, <1>4, <1>6, ChosenFits
<1>8. PICK t : t = Step(k2, s.out)
  OBVIOUS
<1>9. t.k = k2 /\ t.out = s.out /\ UpdateBrowser(c, s, p) = Flush(c, t)
  BY <1>1, <1>3, <1>8, StepFields DEF UpdateBrowser
<1> QED BY <1>7, <1>9, FlushFits

LEMMA BeginFits ==
  ASSUME NEW c, NEW k, NEW ch, NEW st, NEW rows, NEW N, NEW O, Fits(c, k, ch, st, rows, N, O)
  PROVE  Fits(c, Step(k, {}).k, ch, st, rows, N \cup Step(k, {}).out, O)
<1>1. N \cup {} = N
  OBVIOUS
<1> QED BY <1>1, StepFields

(* An answer about workspaces is taken in or lost.                         *)
LEMMA OtherTakenFits ==
  ASSUME NEW c, NEW k, NEW ch, NEW st, NEW rows, NEW M, NEW O, Fits(c, k, ch, st, rows, M, O),
         NEW N, N \subseteq M, \A m \in M \ N : m.to # "server" /\ m.kind = "workspaces"
  PROVE  Fits(c, k, ch, st, rows, N, O)
<1>1. /\ Requests(N) = Requests(M) /\ Answers(N, "state") = Answers(M, "state")
      /\ Answers(N, "browser") = Answers(M, "browser")
  BY DEF Requests, Answers
<1>2. States(N) = States(M)
  BY <1>1 DEF States
<1>3. MailFits(c, k, N)
  <2>1. \A m \in N \ Requests(N) : m \in M \ Requests(M)
    BY <1>1
  <2> QED BY <1>1, <2>1 DEF Fits, MailFits, Unanswered
<1>4. \A m \in Answers(N, "browser") : WriteFits(k, ch, st, rows, N, m)
  BY <1>1, <1>2 DEF Fits, WriteFits
<1> QED BY <1>1, <1>2, <1>3, <1>4 DEF Fits

LEMMA OwnFits ==
  ASSUME NEW c, NEW k, NEW ch, NEW st, NEW rows, NEW M, NEW O, Fits(c, k, ch, st, rows, M, O)
  PROVE  Own(k, M) \subseteq O /\ Fits(c, k, ch, st, rows, M, Own(k, M))
<1>1. (k.ready => k.cookie \in Own(k, M)) /\ \A v \in States(M) : v.cookie \in Own(k, M)
  BY DEF Own
<1>2. Own(k, M) \subseteq O
  BY DEF Own, Fits, RowFits, StateFits
<1> HIDE DEF Own
<1>3. RowFits(k, ch, st, rows, Own(k, M))
  BY <1>1, <1>2 DEF Fits, RowFits
<1>4. \A v \in States(M) : StateFits(k, ch, st, rows, Own(k, M), v)
  BY <1>1, <1>2 DEF Fits, StateFits
<1> QED BY <1>2, <1>3, <1>4 DEF Fits

(* Who a message concerns.                                                 *)
LEMMA MailIsOnes ==
  ASSUME NEW c, NEW k, NEW M, MailFits(c, k, M)
  PROVE  \A m \in M : m.to = c \/ (m.to = "server" /\ m.from = c)
BY DEF MailFits, RequestFits, Requests

(* A step of a browser keeps what holds of every browser.                  *)
LEMMA TakeThemes ==
  ASSUME ThemeInv, NEW c \in Client, NEW s, NEW consumed, Take(c, s, consumed), UNCHANGED db,
         DOMAIN chosen' = Client, \A e \in Client \ {c} : chosen'[e] = chosen[e],
         DOMAIN stray' = Client, \A e \in Client \ {c} : stray'[e] = stray[e],
         NEW N, N = Mail(c, net) \ consumed,
         consumed \cap Mail(c, net) = consumed,
         Fits(c, s.k, chosen'[c], stray'[c], db.browsers, N \cup s.out, Own(client[c], Mail(c, net)))
  PROVE  ThemeInv'
<1> DEFINE O == Own(client[c], Mail(c, net))
<1>1. PICK net2, client2, ch2, st2, rows :
        net2 = net' /\ client2 = client' /\ ch2 = chosen' /\ st2 = stray' /\ rows = db.browsers
  OBVIOUS
<1>2. net2 = (net \ consumed) \cup s.out /\ client2 = [client EXCEPT ![c] = s.k]
  BY <1>1 DEF Take
<1>3. DOMAIN client = Client /\ (\A m \in net : m.to = "server" => m.from \in Client)
  BY DEF ThemeInv
<1>4. DOMAIN client2 = Client /\ client2[c] = s.k /\ \A e \in Client \ {c} : client2[e] = client[e]
  BY <1>2, <1>3
<1>5. \A m \in N \cup s.out : m.to = c \/ (m.to = "server" /\ m.from = c)
  BY MailIsOnes DEF Fits
<1>6. "server" \notin Client
  BY ClientAssumption
<1>7. Mail(c, net2) = N \cup s.out
  BY <1>2, <1>5 DEF Mail
<1>8. ASSUME NEW e \in Client \ {c}
      PROVE  Mail(e, net2) = Mail(e, net)
  <2>1. \A m \in s.out : m \notin Mail(e, net2)
    BY <1>5, <1>6 DEF Mail
  <2>2. \A m \in consumed : m \notin Mail(e, net)
    BY <1>6 DEF Mail
  <2> QED BY <1>2, <2>1, <2>2 DEF Mail
<1>9. \A m \in net2 : m.to = "server" => m.from \in Client
  BY <1>2, <1>3, <1>5, <1>6
<1>10. /\ Fits(c, client2[c], ch2[c], st2[c], rows, Mail(c, net2), Own(client2[c], Mail(c, net2)))
       /\ Own(client2[c], Mail(c, net2)) \subseteq O
  <2>1. Fits(c, client2[c], ch2[c], st2[c], rows, Mail(c, net2), O)
    BY <1>1, <1>4, <1>7
  <2> HIDE DEF O
  <2> QED BY <2>1, OwnFits
<1>11. ASSUME NEW e \in Client \ {c}
       PROVE  /\ Fits(e, client2[e], ch2[e], st2[e], rows, Mail(e, net2), Own(client2[e], Mail(e, net2)))
              /\ Own(client2[e], Mail(e, net2)) = Own(client[e], Mail(e, net))
  <2>1. Fits(e, client[e], chosen[e], stray[e], rows, Mail(e, net), Own(client[e], Mail(e, net)))
    BY <1>1 DEF ThemeInv
  <2>2. client2[e] = client[e] /\ ch2[e] = chosen[e] /\ st2[e] = stray[e] /\ Mail(e, net2) = Mail(e, net)
    BY <1>1, <1>4, <1>8
  <2> QED BY <2>1, <2>2
<1>12. \A e \in Client : Fits(e, client2[e], ch2[e], st2[e], rows, Mail(e, net2), Own(client2[e], Mail(e, net2)))
  BY <1>10, <1>11
<1>13. \A e, f \in Client : e # f => Own(client2[e], Mail(e, net2)) \cap Own(client2[f], Mail(f, net2)) = {}
  <2>1. \A e, f \in Client : e # f => Own(client[e], Mail(e, net)) \cap Own(client[f], Mail(f, net)) = {}
    BY DEF ThemeInv
  <2>2. \A e \in Client : Own(client2[e], Mail(e, net2)) \subseteq Own(client[e], Mail(e, net))
    BY <1>10, <1>11
  <2> QED BY <2>1, <2>2
<1>14. DOMAIN ch2 = Client /\ DOMAIN st2 = Client /\ db' = db
  BY <1>1
<1> QED BY <1>1, <1>4, <1>9, <1>12, <1>13, <1>14 DEF ThemeInv

LEMMA TakePlain ==
  ASSUME ThemeInv, NEW c \in Client, NEW s, NEW consumed, Take(c, s, consumed),
         UNCHANGED <<db, chosen, stray>>,
         consumed \cap Mail(c, net) = consumed,
         Fits(c, s.k, chosen[c], stray[c], db.browsers, (Mail(c, net) \ consumed) \cup s.out,
              Own(client[c], Mail(c, net)))
  PROVE  ThemeInv'
<1>1. DOMAIN chosen' = Client /\ DOMAIN stray' = Client
  BY DEF ThemeInv
<1> QED BY <1>1, TakeThemes

(* The same when nothing is taken in.                                      *)
LEMMA SendPlain ==
  ASSUME ThemeInv, NEW c \in Client, NEW s, Take(c, s, {}), UNCHANGED <<db, chosen, stray>>,
         NEW N, N = Mail(c, net),
         Fits(c, s.k, chosen[c], stray[c], db.browsers, N \cup s.out, Own(client[c], Mail(c, net)))
  PROVE  ThemeInv'
<1>1. Mail(c, net) \ {} = N /\ {} \cap Mail(c, net) = {}
  OBVIOUS
<1> QED BY <1>1, TakePlain

LEMMA UserThemes ==
  ASSUME ThemeInv, NEW c \in Client,
         \/ Load(c)
         \/ \E id \in SetId, e \in Experiment, r \in 0 .. client[c].workspaces.revision : Save(c, id, e, r)
         \/ \E id \in SetId : Remove(c, id)
         \/ RetrySave(c)
         \/ \E theme \in Themes : ChooseTheme(c, theme)
         \/ \E e \in Experiment, id \in SetId \cup {None} : Select(c, e, id)
         \/ RetryAll(c)
  PROVE  ThemeInv'
<1>1. PICK k, ch, st, rows, M, O :
        /\ k = client[c] /\ ch = chosen[c] /\ st = stray[c] /\ rows = db.browsers
        /\ M = Mail(c, net) /\ O = Own(client[c], Mail(c, net))
  OBVIOUS
<1>2. Fits(c, k, ch, st, rows, M, O)
  BY <1>1 DEF ThemeInv
<1>3. DOMAIN k = ClientFields
  BY <1>2 DEF Fits, StoreFits
<1>4. ASSUME NEW s, Take(c, s, {}), UNCHANGED <<db, chosen, stray>>, Fits(c, s.k, ch, st, rows, M \cup s.out, O)
      PROVE  ThemeInv'
  BY <1>1, <1>4, SendPlain
<1>5. ASSUME NEW k2, Like(k2, k, {}), Take(c, Submit(c, Step(k2, {})), {}), UNCHANGED <<db, chosen, stray>>
      PROVE  ThemeInv'
  <2>1. Fits(c, k2, ch, st, rows, M, O)
    BY <1>2, <1>5, SameFits
  <2> QED BY <1>4, <1>5, <2>1, BeginFits, SubmitFits
<1>6. ASSUME NEW k2, Like(k2, k, {}), Take(c, Bootstrap(c, Step(k2, {})), {}), UNCHANGED <<db, chosen, stray>>
      PROVE  ThemeInv'
  <2>1. Fits(c, k2, ch, st, rows, M, O)
    BY <1>2, <1>6, SameFits
  <2> QED BY <1>4, <1>6, <2>1, BeginFits, BootstrapFits
<1>7. Like(k, k, {})
  BY <1>3 DEF Like
<1>8. CASE Load(c)
  <2>1. Take(c, Bootstrap(c, Step(k, {})), {}) /\ UNCHANGED <<db, chosen, stray>>
    BY <1>1, <1>8 DEF Load
  <2> QED BY <1>6, <1>7, <2>1
<1>9. ASSUME NEW id \in SetId, NEW e \in Experiment, NEW r \in 0 .. client[c].workspaces.revision, Save(c, id, e, r)
      PROVE  ThemeInv'
  <2>1. PICK p : Take(c, Submit(c, Step([k EXCEPT !.pending = p, !.conflict = FALSE], {})), {})
    BY <1>1, <1>9 DEF Save
  <2>2. PICK k2 : k2 = [k EXCEPT !.pending = p, !.conflict = FALSE]
    OBVIOUS
  <2>3. Like(k2, k, {})
    BY <1>3, <2>2 DEF Like, ClientFields, CoreFields
  <2>4. UNCHANGED <<db, chosen, stray>>
    BY <1>9 DEF Save
  <2> QED BY <1>5, <2>1, <2>2, <2>3, <2>4
<1>10. ASSUME NEW id \in SetId, Remove(c, id)
       PROVE  ThemeInv'
  <2>1. PICK p : Take(c, Submit(c, Step([k EXCEPT !.pending = p, !.conflict = FALSE], {})), {})
    BY <1>1, <1>10 DEF Remove
  <2>2. PICK k2 : k2 = [k EXCEPT !.pending = p, !.conflict = FALSE]
    OBVIOUS
  <2>3. Like(k2, k, {})
    BY <1>3, <2>2 DEF Like, ClientFields, CoreFields
  <2>4. UNCHANGED <<db, chosen, stray>>
    BY <1>10 DEF Remove
  <2> QED BY <1>5, <2>1, <2>2, <2>3, <2>4
<1>11. CASE RetrySave(c)
  <2>1. Take(c, Submit(c, Step(k, {})), {}) /\ UNCHANGED <<db, chosen, stray>>
    BY <1>1, <1>11 DEF RetrySave
  <2> QED BY <1>5, <1>7, <2>1
<1>12. ASSUME NEW theme \in Themes, ChooseTheme(c, theme)
       PROVE  ThemeInv'
  <2>1. PICK p : p = [theme |-> theme]
    OBVIOUS
  <2>2. PICK s : s = UpdateBrowser(c, Step(k, {}), p)
    OBVIOUS
  <2>3. Take(c, s, {}) /\ UNCHANGED db
    BY <1>1, <1>12, <2>1, <2>2 DEF ChooseTheme
  <2>4. /\ DOMAIN chosen' = Client /\ \A e \in Client \ {c} : chosen'[e] = chosen[e]
        /\ DOMAIN stray' = Client /\ \A e \in Client \ {c} : stray'[e] = stray[e]
        /\ chosen'[c] = theme /\ stray'[c] = FALSE
    BY <1>12 DEF ChooseTheme, ThemeInv
  <2>5. Fits(c, s.k, theme, FALSE, rows, M \cup s.out, O)
    BY <1>2, <2>1, <2>2, BeginFits, ThemeFits
  <2>6. M = Mail(c, net) \ {} /\ {} \cap Mail(c, net) = {}
    BY <1>1
  <2>7. Fits(c, s.k, chosen'[c], stray'[c], db.browsers, M \cup s.out, Own(client[c], Mail(c, net)))
    BY <1>1, <2>4, <2>5
  <2> QED BY <2>3, <2>4, <2>6, <2>7, TakeThemes
<1>13. ASSUME NEW e \in Experiment, NEW id \in SetId \cup {None}, Select(c, e, id)
       PROVE  ThemeInv'
  <2>1. PICK new : Take(c, UpdateBrowser(c, Step(k, {}), [selected |-> new]), {})
    BY <1>1, <1>13 DEF Select
  <2>2. PICK p : p = [selected |-> new]
    OBVIOUS
  <2>3. DOMAIN p = {"selected"}
    BY <2>2
  <2>4. UNCHANGED <<db, chosen, stray>>
    BY <1>13 DEF Select
  <2> QED BY <1>2, <1>4, <2>1, <2>2, <2>3, <2>4, BeginFits, UpdateFits
<1>14. CASE RetryAll(c)
  <2>1. PICK k2 : k2 = [k EXCEPT !.retrying = TRUE]
    OBVIOUS
  <2>2. Like(k2, k, {})
    BY <1>3, <2>1 DEF Like, ClientFields, CoreFields
  <2>3. /\ Take(c, Submit(c, Step(k2, {})), {}) \/ Take(c, Bootstrap(c, Step(k2, {})), {})
        /\ UNCHANGED <<db, chosen, stray>>
    BY <1>1, <1>14, <2>1 DEF RetryAll
  <2> QED BY <1>5, <1>6, <2>2, <2>3
<1> QED BY <1>8, <1>9, <1>10, <1>11, <1>12, <1>13, <1>14

LEMMA AnswersToOne ==
  ASSUME NEW c \in Client, NEW kind
  PROVE  /\ {m \in net : m.to = c /\ m.kind = kind} = Answers(Mail(c, net), kind)
         /\ Answers(Mail(c, net), kind) \cap Mail(c, net) = Answers(Mail(c, net), kind)
BY ClientAssumption DEF Answers, Mail

(* The queue after a retry's bootstrap holds what it held, but for the     *)
(* selections of workspaces that are gone.                                 *)
LEMMA ResumedFits ==
  ASSUME NEW c, NEW k, NEW ch, NEW st, NEW rows, NEW M, NEW O, Fits(c, k, ch, st, rows, M, O)
  PROVE  Fits(c, Resume(k), ch, st, rows, M, O)
<1>1. DOMAIN k = ClientFields /\ "revision" \notin DOMAIN k.queued
  BY DEF Fits, StoreFits
<1>2. CASE ~k.retrying
  BY <1>2 DEF Resume
<1>3. CASE k.retrying
  <2> DEFINE q == Restrict(k.queued.selected, SelectionsIn(k.queued.selected, k.workspaces.sets))
  <2> HIDE DEF q
  <2>1. PICK p : p = [selected |-> q]
    OBVIOUS
  <2>2. DOMAIN p = {"selected"}
    BY <2>1
  <2>3. PICK kept : kept = IF "selected" \notin DOMAIN k.queued THEN k.queued ELSE Merge(k.queued, p)
    OBVIOUS
  <2>4. PICK k2 : k2 = [k EXCEPT !.queued = kept, !.failed = FALSE, !.retrying = FALSE]
    OBVIOUS
  <2>5. Resume(k) = k2
    BY <1>3, <2>1, <2>3, <2>4 DEF Resume, q
  <2>6. Like(k2, k, {"queued"}) /\ k2.queued = kept
    BY <1>1, <2>4 DEF Like, ClientFields, CoreFields
  <2>7. /\ Queued(k2) <=> Queued(k)
        /\ Queued(k) => k2.queued.theme = k.queued.theme
        /\ "revision" \notin DOMAIN k2.queued
    BY <1>1, <2>2, <2>3, <2>6 DEF Queued, Merge
  <2> QED BY <2>5, <2>6, <2>7, QueuedFits
<1> QED BY <1>2, <1>3

LEMMA SettledLike ==
  ASSUME NEW k, DOMAIN k = ClientFields
  PROVE  Like(Settled(k), k, {"boot"}) /\ Settled(k).boot = None
<1>1. PICK k2 : k2 = Settled(k)
  OBVIOUS
<1>2. DOMAIN k2 = ClientFields /\ (\A f \in ClientFields \ {"boot", "saving"} : k2[f] = k[f]) /\ k2.boot = None
  BY <1>1 DEF Settled, ClientFields
<1> QED BY <1>1, <1>2 DEF Like, CoreFields, ClientFields

LEMMA StateAnswerThemes ==
  ASSUME ThemeInv, NEW c \in Client, NEW m \in net, Receive(c, m), m.kind = "state"
  PROVE  ThemeInv'
<1>1. PICK k0, ch, st, rows, M, O :
        /\ k0 = client[c] /\ ch = chosen[c] /\ st = stray[c] /\ rows = db.browsers
        /\ M = Mail(c, net) /\ O = Own(client[c], Mail(c, net))
  OBVIOUS
<1>2. Fits(c, k0, ch, st, rows, M, O)
  BY <1>1 DEF ThemeInv
<1>3. m.to = c /\ StateAnswer(c, m) /\ UNCHANGED <<db, chosen, stray>>
  BY DEF Receive
<1>4. m \in Answers(M, "state") /\ Answers(M, "state") = {m}
  <2>1. m \in Answers(M, "state")
    BY <1>1, <1>3, ClientAssumption DEF Answers, Mail
  <2>2. \A n \in Answers(M, "state") : n = m
    BY <1>2, <2>1 DEF Fits, MailFits
  <2> QED BY <2>1, <2>2
<1>5. PICK N : N = M \ {m}
  OBVIOUS
<1>6. PICK k : k = Settled(k0)
  OBVIOUS
<1>7. Like(k, k0, {"boot"}) /\ k.boot = None
  BY <1>2, <1>6, SettledLike DEF Fits, StoreFits
<1>8. Fits(c, k, ch, st, rows, N, O) /\ Answers(N, "state") = {}
  BY <1>2, <1>4, <1>5, <1>7, BootOverFits
<1>9. DOMAIN k = ClientFields
  BY <1>7 DEF Like
<1>10. ASSUME NEW s, Take(c, s, {m}), Fits(c, s.k, ch, st, rows, N \cup s.out, O)
       PROVE  ThemeInv'
  <2>1. {m} \cap Mail(c, net) = {m}
    BY <1>1, <1>4 DEF Answers
  <2> QED BY <1>1, <1>3, <1>5, <1>10, <2>1, TakePlain
<1>11. CASE m.status = 200
  <2>1. PICK v : v = m.value
    OBVIOUS
  <2>2. StateFits(k, ch, st, rows, O, v)
    <3>1. StateFits(k0, ch, st, rows, O, v)
      BY <1>2, <1>4, <1>11, <2>1 DEF Fits, States
    <3>2. k.ready = k0.ready /\ k.cookie = k0.cookie /\ k.browser = k0.browser /\ k.queued = k0.queued
          /\ k.patch = k0.patch
      BY <1>7 DEF Like, CoreFields
    <3> QED BY <3>1, <3>2 DEF StateFits, Unsaved, Queued
  <2> DEFINE adopted ==
        [k EXCEPT !.cookie = v.cookie, !.ready = TRUE,
                  !.workspaces = IF v.workspaces.revision >= @.revision THEN v.workspaces ELSE @,
                  !.browser = IF k.writing = None /\ k.patch = NoPatch
                                   /\ v.browser.revision >= @.revision
                              THEN v.browser ELSE @]
  <2>3. Take(c, Flush(c, Step(Resume(adopted), {})), {m})
    BY <1>1, <1>3, <1>6, <1>11, <2>1 DEF StateAnswer
  <2>4. PICK k2 : k2 = adopted
    OBVIOUS
  <2>5. /\ DOMAIN k2 = ClientFields /\ k2.cookie = v.cookie /\ k2.ready = TRUE
        /\ k2.browser = IF k.writing = None /\ k.patch = NoPatch /\ v.browser.revision >= k.browser.revision
                        THEN v.browser ELSE k.browser
        /\ k2.sent = k.sent /\ k2.boot = k.boot /\ k2.patch = k.patch /\ k2.body = k.body
        /\ k2.queued = k.queued /\ k2.writing = k.writing
    BY <1>9, <2>4 DEF ClientFields
  <2>6. Take(c, Flush(c, Step(Resume(k2), {})), {m})
    BY <2>3, <2>4
  <2> HIDE DEF adopted
  <2>7. Like(k2, k, {"cookie", "ready", "browser"})
    BY <2>5 DEF Like, CoreFields
  <2>8. Fits(c, k2, ch, st, rows, N, O)
    BY <1>7, <1>8, <2>2, <2>5, <2>7, AdoptedFits
  <2>9. Fits(c, Resume(k2), ch, st, rows, N, O)
    BY <2>8, ResumedFits
  <2> QED BY <1>10, <2>6, <2>9, BeginFits, FlushFits
<1>12. CASE m.status # 200
  <2>1. PICK k2 : k2 = [k EXCEPT !.retrying = FALSE]
    OBVIOUS
  <2>2. Take(c, Step(k2, {}), {m})
    BY <1>1, <1>3, <1>6, <1>12, <2>1 DEF StateAnswer
  <2>3. Like(k2, k, {})
    BY <1>9, <2>1 DEF Like, ClientFields, CoreFields
  <2>4. Fits(c, k2, ch, st, rows, N, O)
    BY <1>8, <2>3, SameFits
  <2> QED BY <1>10, <2>2, <2>4, BeginFits
<1> QED BY <1>11, <1>12

LEMMA WorkspaceAnswerThemes ==
  ASSUME ThemeInv, NEW c \in Client, NEW m \in net, Receive(c, m), m.kind = "workspaces"
  PROVE  ThemeInv'
<1>1. PICK k, ch, st, rows, M, O :
        /\ k = client[c] /\ ch = chosen[c] /\ st = stray[c] /\ rows = db.browsers
        /\ M = Mail(c, net) /\ O = Own(client[c], Mail(c, net))
  OBVIOUS
<1>2. Fits(c, k, ch, st, rows, M, O)
  BY <1>1 DEF ThemeInv
<1>3. m.to = c /\ WorkspaceAnswer(c, m) /\ UNCHANGED <<db, chosen, stray>>
  BY DEF Receive
<1>4. m \in M /\ m.to # "server"
  BY <1>1, <1>3, ClientAssumption DEF Mail
<1>5. PICK N : N = M \ {m}
  OBVIOUS
<1>6. Fits(c, k, ch, st, rows, N, O)
  BY <1>2, <1>4, <1>5, OtherTakenFits
<1>7. DOMAIN k = ClientFields
  BY <1>2 DEF Fits, StoreFits
<1>8. ASSUME NEW s, Take(c, s, {m}), Fits(c, s.k, ch, st, rows, N \cup s.out, O)
      PROVE  ThemeInv'
  <2>1. {m} \cap Mail(c, net) = {m}
    BY <1>1, <1>4
  <2> QED BY <1>1, <1>3, <1>5, <1>8, <2>1, TakePlain
<1> DEFINE newer == IF m.value.revision >= k.workspaces.revision THEN m.value ELSE k.workspaces
           done == [k EXCEPT !.workspaces = newer, !.pending = None, !.conflict = FALSE]
           record == k.pending.record
           choice == Merge(Shown(done).selected, [e \in {record.experimentId} |-> record.id])
           none == Step([k EXCEPT !.workspaces = newer, !.conflict = TRUE, !.pending = None,
                                  !.saving = None, !.retrying = FALSE], {})
           refused == Step([k EXCEPT !.pending = None, !.saving = None, !.retrying = FALSE], {})
<1>9. \/ Take(c, UpdateBrowser(c, Step([done EXCEPT !.saving = Draining], {}), [selected |-> choice]), {m})
      \/ Take(c, Bootstrap(c, Step([done EXCEPT !.saving = Booting], {})), {m})
      \/ Take(c, none, {m}) \/ Take(c, refused, {m})
  BY <1>1, <1>3 DEF WorkspaceAnswer
<1> HIDE DEF newer, choice
<1>10. PICK d : d = done
  OBVIOUS
<1>11. DOMAIN d = ClientFields /\ Like(d, k, {})
  BY <1>7, <1>10 DEF Like, ClientFields, CoreFields
<1>12. ASSUME NEW x, NEW k2, k2 = [d EXCEPT !.saving = x]
       PROVE  Fits(c, k2, ch, st, rows, N, O)
  <2>1. Like(k2, k, {})
    BY <1>11, <1>12 DEF Like, ClientFields, CoreFields
  <2> QED BY <1>6, <2>1, SameFits
<1>13. CASE Take(c, UpdateBrowser(c, Step([d EXCEPT !.saving = Draining], {}), [selected |-> choice]), {m})
  <2>1. PICK k2 : k2 = [d EXCEPT !.saving = Draining]
    OBVIOUS
  <2>2. PICK p : p = [selected |-> choice]
    OBVIOUS
  <2>3. DOMAIN p = {"selected"}
    BY <2>2
  <2>4. Fits(c, k2, ch, st, rows, N, O)
    BY <1>12, <2>1
  <2> QED BY <1>8, <1>13, <2>1, <2>2, <2>3, <2>4, BeginFits, UpdateFits
<1>14. CASE Take(c, Bootstrap(c, Step([d EXCEPT !.saving = Booting], {})), {m})
  <2>1. PICK k2 : k2 = [d EXCEPT !.saving = Booting]
    OBVIOUS
  <2>2. Fits(c, k2, ch, st, rows, N, O)
    BY <1>12, <2>1
  <2> QED BY <1>8, <1>14, <2>1, <2>2, BeginFits, BootstrapFits
<1>15. CASE Take(c, none, {m})
  <2>1. PICK k2 : k2 = [k EXCEPT !.workspaces = newer, !.conflict = TRUE, !.pending = None,
                                 !.saving = None, !.retrying = FALSE]
    OBVIOUS
  <2>2. Like(k2, k, {})
    BY <1>7, <2>1 DEF Like, ClientFields, CoreFields
  <2>3. Fits(c, k2, ch, st, rows, N, O)
    BY <1>6, <2>2, SameFits
  <2> QED BY <1>8, <1>15, <2>1, <2>3, BeginFits
<1>16. CASE Take(c, refused, {m})
  <2>1. PICK k2 : k2 = [k EXCEPT !.pending = None, !.saving = None, !.retrying = FALSE]
    OBVIOUS
  <2>2. Like(k2, k, {})
    BY <1>7, <2>1 DEF Like, ClientFields, CoreFields
  <2>3. Fits(c, k2, ch, st, rows, N, O)
    BY <1>6, <2>2, SameFits
  <2> QED BY <1>8, <1>16, <2>1, <2>3, BeginFits
<1> QED BY <1>9, <1>10, <1>13, <1>14, <1>15, <1>16

LEMMA BrowserAnswerThemes ==
  ASSUME ThemeInv, NEW c \in Client, NEW m \in net, Receive(c, m), m.kind = "browser"
  PROVE  ThemeInv'
<1>1. PICK k0, ch, st, rows, M, O :
        /\ k0 = client[c] /\ ch = chosen[c] /\ st = stray[c] /\ rows = db.browsers
        /\ M = Mail(c, net) /\ O = Own(client[c], Mail(c, net))
  OBVIOUS
<1>2. Fits(c, k0, ch, st, rows, M, O) /\ DOMAIN k0 = ClientFields
  BY <1>1 DEF ThemeInv, Fits, StoreFits
<1>3. m.to = c /\ BrowserAnswer(c, m) /\ UNCHANGED <<db, chosen, stray>>
  BY DEF Receive
<1>4. m \in Answers(M, "browser") /\ Answers(M, "browser") = {m} /\ m.status \in Statuses
  <2>1. m \in Answers(M, "browser")
    BY <1>1, <1>3, ClientAssumption DEF Answers, Mail
  <2>2. \A n \in Answers(M, "browser") : n = m /\ n.status \in Statuses
    BY <1>2, <2>1 DEF Fits, MailFits, Answers, Requests
  <2> QED BY <2>1, <2>2
<1>5. PICK N : N = M \ {m}
  OBVIOUS
<1>6. PICK k : k = [k0 EXCEPT !.writing = None]
  OBVIOUS
<1>7. DOMAIN k = ClientFields /\ Like(k, k0, {"writing"}) /\ k.writing = None
  BY <1>2, <1>6 DEF Like, ClientFields, CoreFields
<1>8. /\ Fits(c, k, ch, st, rows, N, O) /\ Answers(N, "browser") = {}
      /\ WriteFits(k, ch, st, rows, N, m) /\ k.patch # NoPatch
  BY <1>2, <1>4, <1>5, <1>7, WriteOverFits
<1>9. ASSUME NEW k2, Take(c, Flush(c, Step(k2, {})), {m}), Fits(c, k2, ch, st, rows, N, O)
      PROVE  ThemeInv'
  <2>1. {m} \cap Mail(c, net) = {m}
    BY <1>1, <1>4 DEF Answers
  <2>2. PICK s : s = Flush(c, Step(k2, {}))
    OBVIOUS
  <2>3. Fits(c, s.k, ch, st, rows, N \cup s.out, O)
    BY <1>9, <2>2, BeginFits, FlushFits
  <2> QED BY <1>1, <1>3, <1>5, <1>9, <2>1, <2>2, <2>3, TakePlain
<1>10. PICK r : r = [k EXCEPT !.failed = TRUE, !.patch = NoPatch, !.body = None, !.queued = Merge(k.patch, @)]
  OBVIOUS
<1>11. Requeued(k) = r
  BY <1>10 DEF Requeued
<1>12. /\ DOMAIN r = ClientFields /\ r.patch = NoPatch /\ r.queued = Merge(k.patch, k.queued)
       /\ r.browser = k.browser
       /\ Like(r, k, {"browser", "patch", "body", "queued"})
  BY <1>7, <1>10 DEF Like, ClientFields, CoreFields
<1>13. CASE m.status = 200
  <2>1. PICK k2 : k2 = [k EXCEPT !.browser = m.value, !.patch = NoPatch, !.body = None]
    OBVIOUS
  <2>2. Take(c, Flush(c, Step(k2, {})), {m})
    BY <1>1, <1>3, <1>6, <1>13, <2>1 DEF BrowserAnswer
  <2>3. Like(k2, k, {"browser", "patch", "body"}) /\ k2.patch = NoPatch /\ k2.browser = m.value
    BY <1>7, <2>1 DEF Like, ClientFields, CoreFields
  <2>4. Fits(c, k2, ch, st, rows, N, O)
    BY <1>7, <1>8, <1>13, <2>3, AcknowledgedFits
  <2> QED BY <1>9, <2>2, <2>4
<1>14. CASE m.status = 409
  <2>1. PICK k2 : k2 = [r EXCEPT !.browser = m.value]
    OBVIOUS
  <2>2. Take(c, Flush(c, Step(k2, {})), {m})
    BY <1>1, <1>3, <1>6, <1>11, <1>14, <2>1 DEF BrowserAnswer
  <2>3. /\ Like(k2, k, {"browser", "patch", "body", "queued"}) /\ k2.patch = NoPatch
        /\ k2.queued = Merge(k.patch, k.queued) /\ k2.browser = m.value
    BY <1>12, <2>1 DEF Like, ClientFields, CoreFields
  <2>4. Fits(c, k2, ch, st, rows, N, O)
    BY <1>7, <1>8, <1>14, <2>3, RequeuedFits
  <2> QED BY <1>9, <2>2, <2>4
<1>15. CASE m.status = 400
  <2>1. Take(c, Flush(c, Step(r, {})), {m})
    BY <1>1, <1>3, <1>6, <1>11, <1>15 DEF BrowserAnswer
  <2>2. Fits(c, r, ch, st, rows, N, O)
    BY <1>7, <1>8, <1>12, RequeuedFits
  <2> QED BY <1>9, <2>1, <2>2
<1> QED BY <1>4, <1>13, <1>14, <1>15 DEF Statuses

LEMMA GiveUpThemes ==
  ASSUME ThemeInv, NEW c \in Client, GiveUp(c)
  PROVE  ThemeInv'
<1>1. PICK k, ch, st, rows, M, O :
        /\ k = client[c] /\ ch = chosen[c] /\ st = stray[c] /\ rows = db.browsers
        /\ M = Mail(c, net) /\ O = Own(client[c], Mail(c, net))
  OBVIOUS
<1>2. Fits(c, k, ch, st, rows, M, O) /\ DOMAIN k = ClientFields
  BY <1>1 DEF ThemeInv, Fits, StoreFits
<1>3. \A kind : {m \in net : m.to = c /\ m.kind = kind} = Answers(M, kind) /\ Answers(M, kind) \cap M = Answers(M, kind)
  BY <1>1, AnswersToOne
<1>4. UNCHANGED <<db, chosen, stray>>
  BY DEF GiveUp
<1>5. ASSUME NEW s, NEW kind, Take(c, s, Answers(M, kind)),
             Fits(c, s.k, ch, st, rows, (M \ Answers(M, kind)) \cup s.out, O)
      PROVE  ThemeInv'
  <2>1. Answers(M, kind) \cap M = Answers(M, kind)
    BY <1>3
  <2> QED BY <1>1, <1>4, <1>5, <2>1, TakePlain
<1>6. \/ Take(c, Step([Settled(k) EXCEPT !.retrying = FALSE], {}), Answers(M, "state"))
      \/ Take(c, Step([k EXCEPT !.saving = None, !.retrying = FALSE], {}), Answers(M, "workspaces"))
      \/ Take(c, Flush(c, Step([k EXCEPT !.writing = None, !.failed = TRUE], {})), Answers(M, "browser"))
  BY <1>1, <1>3 DEF GiveUp
<1>7. CASE Take(c, Step([Settled(k) EXCEPT !.retrying = FALSE], {}), Answers(M, "state"))
  <2>1. PICK k1 : k1 = Settled(k)
    OBVIOUS
  <2>2. Like(k1, k, {"boot"}) /\ k1.boot = None
    BY <1>2, <2>1, SettledLike
  <2>3. PICK N : N = M \ Answers(M, "state")
    OBVIOUS
  <2>4. Fits(c, k1, ch, st, rows, N, O)
    BY <1>2, <2>2, <2>3, BootOverFits
  <2>5. PICK k2 : k2 = [k1 EXCEPT !.retrying = FALSE]
    OBVIOUS
  <2>6. DOMAIN k1 = ClientFields
    BY <2>2 DEF Like
  <2>7. Like(k2, k1, {})
    BY <2>5, <2>6 DEF Like, ClientFields, CoreFields
  <2>8. Fits(c, k2, ch, st, rows, N, O)
    BY <2>4, <2>7, SameFits
  <2> QED BY <1>5, <1>7, <2>1, <2>3, <2>5, <2>8, BeginFits
<1>8. CASE Take(c, Step([k EXCEPT !.saving = None, !.retrying = FALSE], {}), Answers(M, "workspaces"))
  <2>1. PICK k2 : k2 = [k EXCEPT !.saving = None, !.retrying = FALSE]
    OBVIOUS
  <2>2. Like(k2, k, {})
    BY <1>2, <2>1 DEF Like, ClientFields, CoreFields
  <2>3. PICK N : N = M \ Answers(M, "workspaces")
    OBVIOUS
  <2>4. Fits(c, k, ch, st, rows, N, O)
    <3>1. N \subseteq M /\ \A m \in M \ N : m.to # "server" /\ m.kind = "workspaces"
      BY <2>3 DEF Answers
    <3> QED BY <1>2, <3>1, OtherTakenFits
  <2>5. Fits(c, k2, ch, st, rows, N, O)
    BY <2>2, <2>4, SameFits
  <2> QED BY <1>5, <1>8, <2>1, <2>3, <2>5, BeginFits
<1>9. CASE Take(c, Flush(c, Step([k EXCEPT !.writing = None, !.failed = TRUE], {})), Answers(M, "browser"))
  <2>1. PICK k2 : k2 = [k EXCEPT !.writing = None, !.failed = TRUE]
    OBVIOUS
  <2>2. Like(k2, k, {"writing"}) /\ k2.writing = None
    BY <1>2, <2>1 DEF Like, ClientFields, CoreFields
  <2>3. PICK N : N = M \ Answers(M, "browser")
    OBVIOUS
  <2>4. Fits(c, k2, ch, st, rows, N, O)
    BY <1>2, <2>2, <2>3, WriteOverFits
  <2> QED BY <1>5, <1>9, <2>1, <2>3, <2>4, BeginFits, FlushFits
<1> QED BY <1>6, <1>7, <1>8, <1>9

-------------------------------------------------------------------------------
(* The steps of the server.                                                *)

(* Rows of a browser's may advance, as long as they keep their theme.      *)
LEMMA MovedFits ==
  ASSUME NEW c, NEW k, NEW ch, NEW st, NEW rows, NEW M, NEW O, Fits(c, k, ch, st, rows, M, O),
         NEW rows2, O \subseteq DOMAIN rows2,
         \A b \in O : /\ IsDocument(rows2[b]) /\ rows2[b].theme = rows[b].theme
                      /\ rows[b].revision <= rows2[b].revision
  PROVE  Fits(c, k, ch, st, rows2, M, O)
<1>1. \A b \in O : rows[b].revision \in Nat /\ rows2[b].revision \in Nat
  BY DEF Fits, RowFits, IsDocument
<1>2. IsDocument(k.browser) /\ k.browser.revision \in Nat
  BY DEF Fits, StoreFits, IsDocument
<1>3. RowFits(k, ch, st, rows2, O)
  BY <1>1, <1>2 DEF Fits, RowFits
<1>4. ASSUME NEW v \in States(M)
      PROVE  StateFits(k, ch, st, rows2, O, v)
  <2>1. StateFits(k, ch, st, rows, O, v) /\ v.browser.revision \in Nat
    BY DEF Fits, StateFits, IsDocument
  <2>2. v.cookie \in O
    BY <2>1 DEF StateFits
  <2>3. v.browser.revision <= rows[v.cookie].revision /\ rows[v.cookie].revision <= rows2[v.cookie].revision
    BY <2>1, <2>2 DEF StateFits
  <2>4. v.browser.revision <= rows2[v.cookie].revision
    BY <1>1, <2>1, <2>2, <2>3
  <2>5. v.browser.revision = rows2[v.cookie].revision => v.browser.revision = rows[v.cookie].revision
    BY <1>1, <2>1, <2>2, <2>3
  <2> QED BY <2>1, <2>2, <2>4, <2>5 DEF StateFits
<1>5. ASSUME NEW m \in Answers(M, "browser")
      PROVE  WriteFits(k, ch, st, rows2, M, m)
  <2>1. WriteFits(k, ch, st, rows, M, m)
    BY DEF Fits
  <2>2. k.ready
    BY DEF Fits, MailFits, Unanswered, StoreFits
  <2>3. k.cookie \in O
    BY <2>2 DEF Fits, RowFits
  <2>4. m.status \in {200, 409} => m.value.revision <= rows2[k.cookie].revision
    BY <1>1, <2>1, <2>3 DEF WriteFits, IsDocument
  <2> QED BY <2>1, <2>3, <2>4 DEF WriteFits
<1> QED BY <1>3, <1>4, <1>5 DEF Fits

LEMMA MoreOwnFits ==
  ASSUME NEW c, NEW k, NEW ch, NEW st, NEW rows, NEW M, NEW O, Fits(c, k, ch, st, rows, M, O),
         NEW b \in DOMAIN rows, IsDocument(rows[b])
  PROVE  Fits(c, k, ch, st, rows, M, O \cup {b})
<1>1. RowFits(k, ch, st, rows, O \cup {b})
  BY DEF Fits, RowFits
<1>2. \A v \in States(M) : StateFits(k, ch, st, rows, O \cup {b}, v)
  BY DEF Fits, StateFits
<1> QED BY <1>1, <1>2 DEF Fits

(* A request is served.                                                    *)
LEMMA ServedRequestFits ==
  ASSUME NEW c, NEW k, NEW ch, NEW st, NEW rows, NEW M, NEW O, Fits(c, k, ch, st, rows, M, O),
         NEW q \in Requests(M), NEW N, N = M \ {q}
  PROVE  /\ Fits(c, k, ch, st, rows, N, O)
         /\ Unanswered(q.serial, N)
         /\ q.serial = k.boot => Answers(N, "state") = {}
         /\ q.serial = k.writing => Answers(N, "browser") = {}
<1>1. /\ Requests(N) = Requests(M) \ {q} /\ Answers(N, "state") = Answers(M, "state")
      /\ Answers(N, "browser") = Answers(M, "browser")
  BY DEF Requests, Answers
<1>2. States(N) = States(M)
  BY <1>1 DEF States
<1>3. MailFits(c, k, N)
  <2>1. \A m \in N \ Requests(N) : m \in M \ Requests(M)
    BY <1>1
  <2>2. \A x : Unanswered(x, M) => Unanswered(x, N)
    BY <1>1 DEF Unanswered
  <2> QED BY <1>1, <2>1, <2>2 DEF Fits, MailFits
<1>4. \A m \in Answers(N, "browser") : WriteFits(k, ch, st, rows, N, m)
  BY <1>1, <1>2 DEF Fits, WriteFits
<1>5. Unanswered(q.serial, N)
  <2>1. q.serial # None
    BY ClientAssumption DEF Fits, MailFits, RequestFits, StoreFits
  <2>2. \A m \in Requests(N) : m.serial # q.serial
    BY <1>1 DEF Fits, MailFits
  <2> QED BY <2>1, <2>2 DEF Unanswered
<1>6. /\ q.serial = k.boot => Answers(M, "state") = {}
      /\ q.serial = k.writing => Answers(M, "browser") = {}
  BY DEF Fits, MailFits, Unanswered
<1> QED BY <1>1, <1>2, <1>3, <1>4, <1>5, <1>6 DEF Fits

LEMMA OtherAnsweredFits ==
  ASSUME NEW c, c # "server", NEW k, NEW ch, NEW st, NEW rows, NEW M, NEW O, Fits(c, k, ch, st, rows, M, O),
         NEW a, a.to = c, a.kind = "workspaces", a.status \in Statuses
  PROVE  Fits(c, k, ch, st, rows, M \cup {a}, O)
<1>1. /\ Requests(M \cup {a}) = Requests(M) /\ Answers(M \cup {a}, "state") = Answers(M, "state")
      /\ Answers(M \cup {a}, "browser") = Answers(M, "browser")
  BY DEF Requests, Answers
<1>2. States(M \cup {a}) = States(M)
  BY <1>1 DEF States
<1>3. MailFits(c, k, M \cup {a})
  <2>1. \A m \in (M \cup {a}) \ Requests(M \cup {a}) : m \in M \ Requests(M) \/ m = a
    BY <1>1
  <2> QED BY <1>1, <2>1 DEF Fits, MailFits, Unanswered, Kinds
<1>4. \A m \in Answers(M \cup {a}, "browser") : WriteFits(k, ch, st, rows, M \cup {a}, m)
  BY <1>1, <1>2 DEF Fits, WriteFits
<1> QED BY <1>1, <1>2, <1>3, <1>4 DEF Fits

(* A browser's state is answered as it is now.                             *)
LEMMA StateAnsweredFits ==
  ASSUME NEW c, c # "server", NEW k, NEW ch, NEW st, NEW rows, NEW M, NEW O, Fits(c, k, ch, st, rows, M, O),
         Unanswered(k.boot, M), Answers(M, "state") = {},
         NEW a, a.to = c, a.kind = "state", a.status \in Statuses,
         a.status = 200 => /\ StateFits(k, ch, st, rows, O, a.value)
                           /\ a.value.browser.theme = rows[a.value.cookie].theme
  PROVE  Fits(c, k, ch, st, rows, M \cup {a}, O)
<1>1. /\ Requests(M \cup {a}) = Requests(M) /\ Answers(M \cup {a}, "state") = {a}
      /\ Answers(M \cup {a}, "browser") = Answers(M, "browser")
  BY DEF Requests, Answers
<1>2. \A v \in States(M \cup {a}) : a.status = 200 /\ v = a.value
  BY <1>1 DEF States
<1>3. MailFits(c, k, M \cup {a})
  <2>1. \A m \in (M \cup {a}) \ Requests(M \cup {a}) : m \in M \ Requests(M) \/ m = a
    BY <1>1
  <2>2. \A x : Unanswered(x, M \cup {a}) <=> Unanswered(x, M)
    BY <1>1 DEF Unanswered
  <2> QED BY <1>1, <2>1, <2>2, SMTT(30) DEF Fits, MailFits, Kinds
<1>4. ASSUME NEW m \in Answers(M, "browser")
      PROVE  WriteFits(k, ch, st, rows, M \cup {a}, m)
  <2>1. WriteFits(k, ch, st, rows, M, m)
    BY DEF Fits
  <2>2. k.ready
    BY DEF Fits, MailFits, Unanswered, StoreFits
  <2>3. ASSUME m.status = 200, ~Queued(k), ~st, NEW v \in States(M \cup {a})
        PROVE  v.browser.theme = m.value.theme
    <3>1. a.status = 200 /\ v = a.value
      BY <1>2
    <3>2. v.cookie = k.cookie /\ v.browser.theme = rows[v.cookie].theme
      BY <2>2, <3>1 DEF StateFits
    <3>3. rows[k.cookie].theme = m.value.theme
      BY <2>1, <2>3 DEF WriteFits
    <3> QED BY <3>2, <3>3
  <2> QED BY <2>1, <2>3 DEF WriteFits
<1> QED BY <1>1, <1>2, <1>3, <1>4 DEF Fits

LEMMA WriteAnsweredFits ==
  ASSUME NEW c, c # "server", NEW k, NEW ch, NEW st, NEW rows, NEW M, NEW O, Fits(c, k, ch, st, rows, M, O),
         Unanswered(k.writing, M), Answers(M, "browser") = {},
         NEW a, a.to = c, a.kind = "browser", a.status \in Statuses, WriteFits(k, ch, st, rows, M, a)
  PROVE  Fits(c, k, ch, st, rows, M \cup {a}, O)
<1>1. /\ Requests(M \cup {a}) = Requests(M) /\ Answers(M \cup {a}, "state") = Answers(M, "state")
      /\ Answers(M \cup {a}, "browser") = {a}
  BY DEF Requests, Answers
<1>2. States(M \cup {a}) = States(M)
  BY <1>1 DEF States
<1>3. MailFits(c, k, M \cup {a})
  <2>1. \A m \in (M \cup {a}) \ Requests(M \cup {a}) : m \in M \ Requests(M) \/ m = a
    BY <1>1
  <2>2. \A x : Unanswered(x, M \cup {a}) <=> Unanswered(x, M)
    BY <1>1 DEF Unanswered
  <2> QED BY <1>1, <2>1, <2>2 DEF Fits, MailFits, Kinds
<1>4. WriteFits(k, ch, st, rows, M \cup {a}, a)
  BY <1>2 DEF WriteFits
<1> QED BY <1>1, <1>2, <1>3, <1>4 DEF Fits

(* A browser's own row is written: by the write it holds, without changing *)
(* the theme or to the one chosen, or astray.                              *)
LEMMA RowWrittenFits ==
  ASSUME NEW c, NEW k, NEW ch, NEW st, NEW rows, NEW M, NEW O, Fits(c, k, ch, st, rows, M, O),
         k.ready, NEW new, IsDocument(new), rows[k.cookie].revision <= new.revision,
         new.revision = rows[k.cookie].revision => new.theme = rows[k.cookie].theme,
         NEW rows2, DOMAIN rows2 = DOMAIN rows, rows2[k.cookie] = new,
         \A b \in DOMAIN rows \ {k.cookie} : rows2[b] = rows[b],
         NEW st2, st => st2,
         \/ k.patch # NoPatch /\ new.theme = k.body.theme
         \/ new.theme \in {rows[k.cookie].theme, ch}
         \/ st2
  PROVE  Fits(c, k, ch, st2, rows2, M, O)
<1>1. /\ k.cookie \in O /\ O \subseteq DOMAIN rows /\ rows[k.cookie].revision \in Nat
      /\ new.revision \in Nat /\ k.browser.revision \in Nat
  BY DEF Fits, RowFits, IsDocument, StoreFits
<1>2. StoreFits(k, ch, st2)
  BY DEF Fits, StoreFits
<1>3. ~Queued(k) /\ ~st2 /\ rows[k.cookie].theme = ch => new.theme = ch
  BY DEF Fits, StoreFits
<1>4. RowFits(k, ch, st2, rows2, O)
  <2>1. k.browser.revision <= rows2[k.cookie].revision
    BY <1>1 DEF Fits, RowFits
  <2>2. ~Unsaved(k) /\ ~st2 => rows2[k.cookie].theme = ch
    BY <1>3 DEF Fits, RowFits, Unsaved
  <2>3. \A b \in O : IsDocument(rows2[b])
    BY <1>1 DEF Fits, RowFits
  <2> QED BY <1>1, <2>1, <2>2, <2>3 DEF RowFits
<1>5. ASSUME NEW v \in States(M)
      PROVE  StateFits(k, ch, st2, rows2, O, v)
  <2>1. StateFits(k, ch, st, rows, O, v) /\ v.cookie = k.cookie /\ v.browser.revision \in Nat
    BY DEF Fits, StateFits, IsDocument
  <2>2. v.browser.revision <= rows[k.cookie].revision
    BY <2>1 DEF StateFits
  <2>3. v.browser.revision <= new.revision
    BY <1>1, <2>1, <2>2
  <2>4. v.browser.revision = new.revision => v.browser.revision = rows[k.cookie].revision
    BY <1>1, <2>1, <2>2
  <2> QED BY <2>1, <2>3, <2>4 DEF StateFits
<1>6. ASSUME NEW m \in Answers(M, "browser")
      PROVE  WriteFits(k, ch, st2, rows2, M, m)
  <2>1. WriteFits(k, ch, st, rows, M, m)
    BY DEF Fits
  <2>2. k.patch # NoPatch
    BY DEF Fits, MailFits, Unanswered, StoreFits
  <2>3. m.status \in {200, 409} => m.value.revision <= rows2[k.cookie].revision
    BY <1>1, <2>1 DEF WriteFits, IsDocument
  <2>4. ASSUME m.status = 200, ~Queued(k), ~st2
        PROVE  new.theme = m.value.theme
    <3>1. m.value.theme = k.body.theme /\ rows[k.cookie].theme = m.value.theme
      BY <2>1, <2>4 DEF WriteFits
    <3>2. k.body.theme = ch
      BY <2>2, <2>4 DEF Fits, StoreFits
    <3> QED BY <2>4, <3>1, <3>2
  <2> QED BY <2>1, <2>3, <2>4 DEF WriteFits
<1> QED BY <1>2, <1>4, <1>5, <1>6 DEF Fits
(* What the server does to the rows, operation by operation.               *)

LEMMA RoomForOne ==
  ASSUME NEW D, D \subseteq BrowserId, Cardinality(D) < MaxBrowsers
  PROVE  (CHOOSE b \in BrowserId : b \notin D) \in BrowserId \ D
<1>1. D # BrowserId
  <2>1. IsFiniteSet(BrowserId)
    BY BrowserAssumption
  <2>2. Cardinality(BrowserId) \in Nat
    BY <2>1, FS_CardinalityType
  <2> QED BY <2>2, BrowserAssumption
<1> QED BY <1>1

(* ui_state answers with the row as it is, a known browser's or a new one. *)
StateReply(rows, id, r, rows2) ==
  /\ r.status \in {200, 400}
  /\ DOMAIN rows \subseteq DOMAIN rows2 /\ DOMAIN rows2 \subseteq BrowserId
  /\ \A b \in DOMAIN rows : rows2[b] = rows[b]
  /\ \A b \in DOMAIN rows2 : RowIsDocument(rows2[b])
  /\ r.status = 200 =>
       /\ r.value.cookie \in DOMAIN rows2 /\ IsDocument(r.value.browser)
       /\ r.value.browser.theme = rows2[r.value.cookie].theme
       /\ r.value.browser.revision = rows2[r.value.cookie].revision
       /\ id \in DOMAIN rows => r.value.cookie = id
       /\ id \notin DOMAIN rows =>
            r.value.cookie \notin DOMAIN rows /\ r.value.browser.theme = "light"

LEMMA StateOutcome ==
  ASSUME NEW d, TablesFit(d), DOMAIN d.browsers \subseteq BrowserId,
         \A b \in DOMAIN d.browsers : RowIsDocument(d.browsers[b]), NEW id,
         NEW fresh,
         Cardinality(DOMAIN d.browsers) < MaxBrowsers => fresh \in BrowserId \ DOMAIN d.browsers,
         NEW r, r = UiState(d, id, fresh), NEW rows2, rows2 = r.db.browsers
  PROVE  StateReply(d.browsers, id, r, rows2)
<1> DEFINE known == id \in DOMAIN d.browsers
           b0 == IF known THEN id ELSE fresh
           rows == IF known THEN d.browsers
                   ELSE [x \in DOMAIN d.browsers \cup {fresh} |->
                           IF x = fresh THEN DefaultPreferences ELSE d.browsers[x]]
           value == [cookie |-> b0, workspaces |-> WorkspaceDocument(d.workspaces),
                     browser |-> BrowserDocument(rows[b0])]
<1>0. IsFiniteSet(DOMAIN d.browsers)
  BY BrowserAssumption, FS_Subset
<1>1. CASE ~known /\ ~(Cardinality(DOMAIN d.browsers) < MaxBrowsers)
  <2>1. Cardinality(DOMAIN d.browsers) \in Nat /\ MaxBrowsers \in Nat
    BY <1>0, FS_CardinalityType, BrowserAssumption
  <2>2. r = Refused(d)
    BY <1>1, <2>1 DEF UiState
  <2>3. r.db = d /\ r.status = 400
    BY <2>2, ReplyFields
  <2>4. rows2 = d.browsers
    BY <2>3
  <2> HIDE DEF known, b0, rows, value
  <2> QED BY <2>3, <2>4 DEF StateReply
<1>2. CASE known \/ Cardinality(DOMAIN d.browsers) < MaxBrowsers
  <2>1. r = Reply([d EXCEPT !.browsers = rows], 200, value)
    <3>1. Cardinality(DOMAIN d.browsers) \in Nat /\ MaxBrowsers \in Nat
      BY <1>0, FS_CardinalityType, BrowserAssumption
    <3> QED BY <1>2, <3>1 DEF UiState
  <2>2. fresh \in BrowserId \ DOMAIN d.browsers \/ known
    BY <1>2
  <2>3. /\ RowIsDocument(DefaultPreferences) /\ DefaultPreferences.theme = "light"
    BY DEF DefaultPreferences, RowIsDocument, IsDocument
  <2>4. /\ b0 \in DOMAIN rows /\ \A b \in DOMAIN rows : RowIsDocument(rows[b])
        /\ DOMAIN d.browsers \subseteq DOMAIN rows /\ DOMAIN rows \subseteq BrowserId
        /\ \A b \in DOMAIN d.browsers : rows[b] = d.browsers[b]
        /\ known => b0 = id
        /\ ~known => b0 \notin DOMAIN d.browsers /\ rows[b0].theme = "light"
    BY <2>2, <2>3
  <2> HIDE DEF known, b0, rows
  <2>5. [d EXCEPT !.browsers = rows] = [workspaces |-> d.workspaces, browsers |-> rows]
    BY OtherTables
  <2>6. rows2 = rows /\ r.status = 200 /\ r.value = value
    BY <2>1, <2>5, ReplyFields
  <2>7. value.cookie = b0 /\ value.browser = BrowserDocument(rows[b0])
    OBVIOUS
  <2>8. IsDocument(rows[b0])
    BY <2>4 DEF RowIsDocument
  <2>9. IsDocument(value.browser) /\ value.browser.theme = rows[b0].theme /\ value.browser.revision = rows[b0].revision
    <3>1. PICK v : v = BrowserDocument(rows[b0])
      OBVIOUS
    <3>2. IsDocument(v) /\ v.theme = rows[b0].theme /\ v.revision = rows[b0].revision
      BY <2>8, <3>1 DEF BrowserDocument, Restrict, IsDocument
    <3> QED BY <2>7, <3>1, <3>2
  <2> HIDE DEF value
  <2>10. /\ r.value.cookie = b0 /\ IsDocument(r.value.browser)
         /\ r.value.browser.theme = rows2[b0].theme /\ r.value.browser.revision = rows2[b0].revision
    BY <2>6, <2>7, <2>9
  <2>11. /\ known => r.value.cookie = id
         /\ ~known => r.value.cookie \notin DOMAIN d.browsers /\ r.value.browser.theme = "light"
    BY <2>4, <2>6, <2>10
  <2> QED BY <2>4, <2>6, <2>10, <2>11 DEF known, StateReply
<1> QED BY <1>1, <1>2

(* save_workspaces may advance rows, and changes nobody's theme.           *)
LEMMA WorkspacesOutcome ==
  ASSUME NEW d, TablesFit(d), \A b \in DOMAIN d.browsers : RowIsDocument(d.browsers[b]),
         NEW id, NEW body, NEW rows2, rows2 = PutWorkspaces(d, id, body).db.browsers
  PROVE  /\ DOMAIN rows2 = DOMAIN d.browsers
         /\ \A b \in DOMAIN rows2 :
              /\ RowIsDocument(rows2[b]) /\ rows2[b].theme = d.browsers[b].theme
              /\ d.browsers[b].revision <= rows2[b].revision
<1>1. ASSUME NEW row, RowIsDocument(row), NEW sets, NEW new, new = PruneRow(row, sets)
      PROVE  RowIsDocument(new) /\ new.theme = row.theme /\ row.revision <= new.revision
  <2>1. row.revision \in Nat
    BY <1>1 DEF RowIsDocument, IsDocument
  <2>2. CASE new = row
    BY <1>1, <2>1, <2>2
  <2>3. CASE new # row
    <3>1. PICK s : new = [row EXCEPT !.selected = s, !.revision = row.revision + 1,
                                     !.mutation = None, !.payload = None]
      BY <1>1, <2>3 DEF PruneRow
    <3>2. /\ DOMAIN new = DOMAIN row /\ new.theme = row.theme
          /\ new.revision = row.revision + 1 /\ new.mutation = None
      BY <1>1, <3>1 DEF RowIsDocument
    <3> QED BY <1>1, <2>1, <3>2 DEF RowIsDocument, IsDocument
  <2> QED BY <2>2, <2>3
<1>2. ASSUME NEW sets, NEW rows, rows = PruneSelections(d.browsers, sets)
      PROVE  /\ DOMAIN rows = DOMAIN d.browsers
             /\ \A b \in DOMAIN rows :
                  /\ RowIsDocument(rows[b]) /\ rows[b].theme = d.browsers[b].theme
                  /\ d.browsers[b].revision <= rows[b].revision
  BY <1>1, <1>2 DEF PruneSelections
<1>3. \/ rows2 = d.browsers
      \/ \E sets : rows2 = PruneSelections(d.browsers, sets)
  <2>1. ASSUME NEW input, NEW rows, rows = SaveWorkspaces(d, id, input).db.browsers
        PROVE  rows = d.browsers \/ \E sets : rows = PruneSelections(d.browsers, sets)
    <3> DEFINE row == d.workspaces
               stored == Each(input.sets, EncodeSet)
               changed == row.sets # stored
               pruned == IF changed THEN PruneSelections(d.browsers, stored) ELSE d.browsers
               next == [revision |-> IF changed THEN row.revision + 1 ELSE row.revision,
                        sets |-> stored, mutation |-> input.mutation, payload |-> input]
    <3> HIDE DEF stored
    <3>1. \/ SaveWorkspaces(d, id, input).db = d
          \/ SaveWorkspaces(d, id, input).db = [d EXCEPT !.workspaces = next, !.browsers = pruned]
      BY ReplyFields DEF SaveWorkspaces, stored
    <3>2. pruned = d.browsers \/ \E sets : pruned = PruneSelections(d.browsers, sets)
      OBVIOUS
    <3>3. [d EXCEPT !.workspaces = next, !.browsers = pruned].browsers = pruned
      <4> HIDE DEF next, pruned
      <4> QED BY OtherTables
    <3> HIDE DEF next, pruned
    <3> QED BY <2>1, <3>1, <3>2, <3>3
  <2>2. PutWorkspaces(d, id, body) = Refused(d) \/ \E input : PutWorkspaces(d, id, body) = SaveWorkspaces(d, id, input)
    BY DEF PutWorkspaces
  <2> QED BY <2>1, <2>2, ReplyFields
<1>4. \A b \in DOMAIN d.browsers : d.browsers[b].revision \in Nat
  BY DEF RowIsDocument, IsDocument
<1> QED BY <1>2, <1>3, <1>4

(* save_browser_preferences: an acknowledged write is the row, whether it  *)
(* has just been committed or had been before.                             *)
WriteReply(rows, id, body, r, rows2) ==
  /\ r.status \in Statuses
  /\ DOMAIN rows2 = DOMAIN rows
  /\ \A b \in DOMAIN rows2 : RowIsDocument(rows2[b]) /\ (b # id => rows2[b] = rows[b])
  /\ r.status # 200 => rows2 = rows
  /\ id \in DOMAIN rows =>
       /\ rows[id].revision <= rows2[id].revision
       /\ rows[id].revision = rows2[id].revision => rows2[id].theme = rows[id].theme
  /\ r.status \in {200, 409} =>
       /\ id \in DOMAIN rows /\ IsDocument(r.value)
       /\ r.value.theme = rows2[id].theme /\ r.value.revision = rows2[id].revision
  /\ r.status = 200 => rows2[id].theme = body.theme

LEMMA BrowserOutcome ==
  ASSUME NEW d, TablesFit(d), \A b \in DOMAIN d.browsers : RowIsDocument(d.browsers[b]),
         NEW id, NEW body, "theme" \in DOMAIN body,
         NEW r, r = PutBrowser(d, id, body), NEW rows2, rows2 = r.db.browsers
  PROVE  WriteReply(d.browsers, id, body, r, rows2)
<1> DEFINE Committed(next) ==
             /\ r = Reply([d EXCEPT !.browsers[id] = next], 200, BrowserDocument(next))
             /\ RowIsDocument(next) /\ next.theme = body.theme
             /\ d.browsers[id].revision <= next.revision
             /\ d.browsers[id].revision = next.revision => next.theme = d.browsers[id].theme
<1> HIDE DEF Committed
<1>1. \A b \in DOMAIN d.browsers : d.browsers[b].revision \in Nat
  BY DEF RowIsDocument, IsDocument
<1>2. CASE r = Refused(d)
  <2>1. r.status = 400 /\ rows2 = d.browsers
    BY <1>2, ReplyFields
  <2> QED BY <1>1, <2>1 DEF Statuses, WriteReply
<1>3. ASSUME NEW input, r = SaveBrowserPreferences(d, id, input),
             "theme" \in DOMAIN input, input.theme = body.theme,
             id \in DOMAIN d.browsers, ValidBrowser(input)
      PROVE  \/ r = Refused(d)
             \/ r = Conflict(d, BrowserDocument(d.browsers[id]))
             \/ /\ r = Reply(d, 200, BrowserDocument(d.browsers[id]))
                /\ d.browsers[id].theme = body.theme
             \/ \E next : Committed(next)
  <2>1. PICK row : row = d.browsers[id]
    OBVIOUS
  <2>2. RowIsDocument(row) /\ row.revision \in Nat
    BY <1>1, <1>3, <2>1
  <2>3. PICK asked : asked = Restrict(input, {"theme", "width", "selected", "runColors"})
    OBVIOUS
  <2>4. "theme" \in DOMAIN asked /\ asked.theme = body.theme
    BY <1>3, <2>3 DEF Restrict
  <2> DEFINE changed == Restrict(row, DOMAIN asked) # asked
  <2>5. ~changed => row.theme = asked.theme
    BY <2>4 DEF Restrict
  <2>6. PICK next : next = [f \in DOMAIN row |->
                 CASE f = "revision" -> IF changed THEN row.revision + 1 ELSE row.revision
                   [] f = "mutation" -> input.mutation
                   [] f = "payload" -> input
                   [] OTHER -> asked[f]]
    OBVIOUS
  <2>7. DOMAIN next = DOMAIN row /\ {"theme", "revision", "mutation", "payload"} \subseteq DOMAIN row
    BY <2>2, <2>6 DEF RowIsDocument
  <2>8. next.revision = IF changed THEN row.revision + 1 ELSE row.revision
    BY <2>6, <2>7
  <2>9. next.mutation = input.mutation
    BY <2>6, <2>7
  <2>10. next.payload = input
    BY <2>6, <2>7
  <2>11. next.theme = body.theme
    BY <2>4, <2>6, <2>7
  <2>12. Retry(row, input) => row.theme = body.theme
    <3>1. input.mutation # None
      BY <1>3, BrowserAssumption DEF ValidBrowser
    <3> QED BY <1>3, <2>2, <3>1 DEF Retry, RowIsDocument
  <2>13. /\ row.revision <= next.revision
         /\ row.revision = next.revision => next.theme = row.theme
         /\ next.revision \in Nat
    <3> HIDE DEF changed
    <3> QED BY <2>2, <2>4, <2>5, <2>8, <2>11
  <2>14. RowIsDocument(next)
    BY <1>3, <2>7, <2>10, <2>11, <2>13 DEF RowIsDocument, IsDocument
  <2>15. \/ r = Refused(d)
         \/ r = Conflict(d, BrowserDocument(row))
         \/ r = Reply(d, 200, BrowserDocument(row)) /\ Retry(row, input)
         \/ r = Reply([d EXCEPT !.browsers[id] = next], 200, BrowserDocument(next))
    BY <1>3, <2>1, <2>3, <2>6 DEF SaveBrowserPreferences
  <2>16. r = Reply([d EXCEPT !.browsers[id] = next], 200, BrowserDocument(next)) => Committed(next)
    BY <2>1, <2>11, <2>13, <2>14 DEF Committed
  <2> QED BY <2>1, <2>12, <2>15, <2>16
<1>4. r = Refused(d) \/ \E input : /\ r = SaveBrowserPreferences(d, id, input)
                                   /\ "theme" \in DOMAIN input /\ input.theme = body.theme
                                   /\ id \in DOMAIN d.browsers /\ ValidBrowser(input)
  <2>1. PICK x, y : x = DecodeMap(body.selected, MaxSets) /\ y = DecodeMap(body.runColors, MaxRunColors)
    OBVIOUS
  <2>2. PICK input : input = [body EXCEPT !.selected = x, !.runColors = y]
    OBVIOUS
  <2>3. "theme" \in DOMAIN input /\ input.theme = body.theme
    BY <2>2
  <2>4. r = Refused(d) \/ r = SaveBrowserPreferences(d, id, input)
    BY <2>1, <2>2 DEF PutBrowser
  <2>5. r = SaveBrowserPreferences(d, id, input) => r = Refused(d) \/ (id \in DOMAIN d.browsers /\ ValidBrowser(input))
    BY DEF SaveBrowserPreferences
  <2> QED BY <2>3, <2>4, <2>5
<1>5. ASSUME NEW row, RowIsDocument(row)
      PROVE  LET v == BrowserDocument(row)
             IN IsDocument(v) /\ v.theme = row.theme /\ v.revision = row.revision
  BY <1>5 DEF RowIsDocument, BrowserDocument, Restrict, IsDocument
<1>6. CASE id \in DOMAIN d.browsers /\ r = Conflict(d, BrowserDocument(d.browsers[id]))
  <2>1. r.status = 409 /\ rows2 = d.browsers /\ r.value = BrowserDocument(d.browsers[id])
    BY <1>6, ReplyFields
  <2> QED BY <1>1, <1>5, <1>6, <2>1 DEF Statuses, WriteReply
<1>7. CASE /\ id \in DOMAIN d.browsers /\ r = Reply(d, 200, BrowserDocument(d.browsers[id]))
           /\ d.browsers[id].theme = body.theme
  <2>1. r.status = 200 /\ rows2 = d.browsers /\ r.value = BrowserDocument(d.browsers[id])
    BY <1>7, ReplyFields
  <2> QED BY <1>1, <1>5, <1>7, <2>1 DEF Statuses, WriteReply
<1>8. ASSUME NEW next, id \in DOMAIN d.browsers, Committed(next)
      PROVE  /\ r.status = 200 /\ r.value = BrowserDocument(next)
             /\ DOMAIN rows2 = DOMAIN d.browsers /\ rows2[id] = next
             /\ \A b \in DOMAIN rows2 \ {id} : rows2[b] = d.browsers[b]
  <2>1. PICK d2, v : d2 = [d EXCEPT !.browsers[id] = next] /\ v = BrowserDocument(next)
    OBVIOUS
  <2>5. r = Reply(d2, 200, v)
    BY <1>8, <2>1 DEF Committed
  <2>6. r.status = 200 /\ r.value = v /\ r.db = d2
    BY <2>5 DEF Reply
  <2>2. r.status = 200 /\ r.value = BrowserDocument(next) /\ rows2 = d2.browsers
    BY <2>1, <2>6
  <2>3. PICK w0, b0 : d = [workspaces |-> w0, browsers |-> b0]
    BY DEF TablesFit
  <2>4. d2.browsers = [d.browsers EXCEPT ![id] = next]
    BY <2>1, <2>3
  <2> QED BY <1>8, <2>2, <2>4
<1>9. ASSUME NEW next, id \in DOMAIN d.browsers, Committed(next)
      PROVE  /\ r.status = 200 /\ DOMAIN rows2 = DOMAIN d.browsers
             /\ \A b \in DOMAIN rows2 : RowIsDocument(rows2[b]) /\ (b # id => rows2[b] = d.browsers[b])
             /\ d.browsers[id].revision <= rows2[id].revision
             /\ d.browsers[id].revision = rows2[id].revision => rows2[id].theme = d.browsers[id].theme
             /\ IsDocument(r.value)
             /\ r.value.theme = rows2[id].theme /\ r.value.revision = rows2[id].revision
             /\ rows2[id].theme = body.theme
  <2>1. /\ RowIsDocument(next) /\ next.theme = body.theme
        /\ d.browsers[id].revision <= next.revision
        /\ d.browsers[id].revision = next.revision => next.theme = d.browsers[id].theme
    BY <1>9 DEF Committed
  <2> QED BY <1>5, <1>8, <1>9, <2>1
<1>10. \/ r = Refused(d)
       \/ /\ id \in DOMAIN d.browsers
          /\ \/ r = Conflict(d, BrowserDocument(d.browsers[id]))
             \/ /\ r = Reply(d, 200, BrowserDocument(d.browsers[id]))
                /\ d.browsers[id].theme = body.theme
             \/ \E next : Committed(next)
  BY <1>3, <1>4
<1>11. CASE id \in DOMAIN d.browsers /\ \E next : Committed(next)
  BY <1>9, <1>11 DEF Statuses, WriteReply
<1> QED BY <1>2, <1>6, <1>7, <1>10, <1>11

(* A step of the server, put together from what it does to the browser     *)
(* that asked and to the rows of the others.                               *)
LEMMA ServeThemes ==
  ASSUME ThemeInv, NEW m \in net, m.to = "server", NEW c, c = m.from,
         NEW A, net' = (net \ {m}) \cup A, \A a \in A : a.to = c,
         UNCHANGED <<client, chosen>>,
         DOMAIN stray' = Client, \A e \in Client \ {c} : stray'[e] = stray[e],
         NEW rows2, rows2 = db'.browsers,
         DOMAIN db.browsers \subseteq DOMAIN rows2, DOMAIN rows2 \subseteq BrowserId,
         \A b \in DOMAIN rows2 : RowIsDocument(rows2[b]),
         \A b \in DOMAIN db.browsers \ Own(client[c], Mail(c, net)) :
            rows2[b].theme = db.browsers[b].theme /\ db.browsers[b].revision <= rows2[b].revision,
         NEW O2, O2 \cap DOMAIN db.browsers \subseteq Own(client[c], Mail(c, net)),
         Fits(c, client[c], chosen[c], stray'[c], rows2, (Mail(c, net) \ {m}) \cup A, O2)
  PROVE  ThemeInv'
<1> DEFINE O == Own(client[c], Mail(c, net))
<1>1. PICK net2, client2, ch2, st2, rows :
        net2 = net' /\ client2 = client' /\ ch2 = chosen' /\ st2 = stray' /\ rows = db.browsers
  OBVIOUS
<1>2. net2 = (net \ {m}) \cup A /\ client2 = client /\ ch2 = chosen
  BY <1>1
<1>3. c \in Client /\ "server" \notin Client /\ c # "server"
  BY ClientAssumption DEF ThemeInv
<1>4. Mail(c, net2) = (Mail(c, net) \ {m}) \cup A
  BY <1>2 DEF Mail
<1>5. ASSUME NEW e \in Client \ {c}
      PROVE  Mail(e, net2) = Mail(e, net)
  BY <1>2, <1>3 DEF Mail
<1>6. \A n \in net2 : n.to = "server" => n.from \in Client
  BY <1>2, <1>3 DEF ThemeInv
<1>7. /\ Fits(c, client2[c], ch2[c], st2[c], rows2, Mail(c, net2), Own(client2[c], Mail(c, net2)))
      /\ Own(client2[c], Mail(c, net2)) \subseteq O2
  <2>1. Fits(c, client2[c], ch2[c], st2[c], rows2, Mail(c, net2), O2)
    BY <1>1, <1>2, <1>4
  <2> QED BY <2>1, OwnFits
<1>8. \A e \in Client : Own(client[e], Mail(e, net)) \subseteq DOMAIN rows
  BY <1>1 DEF ThemeInv, Fits, RowFits
<1>9. ASSUME NEW e \in Client \ {c}
      PROVE  /\ Fits(e, client2[e], ch2[e], st2[e], rows2, Mail(e, net2), Own(client2[e], Mail(e, net2)))
             /\ Own(client2[e], Mail(e, net2)) = Own(client[e], Mail(e, net))
  <2>1. PICK E : E = Own(client[e], Mail(e, net))
    OBVIOUS
  <2>2. Fits(e, client[e], chosen[e], stray[e], rows, Mail(e, net), E)
    BY <1>1, <2>1 DEF ThemeInv
  <2>3. E \cap O = {}
    BY <1>3, <2>1 DEF ThemeInv
  <2>4. E \subseteq DOMAIN rows2
    BY <1>1, <1>8, <2>1
  <2>5. \A b \in E : /\ IsDocument(rows2[b]) /\ rows2[b].theme = rows[b].theme
                     /\ rows[b].revision <= rows2[b].revision
    BY <1>1, <1>8, <2>1, <2>3, <2>4 DEF RowIsDocument
  <2>6. Fits(e, client[e], chosen[e], stray[e], rows2, Mail(e, net), E)
    BY <2>2, <2>4, <2>5, MovedFits
  <2>7. client2[e] = client[e] /\ ch2[e] = chosen[e] /\ st2[e] = stray[e] /\ Mail(e, net2) = Mail(e, net)
    BY <1>1, <1>2, <1>5
  <2> QED BY <2>1, <2>6, <2>7
<1>10. \A e, f \in Client : e # f => Own(client2[e], Mail(e, net2)) \cap Own(client2[f], Mail(f, net2)) = {}
  <2>1. \A e, f \in Client \ {c} : e # f => Own(client2[e], Mail(e, net2)) \cap Own(client2[f], Mail(f, net2)) = {}
    BY <1>9 DEF ThemeInv
  <2>2. \A e \in Client \ {c} : Own(client2[c], Mail(c, net2)) \cap Own(client2[e], Mail(e, net2)) = {}
    <3>1. \A e \in Client \ {c} : O \cap Own(client[e], Mail(e, net)) = {}
      BY <1>3 DEF ThemeInv
    <3>2. O2 \cap DOMAIN rows \subseteq O
      BY <1>1
    <3> HIDE DEF O
    <3> QED BY <1>7, <1>8, <1>9, <3>1, <3>2
  <2> QED BY <2>1, <2>2
<1>11. DOMAIN client2 = Client /\ DOMAIN ch2 = Client /\ DOMAIN st2 = Client
  BY <1>1, <1>2 DEF ThemeInv
<1>12. \A e \in Client : Fits(e, client2[e], ch2[e], st2[e], rows2, Mail(e, net2), Own(client2[e], Mail(e, net2)))
  BY <1>7, <1>9
<1>13. DOMAIN rows2 \subseteq BrowserId /\ \A b \in DOMAIN rows2 : RowIsDocument(rows2[b])
  OBVIOUS
<1> QED BY <1>1, <1>6, <1>10, <1>11, <1>12, <1>13 DEF ThemeInv

(* What is known when m is being served: the browser c that sent it, its   *)
(* messages M, of which N remain, the identities O, and the reply r.       *)
Serving(m, c, k, ch, st, rows, r, N, O) ==
  /\ c = m.from /\ k = client[c] /\ ch = chosen[c] /\ st = stray[c] /\ rows = db.browsers
  /\ r = Served(m) /\ N = Mail(c, net) \ {m} /\ O = Own(k, Mail(c, net))
  /\ c \in Client /\ c # "server" /\ m.to = "server"
  /\ Fits(c, k, ch, st, rows, N, O) /\ RequestFits(c, k, m) /\ Unanswered(m.serial, N)
  /\ m.serial = k.boot => Answers(N, "state") = {}
  /\ m.serial = k.writing => Answers(N, "browser") = {}
  /\ O \subseteq DOMAIN rows /\ DOMAIN rows \subseteq BrowserId /\ IsFiniteSet(DOMAIN rows)
  /\ \A b \in DOMAIN rows : RowIsDocument(rows[b])
  /\ UNCHANGED <<client, chosen>> /\ db' = r.db
  /\ DOMAIN stray' = Client /\ (\A e \in Client \ {c} : stray'[e] = stray[e])
  /\ stray'[c] = IF Strays(m, r) THEN TRUE ELSE st
  /\ net' = (net \ {m}) \cup
       (IF Awaited(m)
        THEN {[to |-> c, kind |-> m.kind, status |-> r.status, value |-> r.value]}
        ELSE {})

LEMMA ServeBegins ==
  ASSUME ThemeInv, NEW m \in net, Serve(m)
  PROVE  \E c, k, ch, st, rows, r, N, O : Serving(m, c, k, ch, st, rows, r, N, O)
<1>1. PICK c, k, ch, st, rows, r, M, N, O :
        /\ c = m.from /\ k = client[c] /\ ch = chosen[c] /\ st = stray[c] /\ rows = db.browsers
        /\ r = Served(m) /\ M = Mail(c, net) /\ N = M \ {m} /\ O = Own(k, M)
  OBVIOUS
<1>2. m.to = "server" /\ c \in Client
  BY <1>1 DEF Serve, ThemeInv
<1>3. c # "server"
  BY <1>2, ClientAssumption
<1>4. Fits(c, k, ch, st, rows, M, O)
  BY <1>1, <1>2 DEF ThemeInv
<1>5. m \in Requests(M)
  BY <1>1, <1>2 DEF Requests, Mail
<1>6. RequestFits(c, k, m) /\ O \subseteq DOMAIN rows
  BY <1>4, <1>5 DEF Fits, MailFits, RowFits
<1>7. /\ Fits(c, k, ch, st, rows, N, O) /\ Unanswered(m.serial, N)
      /\ m.serial = k.boot => Answers(N, "state") = {}
      /\ m.serial = k.writing => Answers(N, "browser") = {}
  BY <1>1, <1>4, <1>5, ServedRequestFits
<1>8. stray' = IF Strays(m, r) THEN [stray EXCEPT ![c] = TRUE] ELSE stray
  BY <1>1 DEF Serve
<1>9. /\ DOMAIN stray' = Client /\ (\A e \in Client \ {c} : stray'[e] = stray[e])
      /\ stray'[c] = IF Strays(m, r) THEN TRUE ELSE st
  <2>1. DOMAIN stray = Client
    BY DEF ThemeInv
  <2> QED BY <1>1, <1>2, <1>8, <2>1
<1>10. DOMAIN rows \subseteq BrowserId /\ \A b \in DOMAIN rows : RowIsDocument(rows[b])
  BY <1>1 DEF ThemeInv
<1>11. UNCHANGED <<client, chosen>> /\ db' = r.db
  BY <1>1 DEF Serve
<1>12. net' = (net \ {m}) \cup
              (IF Awaited(m)
               THEN {[to |-> c, kind |-> m.kind, status |-> r.status, value |-> r.value]}
               ELSE {})
  BY <1>1 DEF Serve
<1>13. IsFiniteSet(DOMAIN rows)
  BY <1>10, BrowserAssumption, FS_Subset
<1>14. Serving(m, c, k, ch, st, rows, r, N, O)
  BY <1>1, <1>2, <1>3, <1>6, <1>7, <1>9, <1>10, <1>11, <1>12, <1>13 DEF Serving
<1> QED BY <1>14

(* No row is lost, and what is not in O keeps its theme.                   *)
RowsMove(rows, rows2, O) ==
  /\ DOMAIN rows \subseteq DOMAIN rows2 /\ DOMAIN rows2 \subseteq BrowserId
  /\ \A b \in DOMAIN rows2 : RowIsDocument(rows2[b])
  /\ \A b \in DOMAIN rows \ O :
       rows2[b].theme = rows[b].theme /\ rows[b].revision <= rows2[b].revision

LEMMA ServeEnds ==
  ASSUME ThemeInv, NEW m \in net,
         NEW c, NEW k, NEW ch, NEW st, NEW rows, NEW r, NEW N, NEW O,
         Serving(m, c, k, ch, st, rows, r, N, O),
         NEW rows2, rows2 = r.db.browsers, RowsMove(rows, rows2, O),
         NEW A, net' = (net \ {m}) \cup A, \A a \in A : a.to = c,
         NEW O2, O2 \cap DOMAIN rows \subseteq O, Fits(c, k, ch, stray'[c], rows2, N \cup A, O2)
  PROVE  ThemeInv'
<1>1. /\ c = m.from /\ k = client[c] /\ ch = chosen[c] /\ rows = db.browsers
      /\ N = Mail(c, net) \ {m} /\ O = Own(k, Mail(c, net))
  BY DEF Serving
<1>2. /\ m.to = "server" /\ UNCHANGED <<client, chosen>> /\ db' = r.db
      /\ DOMAIN stray' = Client /\ (\A e \in Client \ {c} : stray'[e] = stray[e])
  BY DEF Serving
<1>3. rows2 = db'.browsers
  BY <1>2
<1>4. \A b \in DOMAIN db.browsers \ Own(client[c], Mail(c, net)) :
         rows2[b].theme = db.browsers[b].theme /\ db.browsers[b].revision <= rows2[b].revision
  BY <1>1 DEF RowsMove
<1>5. O2 \cap DOMAIN db.browsers \subseteq Own(client[c], Mail(c, net))
  BY <1>1
<1>6. Fits(c, client[c], chosen[c], stray'[c], rows2, (Mail(c, net) \ {m}) \cup A, O2)
  BY <1>1
<1>7. DOMAIN db.browsers \subseteq DOMAIN rows2 /\ c = m.from
  BY <1>1 DEF RowsMove
<1>8. DOMAIN rows2 \subseteq BrowserId /\ \A b \in DOMAIN rows2 : RowIsDocument(rows2[b])
  BY DEF RowsMove
<1> QED BY <1>2, <1>3, <1>4, <1>5, <1>6, <1>7, <1>8, ServeThemes

LEMMA StateServedThemes ==
  ASSUME SettingsInv, ThemeInv, NEW m \in net, Serve(m), m.kind = "state"
  PROVE  ThemeInv'
<1>1. PICK c, k, ch, st, rows, r, N, O : Serving(m, c, k, ch, st, rows, r, N, O)
  BY ServeBegins
<1>2. PICK rows2 : rows2 = r.db.browsers
  OBVIOUS
<1>3. /\ c # "server" /\ Fits(c, k, ch, st, rows, N, O) /\ RequestFits(c, k, m)
      /\ O \subseteq DOMAIN rows /\ DOMAIN rows \subseteq BrowserId
      /\ \A b \in DOMAIN rows : RowIsDocument(rows[b])
  BY <1>1 DEF Serving
<1>4. stray'[c] = st
  BY <1>1 DEF Serving, Strays
<1>5. StateReply(rows, m.cookie, r, rows2)
  <2>1. PICK d, fresh : d = db /\ fresh = CHOOSE b \in BrowserId : b \notin DOMAIN db.browsers
    OBVIOUS
  <2>2. r = UiState(d, m.cookie, fresh)
    BY <1>1, <2>1 DEF Served, Serving
  <2>3. rows = d.browsers /\ TablesFit(d)
    BY <1>1, <2>1 DEF Serving, SettingsInv
  <2>4. Cardinality(DOMAIN d.browsers) < MaxBrowsers => fresh \in BrowserId \ DOMAIN d.browsers
    BY <1>3, <2>1, <2>3, RoomForOne
  <2>5. /\ DOMAIN d.browsers \subseteq BrowserId /\ IsFiniteSet(DOMAIN d.browsers)
        /\ \A b \in DOMAIN d.browsers : RowIsDocument(d.browsers[b])
    BY <1>1, <2>3 DEF Serving
  <2> QED BY <1>2, <2>2, <2>3, <2>4, <2>5, StateOutcome
<1>6. Fits(c, k, ch, st, rows2, N, O)
  <2>1. O \subseteq DOMAIN rows2
    BY <1>3, <1>5 DEF StateReply
  <2>2. \A b \in O : /\ IsDocument(rows2[b]) /\ rows2[b].theme = rows[b].theme
                     /\ rows[b].revision <= rows2[b].revision
    BY <1>3, <1>5 DEF RowIsDocument, IsDocument, StateReply
  <2> QED BY <1>3, <2>1, <2>2, MovedFits
<1>7. \A b \in DOMAIN rows : rows2[b].theme = rows[b].theme /\ rows[b].revision <= rows2[b].revision
  BY <1>3, <1>5 DEF RowIsDocument, IsDocument, StateReply
<1>8. ASSUME NEW A, net' = (net \ {m}) \cup A, \A a \in A : a.to = c,
             NEW O2, O2 \cap DOMAIN rows \subseteq O, Fits(c, k, ch, st, rows2, N \cup A, O2)
      PROVE  ThemeInv'
  <2>1. RowsMove(rows, rows2, O)
    BY <1>5, <1>7 DEF RowsMove, StateReply
  <2>2. Fits(c, k, ch, stray'[c], rows2, N \cup A, O2)
    BY <1>4, <1>8
  <2> QED BY <1>1, <1>2, <1>8, <2>1, <2>2, ServeEnds
<1>9. CASE ~Awaited(m)
  <2>1. net' = (net \ {m}) \cup {} /\ N \cup {} = N
    BY <1>1, <1>9 DEF Serving
  <2>2. O \cap DOMAIN rows \subseteq O
    OBVIOUS
  <2> QED BY <1>6, <1>8, <2>1, <2>2
<1>10. CASE Awaited(m)
  <2>1. PICK a : a = [to |-> c, kind |-> m.kind, status |-> r.status, value |-> r.value]
    OBVIOUS
  <2>2. net' = (net \ {m}) \cup {a} /\ \A x \in {a} : x.to = c
    BY <1>1, <1>10, <2>1 DEF Serving
  <2>3. m.serial = k.boot
    BY <1>1, <1>10 DEF Awaited, Serving
  <2>4. Unanswered(k.boot, N) /\ Answers(N, "state") = {} /\ m.cookie = k.cookie
    BY <1>1, <2>3 DEF RequestFits, Serving
  <2>5. a.to = c /\ a.kind = "state" /\ a.status = r.status /\ a.value = r.value /\ a.status \in Statuses
    BY <1>5, <2>1 DEF Statuses, StateReply
  <2>6. CASE r.status = 200
    <3>1. PICK v, O2 : v = r.value /\ O2 = O \cup {v.cookie}
      OBVIOUS
    <3>2. k.ready => v.cookie = k.cookie /\ k.cookie \in O
      BY <1>3, <1>5, <2>4, <2>6, <3>1 DEF Fits, RowFits, StateReply
    <3>3. ~k.ready => v.cookie \notin DOMAIN rows /\ v.browser.theme = "light"
      <4>1. ASSUME ~k.ready
            PROVE  m.cookie \notin DOMAIN rows
        BY <1>3, <2>4, <4>1, BrowserAssumption DEF Fits, StoreFits
      <4> QED BY <1>5, <2>6, <3>1, <4>1 DEF StateReply
    <3>4. O2 \cap DOMAIN rows \subseteq O
      BY <3>1, <3>2, <3>3
    <3>5. Fits(c, k, ch, st, rows2, N, O2)
      <4>1. IsDocument(rows2[v.cookie]) /\ v.cookie \in DOMAIN rows2
        BY <1>5, <2>6, <3>1 DEF RowIsDocument, StateReply
      <4> QED BY <1>6, <3>1, <4>1, MoreOwnFits
    <3>6. v.browser.theme = rows2[v.cookie].theme /\ v.browser.revision = rows2[v.cookie].revision /\ IsDocument(v.browser)
      BY <1>5, <2>6, <3>1 DEF StateReply
    <3>7. StateFits(k, ch, st, rows2, O2, v)
      <4>1. v.browser.revision \in Nat
        BY <3>6 DEF IsDocument
      <4>2. k.ready /\ ~Unsaved(k) /\ ~st => v.browser.theme = ch
        BY <3>2, <3>5, <3>6 DEF Fits, RowFits
      <4> QED BY <3>1, <3>2, <3>3, <3>6, <4>1, <4>2 DEF StateFits
    <3>8. Fits(c, k, ch, st, rows2, N \cup {a}, O2)
      <4>1. StateFits(k, ch, st, rows2, O2, a.value) /\ a.value.browser.theme = rows2[a.value.cookie].theme
        BY <2>5, <3>1, <3>6, <3>7
      <4> QED BY <1>3, <2>4, <2>5, <3>5, <4>1, StateAnsweredFits
    <3> QED BY <1>8, <2>2, <3>4, <3>8
  <2>7. CASE r.status = 400
    <3>1. a.status # 200
      BY <2>5, <2>7
    <3>2. Fits(c, k, ch, st, rows2, N \cup {a}, O)
      BY <1>3, <1>6, <2>4, <2>5, <3>1, StateAnsweredFits
    <3>3. O \cap DOMAIN rows \subseteq O
      OBVIOUS
    <3> QED BY <1>8, <2>2, <3>2, <3>3
  <2> QED BY <1>5, <2>6, <2>7 DEF StateReply
<1> QED BY <1>9, <1>10
LEMMA WorkspacesServedThemes ==
  ASSUME SettingsInv, ThemeInv, NEW m \in net, Serve(m), m.kind = "workspaces"
  PROVE  ThemeInv'
<1>1. PICK c, k, ch, st, rows, r, N, O : Serving(m, c, k, ch, st, rows, r, N, O)
  BY ServeBegins
<1>2. PICK rows2 : rows2 = r.db.browsers
  OBVIOUS
<1>3. /\ c # "server" /\ Fits(c, k, ch, st, rows, N, O)
      /\ O \subseteq DOMAIN rows /\ DOMAIN rows \subseteq BrowserId
  BY <1>1 DEF Serving
<1>4. stray'[c] = st
  BY <1>1 DEF Serving, Strays
<1>5. /\ DOMAIN rows2 = DOMAIN rows
      /\ \A b \in DOMAIN rows2 :
           /\ RowIsDocument(rows2[b]) /\ rows2[b].theme = rows[b].theme
           /\ rows[b].revision <= rows2[b].revision
  <2>1. PICK d : d = db
    OBVIOUS
  <2>2. r = PutWorkspaces(d, m.cookie, m.body) /\ rows = d.browsers /\ TablesFit(d)
    BY <1>1, <2>1 DEF Served, Serving, SettingsInv
  <2>3. \A b \in DOMAIN d.browsers : RowIsDocument(d.browsers[b])
    BY <1>1, <2>2 DEF Serving
  <2>4. rows2 = PutWorkspaces(d, m.cookie, m.body).db.browsers
    BY <1>2, <2>2
  <2> QED BY <2>2, <2>3, <2>4, WorkspacesOutcome
<1>6. Fits(c, k, ch, st, rows2, N, O)
  <2>1. O \subseteq DOMAIN rows2
    BY <1>3, <1>5
  <2>2. \A b \in O : /\ IsDocument(rows2[b]) /\ rows2[b].theme = rows[b].theme
                     /\ rows[b].revision <= rows2[b].revision
    BY <1>3, <1>5 DEF RowIsDocument
  <2> QED BY <1>3, <2>1, <2>2, MovedFits
<1>7. r.status \in Statuses
  BY <1>1, ServedFits DEF Serving, SettingsInv
<1>8. PICK a : a = [to |-> c, kind |-> m.kind, status |-> r.status, value |-> r.value]
  OBVIOUS
<1>9. Fits(c, k, ch, st, rows2, N \cup {a}, O)
  <2>1. a.to = c /\ a.kind = "workspaces" /\ a.status \in Statuses
    BY <1>7, <1>8
  <2> QED BY <1>3, <1>6, <2>1, OtherAnsweredFits
<1>10. PICK A : A = IF Awaited(m) THEN {a} ELSE {}
  OBVIOUS
<1>11. net' = (net \ {m}) \cup A /\ \A x \in A : x.to = c
  BY <1>1, <1>8, <1>10 DEF Serving
<1>12. Fits(c, k, ch, stray'[c], rows2, N \cup A, O)
  <2>1. N \cup {} = N
    OBVIOUS
  <2> QED BY <1>4, <1>6, <1>9, <1>10, <2>1
<1>13. O \cap DOMAIN rows \subseteq O /\ RowsMove(rows, rows2, O)
  BY <1>3, <1>5 DEF RowsMove
<1> QED BY <1>1, <1>2, <1>11, <1>12, <1>13, ServeEnds

LEMMA BrowserServedThemes ==
  ASSUME SettingsInv, ThemeInv, NEW m \in net, Serve(m), m.kind = "browser"
  PROVE  ThemeInv'
<1>1. PICK c, k, ch, st, rows, r, N, O : Serving(m, c, k, ch, st, rows, r, N, O)
  BY ServeBegins
<1>2. PICK rows2, st2, new : rows2 = r.db.browsers /\ st2 = stray'[c] /\ new = rows2[k.cookie]
  OBVIOUS
<1>3. /\ c # "server" /\ Fits(c, k, ch, st, rows, N, O) /\ RequestFits(c, k, m)
      /\ O \subseteq DOMAIN rows /\ DOMAIN rows \subseteq BrowserId
      /\ \A b \in DOMAIN rows : RowIsDocument(rows[b])
  BY <1>1 DEF Serving
<1>4. /\ k.ready /\ m.cookie = k.cookie /\ "theme" \in DOMAIN m.body
      /\ m.serial = k.writing => m.body = k.body
      /\ k.cookie \in O
  BY <1>3 DEF RequestFits, Fits, RowFits
<1>5. WriteReply(rows, k.cookie, m.body, r, rows2)
  <2>1. PICK d : d = db
    OBVIOUS
  <2>2. r = PutBrowser(d, k.cookie, m.body) /\ rows = d.browsers /\ TablesFit(d)
    BY <1>1, <1>4, <2>1 DEF Served, Serving, SettingsInv
  <2>3. \A b \in DOMAIN d.browsers : RowIsDocument(d.browsers[b])
    BY <1>3, <2>2
  <2> QED BY <1>2, <1>4, <2>2, <2>3, BrowserOutcome
<1>6. /\ DOMAIN rows2 = DOMAIN rows /\ k.cookie \in DOMAIN rows2
      /\ \A b \in DOMAIN rows2 : RowIsDocument(rows2[b])
      /\ \A b \in DOMAIN rows \ {k.cookie} : rows2[b] = rows[b]
      /\ rows[k.cookie].revision <= new.revision
      /\ new.revision = rows[k.cookie].revision => new.theme = rows[k.cookie].theme
  BY <1>2, <1>3, <1>4, <1>5 DEF WriteReply
<1>7. IsDocument(new) /\ new.revision \in Nat
  BY <1>2, <1>6 DEF RowIsDocument, IsDocument
<1>8. st2 = IF Strays(m, r) THEN TRUE ELSE st
  BY <1>1, <1>2 DEF Serving
<1>9. \/ k.patch # NoPatch /\ new.theme = k.body.theme
      \/ new.theme \in {rows[k.cookie].theme, ch}
      \/ st2
  <2>1. CASE r.status # 200
    <3>1. rows2 = rows
      BY <1>5, <2>1 DEF WriteReply
    <3> QED BY <1>2, <3>1
  <2>2. CASE r.status = 200
    <3>1. new.theme = m.body.theme
      BY <1>2, <1>5, <2>2 DEF WriteReply
    <3>2. Strays(m, r) <=> /\ k.patch = NoPatch \/ k.body # m.body
                           /\ new.theme \notin {rows[k.cookie].theme, ch}
      BY <1>1, <1>2, <1>4, <2>2 DEF Strays, Serving
    <3> QED BY <1>8, <3>1, <3>2
  <2> QED BY <2>1, <2>2
<1>10. Fits(c, k, ch, st2, rows2, N, O)
  <2>1. st => st2
    BY <1>8
  <2>2. rows2[k.cookie] = new
    BY <1>2
  <2> QED BY <1>3, <1>4, <1>6, <1>7, <1>9, <2>1, <2>2, RowWrittenFits
<1>11. PICK a : a = [to |-> c, kind |-> m.kind, status |-> r.status, value |-> r.value]
  OBVIOUS
<1>12. /\ a.to = c /\ a.kind = "browser" /\ a.status = r.status /\ a.value = r.value
       /\ a.status \in Statuses
  BY <1>5, <1>11 DEF WriteReply
<1>13. CASE Awaited(m)
  <2>1. m.serial = k.writing
    BY <1>1, <1>13 DEF Awaited, Serving
  <2>2. Unanswered(k.writing, N) /\ Answers(N, "browser") = {} /\ m.body = k.body
    BY <1>1, <1>4, <2>1 DEF Serving
  <2>3. r.status \in {200, 409} =>
          IsDocument(a.value) /\ a.value.theme = new.theme /\ a.value.revision = new.revision
    BY <1>2, <1>5, <1>12 DEF WriteReply
  <2>4. k.browser.revision <= new.revision /\ (~Unsaved(k) /\ ~st2 => new.theme = ch)
    BY <1>2, <1>4, <1>10 DEF Fits, RowFits
  <2>5. r.status = 200 => new.theme = k.body.theme
    BY <1>2, <1>5, <2>2 DEF WriteReply
  <2>6. ASSUME NEW v \in States(N), v.browser.revision >= new.revision
        PROVE  v.browser.theme = new.theme
    <3>1. StateFits(k, ch, st2, rows2, O, v) /\ v.browser.revision \in Nat /\ v.cookie = k.cookie
      BY <1>4, <1>10 DEF Fits, StateFits, IsDocument
    <3>2. v.browser.revision <= new.revision
      BY <1>2, <3>1 DEF StateFits
    <3>3. v.browser.revision = new.revision
      BY <1>7, <2>6, <3>1, <3>2
    <3> QED BY <1>2, <3>1, <3>3 DEF StateFits
  <2>7. WriteFits(k, ch, st2, rows2, N, a)
    <3>1. a.status \in {200, 409} =>
            /\ IsDocument(a.value) /\ k.browser.revision <= a.value.revision
            /\ a.value.revision <= rows2[k.cookie].revision
      BY <1>2, <1>7, <1>12, <2>3, <2>4
    <3>2. a.status = 200 =>
            /\ a.value.theme = k.body.theme /\ rows2[k.cookie].theme = a.value.theme
            /\ \A v \in States(N) : v.browser.revision >= a.value.revision => v.browser.theme = a.value.theme
      BY <1>2, <1>12, <2>3, <2>5, <2>6
    <3>3. a.status = 409 /\ ~Unsaved(k) /\ ~st2 => a.value.theme = ch
      BY <1>12, <2>3, <2>4
    <3> QED BY <3>1, <3>2, <3>3 DEF WriteFits
  <2>8. Fits(c, k, ch, st2, rows2, N \cup {a}, O)
    BY <1>3, <1>10, <1>12, <2>2, <2>7, WriteAnsweredFits
  <2>9. net' = (net \ {m}) \cup {a} /\ \A x \in {a} : x.to = c
    BY <1>1, <1>11, <1>13 DEF Serving
  <2>10. Fits(c, k, ch, stray'[c], rows2, N \cup {a}, O)
    BY <1>2, <2>8
  <2>11. O \cap DOMAIN rows \subseteq O /\ RowsMove(rows, rows2, O)
    BY <1>3, <1>4, <1>6 DEF RowsMove, RowIsDocument, IsDocument
  <2> QED BY <1>1, <1>2, <2>9, <2>10, <2>11, ServeEnds
<1>14. CASE ~Awaited(m)
  <2>1. net' = (net \ {m}) \cup {} /\ \A x \in {} : x.to = c
    BY <1>1, <1>14 DEF Serving
  <2>2. N \cup {} = N
    OBVIOUS
  <2>3. Fits(c, k, ch, stray'[c], rows2, N \cup {}, O)
    BY <1>2, <1>10, <2>2
  <2>4. O \cap DOMAIN rows \subseteq O /\ RowsMove(rows, rows2, O)
    BY <1>3, <1>4, <1>6 DEF RowsMove, RowIsDocument, IsDocument
  <2> QED BY <1>1, <1>2, <2>1, <2>3, <2>4, ServeEnds
<1> QED BY <1>13, <1>14

-------------------------------------------------------------------------------
LEMMA InitThemes == Init => ThemeInv
<1> SUFFICES ASSUME Init
             PROVE  ThemeInv
  OBVIOUS
<1>1. DOMAIN NewClient = ClientFields
  BY DEF NewClient, ClientFields
<1>2. DOMAIN NoPatch = {}
  BY DEF NoPatch
<1>3. /\ NewClient.sent = 0 /\ NewClient.boot = None /\ NewClient.writing = None /\ ~NewClient.ready
      /\ NewClient.patch = NoPatch /\ NewClient.queued = NoPatch /\ NewClient.cookie = None
      /\ NewClient.browser = BrowserDocument(DefaultPreferences)
  BY DEF NewClient
<1>4. PICK v : v = BrowserDocument(DefaultPreferences)
  OBVIOUS
<1>5. IsDocument(v) /\ v.theme = "light" /\ v.revision = 0
  BY <1>4 DEF BrowserDocument, DefaultPreferences, Restrict, IsDocument
<1>6. StoreFits(NewClient, "light", FALSE)
  <2>1. PICK k : k = NewClient
    OBVIOUS
  <2> QED BY <2>1, <1>1, <1>2, <1>3, <1>4, <1>5 DEF StoreFits, Queued
<1>7. \A c : Mail(c, {}) = {}
  BY DEF Mail
<1>8. Requests({}) = {} /\ (\A kind : Answers({}, kind) = {}) /\ States({}) = {}
  BY DEF Requests, Answers, States
<1>9. Own(NewClient, {}) = {}
  BY <1>3, <1>8 DEF Own
<1>10. ASSUME NEW c
       PROVE  Fits(c, NewClient, "light", FALSE, db.browsers, {}, {})
  <2>1. MailFits(c, NewClient, {})
    BY <1>8 DEF MailFits
  <2>2. RowFits(NewClient, "light", FALSE, db.browsers, {})
    BY <1>3 DEF RowFits
  <2> QED BY <1>6, <1>8, <2>1, <2>2 DEF Fits
<1>11. db.browsers = [b \in {} |-> None]
  BY DEF Init, EmptyTables
<1> QED BY <1>7, <1>9, <1>10, <1>11 DEF Init, ThemeInv

LEMMA NextThemes == SettingsInv /\ ThemeInv /\ [Next]_vars => ThemeInv'
<1> SUFFICES ASSUME SettingsInv, ThemeInv, [Next]_vars
             PROVE  ThemeInv'
  OBVIOUS
<1>1. CASE UNCHANGED vars
  BY <1>1 DEF vars, ThemeInv
<1>2. CASE Next
  <2>1. ASSUME NEW c \in Client, NEW m \in net, Receive(c, m)
        PROVE  ThemeInv'
    <3>1. m.kind \in Kinds
      BY DEF SettingsInv, OfAKind
    <3> QED BY <2>1, <3>1, StateAnswerThemes, WorkspaceAnswerThemes, BrowserAnswerThemes DEF Kinds
  <2>2. ASSUME NEW m \in net, Serve(m)
        PROVE  ThemeInv'
    <3>1. m.kind \in Kinds
      BY DEF SettingsInv, OfAKind
    <3> QED BY <2>2, <3>1, StateServedThemes, WorkspacesServedThemes, BrowserServedThemes DEF Kinds
  <2> QED BY <1>2, <2>1, <2>2, UserThemes, GiveUpThemes DEF Next
<1> QED BY <1>1, <1>2

(* The theme a user chose last is the one shown, whatever is lost, late,   *)
(* refused or tried again, unless a write that its browser had let go of   *)
(* is served and undoes it.                                                *)
THEOREM ChosenThemeStaysShown == Spec => []ChosenThemeShown
<1>1. ThemeInv => ChosenThemeShown
  <2> SUFFICES ASSUME ThemeInv, NEW c \in Client
               PROVE  Shown(client[c]).theme = chosen[c] \/ stray[c]
    BY DEF ChosenThemeShown
  <2>1. PICK k, ch, st : k = client[c] /\ ch = chosen[c] /\ st = stray[c]
    OBVIOUS
  <2>2. StoreFits(k, ch, st)
    BY <2>1 DEF ThemeInv, Fits
  <2>3. Shown(k).theme = IF Queued(k) THEN k.queued.theme ELSE k.browser.theme
    BY <2>2 DEF Shown, Merge, Queued, StoreFits, IsDocument
  <2>4. Shown(k).theme = ch \/ st
    BY <2>2, <2>3 DEF StoreFits
  <2> QED BY <2>1, <2>4
<1> QED BY <1>1, InitSettings, NextSettings, InitThemes, NextThemes, PTL DEF Spec

-------------------------------------------------------------------------------
(* Saves and their answers.  A browser's copy of the shared document is    *)
(* one the server had, and a revision names one document; a mutation       *)
(* belongs to one body; a row is what its last mutation asked for.         *)

Follows(v, w) ==
  /\ v.revision \in Nat /\ v.sets \in Seq(Records)
  /\ v.revision <= w.revision
  /\ v.revision = w.revision => v.sets = w.sets

EditFits(b, edit, w) ==
  /\ DOMAIN b = {"revision", "mutation", "sets"}
  /\ b.revision \in Nat /\ b.sets \in Seq(Records)
  /\ b.revision <= w.revision
  /\ b.revision = w.revision => Others(b.sets, edit) = Others(w.sets, edit)

PreferenceFields == {"revision", "theme", "width", "selected", "runColors"}

Writes == {"workspaces", "browser"}

(* The body a browser holds until it is answered.                          *)
Held(kind, k) ==
  IF kind = "workspaces" THEN IF k.pending = None THEN {} ELSE {k.pending.body}
                         ELSE IF k.patch = NoPatch THEN {} ELSE {k.body}

StoreHolds(k, w) ==
  /\ DOMAIN k = ClientFields /\ k.sent \in Nat
  /\ Follows(k.workspaces, w)
  /\ k.pending # None => EditFits(k.pending.body, k.pending.edit, w)
  /\ PreferenceFields \subseteq DOMAIN k.browser
  /\ \A b \in Held("browser", k) : PreferenceFields \cup {"mutation"} \subseteq DOMAIN b

(* What is in transit.                                                     *)
MessageHolds(m, w) ==
  IF m.to = "server"
  THEN /\ m.from \in Client
       /\ m.kind = "workspaces" => EditFits(m.body, m.edit, w)
       /\ m.kind = "browser" => PreferenceFields \cup {"mutation"} \subseteq DOMAIN m.body
  ELSE /\ m.kind = "state" /\ m.status = 200 =>
            Follows(m.value.workspaces, w) /\ PreferenceFields \subseteq DOMAIN m.value.browser
       /\ m.kind = "workspaces" /\ m.status \in {200, 409} => Follows(m.value, w)
       /\ m.kind = "browser" /\ m.status \in {200, 409} => PreferenceFields \subseteq DOMAIN m.value

Drawn(mutation, cl) == \E c \in Client : \E n \in 1 .. cl[c].sent : mutation = <<c, n>>

Bodies(kind, cl, M) ==
  {m.body : m \in {n \in M : n.to = "server" /\ n.kind = kind}} \cup UNION {Held(kind, cl[c]) : c \in Client}

(* What the handlers make of a body.                                       *)
Input(kind, b) ==
  IF kind = "workspaces" THEN [b EXCEPT !.sets = Each(b.sets, DecodeSet)]
  ELSE [b EXCEPT !.selected = DecodeMap(b.selected, MaxSets),
                 !.runColors = DecodeMap(b.runColors, MaxRunColors)]

RowsOf(kind, d) ==
  IF kind = "workspaces" THEN {d.workspaces} ELSE {d.browsers[b] : b \in DOMAIN d.browsers}

BodiesDiffer(B, cl) ==
  /\ \A b \in B : Drawn(b.mutation, cl)
  /\ \A b, b2 \in B : b.mutation = b2.mutation => b = b2

RowsRemember(kind, R, B, cl) ==
  \A row \in R : row.mutation # None =>
    /\ Drawn(row.mutation, cl)
    /\ \A b \in B : b.mutation = row.mutation => row.payload = Input(kind, b)

RowAsAsked(kind, row) ==
  IF kind = "workspaces"
  THEN /\ DOMAIN row = {"revision", "sets", "mutation", "payload"}
       /\ row.revision \in Nat /\ row.sets \in Seq(Records)
       /\ row.mutation # None => row.sets = Each(row.payload.sets, EncodeSet)
  ELSE /\ DOMAIN row = DOMAIN DefaultPreferences
       /\ row.mutation # None => row.theme = row.payload.theme /\ row.selected = row.payload.selected

WritesFit(cl, M, d) ==
  /\ DOMAIN cl = Client
  /\ \A c \in Client : StoreHolds(cl[c], d.workspaces)
  /\ \A m \in M : MessageHolds(m, d.workspaces)
  /\ \A kind \in Writes :
       /\ BodiesDiffer(Bodies(kind, cl, M), cl)
       /\ RowsRemember(kind, RowsOf(kind, d), Bodies(kind, cl, M), cl)
       /\ \A row \in RowsOf(kind, d) : RowAsAsked(kind, row)

WriteInv == WritesFit(client, net, db)

-------------------------------------------------------------------------------
LEMMA WithoutOthers ==
  ASSUME NEW S, NEW s \in Seq(S), NEW id
  PROVE  Without(s, id) \in Seq(S) /\ Others(Without(s, id), id) = Others(s, id)
<1>1. CASE {i \in DOMAIN s : s[i].id = id} = {}
  BY <1>1 DEF Without
<1>2. CASE {i \in DOMAIN s : s[i].id = id} # {}
  <2>1. PICK i : i = CHOOSE j \in {j \in DOMAIN s : s[j].id = id} : TRUE
    OBVIOUS
  <2>2. i \in 1 .. Len(s) /\ s[i].id = id
    BY <1>2, <2>1
  <2>3. PICK p, q : p = SubSeq(s, 1, i - 1) /\ q = SubSeq(s, i + 1, Len(s))
    OBVIOUS
  <2>4. /\ p \in Seq(S) /\ Len(p) = i - 1 /\ \A j \in 1 .. i - 1 : p[j] = s[j]
    BY <2>2, <2>3, SubSeqProperties
  <2>5. /\ q \in Seq(S) /\ Len(q) = Len(s) - i /\ \A j \in 1 .. Len(s) - i : q[j] = s[j + i]
    BY <2>2, <2>3, SubSeqProperties
  <2>6. Without(s, id) = p \o q
    BY <1>2, <2>1, <2>3 DEF Without
  <2>7. PICK t : t = p \o q
    OBVIOUS
  <2>8. /\ t \in Seq(S) /\ Len(t) = Len(s) - 1
        /\ \A j \in 1 .. Len(s) - 1 : t[j] = IF j <= i - 1 THEN p[j] ELSE q[j - (i - 1)]
    <3>1. /\ t \in Seq(S) /\ Len(t) = Len(p) + Len(q)
          /\ \A j \in 1 .. Len(p) + Len(q) : t[j] = IF j <= Len(p) THEN p[j] ELSE q[j - Len(p)]
      <4> HIDE <2>3
      <4> QED BY <2>4, <2>5, <2>7, ConcatProperties
    <3>2. Len(p) = i - 1 /\ Len(p) + Len(q) = Len(s) - 1
      BY <2>2, <2>4, <2>5
    <3> HIDE <2>3, <2>7
    <3> QED BY <3>1, <3>2
  <2>9. \A j \in 1 .. Len(s) - 1 : t[j] = IF j <= i - 1 THEN s[j] ELSE s[j + 1]
    BY <2>2, <2>4, <2>5, <2>8
  <2>10. DOMAIN t = 1 .. Len(s) - 1 /\ DOMAIN s = 1 .. Len(s)
    BY <2>2, <2>8
  <2>11. \A x \in Range(t) : x \in Range(s)
    <3> SUFFICES ASSUME NEW j \in 1 .. Len(s) - 1
                 PROVE  t[j] \in Range(s)
      BY <2>10 DEF Range
    <3>1. j \in DOMAIN s /\ j + 1 \in DOMAIN s
      BY <2>10
    <3> QED BY <2>9, <3>1 DEF Range
  <2>12. ASSUME NEW x \in Range(s), x.id # id
         PROVE  x \in Range(t)
    <3>1. PICK j \in 1 .. Len(s) : x = s[j]
      BY <2>10 DEF Range
    <3>2. CASE j < i
      BY <2>2, <2>9, <2>10, <3>1, <3>2 DEF Range
    <3>3. CASE j > i
      <4>1. j - 1 \in 1 .. Len(s) - 1 /\ t[j - 1] = s[j]
        BY <2>2, <2>9, <3>3
      <4> QED BY <2>10, <3>1, <4>1 DEF Range
    <3> QED BY <2>2, <2>12, <3>1, <3>2, <3>3
  <2> QED BY <2>6, <2>7, <2>8, <2>11, <2>12 DEF Others
<1> QED BY <1>1, <1>2

LEMMA AppendedOthers ==
  ASSUME NEW S, NEW s \in Seq(S), NEW x \in S, NEW id, x.id = id
  PROVE  Append(s, x) \in Seq(S) /\ Others(Append(s, x), id) = Others(s, id)
<1>1. PICK t : t = Append(s, x)
  OBVIOUS
<1>2. t \in Seq(S) /\ Len(t) = Len(s) + 1 /\ t[Len(s) + 1] = x /\ \A j \in 1 .. Len(s) : t[j] = s[j]
  BY <1>1
<1>3. DOMAIN t = 1 .. Len(s) + 1 /\ DOMAIN s = 1 .. Len(s) /\ Len(s) \in Nat
  BY <1>2
<1>4. \A y \in Range(s) : y \in Range(t)
  BY <1>2, <1>3 DEF Range
<1>5. \A y \in Range(t) : y = x \/ y \in Range(s)
  <2> SUFFICES ASSUME NEW j \in DOMAIN t, j # Len(s) + 1
               PROVE  t[j] \in Range(s)
    BY <1>2 DEF Range
  <2>1. j \in 1 .. Len(s)
    BY <1>3
  <2> QED BY <1>2, <1>3, <2>1 DEF Range
<1> QED BY <1>1, <1>2, <1>4, <1>5 DEF Others

LEMMA RecordsAreCalled ==
  ASSUME NEW id \in SetId, NEW e \in Experiment
  PROVE  Record(id, e) \in Records /\ Record(id, e).id = id
<1>1. PICK p : p = [id |-> id, name |-> Name[id], experimentId |-> e]
  OBVIOUS
<1>2. "id" \in DOMAIN p /\ p.id = id
  BY <1>1
<1>3. Merge(Layout, p).id = id
  BY <1>2 DEF Merge
<1> QED BY <1>1, <1>3 DEF Record, Records

(* The server stores the workspaces it accepts as they were sent.          *)
LEMMA StoredAsSent ==
  ASSUME NEW s \in Seq(Records), NEW D, D = Each(s, DecodeSet), D # Invalid
  PROVE  Each(D, EncodeSet) = s
<1>1. ASSUME NEW o \in Records
      PROVE  o # Invalid /\ (DecodeSet(o) # Invalid => EncodeSet(DecodeSet(o)) = o)
  BY LayoutAssumption
<1>2. PICK d : d = [i \in DOMAIN s |-> DecodeSet(s[i])]
  OBVIOUS
<1>3. D = d /\ Invalid \notin Range(d)
  BY <1>2 DEF Each
<1>4. DOMAIN d = DOMAIN s /\ \A i \in DOMAIN s : d[i] = DecodeSet(s[i]) /\ d[i] # Invalid /\ s[i] \in Records
  BY <1>2, <1>3 DEF Range
<1>5. PICK e : e = [i \in DOMAIN d |-> EncodeSet(d[i])]
  OBVIOUS
<1>6. \A i \in DOMAIN s : e[i] = s[i]
  BY <1>1, <1>4, <1>5
<1>7. e = s
  BY <1>4, <1>5, <1>6
<1>8. Invalid \notin Range(e)
  BY <1>1, <1>4, <1>7 DEF Range
<1> QED BY <1>3, <1>5, <1>7, <1>8 DEF Each

-------------------------------------------------------------------------------
(* The steps of a browser: from the store k to the store k2, sending out,  *)
(* while the server has the document w.                                    *)
Sends(c, k, k2, out, w) ==
  /\ StoreHolds(k2, w) /\ k.sent \in Nat /\ k.sent <= k2.sent
  /\ \A kind \in Writes : \A b \in Held(kind, k2) \ Held(kind, k) :
        \E n \in k.sent + 1 .. k2.sent : b.mutation = <<c, n>>
  /\ \A m \in out :
        /\ m.to = "server" /\ m.from = c
        /\ m.kind \in Writes => m.body \in Held(m.kind, k2)
        /\ m.kind = "workspaces" => m.edit = k2.pending.edit

LEMMA HoldsStill ==
  ASSUME NEW w, NEW k, StoreHolds(k, w), NEW k2, DOMAIN k2 = ClientFields, k2.sent \in Nat,
         Follows(k2.workspaces, w), PreferenceFields \subseteq DOMAIN k2.browser,
         k2.pending = None \/ k2.pending = k.pending,
         k2.patch = NoPatch \/ (k2.patch = k.patch /\ k2.body = k.body)
  PROVE  StoreHolds(k2, w) /\ \A kind \in Writes : Held(kind, k2) \subseteq Held(kind, k)
<1>1. \A kind \in Writes : Held(kind, k2) \subseteq Held(kind, k)
  BY DEF Held
<1>2. Held("browser", k2) \subseteq Held("browser", k)
  BY <1>1 DEF Writes
<1> QED BY <1>1, <1>2 DEF StoreHolds

LEMMA SendsNothing ==
  ASSUME NEW c, NEW w, NEW k, StoreHolds(k, w), NEW k2, StoreHolds(k2, w), k2.sent = k.sent,
         \A kind \in Writes : Held(kind, k2) \subseteq Held(kind, k)
  PROVE  Sends(c, k, Step(k2, {}).k, Step(k2, {}).out, w)
BY StepFields DEF Sends, StoreHolds

(* What a browser gives up before it sends.                                *)
LEMMA SendsFrom ==
  ASSUME NEW c, NEW w, NEW k, NEW k1, k1.sent = k.sent,
         \A kind \in Writes : Held(kind, k1) \subseteq Held(kind, k),
         NEW k2, NEW out, Sends(c, k1, k2, out, w)
  PROVE  Sends(c, k, k2, out, w)
BY DEF Sends

LEMMA FlushSends ==
  ASSUME NEW c, NEW w, NEW k, StoreHolds(k, w), NEW s, s = Flush(c, Step(k, {}))
  PROVE  Sends(c, k, s.k, s.out, w)
<1>1. /\ DOMAIN k = ClientFields /\ k.sent \in Nat /\ Follows(k.workspaces, w)
      /\ PreferenceFields \subseteq DOMAIN k.browser
  BY DEF StoreHolds
<1>2. CASE ~MayWrite(k)
  <2>1. PICK k2 : k2 = [k EXCEPT !.saving = IF @ = Draining /\ k.writing = None THEN None ELSE @]
    OBVIOUS
  <2>2. s = Step(k2, {})
    BY <1>2, <2>1, StepFields DEF Flush
  <2>3. /\ DOMAIN k2 = ClientFields /\ k2.sent = k.sent /\ k2.workspaces = k.workspaces
        /\ k2.browser = k.browser /\ k2.pending = k.pending /\ k2.patch = k.patch /\ k2.body = k.body
    BY <1>1, <2>1 DEF ClientFields
  <2>4. StoreHolds(k2, w) /\ \A kind \in Writes : Held(kind, k2) \subseteq Held(kind, k)
    BY <1>1, <2>3, HoldsStill
  <2> QED BY <2>2, <2>3, <2>4, SendsNothing
<1>3. CASE MayWrite(k)
  <2> DEFINE full == Merge(k.browser, k.queued)
             body == [full EXCEPT !.selected = EncodeMap(@), !.runColors = EncodeMap(@)]
             bytes == Merge(body, [mutation |-> <<c, k.sent + 1>>])
             frozen == IF k.patch # NoPatch THEN k
                       ELSE [k EXCEPT !.patch = k.queued, !.queued = NoPatch, !.browser = full,
                                      !.body = bytes]
             next == [frozen EXCEPT !.sent = @ + 1, !.writing = k.sent + 1]
             q == Request(c, k, "browser", frozen.body, None)
  <2>1. s = Step(next, {q})
    <3>1. PICK t : t = Step(k, {})
      OBVIOUS
    <3>2. t.k = k /\ t.out = {} /\ s = Flush(c, t)
      BY <3>1, StepFields
    <3>3. s = Step(next, t.out \cup {q})
      BY <1>3, <3>2 DEF Flush
    <3> HIDE DEF next, q
    <3> QED BY <3>2, <3>3
  <2>2. PreferenceFields \subseteq DOMAIN full
    BY <1>1 DEF Merge
  <2>3. PreferenceFields \cup {"mutation"} \subseteq DOMAIN bytes /\ bytes.mutation = <<c, k.sent + 1>>
    <3> HIDE DEF full
    <3>1. PICK e, p : e = body /\ p = [mutation |-> <<c, k.sent + 1>>]
      OBVIOUS
    <3>2. DOMAIN e = DOMAIN full /\ DOMAIN p = {"mutation"} /\ p.mutation = <<c, k.sent + 1>>
      BY <3>1
    <3>3. DOMAIN Merge(e, p) = DOMAIN e \cup {"mutation"} /\ Merge(e, p).mutation = p.mutation
      BY <3>2 DEF Merge
    <3>4. bytes = Merge(e, p)
      BY <3>1
    <3> HIDE DEF bytes
    <3> QED BY <2>2, <3>2, <3>3, <3>4
  <2> HIDE DEF bytes
  <2>4. PICK f : f = frozen
    OBVIOUS
  <2>5. /\ DOMAIN f = ClientFields /\ f.sent = k.sent /\ f.workspaces = k.workspaces
        /\ f.pending = k.pending /\ f.patch # NoPatch
        /\ PreferenceFields \subseteq DOMAIN f.browser
        /\ \/ f.body = bytes
           \/ f.body = k.body /\ k.patch # NoPatch
    <3>1. CASE k.patch # NoPatch
      BY <1>1, <2>4, <3>1
    <3>2. CASE k.patch = NoPatch
      <4>1. f = [k EXCEPT !.patch = k.queued, !.queued = NoPatch, !.browser = full, !.body = bytes]
        BY <2>4, <3>2
      <4> HIDE DEF full, frozen
      <4>2. k.queued # NoPatch
        BY <1>3, <3>2 DEF MayWrite
      <4>3. /\ DOMAIN f = ClientFields /\ f.patch = k.queued /\ f.browser = full /\ f.body = bytes
            /\ f.sent = k.sent /\ f.workspaces = k.workspaces /\ f.pending = k.pending
        BY <1>1, <4>1 DEF ClientFields
      <4> QED BY <2>2, <4>2, <4>3
    <3> QED BY <3>1, <3>2
  <2>6. PICK k2 : k2 = [f EXCEPT !.sent = @ + 1, !.writing = k.sent + 1]
    OBVIOUS
  <2>7. PICK r : r = Request(c, k, "browser", f.body, None)
    OBVIOUS
  <2>8. s.k = k2 /\ s.out = {r}
    <3>1. next = k2 /\ q = r
      BY <2>4, <2>6, <2>7
    <3> HIDE DEF next, q
    <3> QED BY <2>1, <3>1, StepFields
  <2> HIDE DEF frozen, next, q
  <2>9. /\ DOMAIN k2 = ClientFields /\ k2.sent = k.sent + 1 /\ k2.workspaces = k.workspaces
        /\ k2.pending = k.pending /\ k2.patch = f.patch /\ k2.body = f.body /\ k2.browser = f.browser
    BY <2>5, <2>6 DEF ClientFields
  <2>10. r.to = "server" /\ r.from = c /\ r.kind = "browser" /\ r.body = f.body
    BY <2>7, RequestFields
  <2>11. /\ Held("workspaces", k2) = Held("workspaces", k)
         /\ Held("browser", k2) = {f.body}
         /\ f.body = bytes \/ f.body \in Held("browser", k)
    BY <2>5, <2>9 DEF Held
  <2>12. StoreHolds(k2, w)
    <3>1. \A b \in Held("browser", k2) : PreferenceFields \cup {"mutation"} \subseteq DOMAIN b
      BY <2>3, <2>11 DEF StoreHolds
    <3> QED BY <1>1, <2>5, <2>9, <3>1 DEF StoreHolds
  <2>13. \A kind \in Writes : \A b \in Held(kind, k2) \ Held(kind, k) :
            \E n \in k.sent + 1 .. k2.sent : b.mutation = <<c, n>>
    <3> SUFFICES ASSUME NEW b, b = bytes
                 PROVE  \E n \in k.sent + 1 .. k2.sent : b.mutation = <<c, n>>
      BY <2>11 DEF Writes
    <3>1. k.sent + 1 \in k.sent + 1 .. k2.sent
      BY <1>1, <2>9
    <3> QED BY <2>3, <3>1
  <2> QED BY <1>1, <2>8, <2>9, <2>10, <2>11, <2>12, <2>13 DEF Sends
<1> QED BY <1>2, <1>3

LEMMA UpdateSends ==
  ASSUME NEW c, NEW w, NEW k, StoreHolds(k, w), NEW p, NEW s, s = UpdateBrowser(c, Step(k, {}), p)
  PROVE  Sends(c, k, s.k, s.out, w)
<1>1. PICK k1 : k1 = [k EXCEPT !.queued = Merge(@, p)]
  OBVIOUS
<1>2. /\ DOMAIN k = ClientFields /\ k.sent \in Nat /\ Follows(k.workspaces, w)
      /\ PreferenceFields \subseteq DOMAIN k.browser
  BY DEF StoreHolds
<1>3. /\ DOMAIN k1 = ClientFields /\ k1.sent = k.sent /\ k1.workspaces = k.workspaces
      /\ k1.browser = k.browser /\ k1.pending = k.pending /\ k1.patch = k.patch /\ k1.body = k.body
  BY <1>1, <1>2 DEF ClientFields
<1>4. StoreHolds(k1, w) /\ \A kind \in Writes : Held(kind, k1) \subseteq Held(kind, k)
  BY <1>2, <1>3, HoldsStill
<1>5. s = Flush(c, Step(k1, {}))
  BY <1>1, StepFields DEF UpdateBrowser
<1>6. Sends(c, k1, s.k, s.out, w)
  BY <1>4, <1>5, FlushSends
<1> QED BY <1>3, <1>4, <1>6, SendsFrom

LEMMA BootstrapSends ==
  ASSUME NEW c, NEW w, NEW k, StoreHolds(k, w), NEW s, s = Bootstrap(c, Step(k, {}))
  PROVE  Sends(c, k, s.k, s.out, w)
<1>1. CASE k.boot # None
  <2>1. s = Step(k, {})
    BY <1>1, StepFields DEF Bootstrap
  <2> QED BY <2>1, SendsNothing
<1>2. CASE k.boot = None
  <2>1. PICK k2, r : k2 = [k EXCEPT !.boot = k.sent + 1, !.sent = @ + 1] /\ r = Request(c, k, "state", None, None)
    OBVIOUS
  <2>2. s.k = k2 /\ s.out = {r}
    <3>1. PICK t : t = Step(k, {})
      OBVIOUS
    <3>2. t.k = k /\ t.out = {} /\ s = Bootstrap(c, t)
      BY <3>1, StepFields
    <3>3. s = Step(k2, t.out \cup {r})
      BY <1>2, <2>1, <3>2 DEF Bootstrap
    <3> QED BY <3>2, <3>3, StepFields
  <2>3. /\ DOMAIN k = ClientFields /\ k.sent \in Nat /\ Follows(k.workspaces, w)
        /\ PreferenceFields \subseteq DOMAIN k.browser
    BY DEF StoreHolds
  <2>4. /\ DOMAIN k2 = ClientFields /\ k2.sent = k.sent + 1 /\ k2.workspaces = k.workspaces
        /\ k2.browser = k.browser /\ k2.pending = k.pending /\ k2.patch = k.patch /\ k2.body = k.body
    BY <2>1, <2>3 DEF ClientFields
  <2>5. StoreHolds(k2, w) /\ \A kind \in Writes : Held(kind, k2) \subseteq Held(kind, k)
    BY <2>3, <2>4, HoldsStill
  <2>6. r.to = "server" /\ r.from = c /\ r.kind = "state"
    BY <2>1, RequestFields
  <2> QED BY <2>2, <2>3, <2>4, <2>5, <2>6 DEF Sends, Writes
<1> QED BY <1>1, <1>2

(* k0 is the store before the save was put into it.                        *)
LEMMA SubmitSends ==
  ASSUME NEW c, NEW w, NEW k, StoreHolds(k, w), k.pending # None,
         NEW k0, k0.sent = k.sent, Held("browser", k) \subseteq Held("browser", k0),
         \/ Held("workspaces", k) \subseteq Held("workspaces", k0)
         \/ k.pending.body.mutation = <<c, k.sent + 1>>,
         NEW s, s = Submit(c, Step(k, {}))
  PROVE  Sends(c, k0, s.k, s.out, w)
<1>1. PICK k2, r : /\ k2 = [k EXCEPT !.saving = k.sent + 1, !.sent = @ + 1]
                   /\ r = Request(c, k, "workspaces", k.pending.body, k.pending.edit)
  OBVIOUS
<1>2. s.k = k2 /\ s.out = {r}
  <2>1. PICK t : t = Step(k, {})
    OBVIOUS
  <2>2. t.k = k /\ t.out = {} /\ s = Submit(c, t)
    BY <2>1, StepFields
  <2>3. s = Step(k2, t.out \cup {r})
    BY <1>1, <2>2 DEF Submit
  <2> QED BY <2>2, <2>3, StepFields
<1>3. /\ DOMAIN k = ClientFields /\ k.sent \in Nat /\ Follows(k.workspaces, w)
      /\ PreferenceFields \subseteq DOMAIN k.browser
  BY DEF StoreHolds
<1>4. /\ DOMAIN k2 = ClientFields /\ k2.sent = k.sent + 1 /\ k2.workspaces = k.workspaces
      /\ k2.browser = k.browser /\ k2.pending = k.pending /\ k2.patch = k.patch /\ k2.body = k.body
  BY <1>1, <1>3 DEF ClientFields
<1>5. StoreHolds(k2, w) /\ \A kind \in Writes : Held(kind, k2) \subseteq Held(kind, k)
  BY <1>3, <1>4, HoldsStill
<1>6. /\ r.to = "server" /\ r.from = c /\ r.kind = "workspaces" /\ r.body = k.pending.body
      /\ r.edit = k.pending.edit
  BY <1>1 DEF Request
<1>7. Held("workspaces", k2) = {k.pending.body}
  BY <1>4 DEF Held
<1>8. \A kind \in Writes : \A b \in Held(kind, k2) \ Held(kind, k0) :
         \E n \in k0.sent + 1 .. k2.sent : b.mutation = <<c, n>>
  <2> SUFFICES ASSUME k.pending.body.mutation = <<c, k.sent + 1>>
               PROVE  \A b \in Held("workspaces", k2) : \E n \in k0.sent + 1 .. k2.sent : b.mutation = <<c, n>>
    BY <1>5 DEF Writes
  <2>1. k.sent + 1 \in k0.sent + 1 .. k2.sent
    BY <1>3, <1>4
  <2> QED BY <1>7, <2>1
<1> QED BY <1>2, <1>3, <1>4, <1>5, <1>6, <1>7, <1>8 DEF Sends

LEMMA TakeWrites ==
  ASSUME WriteInv, NEW c \in Client, NEW s, NEW consumed, Take(c, s, consumed), UNCHANGED db,
         Sends(c, client[c], s.k, s.out, db.workspaces)
  PROVE  WriteInv'
<1>1. PICK net2, client2, k, k2, out, w :
        /\ net2 = net' /\ client2 = client' /\ k = client[c] /\ k2 = s.k /\ out = s.out
        /\ w = db.workspaces
  OBVIOUS
<1>2. net2 = (net \ consumed) \cup out /\ client2 = [client EXCEPT ![c] = k2]
  BY <1>1 DEF Take
<1>3. /\ DOMAIN client = Client /\ \A e \in Client : StoreHolds(client[e], w)
      /\ \A m \in net : MessageHolds(m, w)
  BY <1>1 DEF WriteInv, WritesFit
<1>4. DOMAIN client2 = Client /\ client2[c] = k2 /\ \A e \in Client \ {c} : client2[e] = client[e]
  BY <1>2, <1>3
<1>5. Sends(c, k, k2, out, w)
  BY <1>1
<1>6. \A e \in Client : client[e].sent \in Nat /\ client2[e].sent \in Nat /\ client[e].sent <= client2[e].sent
  BY <1>1, <1>3, <1>4, <1>5 DEF Sends, StoreHolds
<1>7. ASSUME NEW mutation, Drawn(mutation, client)
      PROVE  Drawn(mutation, client2)
  <2>1. PICK e \in Client : \E n \in 1 .. client[e].sent : mutation = <<e, n>>
    BY <1>7 DEF Drawn
  <2>2. 1 .. client[e].sent \subseteq 1 .. client2[e].sent
    BY <1>6
  <2> QED BY <2>1, <2>2 DEF Drawn
<1>8. ASSUME NEW kind \in Writes, NEW b \in Held(kind, k2) \ Held(kind, k)
      PROVE  Drawn(b.mutation, client2) /\ ~Drawn(b.mutation, client)
  <2>1. PICK n \in k.sent + 1 .. k2.sent : b.mutation = <<c, n>>
    BY <1>5 DEF Sends
  <2>2. n \in 1 .. client2[c].sent /\ n \notin 1 .. client[c].sent
    BY <1>1, <1>4, <1>6
  <2>3. \A e, i : <<c, n>> = <<e, i>> => e = c /\ i = n
    OBVIOUS
  <2> QED BY <2>1, <2>2, <2>3 DEF Drawn
<1>9. ASSUME NEW kind \in Writes
      PROVE  Bodies(kind, client2, net2) \subseteq
                Bodies(kind, client, net) \cup (Held(kind, k2) \ Held(kind, k))
  <2>1. Held(kind, k) \subseteq Bodies(kind, client, net)
    BY <1>1 DEF Bodies
  <2>2. \A e \in Client \ {c} : Held(kind, client2[e]) \subseteq Bodies(kind, client, net)
    BY <1>4 DEF Bodies
  <2>3. \A m \in out : m.kind = kind => m.body \in Held(kind, k2)
    BY <1>5 DEF Sends
  <2>4. \A m \in net : m.to = "server" /\ m.kind = kind => m.body \in Bodies(kind, client, net)
    BY DEF Bodies
  <2>5. ASSUME NEW b \in Bodies(kind, client2, net2)
        PROVE  b \in Bodies(kind, client, net) \/ b \in Held(kind, k2)
    <3>1. CASE \E e \in Client : b \in Held(kind, client2[e])
      BY <1>4, <2>2, <3>1
    <3>2. CASE \E m \in net2 : m.to = "server" /\ m.kind = kind /\ b = m.body
      BY <1>2, <2>3, <2>4, <3>2
    <3> QED BY <2>5, <3>1, <3>2 DEF Bodies
  <2> QED BY <2>1, <2>5
<1>10. ASSUME NEW kind \in Writes
       PROVE  /\ BodiesDiffer(Bodies(kind, client2, net2), client2)
              /\ RowsRemember(kind, RowsOf(kind, db), Bodies(kind, client2, net2), client2)
              /\ \A row \in RowsOf(kind, db) : RowAsAsked(kind, row)
  <2>1. /\ BodiesDiffer(Bodies(kind, client, net), client)
        /\ RowsRemember(kind, RowsOf(kind, db), Bodies(kind, client, net), client)
        /\ \A row \in RowsOf(kind, db) : RowAsAsked(kind, row)
    BY DEF WriteInv, WritesFit
  <2>2. \A b, b2 \in Held(kind, k2) : b = b2
    BY DEF Held
  <2>3. BodiesDiffer(Bodies(kind, client2, net2), client2)
    <3>1. \A b \in Bodies(kind, client2, net2) : Drawn(b.mutation, client2)
      BY <1>7, <1>8, <1>9, <2>1 DEF BodiesDiffer
    <3>2. ASSUME NEW b \in Bodies(kind, client2, net2), NEW b2 \in Bodies(kind, client2, net2),
                 b.mutation = b2.mutation
          PROVE  b = b2
      BY <1>8, <1>9, <2>1, <2>2, <3>2 DEF BodiesDiffer
    <3> QED BY <3>1, <3>2 DEF BodiesDiffer
  <2>4. RowsRemember(kind, RowsOf(kind, db), Bodies(kind, client2, net2), client2)
    <3> SUFFICES ASSUME NEW row \in RowsOf(kind, db), row.mutation # None
                 PROVE  /\ Drawn(row.mutation, client2)
                        /\ \A b \in Bodies(kind, client2, net2) :
                              b.mutation = row.mutation => row.payload = Input(kind, b)
      BY DEF RowsRemember
    <3>1. /\ Drawn(row.mutation, client)
          /\ \A b \in Bodies(kind, client, net) : b.mutation = row.mutation => row.payload = Input(kind, b)
      BY <2>1 DEF RowsRemember
    <3> QED BY <1>7, <1>8, <1>9, <3>1
  <2> QED BY <2>1, <2>3, <2>4
<1>11. \A e \in Client : StoreHolds(client2[e], w)
  BY <1>3, <1>4, <1>5 DEF Sends
<1>12. ASSUME NEW m \in out
       PROVE  MessageHolds(m, w)
  <2>1. /\ m.to = "server" /\ m.from = c /\ (m.kind \in Writes => m.body \in Held(m.kind, k2))
        /\ m.kind = "workspaces" => m.edit = k2.pending.edit
    BY <1>5 DEF Sends
  <2>2. m.kind = "workspaces" => EditFits(m.body, m.edit, w)
    BY <1>4, <1>11, <2>1 DEF Writes, Held, StoreHolds
  <2>3. m.kind = "browser" => PreferenceFields \cup {"mutation"} \subseteq DOMAIN m.body
    BY <1>4, <1>11, <2>1 DEF Writes, StoreHolds
  <2> QED BY <2>1, <2>2, <2>3 DEF MessageHolds
<1>13. \A m \in net2 : MessageHolds(m, w)
  BY <1>2, <1>3, <1>12
<1>14. WritesFit(client2, net2, db)
  BY <1>1, <1>4, <1>10, <1>11, <1>13 DEF WritesFit
<1> QED BY <1>1, <1>14 DEF WriteInv

LEMMA UserWrites ==
  ASSUME WriteInv, NEW c \in Client,
         \/ Load(c)
         \/ \E id \in SetId, e \in Experiment, r \in 0 .. client[c].workspaces.revision : Save(c, id, e, r)
         \/ \E id \in SetId : Remove(c, id)
         \/ RetrySave(c)
         \/ \E theme \in Themes : ChooseTheme(c, theme)
         \/ \E e \in Experiment, id \in SetId \cup {None} : Select(c, e, id)
         \/ RetryAll(c)
  PROVE  WriteInv'
<1>1. PICK k, w : k = client[c] /\ w = db.workspaces
  OBVIOUS
<1>2. StoreHolds(k, w)
  BY <1>1 DEF WriteInv, WritesFit
<1>3. /\ DOMAIN k = ClientFields /\ k.sent \in Nat /\ Follows(k.workspaces, w)
      /\ PreferenceFields \subseteq DOMAIN k.browser
  BY <1>2 DEF StoreHolds
<1>4. ASSUME NEW s, Take(c, s, {}), UNCHANGED db, Sends(c, k, s.k, s.out, w)
      PROVE  WriteInv'
  BY <1>1, <1>4, TakeWrites
<1>5. ASSUME NEW k1, Take(c, Submit(c, Step(k1, {})), {}), UNCHANGED db,
             DOMAIN k1 = ClientFields, k1.pending = k.pending, k1.pending # None,
             \A f \in ClientFields \ {"pending", "conflict", "retrying"} : k1[f] = k[f]
      PROVE  WriteInv'
  <2>1. /\ k1.sent = k.sent /\ k1.workspaces = k.workspaces /\ k1.browser = k.browser
        /\ k1.patch = k.patch /\ k1.body = k.body
    BY <1>5 DEF ClientFields
  <2>2. StoreHolds(k1, w) /\ \A kind \in Writes : Held(kind, k1) \subseteq Held(kind, k)
    BY <1>2, <1>3, <1>5, <2>1, HoldsStill
  <2>3. Held("browser", k1) \subseteq Held("browser", k) /\ Held("workspaces", k1) \subseteq Held("workspaces", k)
    BY <2>2 DEF Writes
  <2>4. PICK s : s = Submit(c, Step(k1, {}))
    OBVIOUS
  <2>5. Sends(c, k, s.k, s.out, w)
    BY <1>5, <2>1, <2>2, <2>3, <2>4, SubmitSends
  <2> QED BY <1>4, <1>5, <2>4, <2>5
<1>6. ASSUME NEW b, NEW edit \in SetId, EditFits(b, edit, w), b.mutation = <<c, k.sent + 1>>,
             NEW r, NEW x, b = [revision |-> r, mutation |-> <<c, k.sent + 1>>, sets |-> x],
             NEW record \in Records \cup {None}, NEW p, p = [body |-> b, edit |-> edit, record |-> record],
             Take(c, Submit(c, Step([k EXCEPT !.pending = p, !.conflict = FALSE], {})), {}), UNCHANGED db
      PROVE  WriteInv'
  <2>1. PICK k1 : k1 = [k EXCEPT !.pending = p, !.conflict = FALSE]
    OBVIOUS
  <2>2. /\ DOMAIN k1 = ClientFields /\ k1.pending = p /\ k1.sent = k.sent
        /\ k1.workspaces = k.workspaces /\ k1.browser = k.browser
        /\ k1.patch = k.patch /\ k1.body = k.body
    BY <1>3, <2>1 DEF ClientFields
  <2>3. p.body = b /\ p.edit = edit
    BY <1>6
  <2>4. Held("browser", k1) = Held("browser", k)
    BY <2>2 DEF Held
  <2>5. StoreHolds(k1, w)
    BY <1>2, <1>6, <2>2, <2>3, <2>4 DEF StoreHolds
  <2>6. PICK s : s = Submit(c, Step(k1, {}))
    OBVIOUS
  <2>7. p # None
    <3>1. r \in Nat /\ x \in Seq(Records) /\ <<c, k.sent + 1>> \in Client \X Nat
      BY <1>3, <1>6 DEF EditFits
    <3>2. b \in [revision : Nat, mutation : Client \X Nat, sets : Seq(Records)]
      BY <1>6, <3>1
    <3>3. p \in Pending
      BY <1>6, <3>2 DEF Pending
    <3> QED BY <3>3, PendingAssumption
  <2>8. Sends(c, k, s.k, s.out, w)
    BY <1>6, <2>2, <2>3, <2>4, <2>5, <2>6, <2>7, SubmitSends
  <2> QED BY <1>4, <1>6, <2>1, <2>6, <2>8
<1>7. ASSUME NEW k1, Take(c, Bootstrap(c, Step(k1, {})), {}), UNCHANGED db,
             DOMAIN k1 = ClientFields, \A f \in ClientFields \ {"retrying"} : k1[f] = k[f]
      PROVE  WriteInv'
  <2>1. /\ k1.sent = k.sent /\ k1.workspaces = k.workspaces /\ k1.browser = k.browser
        /\ k1.patch = k.patch /\ k1.body = k.body /\ k1.pending = k.pending
    BY <1>7 DEF ClientFields
  <2>2. StoreHolds(k1, w) /\ \A kind \in Writes : Held(kind, k1) \subseteq Held(kind, k)
    BY <1>2, <1>3, <1>7, <2>1, HoldsStill
  <2>3. PICK s : s = Bootstrap(c, Step(k1, {}))
    OBVIOUS
  <2>4. Sends(c, k1, s.k, s.out, w)
    BY <2>2, <2>3, BootstrapSends
  <2>5. Sends(c, k, s.k, s.out, w)
    BY <2>1, <2>2, <2>4, SendsFrom
  <2> QED BY <1>4, <1>7, <2>3, <2>5
<1>8. CASE Load(c)
  BY <1>1, <1>3, <1>7, <1>8 DEF Load
<1>9. ASSUME NEW id \in SetId, NEW e \in Experiment, NEW r \in 0 .. client[c].workspaces.revision, Save(c, id, e, r)
      PROVE  WriteInv'
  <2>1. PICK record, others, b :
          /\ record = Record(id, e) /\ others = Without(k.workspaces.sets, id)
          /\ b = [revision |-> r, mutation |-> <<c, k.sent + 1>>, sets |-> Append(others, record)]
    OBVIOUS
  <2>2. PICK p : p = [body |-> b, edit |-> id, record |-> record]
    OBVIOUS
  <2>3. UNCHANGED db /\ Take(c, Submit(c, Step([k EXCEPT !.pending = p, !.conflict = FALSE], {})), {})
    BY <1>1, <1>9, <2>1, <2>2 DEF Save
  <2>4. record \in Records /\ record.id = id
    BY <2>1, RecordsAreCalled
  <2>5. /\ k.workspaces.sets \in Seq(Records) /\ k.workspaces.revision \in Nat
        /\ k.workspaces.revision <= w.revision
        /\ k.workspaces.revision = w.revision => k.workspaces.sets = w.sets
    BY <1>3 DEF Follows
  <2>6. others \in Seq(Records) /\ Others(others, id) = Others(k.workspaces.sets, id)
    BY <2>1, <2>5, WithoutOthers
  <2>7. b.sets \in Seq(Records) /\ Others(b.sets, id) = Others(k.workspaces.sets, id)
    <3>1. b.sets = Append(others, record)
      BY <2>1
    <3> QED BY <2>4, <2>6, <3>1, AppendedOthers
  <2>8. b.revision = r /\ b.mutation = <<c, k.sent + 1>> /\ DOMAIN b = {"revision", "mutation", "sets"}
    BY <2>1
  <2>9. EditFits(b, id, w)
    <3>1. r \in Nat /\ r <= w.revision /\ (r = w.revision => k.workspaces.sets = w.sets)
      <4>1. RowAsAsked("workspaces", w)
        BY <1>1 DEF WriteInv, WritesFit, Writes, RowsOf
      <4>2. w.revision \in Nat
        BY <4>1 DEF RowAsAsked
      <4>3. r \in 0 .. k.workspaces.revision
        BY <1>1
      <4> QED BY <2>5, <4>2, <4>3
    <3> HIDE <2>1
    <3> QED BY <2>7, <2>8, <3>1 DEF EditFits
  <2> QED BY <1>6, <2>1, <2>2, <2>3, <2>4, <2>8, <2>9
<1>10. ASSUME NEW id \in SetId, Remove(c, id)
       PROVE  WriteInv'
  <2>1. PICK b : b = [revision |-> k.workspaces.revision, mutation |-> <<c, k.sent + 1>>,
                      sets |-> Without(k.workspaces.sets, id)]
    OBVIOUS
  <2>2. PICK p : p = [body |-> b, edit |-> id, record |-> None]
    OBVIOUS
  <2>3. UNCHANGED db /\ Take(c, Submit(c, Step([k EXCEPT !.pending = p, !.conflict = FALSE], {})), {})
    BY <1>1, <1>10, <2>1, <2>2 DEF Remove
  <2>4. /\ b.revision = k.workspaces.revision /\ b.mutation = <<c, k.sent + 1>>
        /\ b.sets = Without(k.workspaces.sets, id) /\ DOMAIN b = {"revision", "mutation", "sets"}
    BY <2>1
  <2>5. EditFits(b, id, w)
    <3> HIDE <2>1
    <3> QED BY <1>3, <2>4, WithoutOthers DEF Follows, EditFits
  <2> QED BY <1>6, <2>1, <2>2, <2>3, <2>4, <2>5
<1>11. CASE RetrySave(c)
  BY <1>1, <1>3, <1>5, <1>11 DEF RetrySave
<1>12. ASSUME NEW theme \in Themes, ChooseTheme(c, theme)
       PROVE  WriteInv'
  <2>1. PICK s : s = UpdateBrowser(c, Step(k, {}), [theme |-> theme])
    OBVIOUS
  <2>2. Take(c, s, {}) /\ UNCHANGED db
    BY <1>1, <1>12, <2>1 DEF ChooseTheme
  <2> QED BY <1>2, <1>4, <2>1, <2>2, UpdateSends
<1>13. ASSUME NEW e \in Experiment, NEW id \in SetId \cup {None}, Select(c, e, id)
       PROVE  WriteInv'
  <2>1. PICK p : Take(c, UpdateBrowser(c, Step(k, {}), p), {}) /\ UNCHANGED db
    BY <1>1, <1>13 DEF Select
  <2>2. PICK s : s = UpdateBrowser(c, Step(k, {}), p)
    OBVIOUS
  <2> QED BY <1>2, <1>4, <2>1, <2>2, UpdateSends
<1>14. CASE RetryAll(c)
  <2>1. PICK k1 : k1 = [k EXCEPT !.retrying = TRUE]
    OBVIOUS
  <2>2. DOMAIN k1 = ClientFields /\ \A f \in ClientFields \ {"retrying"} : k1[f] = k[f]
    BY <1>3, <2>1 DEF ClientFields
  <2>3. k1.pending = k.pending
    BY <2>2 DEF ClientFields
  <2>4. /\ \/ Take(c, Submit(c, Step(k1, {})), {}) /\ k1.pending # None
           \/ Take(c, Bootstrap(c, Step(k1, {})), {})
        /\ UNCHANGED db
    BY <1>1, <1>14, <2>1 DEF RetryAll
  <2> QED BY <1>5, <1>7, <2>2, <2>3, <2>4
<1> QED BY <1>8, <1>9, <1>10, <1>11, <1>12, <1>13, <1>14

LEMMA StateAnswerWrites ==
  ASSUME WriteInv, NEW c \in Client, NEW m \in net, Receive(c, m), m.kind = "state"
  PROVE  WriteInv'
<1>1. PICK k0, w, k : k0 = client[c] /\ w = db.workspaces /\ k = Settled(k0)
  OBVIOUS
<1>2. StoreHolds(k0, w) /\ MessageHolds(m, w)
  BY <1>1 DEF WriteInv, WritesFit
<1>3. DOMAIN k0 = ClientFields /\ k0.sent \in Nat /\ Follows(k0.workspaces, w) /\ PreferenceFields \subseteq DOMAIN k0.browser
  BY <1>2 DEF StoreHolds
<1>4. m.to = c /\ StateAnswer(c, m) /\ UNCHANGED db /\ c # "server"
  BY ClientAssumption DEF Receive
<1>5. /\ DOMAIN k = ClientFields /\ k.sent = k0.sent /\ k.workspaces = k0.workspaces
      /\ k.browser = k0.browser /\ k.pending = k0.pending /\ k.patch = k0.patch /\ k.body = k0.body
  BY <1>1, <1>3 DEF Settled, ClientFields
<1>6. ASSUME NEW s, Take(c, s, {m}), NEW k2, k2.sent = k0.sent,
             \A kind \in Writes : Held(kind, k2) \subseteq Held(kind, k0), Sends(c, k2, s.k, s.out, w)
      PROVE  WriteInv'
  BY <1>1, <1>4, <1>6, SendsFrom, TakeWrites
<1>7. ASSUME NEW k2, DOMAIN k2 = ClientFields, k2.sent = k.sent, Follows(k2.workspaces, w),
             PreferenceFields \subseteq DOMAIN k2.browser, k2.pending = k.pending, k2.patch = k.patch,
             k2.body = k.body
      PROVE  StoreHolds(k2, w) /\ \A kind \in Writes : Held(kind, k2) \subseteq Held(kind, k0)
  BY <1>2, <1>3, <1>5, <1>7, HoldsStill
<1>8. CASE m.status = 200
  <2>1. PICK v : v = m.value
    OBVIOUS
  <2>2. Follows(v.workspaces, w) /\ PreferenceFields \subseteq DOMAIN v.browser
    BY <1>2, <1>4, <1>8, <2>1 DEF MessageHolds
  <2> DEFINE adopted ==
        [k EXCEPT !.cookie = v.cookie, !.ready = TRUE,
                  !.workspaces = IF v.workspaces.revision >= @.revision THEN v.workspaces ELSE @,
                  !.browser = IF k.writing = None /\ k.patch = NoPatch
                                   /\ v.browser.revision >= @.revision
                              THEN v.browser ELSE @]
  <2>3. Take(c, Flush(c, Step(Resume(adopted), {})), {m})
    BY <1>1, <1>4, <1>8, <2>1 DEF StateAnswer
  <2>4. PICK a : a = adopted
    OBVIOUS
  <2>5. /\ DOMAIN a = ClientFields /\ a.sent = k.sent /\ a.pending = k.pending /\ a.patch = k.patch
        /\ a.body = k.body /\ a.workspaces \in {v.workspaces, k.workspaces}
        /\ a.browser \in {v.browser, k.browser}
    BY <1>5, <2>4 DEF ClientFields
  <2>6. PICK k2 : k2 = Resume(a)
    OBVIOUS
  <2>7. \/ k2 = a
        \/ \E q : k2 = [a EXCEPT !.queued = q, !.failed = FALSE, !.retrying = FALSE]
    BY <2>6 DEF Resume
  <2>8. /\ DOMAIN k2 = ClientFields /\ k2.sent = k.sent /\ k2.pending = k.pending /\ k2.patch = k.patch
        /\ k2.body = k.body /\ k2.workspaces = a.workspaces /\ k2.browser = a.browser
    BY <2>5, <2>7 DEF ClientFields
  <2>9. Follows(k2.workspaces, w) /\ PreferenceFields \subseteq DOMAIN k2.browser
    BY <1>3, <1>5, <2>2, <2>5, <2>8
  <2>10. StoreHolds(k2, w) /\ \A kind \in Writes : Held(kind, k2) \subseteq Held(kind, k0)
    BY <1>7, <2>8, <2>9
  <2>11. PICK s : s = Flush(c, Step(k2, {}))
    OBVIOUS
  <2>12. Take(c, s, {m})
    BY <2>3, <2>4, <2>6, <2>11
  <2> HIDE DEF adopted
  <2>13. Sends(c, k2, s.k, s.out, w)
    BY <2>10, <2>11, FlushSends
  <2> QED BY <1>5, <1>6, <2>8, <2>10, <2>12, <2>13
<1>9. CASE m.status # 200
  <2>1. PICK k2, s : k2 = [k EXCEPT !.retrying = FALSE] /\ s = Step(k2, {})
    OBVIOUS
  <2>2. Take(c, s, {m})
    BY <1>1, <1>4, <1>9, <2>1 DEF StateAnswer
  <2>3. /\ DOMAIN k2 = ClientFields /\ k2.sent = k.sent /\ k2.pending = k.pending /\ k2.patch = k.patch
        /\ k2.body = k.body /\ k2.workspaces = k.workspaces /\ k2.browser = k.browser
    BY <1>5, <2>1 DEF ClientFields
  <2>4. StoreHolds(k2, w) /\ \A kind \in Writes : Held(kind, k2) \subseteq Held(kind, k0)
    BY <1>3, <1>5, <1>7, <2>3
  <2>5. Sends(c, k2, s.k, s.out, w)
    BY <2>1, <2>4, SendsNothing
  <2> QED BY <1>5, <1>6, <2>2, <2>3, <2>4, <2>5
<1> QED BY <1>8, <1>9

LEMMA WorkspaceAnswerWrites ==
  ASSUME WriteInv, NEW c \in Client, NEW m \in net, Receive(c, m), m.kind = "workspaces"
  PROVE  WriteInv'
<1>1. PICK k, w : k = client[c] /\ w = db.workspaces
  OBVIOUS
<1>2. StoreHolds(k, w) /\ MessageHolds(m, w)
  BY <1>1 DEF WriteInv, WritesFit
<1>3. DOMAIN k = ClientFields /\ k.sent \in Nat /\ Follows(k.workspaces, w) /\ PreferenceFields \subseteq DOMAIN k.browser
  BY <1>2 DEF StoreHolds
<1>4. m.to = c /\ WorkspaceAnswer(c, m) /\ UNCHANGED db /\ c # "server"
  BY ClientAssumption DEF Receive
<1>5. ASSUME NEW s, Take(c, s, {m}), NEW k2, k2.sent = k.sent,
             \A kind \in Writes : Held(kind, k2) \subseteq Held(kind, k), Sends(c, k2, s.k, s.out, w)
      PROVE  WriteInv'
  BY <1>1, <1>4, <1>5, SendsFrom, TakeWrites
<1>6. ASSUME NEW k2, DOMAIN k2 = ClientFields, k2.sent = k.sent, Follows(k2.workspaces, w),
             k2.browser = k.browser, k2.pending = None, k2.patch = k.patch, k2.body = k.body
      PROVE  StoreHolds(k2, w) /\ \A kind \in Writes : Held(kind, k2) \subseteq Held(kind, k)
  BY <1>2, <1>3, <1>6, HoldsStill
<1> DEFINE newer == IF m.value.revision >= k.workspaces.revision THEN m.value ELSE k.workspaces
           done == [k EXCEPT !.workspaces = newer, !.pending = None, !.conflict = FALSE]
           record == k.pending.record
           choice == Merge(Shown(done).selected, [e \in {record.experimentId} |-> record.id])
           none == Step([k EXCEPT !.workspaces = newer, !.conflict = TRUE, !.pending = None,
                                  !.saving = None, !.retrying = FALSE], {})
           refused == Step([k EXCEPT !.pending = None, !.saving = None, !.retrying = FALSE], {})
<1>7. \/ /\ m.status \in {200, 409}
         /\ \/ Take(c, UpdateBrowser(c, Step([done EXCEPT !.saving = Draining], {}), [selected |-> choice]), {m})
            \/ Take(c, Bootstrap(c, Step([done EXCEPT !.saving = Booting], {})), {m})
            \/ Take(c, none, {m})
      \/ Take(c, refused, {m})
  BY <1>1, <1>4 DEF WorkspaceAnswer
<1>8. m.status \in {200, 409} => Follows(newer, w)
  BY <1>2, <1>3, <1>4 DEF MessageHolds
<1> HIDE DEF newer, choice
<1>9. PICK d : d = done
  OBVIOUS
<1>10. /\ DOMAIN d = ClientFields /\ d.sent = k.sent /\ d.browser = k.browser /\ d.pending = None
       /\ d.patch = k.patch /\ d.body = k.body /\ d.workspaces = newer
  BY <1>3, <1>9 DEF ClientFields
<1>11. ASSUME NEW x, NEW k2, k2 = [d EXCEPT !.saving = x], m.status \in {200, 409}
       PROVE  k2.sent = k.sent /\ StoreHolds(k2, w) /\ \A kind \in Writes : Held(kind, k2) \subseteq Held(kind, k)
  <2>1. /\ DOMAIN k2 = ClientFields /\ k2.sent = k.sent /\ k2.browser = k.browser /\ k2.pending = None
        /\ k2.patch = k.patch /\ k2.body = k.body /\ k2.workspaces = newer
    BY <1>10, <1>11 DEF ClientFields
  <2> QED BY <1>6, <1>8, <1>11, <2>1
<1>12. CASE /\ m.status \in {200, 409}
            /\ Take(c, UpdateBrowser(c, Step([d EXCEPT !.saving = Draining], {}), [selected |-> choice]), {m})
  <2>1. PICK k2 : k2 = [d EXCEPT !.saving = Draining]
    OBVIOUS
  <2>2. PICK s : s = UpdateBrowser(c, Step(k2, {}), [selected |-> choice])
    OBVIOUS
  <2>3. Sends(c, k2, s.k, s.out, w)
    BY <1>11, <1>12, <2>1, <2>2, UpdateSends
  <2>4. Take(c, s, {m})
    BY <1>12, <2>1, <2>2
  <2> QED BY <1>5, <1>11, <1>12, <2>1, <2>3, <2>4
<1>13. CASE m.status \in {200, 409} /\ Take(c, Bootstrap(c, Step([d EXCEPT !.saving = Booting], {})), {m})
  <2>1. PICK k2 : k2 = [d EXCEPT !.saving = Booting]
    OBVIOUS
  <2>2. PICK s : s = Bootstrap(c, Step(k2, {}))
    OBVIOUS
  <2>3. Sends(c, k2, s.k, s.out, w)
    BY <1>11, <1>13, <2>1, <2>2, BootstrapSends
  <2>4. Take(c, s, {m})
    BY <1>13, <2>1, <2>2
  <2> QED BY <1>5, <1>11, <1>13, <2>1, <2>3, <2>4
<1>14. CASE m.status \in {200, 409} /\ Take(c, none, {m})
  <2>1. PICK k2 : k2 = [k EXCEPT !.workspaces = newer, !.conflict = TRUE, !.pending = None,
                                 !.saving = None, !.retrying = FALSE]
    OBVIOUS
  <2>2. /\ DOMAIN k2 = ClientFields /\ k2.sent = k.sent /\ k2.browser = k.browser /\ k2.pending = None
        /\ k2.patch = k.patch /\ k2.body = k.body /\ k2.workspaces = newer
    BY <1>3, <2>1 DEF ClientFields
  <2>3. StoreHolds(k2, w) /\ \A kind \in Writes : Held(kind, k2) \subseteq Held(kind, k)
    BY <1>6, <1>8, <1>14, <2>2
  <2>4. PICK s : s = Step(k2, {})
    OBVIOUS
  <2>5. Sends(c, k2, s.k, s.out, w)
    BY <2>3, <2>4, SendsNothing
  <2>6. Take(c, s, {m})
    BY <1>14, <2>1, <2>4
  <2> QED BY <1>5, <2>2, <2>3, <2>5, <2>6
<1>15. CASE Take(c, refused, {m})
  <2>1. PICK k2 : k2 = [k EXCEPT !.pending = None, !.saving = None, !.retrying = FALSE]
    OBVIOUS
  <2>2. /\ DOMAIN k2 = ClientFields /\ k2.sent = k.sent /\ k2.browser = k.browser /\ k2.pending = None
        /\ k2.patch = k.patch /\ k2.body = k.body /\ k2.workspaces = k.workspaces
    BY <1>3, <2>1 DEF ClientFields
  <2>3. StoreHolds(k2, w) /\ \A kind \in Writes : Held(kind, k2) \subseteq Held(kind, k)
    BY <1>3, <1>6, <2>2
  <2>4. PICK s : s = Step(k2, {})
    OBVIOUS
  <2>5. Sends(c, k2, s.k, s.out, w)
    BY <2>3, <2>4, SendsNothing
  <2>6. Take(c, s, {m})
    BY <1>15, <2>1, <2>4
  <2> QED BY <1>5, <2>2, <2>3, <2>5, <2>6
<1> QED BY <1>7, <1>9, <1>12, <1>13, <1>14, <1>15

LEMMA BrowserAnswerWrites ==
  ASSUME SettingsInv, WriteInv, NEW c \in Client, NEW m \in net, Receive(c, m), m.kind = "browser"
  PROVE  WriteInv'
<1>1. PICK k0, w : k0 = client[c] /\ w = db.workspaces
  OBVIOUS
<1>2. StoreHolds(k0, w) /\ MessageHolds(m, w)
  BY <1>1 DEF WriteInv, WritesFit
<1>3. DOMAIN k0 = ClientFields /\ k0.sent \in Nat /\ Follows(k0.workspaces, w) /\ PreferenceFields \subseteq DOMAIN k0.browser
  BY <1>2 DEF StoreHolds
<1>4. m.to = c /\ BrowserAnswer(c, m) /\ UNCHANGED db /\ c # "server"
  BY ClientAssumption DEF Receive
<1>5. m.status \in Statuses
  BY <1>4 DEF SettingsInv, OfAKind
<1>6. PICK k : k = [k0 EXCEPT !.writing = None]
  OBVIOUS
<1>7. /\ DOMAIN k = ClientFields /\ k.sent = k0.sent /\ k.workspaces = k0.workspaces
      /\ k.browser = k0.browser /\ k.pending = k0.pending /\ k.patch = k0.patch /\ k.body = k0.body
  BY <1>3, <1>6 DEF ClientFields
<1>8. ASSUME NEW k2, Take(c, Flush(c, Step(k2, {})), {m}), DOMAIN k2 = ClientFields,
             k2.sent = k.sent, k2.workspaces = k.workspaces, k2.pending = k.pending,
             k2.patch = NoPatch, PreferenceFields \subseteq DOMAIN k2.browser
      PROVE  WriteInv'
  <2>1. StoreHolds(k2, w) /\ \A kind \in Writes : Held(kind, k2) \subseteq Held(kind, k0)
    BY <1>2, <1>3, <1>7, <1>8, HoldsStill
  <2>2. PICK s : s = Flush(c, Step(k2, {}))
    OBVIOUS
  <2>3. Sends(c, k2, s.k, s.out, w)
    BY <2>1, <2>2, FlushSends
  <2>4. Sends(c, k0, s.k, s.out, w)
    BY <1>7, <1>8, <2>1, <2>3, SendsFrom
  <2> QED BY <1>1, <1>4, <1>8, <2>2, <2>4, TakeWrites
<1>9. PICK r : r = [k EXCEPT !.failed = TRUE, !.patch = NoPatch, !.body = None, !.queued = Merge(k.patch, @)]
  OBVIOUS
<1>10. Requeued(k) = r
  BY <1>9 DEF Requeued
<1>11. /\ DOMAIN r = ClientFields /\ r.sent = k.sent /\ r.workspaces = k.workspaces
       /\ r.pending = k.pending /\ r.patch = NoPatch /\ r.browser = k.browser
  BY <1>7, <1>9 DEF ClientFields
<1>12. m.status \in {200, 409} => PreferenceFields \subseteq DOMAIN m.value
  BY <1>2, <1>4 DEF MessageHolds
<1>13. CASE m.status = 200
  <2>1. PICK k2 : k2 = [k EXCEPT !.browser = m.value, !.patch = NoPatch, !.body = None]
    OBVIOUS
  <2>2. Take(c, Flush(c, Step(k2, {})), {m})
    BY <1>1, <1>4, <1>6, <1>13, <2>1 DEF BrowserAnswer
  <2>3. /\ DOMAIN k2 = ClientFields /\ k2.sent = k.sent /\ k2.workspaces = k.workspaces
        /\ k2.pending = k.pending /\ k2.patch = NoPatch /\ k2.browser = m.value
    BY <1>7, <2>1 DEF ClientFields
  <2> QED BY <1>8, <1>12, <1>13, <2>2, <2>3
<1>14. CASE m.status = 409
  <2>1. PICK k2 : k2 = [r EXCEPT !.browser = m.value]
    OBVIOUS
  <2>2. Take(c, Flush(c, Step(k2, {})), {m})
    BY <1>1, <1>4, <1>6, <1>10, <1>14, <2>1 DEF BrowserAnswer
  <2>3. /\ DOMAIN k2 = ClientFields /\ k2.sent = k.sent /\ k2.workspaces = k.workspaces
        /\ k2.pending = k.pending /\ k2.patch = NoPatch /\ k2.browser = m.value
    BY <1>11, <2>1 DEF ClientFields
  <2> QED BY <1>8, <1>12, <1>14, <2>2, <2>3
<1>15. CASE m.status = 400
  <2>1. Take(c, Flush(c, Step(r, {})), {m})
    BY <1>1, <1>4, <1>6, <1>10, <1>15 DEF BrowserAnswer
  <2> QED BY <1>3, <1>7, <1>8, <1>11, <2>1
<1> QED BY <1>5, <1>13, <1>14, <1>15 DEF Statuses

LEMMA GiveUpWrites ==
  ASSUME WriteInv, NEW c \in Client, GiveUp(c)
  PROVE  WriteInv'
<1>1. PICK k, w : k = client[c] /\ w = db.workspaces
  OBVIOUS
<1>2. StoreHolds(k, w)
  BY <1>1 DEF WriteInv, WritesFit
<1>3. DOMAIN k = ClientFields /\ k.sent \in Nat /\ Follows(k.workspaces, w) /\ PreferenceFields \subseteq DOMAIN k.browser
  BY <1>2 DEF StoreHolds
<1>4. UNCHANGED db
  BY DEF GiveUp
<1>5. ASSUME NEW k2, DOMAIN k2 = ClientFields, k2.sent = k.sent, k2.workspaces = k.workspaces,
             k2.browser = k.browser, k2.pending = k.pending, k2.patch = k.patch, k2.body = k.body
      PROVE  StoreHolds(k2, w) /\ \A kind \in Writes : Held(kind, k2) \subseteq Held(kind, k)
  BY <1>2, <1>3, <1>5, HoldsStill
<1>6. ASSUME NEW s, NEW gone, Take(c, s, gone), Sends(c, k, s.k, s.out, w)
      PROVE  WriteInv'
  BY <1>1, <1>4, <1>6, TakeWrites
<1> DEFINE answers(kind) == {m \in net : m.to = c /\ m.kind = kind}
<1>7. \/ Take(c, Step([Settled(k) EXCEPT !.retrying = FALSE], {}), answers("state"))
      \/ Take(c, Step([k EXCEPT !.saving = None, !.retrying = FALSE], {}), answers("workspaces"))
      \/ Take(c, Flush(c, Step([k EXCEPT !.writing = None, !.failed = TRUE], {})), answers("browser"))
  BY <1>1 DEF GiveUp
<1> HIDE DEF answers
<1>8. CASE Take(c, Step([Settled(k) EXCEPT !.retrying = FALSE], {}), answers("state"))
  <2>1. PICK k1 : k1 = Settled(k)
    OBVIOUS
  <2>2. PICK k2 : k2 = [k1 EXCEPT !.retrying = FALSE]
    OBVIOUS
  <2>3. /\ DOMAIN k1 = ClientFields /\ k1.sent = k.sent /\ k1.workspaces = k.workspaces
        /\ k1.browser = k.browser /\ k1.pending = k.pending /\ k1.patch = k.patch /\ k1.body = k.body
    BY <1>3, <2>1 DEF Settled, ClientFields
  <2>4. /\ DOMAIN k2 = ClientFields /\ k2.sent = k.sent /\ k2.workspaces = k.workspaces
        /\ k2.browser = k.browser /\ k2.pending = k.pending /\ k2.patch = k.patch /\ k2.body = k.body
    BY <2>2, <2>3 DEF ClientFields
  <2>5. StoreHolds(k2, w) /\ \A kind \in Writes : Held(kind, k2) \subseteq Held(kind, k)
    BY <1>5, <2>4
  <2>6. PICK s : s = Step(k2, {})
    OBVIOUS
  <2>7. Sends(c, k, s.k, s.out, w)
    BY <1>2, <2>4, <2>5, <2>6, SendsNothing
  <2> QED BY <1>6, <1>8, <2>1, <2>2, <2>6, <2>7
<1>9. CASE Take(c, Step([k EXCEPT !.saving = None, !.retrying = FALSE], {}), answers("workspaces"))
  <2>1. PICK k2 : k2 = [k EXCEPT !.saving = None, !.retrying = FALSE]
    OBVIOUS
  <2>2. /\ DOMAIN k2 = ClientFields /\ k2.sent = k.sent /\ k2.workspaces = k.workspaces
        /\ k2.browser = k.browser /\ k2.pending = k.pending /\ k2.patch = k.patch /\ k2.body = k.body
    BY <1>3, <2>1 DEF ClientFields
  <2>3. StoreHolds(k2, w) /\ \A kind \in Writes : Held(kind, k2) \subseteq Held(kind, k)
    BY <1>5, <2>2
  <2>4. PICK s : s = Step(k2, {})
    OBVIOUS
  <2>5. Sends(c, k, s.k, s.out, w)
    BY <1>2, <2>2, <2>3, <2>4, SendsNothing
  <2> QED BY <1>6, <1>9, <2>1, <2>4, <2>5
<1>10. CASE Take(c, Flush(c, Step([k EXCEPT !.writing = None, !.failed = TRUE], {})), answers("browser"))
  <2>1. PICK k2 : k2 = [k EXCEPT !.writing = None, !.failed = TRUE]
    OBVIOUS
  <2>2. /\ DOMAIN k2 = ClientFields /\ k2.sent = k.sent /\ k2.workspaces = k.workspaces
        /\ k2.browser = k.browser /\ k2.pending = k.pending /\ k2.patch = k.patch /\ k2.body = k.body
    BY <1>3, <2>1 DEF ClientFields
  <2>3. StoreHolds(k2, w) /\ \A kind \in Writes : Held(kind, k2) \subseteq Held(kind, k)
    BY <1>5, <2>2
  <2>4. PICK s : s = Flush(c, Step(k2, {}))
    OBVIOUS
  <2>5. Sends(c, k2, s.k, s.out, w)
    BY <2>3, <2>4, FlushSends
  <2>6. Sends(c, k, s.k, s.out, w)
    BY <2>2, <2>3, <2>5, SendsFrom
  <2> QED BY <1>6, <1>10, <2>1, <2>4, <2>6
<1> QED BY <1>7, <1>8, <1>9, <1>10

-------------------------------------------------------------------------------
(* The steps of the server: the document w becomes w2.                     *)
Later(w, w2) ==
  /\ w.revision \in Nat /\ w2.revision \in Nat /\ w.revision <= w2.revision
  /\ w.revision = w2.revision => w.sets = w2.sets

LEMMA LaterHolds ==
  ASSUME NEW w, NEW w2, Later(w, w2)
  PROVE  /\ \A v : Follows(v, w) => Follows(v, w2)
         /\ \A b, edit : EditFits(b, edit, w) => EditFits(b, edit, w2)
         /\ \A k : StoreHolds(k, w) => StoreHolds(k, w2)
         /\ \A m : MessageHolds(m, w) => MessageHolds(m, w2)
<1>1. ASSUME NEW v, Follows(v, w)
      PROVE  Follows(v, w2)
  BY <1>1 DEF Follows, Later
<1>2. ASSUME NEW b, NEW edit, EditFits(b, edit, w)
      PROVE  EditFits(b, edit, w2)
  BY <1>2 DEF EditFits, Later
<1>3. \A k : StoreHolds(k, w) => StoreHolds(k, w2)
  BY <1>1, <1>2 DEF StoreHolds
<1>4. \A m : MessageHolds(m, w) => MessageHolds(m, w2)
  BY <1>1, <1>2 DEF MessageHolds
<1> QED BY <1>1, <1>2, <1>3, <1>4

LEMMA DocumentFollows ==
  ASSUME NEW w, RowAsAsked("workspaces", w)
  PROVE  Follows(WorkspaceDocument(w), w) /\ Later(w, w)
<1>1. w.revision \in Nat /\ w.sets \in Seq(Records)
  BY DEF RowAsAsked
<1>2. PICK v : v = WorkspaceDocument(w)
  OBVIOUS
<1>3. v.revision = w.revision /\ v.sets = w.sets
  BY <1>2 DEF WorkspaceDocument
<1> QED BY <1>1, <1>2, <1>3 DEF Follows, Later

(* A save answered: what the document w becomes, and what the rows do.     *)
SaveReply(w, rows, b, r, w2, rows2) ==
  /\ Later(w, w2) /\ RowAsAsked("workspaces", w2)
  /\ w2 = w \/ (w2.mutation = b.mutation /\ w2.payload = Input("workspaces", b))
  /\ \A row \in Range(rows2) :
       RowAsAsked("browser", row) /\ (row \in Range(rows) \/ row.mutation = None)
  /\ r.status \in {200, 409} => Follows(r.value, w2)
  /\ r.status = 200 => w2.sets = b.sets
  /\ r.status = 409 => b.mutation # w.mutation
  /\ w2.sets # w.sets => b.revision = w.revision /\ w2.sets = b.sets

LEMMA PrunedAsAsked ==
  ASSUME NEW row, RowAsAsked("browser", row), NEW sets, NEW new, new = PruneRow(row, sets)
  PROVE  RowAsAsked("browser", new) /\ (new = row \/ new.mutation = None)
<1>1. CASE new = row
  BY <1>1
<1>2. CASE new # row
  <2>1. PICK s, n : new = [row EXCEPT !.selected = s, !.revision = n, !.mutation = None, !.payload = None]
    BY <1>2 DEF PruneRow
  <2>2. DOMAIN row = DOMAIN DefaultPreferences /\ "mutation" \in DOMAIN DefaultPreferences
    BY DEF RowAsAsked, DefaultPreferences
  <2>3. DOMAIN new = DOMAIN row /\ new.mutation = None
    BY <2>1, <2>2
  <2> QED BY <2>2, <2>3 DEF RowAsAsked
<1> QED BY <1>1, <1>2

LEMMA WorkspacesAnswered ==
  ASSUME NEW d, TablesFit(d), NEW w, w = d.workspaces, RowAsAsked("workspaces", w),
         NEW rows, rows = d.browsers, \A x \in Range(rows) : RowAsAsked("browser", x),
         NEW b, DOMAIN b = {"revision", "mutation", "sets"}, b.sets \in Seq(Records),
         w.mutation # None /\ w.mutation = b.mutation => w.payload = Input("workspaces", b),
         NEW id, NEW r, r = PutWorkspaces(d, id, b)
  PROVE  SaveReply(w, rows, b, r, r.db.workspaces, r.db.browsers)
<1>1. w.revision \in Nat /\ w.sets \in Seq(Records)
  BY DEF RowAsAsked
<1>2. Follows(WorkspaceDocument(w), w) /\ Later(w, w)
  BY DocumentFollows
<1>3. CASE r = Refused(d)
  <2>1. r.db = d /\ r.status = 400
    BY <1>3, ReplyFields
  <2> QED BY <1>2, <2>1 DEF SaveReply
<1>4. CASE r # Refused(d)
  <2>1. PICK D : D = Each(b.sets, DecodeSet)
    OBVIOUS
  <2>2. PICK input : input = [b EXCEPT !.sets = D]
    OBVIOUS
  <2>3. D # Invalid /\ r = SaveWorkspaces(d, id, input)
    BY <1>4, <2>1, <2>2 DEF PutWorkspaces
  <2>4. /\ input.sets = D /\ input.revision = b.revision /\ input.mutation = b.mutation
        /\ input = Input("workspaces", b)
    BY <2>1, <2>2 DEF Input
  <2>5. PICK stored : stored = Each(input.sets, EncodeSet)
    OBVIOUS
  <2>6. stored = b.sets
    BY <2>1, <2>3, <2>4, <2>5, StoredAsSent
  <2> DEFINE changed == w.sets # stored
  <2>7. PICK pruned, next :
          /\ pruned = IF changed THEN PruneSelections(rows, stored) ELSE rows
          /\ next = [revision |-> IF changed THEN w.revision + 1 ELSE w.revision,
                     sets |-> stored, mutation |-> input.mutation, payload |-> input]
    OBVIOUS
  <2>8. /\ ValidWorkspaces(input)
        /\ \/ r = Conflict(d, WorkspaceDocument(w)) /\ Reused(w, input)
           \/ r = Reply(d, 200, WorkspaceDocument(w)) /\ Retry(w, input)
           \/ /\ ~Reused(w, input) /\ ~Retry(w, input)
              /\ r = Conflict(d, WorkspaceDocument(w))
           \/ /\ RevisionMatches(w, input)
              /\ r = Reply([d EXCEPT !.workspaces = next, !.browsers = pruned], 200, WorkspaceDocument(next))
    BY <1>4, <2>3, <2>5, <2>7 DEF SaveWorkspaces
  <2>9. b.mutation # None
    BY <2>4, <2>8, BrowserAssumption DEF ValidWorkspaces
  <2>10. ~Reused(w, input)
    BY <2>4, <2>9 DEF Reused
  <2>11. CASE r = Conflict(d, WorkspaceDocument(w)) /\ ~Retry(w, input)
    <3>1. r.db = d /\ r.status = 409 /\ r.value = WorkspaceDocument(w)
      BY <2>11, ReplyFields
    <3>2. b.mutation # w.mutation
      BY <2>4, <2>10, <2>11 DEF Reused, Retry
    <3> QED BY <1>2, <3>1, <3>2 DEF SaveReply
  <2>12. CASE r = Reply(d, 200, WorkspaceDocument(w)) /\ Retry(w, input)
    <3>1. r.db = d /\ r.status = 200 /\ r.value = WorkspaceDocument(w)
      BY <2>12, ReplyFields
    <3>2. w.sets = b.sets
      BY <2>4, <2>5, <2>6, <2>9, <2>12 DEF Retry, RowAsAsked
    <3> QED BY <1>2, <3>1, <3>2 DEF SaveReply
  <2>13. CASE /\ RevisionMatches(w, input)
              /\ r = Reply([d EXCEPT !.workspaces = next, !.browsers = pruned], 200, WorkspaceDocument(next))
    <3>1. PICK d2 : d2 = [d EXCEPT !.workspaces = next, !.browsers = pruned]
      OBVIOUS
    <3>2. d2 = [workspaces |-> next, browsers |-> pruned]
      BY <3>1, OtherTables
    <3>3. d2.workspaces = next /\ d2.browsers = pruned
      BY <3>2
    <3>4. r.db = d2 /\ r.status = 200 /\ r.value = WorkspaceDocument(next)
      BY <2>13, <3>1, ReplyFields
    <3>5. /\ next.revision = (IF changed THEN w.revision + 1 ELSE w.revision)
          /\ next.sets = stored /\ next.mutation = b.mutation /\ next.payload = input
          /\ DOMAIN next = {"revision", "sets", "mutation", "payload"}
      BY <2>4, <2>7
    <3> HIDE <2>7
    <3>6. RowAsAsked("workspaces", next)
      <4>1. next.revision \in Nat
        BY <1>1, <3>5
      <4>2. next.sets \in Seq(Records)
        BY <2>6, <3>5
      <4>3. next.payload.sets = input.sets
        BY <3>5
      <4>4. next.sets = Each(next.payload.sets, EncodeSet)
        BY <2>5, <3>5, <4>3
      <4> QED BY <3>5, <4>1, <4>2, <4>4 DEF RowAsAsked
    <3>7. Later(w, next)
      BY <1>1, <3>5 DEF Later
    <3>8. ASSUME NEW x \in Range(pruned)
          PROVE  RowAsAsked("browser", x) /\ (x \in Range(rows) \/ x.mutation = None)
      <4>1. CASE pruned = rows
        BY <3>8, <4>1
      <4>2. CASE pruned = PruneSelections(rows, stored)
        <5>1. PICK e \in DOMAIN rows : x = PruneRow(rows[e], stored)
          BY <3>8, <4>2 DEF PruneSelections, Range
        <5>2. rows[e] \in Range(rows)
          BY DEF Range
        <5> QED BY <5>1, <5>2, PrunedAsAsked
      <4>3. pruned = IF changed THEN PruneSelections(rows, stored) ELSE rows
        BY <2>7
      <4> QED BY <4>1, <4>2, <4>3
    <3>9. Follows(WorkspaceDocument(next), next)
      BY <3>6, DocumentFollows
    <3>10. b.revision = w.revision
      BY <2>4, <2>13 DEF RevisionMatches
    <3> QED BY <2>4, <2>6, <3>3, <3>4, <3>5, <3>6, <3>7, <3>8, <3>9, <3>10 DEF SaveReply
  <2> QED BY <2>8, <2>10, <2>11, <2>12, <2>13
<1> QED BY <1>3, <1>4

(* A write of preferences answered.                                        *)
PreferencesReply(rows, id, b, r, rows2) ==
  /\ DOMAIN rows2 = DOMAIN rows
  /\ \A x \in DOMAIN rows :
       /\ RowAsAsked("browser", rows2[x])
       /\ \/ rows2[x] = rows[x]
          \/ rows2[x].mutation = b.mutation /\ rows2[x].payload = Input("browser", b)
  /\ r.status \in {200, 409} => PreferenceFields \subseteq DOMAIN r.value
  /\ r.status = 200 =>
       rows2[id].theme = b.theme /\ rows2[id].selected = DecodeMap(b.selected, MaxSets)
  /\ r.status = 409 => b.mutation # rows[id].mutation

LEMMA PreferencesShown ==
  ASSUME NEW row, DOMAIN row = DOMAIN DefaultPreferences
  PROVE  PreferenceFields \subseteq DOMAIN BrowserDocument(row)
BY DEF BrowserDocument, Restrict, DefaultPreferences, PreferenceFields

LEMMA PreferencesAnswered ==
  ASSUME NEW d, TablesFit(d), NEW rows, rows = d.browsers,
         \A x \in DOMAIN rows : RowAsAsked("browser", rows[x]),
         NEW b, PreferenceFields \cup {"mutation"} \subseteq DOMAIN b, NEW id,
         id \in DOMAIN rows /\ rows[id].mutation # None /\ rows[id].mutation = b.mutation
           => rows[id].payload = Input("browser", b),
         NEW r, r = PutBrowser(d, id, b)
  PROVE  r.db.workspaces = d.workspaces /\ PreferencesReply(rows, id, b, r, r.db.browsers)
<1>1. CASE r = Refused(d)
  <2>1. r.db = d /\ r.status = 400
    BY <1>1, ReplyFields
  <2> QED BY <2>1 DEF PreferencesReply
<1>2. CASE r # Refused(d)
  <2>1. PICK x, y : x = DecodeMap(b.selected, MaxSets) /\ y = DecodeMap(b.runColors, MaxRunColors)
    OBVIOUS
  <2>2. PICK input : input = [b EXCEPT !.selected = x, !.runColors = y]
    OBVIOUS
  <2>3. r = SaveBrowserPreferences(d, id, input) /\ input = Input("browser", b)
    BY <1>2, <2>1, <2>2 DEF PutBrowser, Input
  <2>4. /\ DOMAIN input = DOMAIN b /\ input.theme = b.theme /\ input.selected = x
        /\ input.mutation = b.mutation
    BY <2>2 DEF PreferenceFields
  <2>5. PICK row, asked : row = d.browsers[id] /\ asked = Restrict(input, {"theme", "width", "selected", "runColors"})
    OBVIOUS
  <2> DEFINE changed == Restrict(row, DOMAIN asked) # asked
  <2>6. PICK next : next = [f \in DOMAIN row |->
                 CASE f = "revision" -> IF changed THEN row.revision + 1 ELSE row.revision
                   [] f = "mutation" -> input.mutation
                   [] f = "payload" -> input
                   [] OTHER -> asked[f]]
    OBVIOUS
  <2>7. /\ id \in DOMAIN rows /\ ValidBrowser(input)
        /\ \/ r = Conflict(d, BrowserDocument(row)) /\ Reused(row, input)
           \/ r = Reply(d, 200, BrowserDocument(row)) /\ Retry(row, input)
           \/ /\ ~Reused(row, input) /\ ~Retry(row, input)
              /\ r = Conflict(d, BrowserDocument(row))
           \/ r = Reply([d EXCEPT !.browsers[id] = next], 200, BrowserDocument(next))
    BY <1>2, <2>3, <2>5, <2>6 DEF SaveBrowserPreferences
  <2>8. input.mutation # None
    BY <2>7, BrowserAssumption DEF ValidBrowser
  <2>9. /\ row = rows[id] /\ RowAsAsked("browser", row)
        /\ DOMAIN row = DOMAIN DefaultPreferences
        /\ row.mutation # None => row.theme = row.payload.theme /\ row.selected = row.payload.selected
    BY <2>5, <2>7 DEF RowAsAsked
  <2>10. ~Reused(row, input)
    BY <2>3, <2>4, <2>7, <2>8, <2>9 DEF Reused
  <2>11. PreferenceFields \subseteq DOMAIN BrowserDocument(row)
    BY <2>9, PreferencesShown
  <2>12. CASE r = Conflict(d, BrowserDocument(row)) /\ ~Retry(row, input)
    <3>1. r.db = d /\ r.status = 409 /\ r.value = BrowserDocument(row)
      BY <2>12, ReplyFields
    <3>2. b.mutation # row.mutation
      BY <2>4, <2>10, <2>12 DEF Reused, Retry
    <3> QED BY <2>9, <2>11, <3>1, <3>2 DEF PreferencesReply
  <2>13. CASE r = Reply(d, 200, BrowserDocument(row)) /\ Retry(row, input)
    <3>1. r.db = d /\ r.status = 200 /\ r.value = BrowserDocument(row)
      BY <2>13, ReplyFields
    <3>2. row.theme = b.theme /\ row.selected = x
      BY <2>4, <2>8, <2>9, <2>13 DEF Retry
    <3> QED BY <2>1, <2>9, <2>11, <3>1, <3>2 DEF PreferencesReply
  <2>14. CASE r = Reply([d EXCEPT !.browsers[id] = next], 200, BrowserDocument(next))
    <3>1. PICK d2, v : d2 = [d EXCEPT !.browsers[id] = next] /\ v = BrowserDocument(next)
      OBVIOUS
    <3>2. r.db = d2 /\ r.status = 200 /\ r.value = v
      BY <2>14, <3>1, ReplyFields
    <3>3. PICK w0, b0 : d = [workspaces |-> w0, browsers |-> b0]
      BY DEF TablesFit
    <3>4. d2.browsers = [rows EXCEPT ![id] = next] /\ d2.workspaces = d.workspaces
      BY <3>1, <3>3
    <3>5. asked.theme = b.theme /\ asked.selected = x
      BY <2>4, <2>5 DEF Restrict, PreferenceFields
    <3>6. DOMAIN next = DOMAIN row /\ {"theme", "selected", "mutation", "payload"} \subseteq DOMAIN row
      BY <2>6, <2>9 DEF DefaultPreferences
    <3>7. next.mutation = b.mutation
      BY <2>4, <2>6, <3>6
    <3>8. next.payload = input
      BY <2>6, <3>6
    <3>9. next.theme = b.theme
      BY <2>6, <3>5, <3>6
    <3>10. next.selected = x
      BY <2>6, <3>5, <3>6
    <3> HIDE <2>6
    <3>11. RowAsAsked("browser", next)
      BY <2>4, <2>9, <3>6, <3>8, <3>9, <3>10 DEF RowAsAsked
    <3>12. PreferenceFields \subseteq DOMAIN v
      BY <2>9, <3>1, <3>6, PreferencesShown
    <3>13. /\ d2.browsers[id] = next /\ DOMAIN d2.browsers = DOMAIN rows
           /\ \A e \in DOMAIN rows \ {id} : d2.browsers[e] = rows[e]
      BY <2>7, <3>4
    <3>14. PICK rows2 : rows2 = r.db.browsers
      OBVIOUS
    <3>15. rows2 = d2.browsers /\ r.db.workspaces = d.workspaces
      BY <3>2, <3>4, <3>14
    <3>16. \A e \in DOMAIN rows :
             /\ RowAsAsked("browser", rows2[e])
             /\ \/ rows2[e] = rows[e]
                \/ rows2[e].mutation = b.mutation /\ rows2[e].payload = Input("browser", b)
      BY <2>3, <3>7, <3>8, <3>11, <3>13, <3>15
    <3>17. rows2[id].theme = b.theme /\ rows2[id].selected = DecodeMap(b.selected, MaxSets)
      BY <2>1, <3>9, <3>10, <3>13, <3>15
    <3> QED BY <3>2, <3>12, <3>13, <3>14, <3>15, <3>16, <3>17 DEF PreferencesReply
  <2> QED BY <2>7, <2>10, <2>12, <2>13, <2>14
<1> QED BY <1>1, <1>2

LEMMA StateAnswered ==
  ASSUME NEW d, TablesFit(d), RowAsAsked("workspaces", d.workspaces),
         \A x \in Range(d.browsers) : RowAsAsked("browser", x),
         NEW id, NEW fresh, NEW r, r = UiState(d, id, fresh)
  PROVE  /\ r.db.workspaces = d.workspaces
         /\ \A x \in Range(r.db.browsers) :
              RowAsAsked("browser", x) /\ (x \in Range(d.browsers) \/ x.mutation = None)
         /\ r.status = 200 =>
              /\ Follows(r.value.workspaces, d.workspaces)
              /\ PreferenceFields \subseteq DOMAIN r.value.browser
<1> DEFINE known == id \in DOMAIN d.browsers
           b0 == IF known THEN id ELSE fresh
           rows == IF known THEN d.browsers
                   ELSE [x \in DOMAIN d.browsers \cup {fresh} |->
                           IF x = fresh THEN DefaultPreferences ELSE d.browsers[x]]
           value == [cookie |-> b0, workspaces |-> WorkspaceDocument(d.workspaces),
                     browser |-> BrowserDocument(rows[b0])]
<1>1. r = Refused(d) \/ r = Reply([d EXCEPT !.browsers = rows], 200, value)
  BY DEF UiState
<1>2. CASE r = Refused(d)
  <2>1. r.db = d /\ r.status = 400
    BY <1>2, ReplyFields
  <2> QED BY <2>1
<1>3. CASE r = Reply([d EXCEPT !.browsers = rows], 200, value)
  <2>1. RowAsAsked("browser", DefaultPreferences) /\ DefaultPreferences.mutation = None
    BY DEF RowAsAsked, DefaultPreferences
  <2>2. \A x \in DOMAIN rows : rows[x] \in Range(d.browsers) \/ rows[x] = DefaultPreferences
    BY DEF Range
  <2>3. b0 \in DOMAIN rows
    OBVIOUS
  <2> HIDE DEF known, b0, rows
  <2>4. \A x \in DOMAIN rows : RowAsAsked("browser", rows[x]) /\ (rows[x] \in Range(d.browsers) \/ rows[x].mutation = None)
    BY <2>1, <2>2
  <2>5. [d EXCEPT !.browsers = rows] = [workspaces |-> d.workspaces, browsers |-> rows]
    BY OtherTables
  <2>6. PICK d2 : d2 = [workspaces |-> d.workspaces, browsers |-> rows]
    OBVIOUS
  <2>7. d2.workspaces = d.workspaces /\ d2.browsers = rows
    BY <2>6
  <2>8. r.db = d2 /\ r.value = value
    BY <1>3, <2>5, <2>6, ReplyFields
  <2>9. value.workspaces = WorkspaceDocument(d.workspaces) /\ value.browser = BrowserDocument(rows[b0])
    OBVIOUS
  <2> HIDE DEF value
  <2>10. PreferenceFields \subseteq DOMAIN BrowserDocument(rows[b0])
    BY <2>3, <2>4, PreferencesShown DEF RowAsAsked
  <2> QED BY <2>4, <2>7, <2>8, <2>9, <2>10, DocumentFollows DEF Range
<1> QED BY <1>1, <1>2, <1>3

LEMMA SaveServed ==
  ASSUME SettingsInv, WriteInv, NEW m \in net, m.to = "server", m.kind = "workspaces",
         NEW r, r = Served(m)
  PROVE  /\ EditFits(m.body, m.edit, db.workspaces)
         /\ SaveReply(db.workspaces, db.browsers, m.body, r, r.db.workspaces, r.db.browsers)
<1>1. EditFits(m.body, m.edit, db.workspaces)
  BY DEF WriteInv, WritesFit, MessageHolds
<1>2. r = PutWorkspaces(db, m.cookie, m.body)
  BY DEF Served
<1>3. RowAsAsked("workspaces", db.workspaces) /\ \A x \in Range(db.browsers) : RowAsAsked("browser", x)
  BY DEF WriteInv, WritesFit, Writes, RowsOf, Range
<1>4. db.workspaces.mutation # None /\ db.workspaces.mutation = m.body.mutation =>
        db.workspaces.payload = Input("workspaces", m.body)
  <2>1. m.body \in Bodies("workspaces", client, net)
    BY DEF Bodies
  <2>2. RowsRemember("workspaces", RowsOf("workspaces", db), Bodies("workspaces", client, net), client)
    BY DEF WriteInv, WritesFit, Writes
  <2>3. db.workspaces \in RowsOf("workspaces", db)
    BY DEF RowsOf
  <2> QED BY <2>1, <2>2, <2>3 DEF RowsRemember
<1>5. TablesFit(db) /\ DOMAIN m.body = {"revision", "mutation", "sets"} /\ m.body.sets \in Seq(Records)
  BY <1>1 DEF SettingsInv, EditFits
<1> QED BY <1>1, <1>2, <1>3, <1>4, <1>5, WorkspacesAnswered

LEMMA PreferencesServed ==
  ASSUME SettingsInv, WriteInv, NEW m \in net, m.to = "server", m.kind = "browser",
         NEW r, r = Served(m)
  PROVE  /\ r.db.workspaces = db.workspaces
         /\ PreferencesReply(db.browsers, m.cookie, m.body, r, r.db.browsers)
<1>1. PreferenceFields \cup {"mutation"} \subseteq DOMAIN m.body
  BY DEF WriteInv, WritesFit, MessageHolds
<1>2. r = PutBrowser(db, m.cookie, m.body)
  BY DEF Served
<1>3. \A x \in DOMAIN db.browsers : db.browsers[x] \in RowsOf("browser", db)
  BY DEF RowsOf
<1>4. \A x \in DOMAIN db.browsers : RowAsAsked("browser", db.browsers[x])
  BY <1>3 DEF WriteInv, WritesFit, Writes
<1>5. ASSUME m.cookie \in DOMAIN db.browsers, db.browsers[m.cookie].mutation # None,
             db.browsers[m.cookie].mutation = m.body.mutation
      PROVE  db.browsers[m.cookie].payload = Input("browser", m.body)
  <2>1. m.body \in Bodies("browser", client, net)
    BY DEF Bodies
  <2>2. RowsRemember("browser", RowsOf("browser", db), Bodies("browser", client, net), client)
    BY DEF WriteInv, WritesFit, Writes
  <2> QED BY <1>3, <1>5, <2>1, <2>2 DEF RowsRemember
<1> QED BY <1>1, <1>2, <1>4, <1>5, PreferencesAnswered DEF SettingsInv

(* What a row may be once the request m has been served.                   *)
RowServed(kind, row, m) ==
  /\ RowAsAsked(kind, row)
  /\ \/ row \in RowsOf(kind, db)
     \/ row.mutation = None
     \/ /\ kind = m.kind
        /\ row.mutation = m.body.mutation /\ row.payload = Input(kind, m.body)

LEMMA ServedWrites ==
  ASSUME WriteInv, NEW m \in net, m.to = "server", UNCHANGED client,
         NEW d, db' = d, Later(db.workspaces, d.workspaces),
         NEW A, net' = (net \ {m}) \cup A,
         \A a \in A : a.to = m.from /\ (a.to # "server" => MessageHolds(a, d.workspaces)),
         \A kind \in Writes : \A row \in RowsOf(kind, d) : RowServed(kind, row, m)
  PROVE  WriteInv'
<1>1. PICK net2, client2, w, w2 :
        net2 = net' /\ client2 = client' /\ w = db.workspaces /\ w2 = d.workspaces
  OBVIOUS
<1>2. net2 = (net \ {m}) \cup A /\ client2 = client
  BY <1>1
<1>3. m.from \in Client /\ "server" \notin Client
  BY ClientAssumption DEF WriteInv, WritesFit, MessageHolds
<1>4. \A a \in A : a.to # "server" /\ MessageHolds(a, w2)
  BY <1>1, <1>3
<1>5. /\ \A c \in Client : StoreHolds(client2[c], w2)
      /\ \A n \in net2 : MessageHolds(n, w2)
  <2>1. /\ \A c \in Client : StoreHolds(client[c], w)
        /\ \A n \in net : MessageHolds(n, w)
    BY <1>1 DEF WriteInv, WritesFit
  <2>2. Later(w, w2)
    BY <1>1
  <2> QED BY <1>2, <1>4, <2>1, <2>2, LaterHolds
<1>6. ASSUME NEW kind \in Writes
      PROVE  /\ BodiesDiffer(Bodies(kind, client2, net2), client2)
             /\ RowsRemember(kind, RowsOf(kind, d), Bodies(kind, client2, net2), client2)
             /\ \A row \in RowsOf(kind, d) : RowAsAsked(kind, row)
  <2>1. Bodies(kind, client2, net2) \subseteq Bodies(kind, client, net)
    BY <1>2, <1>4 DEF Bodies
  <2>2. /\ BodiesDiffer(Bodies(kind, client, net), client)
        /\ RowsRemember(kind, RowsOf(kind, db), Bodies(kind, client, net), client)
    BY DEF WriteInv, WritesFit
  <2>3. BodiesDiffer(Bodies(kind, client2, net2), client2)
    BY <1>2, <2>1, <2>2 DEF BodiesDiffer
  <2>4. ASSUME NEW row \in RowsOf(kind, d), row.mutation # None
        PROVE  /\ Drawn(row.mutation, client2)
               /\ \A b \in Bodies(kind, client2, net2) : b.mutation = row.mutation => row.payload = Input(kind, b)
    <3>1. CASE row \in RowsOf(kind, db)
      BY <1>2, <2>1, <2>2, <2>4, <3>1 DEF RowsRemember
    <3>2. CASE kind = m.kind /\ row.mutation = m.body.mutation /\ row.payload = Input(kind, m.body)
      <4>1. m.body \in Bodies(kind, client, net)
        BY <3>2 DEF Bodies
      <4> QED BY <1>2, <2>1, <2>2, <3>2, <4>1 DEF BodiesDiffer
    <3> QED BY <2>4, <3>1, <3>2 DEF RowServed
  <2> QED BY <2>3, <2>4 DEF RowsRemember, RowServed
<1>7. DOMAIN client2 = Client
  BY <1>2 DEF WriteInv, WritesFit
<1>8. WritesFit(client2, net2, d)
  BY <1>1, <1>5, <1>6, <1>7 DEF WritesFit
<1> QED BY <1>1, <1>8 DEF WriteInv

LEMMA ServeWrites ==
  ASSUME SettingsInv, WriteInv, NEW m \in net, Serve(m)
  PROVE  WriteInv'
<1>1. PICK r, d, w : r = Served(m) /\ d = r.db /\ w = db.workspaces
  OBVIOUS
<1>2. PICK a : a = [to |-> m.from, kind |-> m.kind, status |-> r.status, value |-> r.value]
  OBVIOUS
<1>3. a.to = m.from /\ a.kind = m.kind /\ a.status = r.status /\ a.value = r.value
  BY <1>2
<1>4. PICK A \in SUBSET {a} : net' = (net \ {m}) \cup A
  BY <1>1, <1>2 DEF Serve
<1>5. m.to = "server" /\ UNCHANGED client /\ db' = d
  BY <1>1 DEF Serve
<1>6. ASSUME Later(w, d.workspaces), a.to # "server" => MessageHolds(a, d.workspaces),
             \A kind \in Writes : \A row \in RowsOf(kind, d) : RowServed(kind, row, m)
      PROVE  WriteInv'
  BY <1>1, <1>3, <1>4, <1>5, <1>6, ServedWrites
<1>7. RowAsAsked("workspaces", w) /\ \A x \in Range(db.browsers) : RowAsAsked("browser", x)
  BY <1>1 DEF WriteInv, WritesFit, Writes, RowsOf, Range
<1>8. TablesFit(db) /\ m.kind \in Kinds
  BY DEF SettingsInv, OfAKind
<1>9. RowsOf("workspaces", db) = {w} /\ RowsOf("browser", db) = Range(db.browsers) /\ Later(w, w)
  BY <1>1, <1>7, DocumentFollows DEF RowsOf, Range
<1>10. RowsOf("workspaces", d) = {d.workspaces} /\ RowsOf("browser", d) = Range(d.browsers)
  BY DEF RowsOf, Range
<1>11. CASE m.kind = "state"
  <2>1. PICK fresh : r = UiState(db, m.cookie, fresh)
    BY <1>1, <1>11 DEF Served
  <2>2. /\ d.workspaces = w
        /\ \A x \in Range(d.browsers) :
              RowAsAsked("browser", x) /\ (x \in Range(db.browsers) \/ x.mutation = None)
        /\ r.status = 200 =>
              Follows(r.value.workspaces, w) /\ PreferenceFields \subseteq DOMAIN r.value.browser
    BY <1>1, <1>7, <1>8, <2>1, StateAnswered
  <2>3. \A kind \in Writes : \A row \in RowsOf(kind, d) : RowServed(kind, row, m)
    BY <1>7, <1>9, <1>10, <2>2 DEF Writes, RowServed
  <2>4. a.to # "server" => MessageHolds(a, d.workspaces)
    BY <1>3, <1>11, <2>2 DEF MessageHolds
  <2> QED BY <1>6, <1>9, <2>2, <2>3, <2>4
<1>12. CASE m.kind = "workspaces"
  <2>1. SaveReply(w, db.browsers, m.body, r, d.workspaces, d.browsers)
    BY <1>1, <1>5, <1>12, SaveServed
  <2>2. \A kind \in Writes : \A row \in RowsOf(kind, d) : RowServed(kind, row, m)
    BY <1>9, <1>10, <1>12, <2>1 DEF Writes, RowServed, SaveReply
  <2>3. a.to # "server" => MessageHolds(a, d.workspaces)
    BY <1>3, <1>12, <2>1 DEF MessageHolds, SaveReply
  <2>4. Later(w, d.workspaces)
    BY <2>1 DEF SaveReply
  <2> QED BY <1>6, <2>2, <2>3, <2>4
<1>13. CASE m.kind = "browser"
  <2>1. d.workspaces = w /\ PreferencesReply(db.browsers, m.cookie, m.body, r, d.browsers)
    BY <1>1, <1>5, <1>13, PreferencesServed
  <2>2. ASSUME NEW row \in Range(d.browsers)
        PROVE  RowServed("browser", row, m)
    <3>1. PICK x \in DOMAIN db.browsers : row = d.browsers[x]
      BY <2>1 DEF PreferencesReply, Range
    <3>2. db.browsers[x] \in RowsOf("browser", db)
      BY DEF RowsOf
    <3> QED BY <1>13, <2>1, <3>1, <3>2 DEF PreferencesReply, RowServed
  <2>3. \A kind \in Writes : \A row \in RowsOf(kind, d) : RowServed(kind, row, m)
    BY <1>7, <1>9, <1>10, <2>1, <2>2 DEF Writes, RowServed
  <2>4. a.to # "server" => MessageHolds(a, d.workspaces)
    BY <1>3, <1>13, <2>1 DEF MessageHolds, PreferencesReply
  <2> QED BY <1>6, <1>9, <2>1, <2>3, <2>4
<1> QED BY <1>8, <1>11, <1>12, <1>13 DEF Kinds

LEMMA InitWrites == Init => WriteInv
<1> SUFFICES ASSUME Init
             PROVE  WriteInv
  OBVIOUS
<1>1. DOMAIN NewClient = ClientFields /\ NewClient.sent = 0 /\ NewClient.pending = None /\ NewClient.patch = NoPatch
  BY DEF NewClient, ClientFields
<1>2. NewClient.browser = BrowserDocument(DefaultPreferences)
  BY DEF NewClient
<1>3. NewClient.workspaces.revision = 0 /\ NewClient.workspaces.sets = <<>>
  BY DEF NewClient
<1>4. PICK d, k : d = EmptyTables /\ k = NewClient
  OBVIOUS
<1>5. DOMAIN d.browsers = {} /\ RowsOf("browser", d) = {}
  BY <1>4 DEF EmptyTables, RowsOf
<1>6. PICK w : w = d.workspaces
  OBVIOUS
<1>7. w = [revision |-> 0, sets |-> <<>>, mutation |-> None, payload |-> None]
  BY <1>4, <1>6 DEF EmptyTables
<1>8. RowAsAsked("workspaces", w) /\ w.mutation = None /\ w.revision = 0 /\ w.sets = <<>>
  BY <1>7 DEF RowAsAsked
<1>9. RowsOf("workspaces", d) = {w}
  BY <1>6 DEF RowsOf
<1>10. PreferenceFields \subseteq DOMAIN k.browser
  BY <1>2, <1>4, PreferencesShown
<1>11. Follows(k.workspaces, w)
  <2>1. PICK v : v = k.workspaces
    OBVIOUS
  <2>2. v.revision = 0 /\ v.sets = <<>>
    BY <1>3, <1>4, <2>1
  <2>3. <<>> \in Seq(Records)
    OBVIOUS
  <2> QED BY <1>8, <2>1, <2>2, <2>3 DEF Follows
<1>12. StoreHolds(k, w) /\ \A kind \in Writes : Held(kind, k) = {}
  <2>1. \A kind \in Writes : Held(kind, k) = {}
    BY <1>1, <1>4 DEF Held
  <2>2. Held("browser", k) = {}
    BY <2>1 DEF Writes
  <2> QED BY <1>1, <1>4, <1>10, <1>11, <2>1, <2>2 DEF StoreHolds
<1>13. DOMAIN client = Client /\ (\A c \in Client : client[c] = k) /\ net = {} /\ db = d
  BY <1>4 DEF Init
<1>14. \A kind \in Writes : Bodies(kind, client, net) = {}
  BY <1>12, <1>13 DEF Bodies
<1>15. ASSUME NEW kind \in Writes
       PROVE  /\ BodiesDiffer(Bodies(kind, client, net), client)
              /\ RowsRemember(kind, RowsOf(kind, db), Bodies(kind, client, net), client)
              /\ \A row \in RowsOf(kind, db) : RowAsAsked(kind, row)
  BY <1>5, <1>8, <1>9, <1>13, <1>14 DEF Writes, BodiesDiffer, RowsRemember
<1> QED BY <1>6, <1>12, <1>13, <1>15 DEF WriteInv, WritesFit

LEMMA NextWrites == SettingsInv /\ WriteInv /\ [Next]_vars => WriteInv'
<1> SUFFICES ASSUME SettingsInv, WriteInv, [Next]_vars
             PROVE  WriteInv'
  OBVIOUS
<1>1. CASE UNCHANGED vars
  BY <1>1 DEF vars, WriteInv
<1>2. CASE Next
  <2>1. ASSUME NEW c \in Client, NEW m \in net, Receive(c, m)
        PROVE  WriteInv'
    <3>1. m.kind \in Kinds
      BY DEF SettingsInv, OfAKind
    <3> QED BY <2>1, <3>1, StateAnswerWrites, WorkspaceAnswerWrites, BrowserAnswerWrites DEF Kinds
  <2> QED BY <1>2, <2>1, UserWrites, GiveUpWrites, ServeWrites DEF Next
<1> QED BY <1>1, <1>2

(* A request leaves the network only by being served.                      *)
LEMMA OnlyServedLeave ==
  ASSUME SettingsInv, [Next]_vars, NEW m \in net \ net', m.to = "server"
  PROVE  Serve(m)
<1>1. ASSUME NEW c \in Client, NEW s, NEW consumed, Take(c, s, consumed), \A n \in consumed : n.to = c
      PROVE  FALSE
  BY <1>1, ClientAssumption DEF Take
<1>2. CASE UNCHANGED vars
  BY <1>2 DEF vars
<1>3. ASSUME NEW c \in Client,
             \/ Load(c)
             \/ \E id \in SetId, e \in Experiment, r \in 0 .. client[c].workspaces.revision : Save(c, id, e, r)
             \/ \E id \in SetId : Remove(c, id)
             \/ RetrySave(c)
             \/ \E theme \in Themes : ChooseTheme(c, theme)
             \/ \E e \in Experiment, id \in SetId \cup {None} : Select(c, e, id)
             \/ RetryAll(c)
      PROVE  FALSE
  <2>1. \E s : Take(c, s, {})
    BY <1>3 DEF Load, Save, Remove, RetrySave, ChooseTheme, Select, RetryAll
  <2> QED BY <1>1, <2>1
<1>4. ASSUME NEW c \in Client, NEW n \in net, Receive(c, n)
      PROVE  FALSE
  <2>1. n.to = c /\ c # "server"
    BY <1>4, ClientAssumption DEF Receive
  <2>2. n.kind \in Kinds /\ n.status \in Statuses
    BY <2>1 DEF SettingsInv, OfAKind
  <2>3. CASE n.kind = "state"
    <3>1. StateAnswer(c, n)
      BY <1>4, <2>3 DEF Receive
    <3> QED BY <1>1, <2>1, <3>1 DEF StateAnswer
  <2>4. CASE n.kind = "workspaces"
    <3>1. WorkspaceAnswer(c, n)
      BY <1>4, <2>4 DEF Receive
    <3> QED BY <1>1, <2>1, <3>1 DEF WorkspaceAnswer
  <2>5. CASE n.kind = "browser"
    <3>1. BrowserAnswer(c, n)
      BY <1>4, <2>5 DEF Receive
    <3>2. \E s : Take(c, s, {n})
      BY <2>2, <3>1, ZenonT(40) DEF BrowserAnswer, Statuses
    <3> QED BY <1>1, <2>1, <3>2
  <2> QED BY <2>2, <2>3, <2>4, <2>5 DEF Kinds
<1>5. ASSUME NEW c \in Client, GiveUp(c)
      PROVE  FALSE
  <2>1. \E s, kind : Take(c, s, {n \in net : n.to = c /\ n.kind = kind})
    BY <1>5 DEF GiveUp
  <2> QED BY <1>1, <2>1
<1>6. ASSUME NEW n \in net, Serve(n)
      PROVE  m = n
  BY <1>6 DEF Serve
<1> QED BY <1>2, <1>3, <1>4, <1>5, <1>6 DEF Next

(* No lost update, for any browsers and workspaces: revision_matches lets  *)
(* a save through only on the document its body was made from, of which    *)
(* the body keeps every workspace but the one edited; a retry that is      *)
(* recognised changes nothing.                                             *)
THEOREM NoUpdateIsLost == Spec => SavesChangeOneWorkspace
<1>1. ASSUME SettingsInv, WriteInv, [Next]_vars, NEW m \in net \ net',
             m.to = "server", m.kind = "workspaces", db'.workspaces.sets # db.workspaces.sets
      PROVE  Others(db'.workspaces.sets, m.edit) = Others(db.workspaces.sets, m.edit)
  <2>1. Serve(m)
    BY <1>1, OnlyServedLeave
  <2>2. PICK r, w2 : r = Served(m) /\ w2 = r.db.workspaces
    OBVIOUS
  <2>3. db' = r.db
    BY <2>1, <2>2 DEF Serve
  <2>4. EditFits(m.body, m.edit, db.workspaces) /\ w2.sets # db.workspaces.sets
        => m.body.revision = db.workspaces.revision /\ w2.sets = m.body.sets
    BY <1>1, <2>2, SaveServed DEF SaveReply
  <2>5. EditFits(m.body, m.edit, db.workspaces)
    BY <1>1, <2>2, SaveServed
  <2> QED BY <1>1, <2>2, <2>3, <2>4, <2>5 DEF EditFits
<1>2. SettingsInv /\ WriteInv /\ [Next]_vars =>
        [\A m \in net \ net' :
           m.to = "server" /\ m.kind = "workspaces" /\ db'.workspaces.sets # db.workspaces.sets
             => Others(db'.workspaces.sets, m.edit) = Others(db.workspaces.sets, m.edit)]_vars
  BY <1>1
<1> QED BY <1>2, InitSettings, NextSettings, InitWrites, NextWrites, PTL DEF Spec, SavesChangeOneWorkspace

(* An answer tells the truth about the write it answers, for any browsers, *)
(* attempts and delays: a mutation belongs to one body, so that a row with *)
(* the mutation of a retry is what the retry asks for.                     *)
THEOREM AnswersStayTrue == Spec => AnswersAreTrue
<1>1. ASSUME SettingsInv, WriteInv, [Next]_vars, NEW m \in net \ net', m.to = "server", m.kind # "state"
      PROVE  LET status == Served(m).status
             IN (status = 200 => Asked(m)) /\ (status = 409 => ~Latest(m))
  <2>1. Serve(m)
    BY <1>1, OnlyServedLeave
  <2>2. PICK r : r = Served(m)
    OBVIOUS
  <2>3. db' = r.db
    BY <2>1, <2>2 DEF Serve
  <2>4. CASE m.kind = "workspaces"
    <3>1. /\ r.status = 200 => r.db.workspaces.sets = m.body.sets
          /\ r.status = 409 => m.body.mutation # db.workspaces.mutation
      BY <1>1, <2>2, <2>4, SaveServed DEF SaveReply
    <3> QED BY <2>2, <2>3, <2>4, <3>1 DEF Asked, Latest
  <2>5. CASE m.kind = "browser"
    <3>1. /\ r.status = 200 =>
               /\ r.db.browsers[m.cookie].theme = m.body.theme
               /\ r.db.browsers[m.cookie].selected = DecodeMap(m.body.selected, MaxSets)
          /\ r.status = 409 => m.body.mutation # db.browsers[m.cookie].mutation
      BY <1>1, <2>2, <2>5, PreferencesServed DEF PreferencesReply
    <3> QED BY <2>2, <2>3, <2>5, <3>1 DEF Asked, Latest
  <2>6. m.kind \in Kinds
    BY <1>1 DEF SettingsInv, OfAKind
  <2> QED BY <1>1, <2>4, <2>5, <2>6 DEF Kinds
<1>2. SettingsInv /\ WriteInv /\ [Next]_vars =>
        [\A m \in net \ net' : m.to = "server" /\ m.kind # "state" =>
           LET status == Served(m).status
           IN (status = 200 => Asked(m)) /\ (status = 409 => ~Latest(m))]_vars
  BY <1>1
<1> QED BY <1>2, InitSettings, NextSettings, InitWrites, NextWrites, PTL DEF Spec, AnswersAreTrue

===============================================================================

-------------------------------- MODULE UiClients -----------------------------
(* Browsers (PreferencesStore) editing the server's settings over a        *)
(* network that loses and delays: a request may be served after the        *)
(* browser has given it up, and an answer may come to nobody.  A browser   *)
(* freezes the body of a write before it sends it and retries that body.   *)
EXTENDS UiServer, FiniteSetsExt

CONSTANTS
  Client,
  SetId, Name,       \* workspaces the users make, and the name they give each
  Layout,            \* the layout every browser saves: one section, no panel
  Draining, Booting, \* a save that awaits its selection, or the state after a deletion
  MaxSends           \* bound: requests each browser sends, by browser

(* A serial is never mistaken for the absence of one, nor a browser for    *)
(* the server.                                                             *)
ASSUME ClientAssumption == "server" \notin Client /\ {None, Draining, Booting} \cap Nat = {}

Merge(p, q) == [f \in DOMAIN p \cup DOMAIN q |-> IF f \in DOMAIN q THEN q[f] ELSE p[f]]

(* A workspace as a browser writes it.                                     *)
Record(id, experiment) ==
  Merge(Layout, [id |-> id, name |-> Name[id], experimentId |-> experiment])

Records == {Record(id, experiment) : id \in SetId, experiment \in Experiment}

(* The layout is written as the server would write it: it leaves out what  *)
(* is absent, and gives a map's entries in the order they are stored in.   *)
ASSUME LayoutAssumption ==
  \A record \in Records :
    /\ record # Invalid
    /\ DecodeSet(record) # Invalid => EncodeSet(DecodeSet(record)) = record

(* pendingWorkspace: the frozen body of a save, which workspace the user   *)
(* edited, and what was made of it (None when it was deleted).             *)
Pending ==
  [body : [revision : Nat, mutation : Client \X Nat, sets : Seq(Records)],
   edit : SetId, record : Records \cup {None}]

ASSUME PendingAssumption == None \notin Pending

Themes == {"light", "dark"}

VARIABLES
  db,        \* the server's tables
  client,    \* each browser's PreferencesStore
  net,       \* requests and answers in transit
  chosen,    \* history: the theme each user chose last
  stray      \* history: whether a write its browser had let go of undid that since

vars == <<db, client, net, chosen, stray>>

NoPatch == [f \in {} |-> None]

(* waiting: the serial of the request each concern awaits, or why it still *)
(* counts as busy.                                                         *)
NewClient ==
  [cookie |-> None, ready |-> FALSE, sent |-> 0,
   workspaces |-> [revision |-> 0, sets |-> <<>>],
   browser |-> BrowserDocument(DefaultPreferences),
   boot |-> None,                              \* bootstrapRequest
   pending |-> None, saving |-> None, conflict |-> FALSE,
   patch |-> NoPatch, body |-> None, queued |-> NoPatch, writing |-> None, failed |-> FALSE,
   retrying |-> FALSE]

Init ==
  /\ db = EmptyTables
  /\ client = [c \in Client |-> NewClient]
  /\ net = {}
  /\ chosen = [c \in Client |-> "light"]
  /\ stray = [c \in Client |-> FALSE]

(* data: what the user sees.                                               *)
Shown(k) == Merge(k.browser, k.queued)

-------------------------------------------------------------------------------
(* Sending.  out is the set of requests a step sends.                      *)

Request(c, k, kind, body, edit) ==
  [to |-> "server", from |-> c, serial |-> k.sent + 1, kind |-> kind, cookie |-> k.cookie,
   body |-> body, edit |-> edit]

Step(k, out) == [k |-> k, out |-> out]

MayWrite(k) ==
  /\ k.ready /\ ~k.failed /\ k.writing = None
  /\ k.patch # NoPatch \/ k.queued # NoPatch

(* flushBrowser, drainBrowser, writeBrowser up to the fetch: unless a      *)
(* write is under way or the last one failed, freeze what is queued and    *)
(* send it, or send again what was frozen.  A save that waits for the      *)
(* drain is done when there is none.                                       *)
Flush(c, s) ==
  LET k == s.k
      full == Merge(k.browser, k.queued)
      body == [full EXCEPT !.selected = EncodeMap(@), !.runColors = EncodeMap(@)]
      frozen == IF k.patch # NoPatch THEN k
                ELSE [k EXCEPT !.patch = k.queued, !.queued = NoPatch, !.browser = full,
                               !.body = Merge(body, [mutation |-> <<c, k.sent + 1>>])]
  IN IF MayWrite(k)
     THEN Step([frozen EXCEPT !.sent = @ + 1, !.writing = k.sent + 1],
               s.out \cup {Request(c, k, "browser", frozen.body, None)})
     ELSE Step([k EXCEPT !.saving = IF @ = Draining /\ k.writing = None THEN None ELSE @],
               s.out)

(* bootstrap: one request, shared by whoever asks while it is under way.   *)
Bootstrap(c, s) ==
  IF s.k.boot # None THEN s
  ELSE Step([s.k EXCEPT !.boot = s.k.sent + 1, !.sent = @ + 1],
            s.out \cup {Request(c, s.k, "state", None, None)})

(* submitWorkspace up to the fetch.                                        *)
Submit(c, s) ==
  Step([s.k EXCEPT !.saving = s.k.sent + 1, !.sent = @ + 1],
       s.out \cup {Request(c, s.k, "workspaces", s.k.pending.body, s.k.pending.edit)})

(* updateBrowser.                                                          *)
UpdateBrowser(c, s, p) == Flush(c, Step([s.k EXCEPT !.queued = Merge(@, p)], s.out))

Take(c, s, consumed) ==
  /\ client' = [client EXCEPT ![c] = s.k]
  /\ net' = (net \ consumed) \cup s.out

CanSend(c) == client[c].sent < MaxSends[c]

-------------------------------------------------------------------------------
(* The user.                                                               *)

Load(c) ==
  /\ CanSend(c) /\ client[c].boot = None
  /\ Take(c, Bootstrap(c, Step(client[c], {})), {})
  /\ UNCHANGED <<db, chosen, stray>>

MayEdit(k) == k.ready /\ k.saving = None /\ k.pending = None

(* filter: the workspaces but the one called id.  A document has at most   *)
(* one, which validate sees to.                                            *)
Without(sets, id) ==
  LET at == {i \in DOMAIN sets : sets[i].id = id}
      i == CHOOSE j \in at : TRUE
  IN IF at = {} THEN sets ELSE SubSeq(sets, 1, i - 1) \o SubSeq(sets, i + 1, Len(sets))

(* save: at the revision the layout was loaded from, which may be older    *)
(* than the document it is put into.                                       *)
Save(c, id, experiment, loaded) ==
  LET k == client[c]
      record == Record(id, experiment)
      body == [revision |-> loaded, mutation |-> <<c, k.sent + 1>>,
               sets |-> Append(Without(k.workspaces.sets, id), record)]
  IN /\ CanSend(c) /\ MayEdit(k)
     /\ Len(body.sets) <= MaxSets
     /\ Take(c, Submit(c, Step([k EXCEPT !.pending = [body |-> body, edit |-> id, record |-> record],
                                         !.conflict = FALSE], {})), {})
     /\ UNCHANGED <<db, chosen, stray>>

Remove(c, id) ==
  LET k == client[c]
      body == [revision |-> k.workspaces.revision, mutation |-> <<c, k.sent + 1>>,
               sets |-> Without(k.workspaces.sets, id)]
  IN /\ CanSend(c) /\ MayEdit(k) /\ body.sets # k.workspaces.sets
     /\ Take(c, Submit(c, Step([k EXCEPT !.pending = [body |-> body, edit |-> id, record |-> None],
                                         !.conflict = FALSE], {})), {})
     /\ UNCHANGED <<db, chosen, stray>>

RetrySave(c) ==
  /\ CanSend(c) /\ client[c].pending # None /\ client[c].saving = None
  /\ Take(c, Submit(c, Step(client[c], {})), {})
  /\ UNCHANGED <<db, chosen, stray>>

ChooseTheme(c, theme) ==
  /\ CanSend(c) /\ theme # Shown(client[c]).theme
  /\ Take(c, UpdateBrowser(c, Step(client[c], {}), [theme |-> theme]), {})
  /\ chosen' = [chosen EXCEPT ![c] = theme]
  /\ stray' = [stray EXCEPT ![c] = FALSE]
  /\ UNCHANGED db

Select(c, experiment, id) ==
  LET k == client[c]
      old == Shown(k).selected
      new == Merge(Restrict(old, DOMAIN old \ {experiment}),
                   IF id = None THEN NoPatch ELSE [e \in {experiment} |-> id])
  IN /\ CanSend(c) /\ new # old
     /\ id # None => <<experiment, id>> \in SetExperiments(k.workspaces.sets)
     /\ Take(c, UpdateBrowser(c, Step(k, {}), [selected |-> new]), {})
     /\ UNCHANGED <<db, chosen, stray>>

(* retry: the pending deletion first, then a bootstrap, then the choices   *)
(* that a failed write left.                                               *)
RetryAll(c) ==
  LET k == [client[c] EXCEPT !.retrying = TRUE]
  IN /\ CanSend(c) /\ ~client[c].retrying
     /\ IF k.pending # None /\ k.saving = None
        THEN k.pending.record = None /\ Take(c, Submit(c, Step(k, {})), {})
        ELSE Take(c, Bootstrap(c, Step(k, {})), {})
     /\ UNCHANGED <<db, chosen, stray>>

-------------------------------------------------------------------------------
(* Answers.                                                                *)

(* The rest of retry once its bootstrap has come back.                     *)
Resume(k) ==
  IF ~k.retrying THEN k
  ELSE LET kept == IF "selected" \notin DOMAIN k.queued THEN k.queued
                   ELSE Merge(k.queued, [selected |->
                     Restrict(k.queued.selected, SelectionsIn(k.queued.selected, k.workspaces.sets))])
       IN [k EXCEPT !.queued = kept, !.failed = FALSE, !.retrying = FALSE]

Settled(k) == [k EXCEPT !.boot = None, !.saving = IF @ = Booting THEN None ELSE @]

(* loadState: documents only move forward, and a write under way or        *)
(* frozen keeps its own.                                                   *)
StateAnswer(c, m) ==
  LET k == Settled(client[c])
      v == m.value
      adopted ==
        [k EXCEPT !.cookie = v.cookie, !.ready = TRUE,
                  !.workspaces = IF v.workspaces.revision >= @.revision THEN v.workspaces ELSE @,
                  !.browser = IF k.writing = None /\ k.patch = NoPatch
                                   /\ v.browser.revision >= @.revision
                              THEN v.browser ELSE @]
  IN IF m.status = 200 THEN Take(c, Flush(c, Step(Resume(adopted), {})), {m})
     ELSE Take(c, Step([k EXCEPT !.retrying = FALSE], {}), {m})

(* submitWorkspace after the fetch; the save lasts until the selection it  *)
(* makes, or the bootstrap after a deletion, is through.                   *)
WorkspaceAnswer(c, m) ==
  LET k == client[c]
      newer == IF m.value.revision >= k.workspaces.revision THEN m.value ELSE k.workspaces
      done == [k EXCEPT !.workspaces = newer, !.pending = None, !.conflict = FALSE]
      record == k.pending.record
      choice == Merge(Shown(done).selected, [e \in {record.experimentId} |-> record.id])
  IN \/ /\ m.status = 200 /\ record # None
        /\ Take(c, UpdateBrowser(c, Step([done EXCEPT !.saving = Draining], {}),
                                 [selected |-> choice]), {m})
     \/ /\ m.status = 200 /\ record = None
        /\ Take(c, Bootstrap(c, Step([done EXCEPT !.saving = Booting], {})), {m})
     \/ /\ m.status = 409
        /\ Take(c, Step([k EXCEPT !.workspaces = newer, !.conflict = TRUE, !.pending = None,
                                  !.saving = None, !.retrying = FALSE], {}), {m})
     \/ /\ m.status = 400
        /\ Take(c, Step([k EXCEPT !.pending = None, !.saving = None, !.retrying = FALSE], {}), {m})

PatchDropped(k) == [k EXCEPT !.failed = TRUE, !.patch = NoPatch, !.body = None]

(* A refused write goes back under what was queued since.                  *)
Requeued(k) ==
  [k EXCEPT !.failed = TRUE, !.patch = NoPatch, !.body = None, !.queued = Merge(k.patch, @)]

(* writeBrowser after the fetch, and the next turn of drainBrowser.        *)
BrowserAnswer(c, m) ==
  LET k == [client[c] EXCEPT !.writing = None]
  IN CASE m.status = 200 ->
            Take(c, Flush(c, Step([k EXCEPT !.browser = m.value, !.patch = NoPatch, !.body = None], {})),
                 {m})
       [] m.status = 409 -> Take(c, Flush(c, Step([Requeued(k) EXCEPT !.browser = m.value], {})), {m})
       [] m.status = 400 -> Take(c, Flush(c, Step(Requeued(k), {})), {m})

Receive(c, m) ==
  /\ m.to = c
  /\ CASE m.kind = "state" -> StateAnswer(c, m)
       [] m.kind = "workspaces" -> WorkspaceAnswer(c, m)
       [] m.kind = "browser" -> BrowserAnswer(c, m)
  /\ UNCHANGED <<db, chosen, stray>>

(* The 15 seconds are over, or the connection broke, or the server failed: *)
(* nobody knows whether the request was, or will be, served.  An answer on *)
(* its way is lost.                                                        *)
GiveUp(c) ==
  LET k == client[c]
      answers(kind) == {m \in net : m.to = c /\ m.kind = kind}
  IN /\ \/ /\ k.boot # None
           /\ Take(c, Step([Settled(k) EXCEPT !.retrying = FALSE], {}), answers("state"))
        \/ /\ k.saving \notin {None, Draining, Booting}
           /\ Take(c, Step([k EXCEPT !.saving = None, !.retrying = FALSE], {}),
                   answers("workspaces"))
        \/ /\ k.writing # None
           /\ Take(c, Flush(c, Step([k EXCEPT !.writing = None, !.failed = TRUE], {})),
                   answers("browser"))
     /\ UNCHANGED <<db, chosen, stray>>

-------------------------------------------------------------------------------
(* The server.                                                             *)

Served(m) ==
  CASE m.kind = "state" ->
         UiState(db, m.cookie, CHOOSE b \in BrowserId : b \notin DOMAIN db.browsers)
    [] m.kind = "workspaces" -> PutWorkspaces(db, m.cookie, m.body)
    [] m.kind = "browser" -> PutBrowser(db, m.cookie, m.body)

(* Whether the browser still awaits the answer.                            *)
Awaited(m) ==
  m.serial = CASE m.kind = "state" -> client[m.from].boot
               [] m.kind = "workspaces" -> client[m.from].saving
               [] m.kind = "browser" -> client[m.from].writing

(* A write that its browser neither awaits nor will send again changes the *)
(* theme to one that is not the last chosen.                               *)
Strays(m, r) ==
  /\ m.kind = "browser" /\ r.status = 200
  /\ client[m.from].patch = NoPatch \/ client[m.from].body # m.body
  /\ r.db.browsers[m.cookie].theme \notin {db.browsers[m.cookie].theme, chosen[m.from]}

Serve(m) ==
  LET r == Served(m)
  IN /\ m.to = "server"
     /\ db' = r.db
     /\ net' = (net \ {m}) \cup
          (IF Awaited(m)
           THEN {[to |-> m.from, kind |-> m.kind, status |-> r.status, value |-> r.value]}
           ELSE {})
     /\ stray' = IF Strays(m, r) THEN [stray EXCEPT ![m.from] = TRUE] ELSE stray
     /\ UNCHANGED <<client, chosen>>

Next ==
  \/ \E c \in Client :
       \/ Load(c)
       \/ \E id \in SetId, e \in Experiment, r \in 0 .. client[c].workspaces.revision :
            Save(c, id, e, r)
       \/ \E id \in SetId : Remove(c, id)
       \/ RetrySave(c)
       \/ \E theme \in Themes : ChooseTheme(c, theme)
       \/ \E e \in Experiment, id \in SetId \cup {None} : Select(c, e, id)
       \/ RetryAll(c)
       \/ \E m \in net : Receive(c, m)
       \/ GiveUp(c)
  \/ \E m \in net : Serve(m)

Spec == Init /\ [][Next]_vars

-------------------------------------------------------------------------------
(* The workspace a browser has selected exists, in the experiment it is    *)
(* selected for, whatever saves and deletions other browsers commit:       *)
(* prune_selections runs in the transaction that removes a workspace.      *)
SelectionsExist ==
  \A b \in DOMAIN db.browsers :
    \A e \in DOMAIN db.browsers[b].selected :
      <<e, db.browsers[b].selected[e]>> \in SetExperiments(db.workspaces.sets)

Others(sets, id) == {s \in Range(sets) : s.id # id}

(* No lost update: when a browser's save commits, every workspace but the  *)
(* one its user edited is what the server had, however stale the browser's *)
(* copy was (revision_matches).                                            *)
SavesChangeOneWorkspace ==
  [][\A m \in net \ net' :
       m.to = "server" /\ m.kind = "workspaces" /\ db'.workspaces.sets # db.workspaces.sets
         => Others(db'.workspaces.sets, m.edit) = Others(db.workspaces.sets, m.edit)]_vars

Asked(m) ==
  IF m.kind = "workspaces" THEN db'.workspaces.sets = m.body.sets
  ELSE LET row == db'.browsers[m.cookie]
       IN /\ row.theme = m.body.theme
          /\ row.selected = DecodeMap(m.body.selected, MaxSets)

Latest(m) ==
  m.body.mutation = IF m.kind = "workspaces" THEN db.workspaces.mutation
                    ELSE db.browsers[m.cookie].mutation

(* An answer tells the truth about the write it answers, first attempt or  *)
(* retry: acknowledged, the server's document is the one asked for;        *)
(* refused as a conflict, the write is not the latest the document has had *)
(* (retry, and the mutation prune_selections clears).                      *)
AnswersAreTrue ==
  [][\A m \in net \ net' : m.to = "server" /\ m.kind # "state" =>
       LET status == Served(m).status
       IN (status = 200 => Asked(m)) /\ (status = 409 => ~Latest(m))]_vars

(* The theme a user chose last is the one shown, through lost answers,     *)
(* conflicts, retries and bootstraps that race a write.  One thing undoes  *)
(* it: a write that was refused, and so put back into the queue, whose     *)
(* given-up first attempt is served after all.                             *)
ChosenThemeShown == \A c \in Client : Shown(client[c]).theme = chosen[c] \/ stray[c]

===============================================================================

# A TLA+ model of rvx

rvx records the state of long-running programs (training jobs, mostly). A traced
process keeps a bounded history of its own full-state snapshots and serves it over
HTTP; an engine pulls the history of every registered Source, stores it for good,
indexes it and shows it. This project models the parts of that path where an
execution can go wrong in an order nobody wrote a test for, model-checks them on
small instances with TLC, and proves the central ones with TLAPS.

Paths below are relative to the repository root (`src/` in `PROJECT.json`).

## 1. The system

| component | state it keeps | operations | correct when |
|---|---|---|---|
| **snapshot producer** `rust/rvx-snapshots` | one mutex over the retained entries, byte count, drop counter, `next_sequence`, sealed flag, pinned latest observation | `capture_batch`, `latest`, `history`, `seal`, `seal_and_release_history` | limits hold with the pinned observation counted; the append loop ends; pages are honest about losses |
| **pull protocol** `rvx-core/src/snapshots.rs` | none | page and descriptor validation, page selection | producer and consumer agree on every boundary |
| **snapshot store** `rvx-engine/src/snapshot_store.rs` | SQLite: rows, cursors, gaps, heads, two derived indexes | `open` (with upgrade), `ingest_batch_timed`, `cursor`, `persisted_cursor`, queries | a cursor never passes what is neither stored nor recorded as lost; retries are harmless; acknowledgments are true |
| **ingestion writer** `rvx-engine/src/ingestion.rs` | channel, byte semaphore, deferred page, open group | `commit` (admission), `run` (grouping), `write` (two databases, replies) | ownership and permits follow the page, success means durable |
| **collector** `rvx-engine/src/lib.rs` | one owner mutex per Source | `scrape_source`, `run_scraper` | no two scrapes of a Source overlap; everything retained is collected in the end |
| **registry** `rvx-engine/src/repository.rs` | SQLite: Projects, experiments, Runs, Sources with status, state and descriptor | create, `ensure_hierarchy`, configured Runs, register, start, update, success and failure updates | what was stopped stays stopped; asking again for what is there creates nothing |
| **scheduler** `run_scraper` in `rvx-engine/src/lib.rs` | heap of due times, known and scheduled ids, set of running scrapes | discovery, launch, join, shutdown | every known Source has one place, on the schedule or in a task |
| **tracker** `rust/rvx-tracker` | one mutex over the open step, step cursor, commit count, values, history; the watchdog thread | `log`, `flush`, `record_span`, `manual_alert`, `artifact`, `tick_alerts`, `add_alert_rule`, `finish`, drop | commit numbers match the records captured; nothing after finish; every thread ends |
| **alert queue** `rvx-tracker/src/delivery.rs` | bounded channel, byte budget, counters, worker thread | send, close, drop | every alert is completed, dropped or pending, and counted once; a reported delivery is true |
| **alert engine** `rvx-tracker/src/alert` | metric series, one state per rule | add and remove a rule, observe a step, tick | an alert is sent exactly when the logged values call for it |
| **alert dispatch** `rust/rvx-alert-http` | per-channel queue, byte count, token bucket, recent keys; counters | send, flush, close, the channels' workers | every alert is settled once, for the reason reported; limits hold |
| **UI state** `rvx-engine/src/repository/ui.rs`, `rvx-core/src/ui.rs` | the shared workspace document, a row of preferences per browser, revision and last mutation of each | read, save (compare-and-swap), prune | no lost update, a retry by mutation id is idempotent, no selection dangles |
| **web client's settings** `web/src/app/preferences.ts` | the browser's copies, the frozen body in flight, what is queued behind it | load, save, select, patch, retry | the user's last choice stays shown; no save undoes another's |
| **access, sessions, throttle** `repository/auth.rs`, `rvx-server/src/auth.rs` | session rows, per-peer windows | `protect`, login, touch, logout, reap | expiry and revocation hold; limits lock nobody out for good |
| **heartbeat connections** `rvx-server/src/connection.rs` | permits, per-connection tasks | attach, beat, shutdown | shutdown waits for all it admitted; nothing is answered for a dead session |
| **snapshot queries** `snapshot_store.rs`, `snapshot_store/query.rs`, `chart_index.rs` | the chart index; a request's windows | chart, summary, pages of history and latest | what is shown is what the stored states say |
| **tables** `snapshot_store/tables.rs`, `tables/*.rs` | none between requests: the pinned snapshot ids travel with the client | rows, records, groups | the pages are the pieces of one exact list |
| **CLI, TUI, configuration, Python bindings, rendering** | none that these properties depend on | parsing, presentation | out of scope |

How they interact. The producer's history is pulled, never pushed: `scrape_source`
takes the Source's owner mutex, reads the registry again, pulls the descriptor,
reads the store's cursor for the session the descriptor names, pulls one page after
that cursor and hands page, owner guard and byte permits to the writer thread. The
writer groups pages, commits the group to `snapshots.db` with one savepoint per
page, then updates `metadata.db`, then answers. Lifecycle calls change the registry
meanwhile, the traced process evicts, releases and restarts meanwhile, and either
process may die between any two steps. `run_scraper` decides which Source is scraped
when, from listings of the registry that are stale as soon as they are read.

In the traced process the tracker is the producer's main user. Every call prepares
its records on a copy of the state, captures them with the producer and publishes
the copy, all under one mutex, and then hands its alerts to a queue whose worker is
the only thread to call the foreign sink, which may be the HTTP dispatcher: it
queues each alert for every channel it is routed to, and one worker per channel
suppresses repetitions, keeps to a rate, posts and retries. `finish` stops the
watchdog, flushes the queue and reaps the worker against one deadline; dropping the
last handle does so without waiting for the sink.

Browsers read what is stored: a chart of a long history is split into windows, each
read in a transaction of its own, and lists are read page by page, both while the
collector goes on writing. They also share settings: a browser freezes the body of
a save before it sends it and sends the same body until it is answered, and the
server recognises it by its mutation id. Every request passes the access boundary;
a heartbeat socket stays open after that and looks its session up at each message.

What is hard here: the cursor is read before the page is pulled and used after it;
the page may come from another process than the descriptor; a caller may go away
with permits held; two databases commit one after the other; a page that was
committed is pulled again when its reply was lost; eviction can overtake the
cursor; the buffer's limits count an entry that is no longer in it; an upgrade
of the derived tables is a series of transactions that a crash can cut; the
tracker shuts down two threads, one of which may own it, behind a sink that may
never return; a reader's windows and pages do not see one state of the database; a
session ends between a message and its answer; a save is answered, lost, pruned and
retried in any order; an alert's verdict must survive patches, ticks, unknown values
and samples that were evicted. The complete list, with lines, is `hazards` in
`PROJECT.json`.

## 2. Modules

| module | models | extends |
|---|---|---|
| `SnapshotProtocol` | a page, its validation, the selection of a page | |
| `RetentionWindow` | abstract: an append-only log and the first entry that can still be pulled | |
| `SnapshotProducer` | the producer, one step per turn of the append and the eviction loop | `SnapshotProtocol`, instance of `RetentionWindow` |
| `SnapshotDb` | the tables and what one page does to them, as operators | `SnapshotProtocol` |
| `SnapshotStore` | transactions of pages over the database; also the abstract specification the collector is checked against | `SnapshotDb` |
| `Collector` | producers, scrapes, writer, registry and faults together | `SnapshotDb`, instance of `SnapshotStore` |
| `StoreUpgrade` | `open` on what older builds and interrupted opens left behind | |
| `Tracker` | the tracker, its watchdog and its alert queue, one step per lock, channel or atomic operation | |
| `Registry` | `metadata.db`: the operations on Projects, experiments, Runs and Sources, as operators | |
| `Scheduler` | one server process over the registry: its callers, `run_scraper`, its tasks | `Registry` |
| `Access` | which requests reach a handler | |
| `Sessions` | logins, logouts, throttle, heartbeat sockets, shutdown | `Access` |
| `UiDocuments` | decoding, encoding and validation of the dashboard's documents | |
| `UiServer` | the settings tables and what each request does to them, as operators | `UiDocuments` |
| `UiClients` | browsers editing the settings over a network that loses and delays | `UiServer` |
| `Charts` | index, charts in windows, summaries, pages of history and latest | |
| `Tables` | rows, records and groups of collections | |
| `Alerts` | the alert engine: rules, their states, the bounded series | |
| `Expressions` | what the condition of a rule says, in three-valued logic | `Alerts` |
| `AlertDispatch` | the HTTP dispatcher of alerts | |
| `SnapshotProducerProofs`, `SnapshotStoreProofs`, `TrackerProofs`, `ChartProofs`, `UiClientsProofs` | the theorems | their component |
| `AlgorithmProofs` | the theorems on the store's upgrade and on the two alert parts | `StoreUpgrade`, `Alerts`, `AlertDispatch` |
| `CollectorProofs` | the theorems on the collector and its refinement of the store | `Collector`, instance of `SnapshotStoreProofs` |
| `ServiceProofs` | the theorems on sessions, sockets, the throttle, the registry and the scraper | `Sessions`, `Scheduler` |
| `MCSnapshotProducer`, `MCSnapshotStore`, `MCCollector`, `MCTracker`, `MCUiClients` | constant values and symmetry for TLC | their component |
| `MCService` | the two sides of a server, side by side | `Scheduler`, `Sessions` |
| `MCAlgorithms` | the inputs of the read algorithms and of the two alert parts | `Charts`, `Tables`, `Expressions`, `AlertDispatch` |

**Producer.** The variables carry the names of `ProducerState`. `todo` is the part of
the running batch that has not been appended; while it is not empty the mutex is
held and nothing else runs, which is why `BeginCapture`, `EvictOldest` and
`AppendEntry` are separate steps though no other caller can come between them: the
property of interest is that the eviction loop, which does nothing on an empty
buffer and tests its condition again, never gets there. `captured`, `released` and
`published` are history variables. A snapshot's JSON is one abstract state with a
size; the code asks only whether it is a tracker event and how many bytes it takes.
The mutex-free prechecks of `capture_batch` are part of `CaptureAllowed`: a
producer sealed after them is caught by the check under the lock, so the two
together are one guard.

**Store.** `IngestPage` is `ingest_page` inside its savepoint: `Acceptable` collects
its errors, `Ingested` its writes. `Begin`, `Ingest`, `Commit` and `Rollback` are the
transaction of `ingest_batch_timed`. Pages are arbitrary: stale, repeated, out of
order, contradicting what is stored, for the wrong session. The run enumerates
them all within its bounds, and the theorems quantify over every set of pages.

**Collector.** One action per await, lock or transaction of `scrape_source`, `commit`,
`run` and `write`. A producer is what `RetentionWindow` allows of it: `Capture` moves
the window, `Release` empties it, `Restart` replaces the process by one with a new
session. `owner` is the mutex per Source; it is `Writer` when the guard sits in a
`Pending`. `job` holds the locals of a scrape. `Cancel` drops a caller's future at
any await; only API callers do that, `run_scraper` awaits its tasks. The failures
of a pull, of either transaction and the crash of the engine share the budget
`MaxFaults`.

**Upgrade.** Every transaction of `open`, `chart_index::initialize` and
`artifact_index::initialize` is a step and `Crash` may come between any two. An
index is the set of ids it lists, how many entries it has and its position: what
a listing contains is the business of the queries. `Init` is each thing an older
build can have left.

**Tracker.** `state` and `prepared` are `TrackerState` and `PreparedBatch` without the
values. `Prepare` takes the mutex and builds the batch of some call: `Logged`,
`Flushed`, `Noted`, `Ticked` and `Finished` are the batches each kind of call can
build from the current state, through `PrepareCommit` and `PrepareEvent`. Whether a
budget is exceeded, a capture refused or a rule fires depends on values, and is a
choice (`Refuse`, `CaptureFails`, the number of alerts). The steps of `send`, `close`,
the worker and `stop_watchdog` follow the code; reserving bytes and `try_send` are
one step because only the holder of the mutex reserves and the worker only gives
back. `handles` says whether the program still owns the tracker: when it lets go
during a tick, the drop happens on the watchdog (`DropSelf`). A sink call may return,
hang or panic. Tracker steps are bounded by `MaxStep`, which stands for `i64::MAX`;
records by `MaxRecords`, after which captures fail.

**Registry and scheduler.** Each operation of the registry is a transaction under one
lock, so it is an operator from tables and arguments to tables and answer, and an
action only where a caller uses it. `ensure_hierarchy` is up to six of them, one
per lookup and creation. A process that starts applies its configuration one Run
and one Source at a time (`Boot`, `ConfigureRun`, `ConfigureSource`); an error ends it
and leaves what was done. `run_scraper` is its loop: `Listing` and `Refresh` (two
steps, so that the listing is stale), `Reap`, `Spawn`, and the four branches of its
`select!`. The heap is a queue of what is due and a set of what is not; `Tick` lets an
entry come due. What a scrape does is `Collector`'s subject; here it reads its
Source again and ends in one of four ways, a panic among them.

**Access and sessions.** `Gate` and `Admit` are the middleware over a record of what it
reads. A login is admission (throttle, password), the session transaction and the
reply; a socket is admission, permit, upgrade, attachment, and for each heartbeat
receipt, session check and answer: everything else may happen in between, a logout,
the end of the session, a new process with another password. A digest keyed by the
password is the pair it is computed from.

**UI.** `UiDocuments` says of every document which JSON is decoded, how it is encoded and
what `validate` accepts, on texts abstracted to their identity, their two lengths
and whether they are clean. `UiServer` is the two tables and the three requests.
A browser of `UiClients` has the fields of `PreferencesStore`; what it saves is a `Record`,
a layout with an identity and a name. A request carries the frozen body, may be
served after the browser gave it up, and its answer may come to nobody. `chosen` and
`stray` are history variables: the theme a user chose last, and whether a write that
its browser had let go of has undone it since.

**Charts and tables.** A row's id is its place. A state is a flat object of numbers,
gaps and lists: enough for which fields the index admits, which it excludes, and
what a chart may draw. `Ask`, `QueryBounds`, `ReadWindow` (which may split) and `Merge`
are the transactions of one chart request, `FirstPage` and `NextPage` the requests of
a walk, and `Ingest` comes between any two. In `Tables` numbers are decimal tokens, as
they are in the code, which compares their text and never rounds; the property
compares what they are worth (`ByValue`). `Radix` is 2 in the run to reach the limits
of exponents with few digits.

**Alerts.** One action per call on the engine, with the rules' states and the bounded
series. What a condition says in a context is a parameter (`Says`), given by
`Expressions`, where numbers are fractions, or not finite. `log` keeps all that was given
and answered: from it alone, with no bounded series and no rule state, the properties
decide what the verdicts should have been and which alerts were due.

**Dispatch.** Callers and the workers' thread meet at two locks, the channel's queue
and the cancel flag; each use of one is a step. Dropping a `Pending` gives back its
bytes and then its count: two steps. A worker's local decisions (duplicate, token,
attempt) belong to the step that receives. An attempt ends in success, in failure or
in something that may pass; a lost answer is the last.

Left out of the modelled parts on purpose: limits on single values (depth, number
of nodes, name syntax), diagnostics counters, HTTP framing, and the wording of
errors. They reject one input or report, and hold no state the properties use.

## 3. What the runs check

All bounds are in the `.cfg` files.

- **producer** (`SnapshotProducer.cfg`). Four kinds of state, small and large, observation and
  event; batches of up to 2; a buffer of 3 entries and 4 bytes; 5 sequences. An
  event of 3 beside an observation of 1 just fits and beside one of 3 does not, so
  the pinned observation decides; five sequences fill and turn over the buffer and
  reach the end of the range. `NeverSpins` (the eviction loop makes progress),
  `RetentionIsSound` (the buffer is the tail of what was captured, within its budget,
  and the pinned observation is the newest), `PagesAreWellFormed` (every page for every
  cursor and limit passes the consumer's own validation and reports its losses), and
  `ImplementsWindow` (refinement).
- **store** (`SnapshotStore.cfg`). One Source, two sessions, an observation and an
  event, all pages with up to two entries over three sequences, two pages per
  transaction. States in which a table holds more than two rows are not explored
  further. Two rows, a gap and two sessions are what `CursorAccounts`, `AckIsExact`,
  `HeadIsNewestObservation`, `RetryIsIdempotent` and `HistoryOnlyGrows` tell apart;
  the theorems remove the bounds.
- **collector_restart** (`CollectorRestart.cfg`). The scheduler's task and an API caller
  scrape one Source whose process captures, evicts, releases and restarts at any
  moment; one fault anywhere. `GuardsFollowPages` (ownership and byte permits go with
  the page, whoever is cancelled), `PulledPagesAreTaken` (no page grows stale between
  pull and write), `StoredIsWhatWasCaptured` (a restart between descriptor and
  history mixes nothing up) and `SuccessMeansDurable`.
- **collector_group** (`CollectorGroup.cfg`). Two Sources, groups of two pages whose records do
  not always fit one group, so pages are grouped, put aside, refused beside accepted
  ones; and `ImplementsStore`: the writer is a user of `SnapshotStore`, so what is
  proved of the store holds of the collected history.
- **collector_live** (`CollectorLive.cfg`). `EventuallyCollected` under fairness: after an
  eviction, a restart, every lifecycle call and a fault, whatever a live producer
  retains is stored and its Source shown active, unless it was stopped or its
  history was released before it was pulled. `StoppedStaysStopped`: a scrape in flight
  does not bring back what a lifecycle call stopped.
- **upgrade** (`StoreUpgrade.cfg`). Up to three rows of three kinds over two Sources, catch-up
  transactions of one or two rows, up to two crashes. `OpenIsExact` (an interrupted
  catch-up resumes without omission or repetition; after an upgrade that was not
  interrupted the heads are right) and `OpenReturns`.
- **upgrade_crash** (`StoreUpgradeCrash.cfg`). Expected to be violated, see section 6.
- **tracker** (`Tracker.cfg`). Two interchangeable threads and the watchdog, three records,
  steps up to a cursor of 2, a queue of two alerts with a budget of two, so that an
  alert can be refused while the worker holds another and events can sit before
  the flush. Three records hold a step, a patch or an alert on it and the terminal
  record. `RecordsAreInOrder` (failed captures and racing finishes leave no trace in the
  numbers, and steps never go back), `AlertsAreCounted` and `FinishIsTruthful`.
- **tracker_live** (`TrackerLive.cfg`). One thread and the watchdog, two alerts per commit and
  a queue of one: the sink can hold the first while the second fills the queue.
  `CallsReturn` and `ThreadsEnd`.
- **ui** (`UiClients.cfg`). Two browsers that send three and two requests, two
  interchangeable workspaces, one experiment, a server with room for two browsers
  and documents up to revision 3: enough for a save that is lost, overtaken, pruned
  and sent again, and for the end of every range. `SelectionsExist` (a deletion in one
  browser and a late save in another leave no selection dangling),
  `SavesChangeOneWorkspace`, `AnswersAreTrue` and `ChosenThemeShown` (bootstraps,
  conflicts and lost answers leave the user's last choice on the screen). The last
  has one exception, `stray`, described in section 5; it does not arise within the
  bounds of the run, which therefore checks the property without it.
- **service** (`Service.cfg`). Five concerns, one per behaviour (`focus`), since they share
  nothing and interleaving them would only multiply states. *registry*: two callers
  of `ensure_hierarchy`, padded, long and blank names, configurations that repeat,
  differ or are refused. *scraper*: two Sources, one slot, one fault, two processes.
  *throttle*: three peers and a table for two over five moments with windows of two.
  *sessions*: time, expiry, a changed password, two browsers and a table for one
  session. *sockets*: two browsers, one permit, shutdown at any moment. It checks
  `EverySourceHasOnePlace`, `EndedRunsAreSettled`, `EnsureIsIdempotent`,
  `AnsweredWhileActive`, `NothingOutlivesShutdown`, `ThrottleHolds` and
  `SessionsEndForCause`.
- **algorithms** (`Algorithms.cfg`). Again one concern per behaviour. *windows*, *axes*,
  *coverage* and *statistics* ask for charts and summaries while up to five rows
  arrive: histories long enough to be split, clocks that step back, fields the index
  has no room for (`AnswersAreTrueToTheStates`). *pages* walks history and latest
  (`WalksAreComplete`). *numbers* sorts, filters and groups every pair of small decimal
  tokens, *rows*, *records* and *groups* read pages across Sources while newer
  snapshots arrive (`PagesAreExact`). *persistence*, *watchdog* and *series* feed every
  sequence of up to five steps, patches and ticks to rules of every kind and every
  function (`VerdictsReadTheHistory`, `AlertsAreJustified`); in the first, steps also go
  back. *limits* and *shutdown* drive the dispatcher through a
  bucket of one, windows that pass, retries, full queues, and a close at any moment
  with two callers and two channels (`DispatchIsHonest`).

Fairness. In the collector, `run_scraper` starts a scrape of every live Source again
and again and a started task and the writer thread run on: weak fairness. The owner
mutex, the semaphore and the channel are tokio's and serve their waiters first come,
first served, so a wait that can end again and again does end: strong fairness for
these three steps only. Nothing is assumed of producers, API callers, lifecycle
calls or faults. `open` runs on while its process lives. In the tracker, started
threads run on and the clock reaches a deadline (weak fairness); the mutex is
parking_lot's, which hands over to a waiter from time to time, so taking it is
strongly fair. The program's calls, the watchdog's interval and above all the sink
have no fairness. The other specifications state none and check safety.

Deadlock is checked in the runs of the producer, the store, the collector, the
upgrade and the tracker: in each something can always happen (a producer that is
full can still be sealed, a store can still be read and reopened; `Finale` is the
tracker dropped with all threads ended). In **ui**, **service** and **algorithms** a behaviour
ends when its users have sent all they may: there it is not.

Every property has a mutant in `PROJECT.json`: the named definition is replaced by an
operator defined before it that makes a plausible mistake, and TLC then finds the
property violated.

## 4. What is proved

For every value of the constants that satisfies the named assumptions, which TLC
evaluates on every run:

| assumption | says |
|---|---|
| `ProtocolAssumption`, `ProducerAssumption`, `UpgradeAssumption`, `TrackerAssumption`, `SessionsAssumption`, `AlertsAssumption`, `DispatchAssumption` | limits, sizes and bounds are numbers, positive where the code requires it; the watchdog is no caller; an idle worker's mark is no alert |
| `StoreAssumption`, `NoBatchAssumption`, `ClientAssumption`, `PendingAssumption` | pages are pages; a marker of absence is none of the values it stands beside |
| `CollectorAssumption` | each first process has a session of its own; what sessions capture are states; a pull asks for no more than a page may hold |
| `NonceAssumption` | a nonce is random: none is drawn twice, and no request carries one that was not given to its browser |
| `BrowserAssumption` | browser ids are UUIDs: there are more than browsers are admitted |
| `ChartsAssumption` | limits and budgets are numbers, a page has a limit of at least one and a read takes at least two rows; Sources are named by numbers, for the order of their names; a snapshot has one step at most and says of each path what it holds; a chart asks for finitely many known paths, no more than five times the points an answer may have |
| `RegistryAssumption`, `SchedulerAssumption` | trimming a name twice is trimming it once; the configurations and registrations tried are of their types; there is a slot for a scrape |
| `LayoutAssumption` | a workspace a browser saves is written as the server writes it: decoded and encoded again it is the same |

*Producer* (`SnapshotProducerProofs`). `ProducerInv` is inductive. Beyond the stated
properties it needs two things. `BytesAddUp`: the byte count is the difference of two
running totals of everything captured, which replaces a sum over the buffer by a
subtraction that eviction and append each change at one end. `InLoop`: inside the
loop, what is left of the batch still fits, event by event, beside the observation
that will be current when it is appended; this is what the prechecks establish
and what makes the loop find an entry to evict. From it: `ProducerTypes`,
`LoopNeverSpins`, `RetentionHolds`, `PagesValidate`, and the refinement
`ProducerImplementsWindow`, where a capture in progress maps to a stutter and its last
append to the atomic capture.

*Store* (`SnapshotStoreProofs`). `StoreInv` says of the committed database and of the
open transaction that cursors account for everything behind them, ids were issued
in order and heads follow observations; that the transaction only extends what is
committed; and that the last accepted page could be repeated without effect. The
argument is local to one page: an accepted page either inserts nothing, and then
changes nothing, or inserts exactly the unbroken run from the cursor (or from the
oldest retained entry, with a gap up to it) to its end. From it: `TypeCorrect`,
`CursorsAccount`, `AcksAreExact`, `HeadsFollowObservations`, `RetriesAreIdempotent` and
the action property `HistoryGrows`.

*Upgrade* (`AlgorithmProofs`). `UpgradeInv` adds to `OpenIsExact` what each place of
`open` knows. An index that carries the current version is exact for the rows behind
its position, wherever a crash left it (`ChartIsExact`, `ArtifactsAreExact`), and each
catch-up loop has done what the steps before it were for (`LoopsAreDone`). What is
known of the heads holds only while nothing has crashed (`HeadsKnown`); that it
cannot be had without this condition is the finding of section 6. From it:
`OpenStoreIsExact`.

*Tracker* (`TrackerProofs`). Four parts, each needing the ones before it. `OneHolder`: the
mutex has at most one holder. `LogInv`: the published state has counted the records
captured and stands at or past their steps, and a batch that is prepared and not
captured continues both, which is why a failed capture leaves no trace. `CloseInv`: one
thread closes, once, after the terminal record, and goes on without a watchdog.
`QueueInv`: every reserved alert is queued, in the worker's hands, being sent or
settled, and a flush is the last message ever queued. From them: `RecordsStayInOrder`,
`AlertsStayCounted` and `CompleteMeansDelivered`.

*Collector* (`CollectorProofs`). `CollectorInv` begins with the invariant of the store
itself, with the writer's transaction for the store's: each step of the collector is
one of `SnapshotStore` or leaves the database alone, so `StoreStep`, proved once, keeps
it. To that come what the writer's place says it holds (`WorkerInv`); that a Source's
owner is a task at a place that holds the guard, or the writer exactly while a page
of it is in line (`OwnerInv`); what a task knows at which await (`JobInv`); that the
permits given out are the bytes of the pages that hold some (`PermitInv`, by counting
a set of numbered units); that an ended Run has ended its Sources (`RegistryInv`);
that pages, rows and gaps are true of their producer, which only moves on
(`TruthInv`); and the two the design rests on. `TakenInv`: a pulled page was made for
the cursor its stream still has, since nobody else may own the Source, and stays
acceptable in the open transaction, since each Source is in line once. `DurableInv`:
what was accepted is in the transaction, or committed, until its answer is given. From
it: `GuardsStayWithPages`, `StoredIsTrue`, `PulledPagesStayGood`, `OkMeansDurable`,
`StopsAreFinal`, the refinement `CollectorImplementsStore`, and through it
`CollectedAcksAreExact`: an acknowledgment over the collected history is complete
exactly when the history is.

*Sessions* (`ServiceProofs`). `SessionsInv` is proved for `WebSpec`, every process, browser
and socket of a server; the run **service** checks the same actions within its five
behaviours. A process that is down holds nothing (`DownInv`); a nonce not yet drawn is
nobody's, and one being stored is its drawer's alone (`FreshInv`), so nobody can bring
an ended session back between a heartbeat and its answer (`LiveInv`); permits and sockets
that hold one add up (`SocketInv`). `ThrottleInv` ties the table, which forgets, to the
history of attempts, which does not: a peer's window is the end of its history, and
of a peer that was forgotten less than a window's worth is recent. From it:
`AnswersAreForTheLive`, `ShutdownLeavesNoSocket`, `ThrottleIsSound` and the action property
`SessionsGoForCause`.

*Registry and scraper* (`ServiceProofs`). `SchedulerInv` is inductive for `Scheduler`. The
registry's rows have identities of their own, a Source's Run exists, and an ended Run
has no Source shown as active or stale (`RegistryFits`). Each operation is shown once to
keep that and to undo nothing (`Kept`), so that a caller of `ensure_hierarchy` whose Run
was there when it began still finds it (`CallsFit`), and what the process remembers is
of registered Sources, its listings old but never wrong about a stop (`MemoryFits`).
`OnSchedule`: the schedule and the tasks share no Source and each known one is in one
of them, unless its task panicked; a Source in a task that is no longer known has
stopped, so that no listing finds it anew and schedules it a second time. From it:
`SourcesKeepOnePlace`, `RunsStaySettled`, `EnsureStaysIdempotent` and the action property
`RegistryOnlyGrows`: no step removes a Run or a Source, renames a Run, moves a Source to
another Run, reopens an ended Run or revives a stopped Source.

*Pages that are followed* (`ChartProofs`). `WalkInv` says what the key of a page, an id
or a Source, still stands for. Of what was stored when the walk began (history) or of
the Sources that had a snapshot then (latest), each is behind the key and has been read,
or ahead of it and has not; and what is ahead of the key comes after all that was read
(`HistoryOpen`, `LatestOpen`). A row ingested since has a greater id, so it is not ahead of a
history walk; it may give a Source a newer head, which is why what latest read of a
Source is only known to be at least as new as its head was. A page is a prefix of what
its query selects in the query's order, never an empty one with more to follow, wherever
the limit or the byte budget cut it (`PageIs`): the order is stated once for any key
that tells rows apart (`OrderedBy`), and its one sorted sequence is shown to exist by counting what
comes before each element (`RankIs`), which needs no induction. From it: `WalksStayComplete`.

*Charts* (`ChartProofs`). `ChartInv` has three parts. `IndexFits`: the index holds of a row
what its state held, and what it left out is marked as excluded. `ChartFits`: the
windows still to be read tile the axis behind those that were read (`Tiles`), however they
were partitioned and split; and each series so far is a `Line`: in order, up to the last
point stored when the chart was asked for, and broken wherever an observation between
two points had no number. A line stays one when it is sampled (`SampleLine`), when the
line of the next window is joined to it (`JoinLine`), and when rows come in behind it
(`LineKept`). The sampler, which takes positions from a recursive function, is stated once
without it, by what it picks (`Picks`): the last point, and a null between two picks that
had one between them. A summary is true to the rows it was read from, which rows that
come later leave alone. From it: `AnswersStayTrueToTheStates`.

*Alert engine* (`AlgorithmProofs`). A rule keeps four numbers and times and forgets the rest.
`AlertsInv` says of each what it is of the whole log (`Follows`): `consecutive` counts the
steps the condition was true of since it was last false, but for those equal to the one
it was last true of; `since_ns` is when it became true without a gap; `fires` and
`last_fire_ns` are the alerts sent and the last of them; and it is `firing` when one was
sent since it was last false. To read the cooldown of every past alert off the last
one, the invariant also needs that they were a cooldown apart from each other, since
the clock may step back. What is counted is the number of distinct steps as long as none
comes back after another (`DistinctSteps`). Nothing is assumed of what conditions say or
of the clock, and of the order of steps only for `for_steps`. From it:
`AlertsStayJustified`.

*Alert dispatch* (`AlgorithmProofs`). `DispatchInv` says of each channel that a
`Pending` is in one place at most: the queue, the hands of one caller, or the worker's
(`ChannelFits`); which of these still count its bytes and which still count it as
pending differs, since dropping one is two steps. The bytes are the set of their
units, so that their number follows from unions of disjoint sets and no sum is
needed. What a worker remembers it delivered, at that time (`MemoryFits`), and the tokens
it has left bound how many deliveries it can still begin before the next refill,
counted from each earlier one (`Paced`). A flush that succeeds finds nothing pending,
failed or dropped, so everything accepted was delivered or suppressed (`CountsFit`).
From it: `DispatchStaysHonest`.

*UI* (`UiClientsProofs`). `SelectionsStayThere` needs only `SettingsInv`: the tables fit each
other, whatever kinds of requests are under way. `ChosenThemeStaysShown` needs to know
of each browser how its fields, its row, and every bootstrap and answer still on its
way may differ: `ThemeInv` says it browser by browser (`Fits`). A queued patch or a body
in flight holds the choice; without either the row holds it; an older bootstrap is one
the revision check will refuse; an acknowledgment shows what was asked; a conflict's
document is overridden by what is queued. No two browsers have an identity in
common, so one browser's step leaves the others' `Fits` alone. The proof found the
exception `stray`: without it the invariant is not inductive, and the step that breaks
it can be reached. `NoUpdateIsLost` and `AnswersStayTrue` rest on `WriteInv`, which says
three things. A copy of the workspaces, in a browser or in an answer, was the server's
document at its revision, and is the current one if the revisions agree (`Follows`); so
a body made from it agrees with the document of its revision in all but the
workspace edited (`EditFits`). A mutation belongs to one body, in the browser's hands or
on its way, since it is drawn when the body is frozen and retries send that body
(`BodiesDiffer`). And a row is what its last mutation asked for, or has none, which is
why `prune_selections` must clear it (`RowsRemember`, `RowAsAsked`).

Only model-checked:

- All liveness (`EventuallyCollected`, `OpenReturns`, `CallsReturn`, `ThreadsEnd`): it needs
  fairness and `ENABLED`, out of the prover's reach.
- The other read algorithms (`PagesAreExact`, `VerdictsReadTheHistory`). `Tables` recurs over
  JSON values and `Expressions` over expressions, which the prover's SMT backend does not
  follow.
- That a workspace survives decoding and encoding (`LayoutAssumption`), for the layout of
  the run **ui**: for every document it would again be induction over data.

## 5. Not modelled

`components` in `PROJECT.json` lists every part with the reason. Command line, TUI,
configuration files, rendering, HTTP routing and the Python bindings keep no state
the properties depend on. Inside the modelled parts:

- *Store and queries*: the chart and table catalogs, `diff`, nested pointers, previews,
  what the artifact index lists of a row, and the limits on bytes, nodes and text of a
  table read. A Source has one session in `Charts` and `Tables`. Sums the code reports
  as approximate have no value in the model.
- *Alerts*: `std` and `zscore` (square roots), the rendering of messages, the lexer and
  parser of expressions, the byte budget of series, `replay`.
- *Dispatch*: validation of the configuration and the payload of each kind of channel.
- *Tracker*: metric values, summary, retained history, and a forked child.
- *Acknowledgment*: the client's polling loop; it keeps nothing between two polls.

The properties are worded to leave out these behaviours, which the models show and a
reader may want to know:

- A chart on the elapsed axis has the Run's first observation as its zero. A row
  ingested late but observed earlier moves it between two windows of one request;
  `AnswersAreTrueToTheStates` is stated for charts and summaries whose zero stands still
  (`Steady`): the Run's first observation was there when the chart was asked for.
- A wall clock that steps back keeps rules from firing until it has caught up, those
  without a duration or cooldown too; `AlertsAreJustified` says so.
  A time window over samples that went back may have lost some that a longer series
  would show: `VerdictsReadTheHistory` is stated for clocks that run forward.
- `for_steps` "advances only for distinct committed steps" (`docs/tracker.md:229`). The
  engine remembers only the last step it counted (`alert/mod.rs:303`): one that is
  committed again after another counts again. A tracker with `StepPolicy::Allow`
  (`rvx-tracker/src/state.rs:56`) commits such steps, and `replay` (`alert/mod.rs:435`) takes
  steps in any order. `AlertsAreJustified` counts distinct steps and leaves `for_steps` out
  where a step came back (`Returns`): of such a log it says what else an alert needs.
- `ensure_hierarchy` (`rvx-engine/src/lib.rs:124`, "Idempotently create") looks up and
  creates in separate transactions: callers that begin before there is a Run may each
  create one, and a name with white space around it is never found again, since the
  stored one is trimmed. `EnsureIsIdempotent` says what does hold.
- A browser may show a theme that was not chosen last. `submitWorkspace`
  (`preferences.ts:115`, "Definite validation/auth failures did not commit") takes a write
  that was refused with a 4xx as one that can no longer take effect, and so does
  `writeBrowser`: the body is given up and its patch queued again. An earlier attempt
  of the same body, whose answer never came, may still be on its way and undo a newer
  choice when it is served. The way there that is known takes close to sixty steps and
  has a workspace deleted and made again under the same identity, which
  `PreferencesStore.save` admits and `workspace-view.tsx` avoids by drawing a new one.
  `ChosenThemeShown` allows for it with `stray`, which is set by exactly that service.
- A scrape task that panics is not put back on the schedule while its process lives.
- The server counts the characters of a text, the browser its UTF-16 units: a name may
  be accepted by one and refused by the other.

## 6. Finding

`open` commits the new version of the chart index first and rebuilds
`snapshot_heads` after it, only if this open did the upgrade or created the table. A
crash in between leaves an index of the current version beside heads that were not
rebuilt, and no later open looks again. `upgrade_crash` shows it in one crash:
`HeadsAreRebuilt` states what the comment in `open` says of the rebuild. The damage is
bounded: the next observation of a Source moves its head to itself.

## 7. Plan

What is left, in this order:

1. Liveness of `Scheduler` (a Source that is not stopped is scraped again) and of
   `AlertDispatch` (a close returns; every alert is settled).
2. Several sessions of a Source in `Charts`, the catalogs, and `replay`.

------------------------------ MODULE Collector -------------------------------
(***************************************************************************)
(* Collection of snapshots end to end: producers that capture, evict and   *)
(* restart; scrape_source tasks that pull a page under per-Source          *)
(* ownership; the Ingestor that admits pages against a byte budget, groups *)
(* them and commits the group to snapshots.db and then to metadata.db; and *)
(* the lifecycle calls that stop Sources meanwhile.                        *)
(*                                                                         *)
(* Every await, lock and transaction of the code is a step boundary.  The  *)
(* fault actions (a failed pull, a failed transaction, a cancelled caller, *)
(* a crash of the engine) share one budget, MaxFaults.                     *)
(***************************************************************************)
EXTENDS SnapshotDb

CONSTANTS
  Task,             \* callers of scrape_source
  Scheduled,        \* those run by run_scraper; the others are API callers
  Target,           \* the Source each of them scrapes
  FirstSession,     \* the session of each Source's first producer process
  PullLimit,        \* DEFAULT_SNAPSHOT_HISTORY_LIMIT
  MaxBatchPages,    \* MAX_BATCH_PAGES, also the capacity of the channel
  MaxBatchRecords,  \* MAX_BATCH_RECORDS
  MaxBatchBytes,    \* MAX_BATCH_BYTES
  SourceRequests,   \* what callers of update_source_state ask for
  RunRequests,      \* what callers of update_run_status ask for
  MaxFaults,
  Free,             \* an owner mutex nobody holds
  Writer,           \* an owner guard that has moved into a Pending
  NoTx,
  NoPage,
  NoSession

(* What session e captures as its n-th snapshot.                           *)
Content(e, n) == <<e, n>>

QueuedBytes == 2 * MaxBatchBytes

ASSUME CollectorAssumption ==
  /\ Scheduled \subseteq Task
  /\ Target \in [Task -> Source]
  /\ FirstSession \in [Source -> Session]
  /\ \A s, u \in Source : FirstSession[s] = FirstSession[u] => s = u
  /\ {Content(e, n) : e \in Session, n \in 0 .. MaxSequence} \subseteq State
  /\ PullLimit \in 1 .. PageLimit
  /\ MaxBatchPages \in Nat \ {0}
  /\ MaxBatchRecords \in Nat
  /\ MaxBatchBytes \in Nat
  /\ SourceRequests \subseteq {"draining", "ended", "lost"}
  /\ RunRequests \subseteq {"running", "finished", "failed", "cancelled"}
  /\ MaxFaults \in Nat
  /\ Free # Writer /\ Free \notin Task /\ Writer \notin Task
  /\ NoTx \notin Db
  /\ NoPage \notin Source \X Page

VARIABLES
  live,        \* the session of the process that now answers for a Source
  window,      \* per session: what its producer captured and still retains
  run,         \* status of the Sources' Run
  state,       \* state of each Source in the registry
  descriptor,  \* session of the descriptor stored last for a Source
  db, tx,      \* snapshots.db, and the writer's open transaction on it
  pc, job,     \* each task's place in scrape_source, and its locals
  owner,       \* the scrape_owners mutex of each Source
  budget,      \* free permits of the byte semaphore
  queue, deferred, batch, results, phase,  \* the Ingestor's worker
  faults

producers == <<live, window>>
registry  == <<run, state, descriptor>>
tasks     == <<pc, job, owner, budget>>
worker    == <<deferred, batch, results, phase>>

vars == <<producers, registry, db, tx, tasks, queue, worker, faults>>

RunStatus   == {"created", "running", "finished", "failed", "cancelled"}
SourceState == {"discovered", "active", "stale", "draining", "ended", "lost"}
Terminal    == {"finished", "failed", "cancelled"}
Stopped     == {"draining", "ended", "lost"}

(* Mutant: only the Run is looked at.                                      *)
MayUpdateRunning(s) == run \notin Terminal

(* Mutant: a stale Source stays stale.                                     *)
MayUpdateUnlessStale(s) == run \notin Terminal /\ state[s] \in {"discovered", "active"}

(* The guard both metadata updates share.                                  *)
MayUpdate(s) == run \notin Terminal /\ state[s] \notin Stopped

NoJob == [session |-> NoSession, cursor |-> 0, page |-> NoPage, result |-> "none"]

Pending(t) ==
  [task |-> t, source |-> Target[t], session |-> job[t].session, page |-> job[t].page]

(* The serialized page and descriptor: one unit for the envelopes and one  *)
(* for every snapshot.                                                     *)
Bytes(page) == 1 + Len(page.snapshots)

Init ==
  /\ live = FirstSession
  /\ window = [e \in Session |-> [oldest |-> 0, next |-> 0, sealed |-> FALSE]]
  /\ run = "created"
  /\ state = [s \in Source |-> "discovered"]
  /\ descriptor = [s \in Source |-> NoSession]
  /\ db = EmptyDb
  /\ tx = NoTx
  /\ pc = [t \in Task |-> "idle"]
  /\ job = [t \in Task |-> NoJob]
  /\ owner = [s \in Source |-> Free]
  /\ budget = QueuedBytes
  /\ queue = <<>>
  /\ deferred = <<>>
  /\ batch = <<>>
  /\ results = <<>>
  /\ phase = "collect"
  /\ faults = 0

-------------------------------------------------------------------------------
(* Producers, as RetentionWindow describes them.                           *)

(* The page a producer whose window is w answers with.                     *)
PageOf(e, w, after) ==
  HistoryPage(e, [i \in 1 .. w.next - w.oldest |->
                    [sequence |-> w.oldest + i - 1, state |-> Content(e, w.oldest + i - 1)]],
              w.oldest, after, PullLimit)

Capture(s) ==
  LET w == window[live[s]]
  IN /\ ~w.sealed
     /\ w.next < MaxSequence
     /\ \E oldest \in w.oldest .. w.next :
          window' = [window EXCEPT ![live[s]].oldest = oldest, ![live[s]].next = @ + 1]
     /\ UNCHANGED <<live, registry, db, tx, tasks, queue, worker, faults>>

Release(s) ==
  /\ ~window[live[s]].sealed
  /\ window' = [window EXCEPT ![live[s]].oldest = window[live[s]].next,
                              ![live[s]].sealed = TRUE]
  /\ UNCHANGED <<live, registry, db, tx, tasks, queue, worker, faults>>

(* The traced process is started again: a fresh session, an empty window.  *)
Restart(s, e) ==
  /\ e \notin {live[u] : u \in Source} \cup {FirstSession[u] : u \in Source}
  /\ window[e].next = 0
  /\ live' = [live EXCEPT ![s] = e]
  /\ UNCHANGED <<window, registry, db, tx, tasks, queue, worker, faults>>

-------------------------------------------------------------------------------
(* Lifecycle calls.                                                        *)

(* update_source_state, for the transitions that change something.         *)
StopSource(s, target) ==
  /\ \/ state[s] \in {"discovered", "active", "stale"} /\ target \in Stopped
     \/ state[s] = "draining" /\ target \in {"ended", "lost"}
  /\ state' = [state EXCEPT ![s] = target]
  /\ UNCHANGED <<producers, run, descriptor, db, tx, tasks, queue, worker, faults>>

(* update_run_status.                                                      *)
UpdateRun(target) ==
  /\ run \notin Terminal
  /\ target \in Terminal \/ (run = "created" /\ target = "running")
  /\ run' = target
  /\ state' = IF target \in Terminal
                THEN [s \in Source |->
                        IF state[s] \in {"ended", "lost"} THEN state[s]
                        ELSE IF target = "failed" THEN "lost" ELSE "ended"]
                ELSE state
  /\ UNCHANGED <<producers, descriptor, db, tx, tasks, queue, worker, faults>>

-------------------------------------------------------------------------------
(* scrape_source.                                                          *)

Goto(t, label) == pc' = [pc EXCEPT ![t] = label]

(* The places where the task itself holds its Source's owner guard.        *)
Holding == {"check", "descriptor", "cursor", "history", "admit", "send"}

(* The call returns.  run_scraper's task still has to record a failure.    *)
Return(t, result) ==
  /\ Goto(t, IF result = "failed" /\ t \in Scheduled THEN "record" ELSE "idle")
  /\ job' = [job EXCEPT ![t] = [NoJob EXCEPT !.result = result]]

Start(t) ==
  /\ pc[t] = "idle"
  /\ Goto(t, "lock")
  /\ job' = [job EXCEPT ![t] = NoJob]
  /\ UNCHANGED <<producers, registry, db, tx, owner, budget, queue, worker, faults>>

(* Mutant: the owner mutex is not waited for.                              *)
AcquireOwnerAtOnce(t) ==
  /\ pc[t] = "lock"
  /\ owner' = [owner EXCEPT ![Target[t]] = t]
  /\ Goto(t, "check")
  /\ UNCHANGED <<producers, registry, db, tx, job, budget, queue, worker, faults>>

AcquireOwner(t) ==
  /\ pc[t] = "lock"
  /\ owner[Target[t]] = Free
  /\ owner' = [owner EXCEPT ![Target[t]] = t]
  /\ Goto(t, "check")
  /\ UNCHANGED <<producers, registry, db, tx, job, budget, queue, worker, faults>>

(* The Source is read again under the lock; a stopped one is left alone.   *)
CheckSource(t) ==
  /\ pc[t] = "check"
  /\ IF state[Target[t]] \in Stopped
       THEN Return(t, "ok") /\ owner' = [owner EXCEPT ![Target[t]] = Free]
       ELSE Goto(t, "descriptor") /\ UNCHANGED <<job, owner>>
  /\ UNCHANGED <<producers, registry, db, tx, budget, queue, worker, faults>>

PullDescriptor(t) ==
  /\ pc[t] = "descriptor"
  /\ job' = [job EXCEPT ![t].session = live[Target[t]]]
  /\ Goto(t, "cursor")
  /\ UNCHANGED <<producers, registry, db, tx, owner, budget, queue, worker, faults>>

ReadCursor(t) ==
  /\ pc[t] = "cursor"
  /\ job' = [job EXCEPT ![t].cursor = db.cursor[<<Target[t], job[t].session>>]]
  /\ Goto(t, "history")
  /\ UNCHANGED <<producers, registry, db, tx, owner, budget, queue, worker, faults>>

(* The history comes from whichever process answers now.  A cursor past    *)
(* its next_sequence is an error, as is a page too large for a group.      *)
PullHistory(t) ==
  LET e    == live[Target[t]]
      page == PageOf(e, window[e], job[t].cursor)
  IN /\ pc[t] = "history"
     /\ IF job[t].cursor <= window[e].next /\ Bytes(page) <= MaxBatchBytes
          THEN /\ job' = [job EXCEPT ![t].page = page]
               /\ Goto(t, "admit")
               /\ UNCHANGED owner
          ELSE /\ Return(t, "failed")
               /\ owner' = [owner EXCEPT ![Target[t]] = Free]
     /\ UNCHANGED <<producers, registry, db, tx, budget, queue, worker, faults>>

(* A pull fails or times out; the guard is dropped with the future.        *)
PullFails(t) ==
  /\ pc[t] \in {"descriptor", "history"}
  /\ faults < MaxFaults
  /\ faults' = faults + 1
  /\ Return(t, "failed")
  /\ owner' = [owner EXCEPT ![Target[t]] = Free]
  /\ UNCHANGED <<producers, registry, db, tx, budget, queue, worker>>

AcquireBudget(t) ==
  /\ pc[t] = "admit"
  /\ Bytes(job[t].page) <= budget
  /\ budget' = budget - Bytes(job[t].page)
  /\ Goto(t, "send")
  /\ UNCHANGED <<producers, registry, db, tx, job, owner, queue, worker, faults>>

(* Admission: the owner guard and the permits move into the Pending.       *)
Send(t) ==
  /\ pc[t] = "send"
  /\ Len(queue) < MaxBatchPages
  /\ queue' = Append(queue, Pending(t))
  /\ owner' = [owner EXCEPT ![Target[t]] = Writer]
  /\ Goto(t, "reply")
  /\ UNCHANGED <<producers, registry, db, tx, job, budget, worker, faults>>

(* update_source_failure, after scrape_source has returned its error and   *)
(* dropped the owner guard.                                                *)
RecordFailure(t) ==
  /\ pc[t] = "record"
  /\ state' = IF MayUpdate(Target[t]) THEN [state EXCEPT ![Target[t]] = "stale"] ELSE state
  /\ Goto(t, "idle")
  /\ UNCHANGED <<producers, run, descriptor, db, tx, job, owner, budget, queue, worker, faults>>

(* Mutant: the caller takes the ownership and the permits of what it has   *)
(* already handed over with it.                                            *)
CancelAdmitted(t) ==
  /\ t \notin Scheduled
  /\ pc[t] # "idle"
  /\ faults < MaxFaults
  /\ faults' = faults + 1
  /\ Goto(t, "idle")
  /\ job' = [job EXCEPT ![t] = NoJob]
  /\ owner' = IF pc[t] \in Holding \cup {"reply"} THEN [owner EXCEPT ![Target[t]] = Free]
              ELSE owner
  /\ budget' = IF pc[t] \in {"send", "reply"} THEN budget + Bytes(job[t].page) ELSE budget
  /\ UNCHANGED <<producers, registry, db, tx, queue, worker>>

(* The caller drops the future.  What it holds is released; what has been  *)
(* admitted is not.                                                        *)
Cancel(t) ==
  /\ t \notin Scheduled
  /\ pc[t] # "idle"
  /\ faults < MaxFaults
  /\ faults' = faults + 1
  /\ Goto(t, "idle")
  /\ job' = [job EXCEPT ![t] = NoJob]
  /\ owner' = IF pc[t] \in Holding THEN [owner EXCEPT ![Target[t]] = Free] ELSE owner
  /\ budget' = IF pc[t] = "send" THEN budget + Bytes(job[t].page) ELSE budget
  /\ UNCHANGED <<producers, registry, db, tx, queue, worker>>

-------------------------------------------------------------------------------
(* The Ingestor's worker thread.                                           *)

Records(group) == Cardinality(UNION {{i} \X DOMAIN group[i].page.snapshots : i \in DOMAIN group})

GroupBytes(group) == Len(group) + Records(group)

Fits(group) == GroupBytes(group) <= MaxBatchBytes /\ Records(group) <= MaxBatchRecords

(* The first page of a group: the one put aside, else the next in line.    *)
TakeFirst ==
  /\ phase = "collect"
  /\ deferred # <<>> \/ queue # <<>>
  /\ IF deferred # <<>>
       THEN batch' = deferred /\ deferred' = <<>> /\ UNCHANGED queue
       ELSE batch' = <<Head(queue)>> /\ queue' = Tail(queue) /\ UNCHANGED deferred
  /\ phase' = "gather"
  /\ UNCHANGED <<producers, registry, db, tx, tasks, results, faults>>

Gather ==
  /\ phase = "gather"
  /\ Len(batch) < MaxBatchPages
  /\ queue # <<>>
  /\ Fits(Append(batch, Head(queue)))
  /\ batch' = Append(batch, Head(queue))
  /\ queue' = Tail(queue)
  /\ UNCHANGED <<producers, registry, db, tx, tasks, deferred, results, phase, faults>>

(* The group is closed, full or for want of another page, or by a page     *)
(* that no longer fits; the snapshot transaction begins.                   *)
BeginWrite ==
  /\ phase = "gather"
  /\ \/ /\ Len(batch) = MaxBatchPages \/ queue = <<>>
        /\ UNCHANGED <<queue, deferred>>
     \/ /\ Len(batch) < MaxBatchPages
        /\ queue # <<>>
        /\ ~Fits(Append(batch, Head(queue)))
        /\ deferred' = <<Head(queue)>>
        /\ queue' = Tail(queue)
  /\ tx' = db
  /\ phase' = "ingest"
  /\ UNCHANGED <<producers, registry, db, tasks, batch, results, faults>>

(* ingest_batch_timed: the next page in its savepoint.                     *)
IngestNext ==
  LET p == batch[Len(results) + 1]
  IN /\ phase = "ingest"
     /\ Len(results) < Len(batch)
     /\ tx' = IngestPage(tx, p.source, p.session, p.page)
     /\ results' = Append(results, Acceptable(tx, p.source, p.session, p.page))
     /\ UNCHANGED <<producers, registry, db, tasks, queue, deferred, batch, phase, faults>>

CommitSnapshots ==
  /\ phase = "ingest"
  /\ Len(results) = Len(batch)
  /\ db' = tx
  /\ tx' = NoTx
  /\ phase' = "metadata"
  /\ UNCHANGED <<producers, registry, tasks, queue, deferred, batch, results, faults>>

(* Mutant: the error of the group is swallowed.                            *)
AllSucceed == results' = [i \in DOMAIN batch |-> TRUE]

AllFail == results' = [i \in DOMAIN batch |-> FALSE]

(* Mutant: the failed transaction is left open.                            *)
SnapshotsFailOpen ==
  /\ phase = "ingest"
  /\ faults < MaxFaults
  /\ faults' = faults + 1
  /\ AllFail
  /\ phase' = "reply"
  /\ UNCHANGED <<producers, registry, db, tx, tasks, queue, deferred, batch>>

(* A statement or the commit fails: the group fails as a whole.            *)
SnapshotsFail ==
  /\ phase = "ingest"
  /\ faults < MaxFaults
  /\ faults' = faults + 1
  /\ tx' = NoTx
  /\ AllFail
  /\ phase' = "reply"
  /\ UNCHANGED <<producers, registry, db, tasks, queue, deferred, batch>>

Accepted == {i \in DOMAIN results : results[i]}

(* update_source_success_batch, in its own transaction on metadata.db.     *)
UpdateMetadata ==
  LET of(s) == {i \in Accepted : batch[i].source = s}
  IN /\ phase = "metadata"
     /\ state' = [s \in Source |-> IF of(s) # {} /\ MayUpdate(s) THEN "active" ELSE state[s]]
     /\ descriptor' = [s \in Source |->
                         IF of(s) = {} THEN descriptor[s]
                         ELSE batch[CHOOSE i \in of(s) : \A j \in of(s) : j <= i].session]
     /\ run' = IF Accepted # {} /\ run = "created" THEN "running" ELSE run
     /\ phase' = "reply"
     /\ UNCHANGED <<producers, db, tx, tasks, queue, deferred, batch, results, faults>>

(* The metadata transaction fails after the snapshots have been committed. *)
MetadataFails ==
  /\ phase = "metadata"
  /\ Accepted # {}
  /\ faults < MaxFaults
  /\ faults' = faults + 1
  /\ AllFail
  /\ phase' = "reply"
  /\ UNCHANGED <<producers, registry, db, tx, tasks, queue, deferred, batch>>

(* One reply of the group; dropping its Pending frees the owner mutex and  *)
(* the permits.  A caller that has gone hears nothing.                     *)
Reply ==
  LET p == Head(batch)
  IN /\ phase = "reply"
     /\ IF pc[p.task] = "reply"
          THEN Return(p.task, IF Head(results) THEN "ok" ELSE "failed")
          ELSE UNCHANGED <<pc, job>>
     /\ owner' = [owner EXCEPT ![p.source] = Free]
     /\ budget' = budget + Bytes(p.page)
     /\ batch' = Tail(batch)
     /\ results' = Tail(results)
     /\ phase' = IF Tail(batch) = <<>> THEN "collect" ELSE "reply"
     /\ UNCHANGED <<producers, registry, db, tx, queue, deferred, faults>>

(* The engine dies and is started again: both databases survive.           *)
Crash ==
  /\ faults < MaxFaults
  /\ faults' = faults + 1
  /\ tx' = NoTx
  /\ pc' = [t \in Task |-> "idle"]
  /\ job' = [t \in Task |-> NoJob]
  /\ owner' = [s \in Source |-> Free]
  /\ budget' = QueuedBytes
  /\ queue' = <<>>
  /\ deferred' = <<>>
  /\ batch' = <<>>
  /\ results' = <<>>
  /\ phase' = "collect"
  /\ UNCHANGED <<producers, registry, db>>

-------------------------------------------------------------------------------
Produce == \E s \in Source : Capture(s) \/ Release(s) \/ \E e \in Session : Restart(s, e)

Control ==
  \/ \E s \in Source, target \in SourceRequests : StopSource(s, target)
  \/ \E target \in RunRequests : UpdateRun(target)

Scrape(t) ==
  \/ AcquireOwner(t)
  \/ CheckSource(t)
  \/ PullDescriptor(t)
  \/ ReadCursor(t)
  \/ PullHistory(t)
  \/ AcquireBudget(t)
  \/ Send(t)
  \/ RecordFailure(t)

Write ==
  \/ TakeFirst
  \/ Gather
  \/ BeginWrite
  \/ IngestNext
  \/ CommitSnapshots
  \/ UpdateMetadata
  \/ Reply

Fault == (\E t \in Task : PullFails(t) \/ Cancel(t)) \/ SnapshotsFail \/ MetadataFails \/ Crash

Next ==
  \/ Produce
  \/ Control
  \/ \E t \in Task : Start(t) \/ Scrape(t)
  \/ Write
  \/ Fault

Spec == Init /\ [][Next]_vars

(***************************************************************************)
(* run_scraper starts its task for a Source again and again; a task that   *)
(* has started and the worker thread go on while they can.  tokio's mutex, *)
(* semaphore and channel serve waiters first come, first served, so a wait *)
(* for one of them that can end again and again does end: strong fairness. *)
(***************************************************************************)
Fairness ==
  /\ \A t \in Scheduled : WF_vars(Start(t))
  /\ \A t \in Task : WF_vars(Scrape(t))
  /\ \A t \in Task : SF_vars(AcquireOwner(t)) /\ SF_vars(AcquireBudget(t)) /\ SF_vars(Send(t))
  /\ WF_vars(Write)

FairSpec == Spec /\ Fairness

-------------------------------------------------------------------------------
(* Admitted pages the worker has not put into the database yet.            *)
Unwritten ==
  {queue[i] : i \in DOMAIN queue} \cup {deferred[i] : i \in DOMAIN deferred}
    \cup (IF phase \in {"gather", "ingest"}
            THEN {batch[i] : i \in {j \in DOMAIN batch : j > Len(results)}} ELSE {})

(* Everything that holds permits of the byte semaphore.                    *)
Admitted ==
  {queue[i] : i \in DOMAIN queue} \cup {deferred[i] : i \in DOMAIN deferred}
    \cup {batch[i] : i \in DOMAIN batch}

Holders == Admitted \cup {Pending(t) : t \in {u \in Task : pc[u] = "send"}}

(* The locals of tasks and worker have the values their places imply.      *)
TypeOK ==
  /\ live \in [Source -> Session]
  /\ window \in [Session -> [oldest : 0 .. MaxSequence, next : 0 .. MaxSequence,
                             sealed : BOOLEAN]]
  /\ run \in RunStatus /\ state \in [Source -> SourceState]
  /\ descriptor \in [Source -> Session \cup {NoSession}]
  /\ db \in Db /\ tx \in Db \cup {NoTx} /\ (tx # NoTx <=> phase = "ingest")
  /\ pc \in [Task -> {"idle", "lock", "reply", "record"} \cup Holding]
  /\ \A t \in Task : pc[t] \in {"admit", "send", "reply"} => job[t].page \in Page
  /\ owner \in [Source -> Task \cup {Free, Writer}]
  /\ budget \in 0 .. QueuedBytes
  /\ Len(queue) <= MaxBatchPages /\ Len(batch) <= MaxBatchPages /\ Len(deferred) <= 1
  /\ phase \in {"collect", "gather", "ingest", "metadata", "reply"}
  /\ phase = "collect" <=> batch = <<>>

(* Per-Source ownership is exclusive and never leaks: a held mutex has     *)
(* exactly one holder, a task inside scrape_source or one admitted page,   *)
(* through cancellations, failures and crashes.                            *)
OwnershipIsExclusive ==
  \A s \in Source :
    /\ \A t \in Task : owner[s] = t <=> (Target[t] = s /\ pc[t] \in Holding)
    /\ owner[s] = Writer <=> \E p \in Admitted : p.source = s
    /\ \A p, q \in Admitted : p.source = s /\ q.source = s => p = q

(* The byte semaphore: permits are neither lost nor invented, so admitted  *)
(* work stays within its budget and admission can never dry up.            *)
PermitsAddUp ==
  /\ budget >= 0
  /\ budget + Cardinality(UNION {{p} \X (1 .. Bytes(p.page)) : p \in Holders}) = QueuedBytes

(* Ownership and permits follow the page, not its caller: from admission   *)
(* to the reply they have one holder each, and both come back.             *)
GuardsFollowPages == TypeOK /\ OwnershipIsExclusive /\ PermitsAddUp

(* A page that was pulled is taken: while it waits, no other page of its   *)
(* Source can make it stale, so the store refuses it only if the producer  *)
(* was restarted under the pull or has released what was not yet pulled.   *)
PulledPagesAreTaken ==
  \A p \in Unwritten :
    (p.session = p.page.session /\ p.page.snapshots # <<>>) =>
      Acceptable(IF tx = NoTx THEN db ELSE tx, p.source, p.session, p.page)

(* What is stored is what was captured, session by session; a gap lies     *)
(* within what the producer really let go; a cursor never runs ahead of    *)
(* the producer, whatever restarts fall between descriptor and history.    *)
StoredIsWhatWasCaptured ==
  \A s \in Source, e \in Session :
    LET k == <<s, e>>
    IN /\ \A r \in db.rows[k] : r.sequence < window[e].next /\ r.state = Content(e, r.sequence)
       /\ \A g \in db.gaps[k] : g.oldest <= window[e].oldest
       /\ db.cursor[k] <= window[e].next

(* scrape_source succeeds only after both commits: when the caller gets    *)
(* Ok, every snapshot of its page is stored and the descriptor recorded.   *)
SuccessMeansDurable ==
  [][\A t \in Task :
       (pc[t] = "reply" /\ pc'[t] = "idle" /\ job'[t].result = "ok") =>
         LET k    == <<Target[t], job[t].session>>
             page == job[t].page
         IN /\ \A i \in DOMAIN page.snapshots : IsStored(db', k, page.snapshots[i].sequence)
            /\ page.next <= db'.cursor[k]
            /\ descriptor'[Target[t]] = job[t].session]_vars

(* A stopped Source stays stopped and a terminal Run stays terminal, with  *)
(* all its Sources stopped, whatever scrapes were in flight when it ended. *)
StoppedStaysStopped ==
  [][/\ \A s \in Source : state[s] \in Stopped => state'[s] \in Stopped
     /\ \A s \in Source : state[s] \in {"ended", "lost"} => state'[s] = state[s]
     /\ run \in Terminal => run' = run /\ \A s \in Source : state'[s] \in {"ended", "lost"}
    ]_vars

(* Once producers, operators and faults come to rest, everything a live    *)
(* producer retains is stored and its Source is shown active, unless the   *)
(* Source was stopped or its history released before it was pulled.        *)
EventuallyCollected ==
  \A s \in Source :
    <>[]LET w      == window[live[s]]
            cursor == db.cursor[<<s, live[s]>>]
        IN \/ state[s] \in Stopped
           \/ w.oldest = w.next /\ cursor < w.next
           \/ cursor = w.next /\ state[s] = "active"

-------------------------------------------------------------------------------
(* The pages a producer can answer with.                                   *)
ProducerPages ==
  UNION {{PageOf(e, [oldest |-> x[1], next |-> x[2]], x[3]) :
            x \in {y \in (0 .. MaxSequence) \X (0 .. MaxSequence) \X (0 .. MaxSequence) :
                     y[1] <= y[2] /\ y[3] <= y[2]}} : e \in Session}

(* What the open transaction has been given, and what it accepted last.    *)
PagesInTx == IF tx = NoTx THEN 0 ELSE Len(results)

LastAccepted ==
  IF tx = NoTx \/ Accepted = {} THEN NoPage
  ELSE LET last == CHOOSE i \in Accepted : \A j \in Accepted : j <= i
       IN <<batch[last].source, batch[last].page>>

Store ==
  INSTANCE SnapshotStore WITH
    Pages    <- ProducerPages,
    MaxPages <- MaxBatchPages,
    pages    <- PagesInTx,
    done     <- LastAccepted

(* The worker uses the store as SnapshotStore allows, so all that is       *)
(* proved of the store holds of the collected history.                     *)
ImplementsStore == Store!Spec

===============================================================================

------------------------------- MODULE Scheduler ------------------------------
(***************************************************************************)
(* One server process over the registry: its callers, run_scraper, and the *)
(* scrapes it spawns.                                                      *)
(*                                                                         *)
(* The heap is the queue of the entries that are due, in the order they    *)
(* came due, and the set of those that are not: a rescheduled Source waits *)
(* because its delay is positive, a discovered one is due at once.  What a *)
(* scrape does in detail is Collector's subject: here it re-reads its      *)
(* Source, and ends in success with or without data, in an error or in a   *)
(* panic.  Faults (a panic, a failed listing, a crash) share one budget.   *)
(***************************************************************************)
EXTENDS Registry

CONSTANTS
  RunId,           \* ids of Runs, those that configurations choose among them
  Caller,          \* callers of ensure_hierarchy
  Hierarchies,     \* the <<project, experiment, run>> names they ask for
  FreshRun,        \* ids new_id mints for Runs
  FreshSource,     \* and for Sources
  Configurations,  \* the configuration files it may be started with: sequences of Runs
  Registrations,   \* what callers of register_source send
  RunTargets, SourceTargets,
  ConfigText,      \* the configuration callers give a Run
  MaxConcurrency,
  MaxFaults,
  MaxBoots

Registration ==
  [run : RunId, attempt : Name, role : Name, endpoint : DOMAIN BaseUrl, interval : Nat, timeout : Nat]

ConfiguredRun ==
  [run : RunId, project : Name, experiment : Name, name : Name, config : DOMAIN JsonValue,
   sources : Seq(Registration)]

ASSUME SchedulerAssumption ==
  /\ MaxConcurrency \in Nat \ {0}
  /\ MaxFaults \in Nat /\ MaxBoots \in Nat
  /\ FreshRun \subseteq RunId /\ None \notin RunId \cup FreshSource
  /\ Hierarchies \subseteq Name \X Name \X Name /\ ConfigText \subseteq DOMAIN JsonValue
  /\ Configurations \subseteq Seq(ConfiguredRun) /\ Registrations \subseteq Registration

VARIABLES
  db,
  call,       \* each caller's place in ensure_hierarchy
  pc,         \* place in run_scraper
  listed,     \* what list_sources returned to refresh_schedule
  known,      \* ids in `sources`
  due, waiting, scheduled,
  tasks,      \* slots of the JoinSet
  lost,       \* history: Sources whose task panicked in this process
  stopping,   \* the shutdown channel
  faults, boots,
  todo        \* the configured Runs apply_config has not done with

registryVars == <<db, call>>
booting == <<boots, todo>>
memory == <<listed, known, due, waiting, scheduled, tasks, lost>>
schedulerVars == <<db, call, pc, listed, known, due, waiting, scheduled, tasks, lost,
                   stopping, faults, boots, todo>>

Slot == 1 .. MaxConcurrency

NoTask == [id |-> None, at |-> "none"]

Empty == [i \in Slot |-> NoTask]

Waiting == [at |-> "idle", names |-> None, existed |-> FALSE]

SchedulerInit ==
  /\ db = EmptyRegistry
  /\ call = [c \in Caller |-> Waiting]
  /\ pc = "off" /\ listed = {} /\ known = {}
  /\ due = <<>> /\ waiting = {} /\ scheduled = {}
  /\ tasks = Empty /\ lost = {}
  /\ stopping = FALSE /\ faults = 0 /\ boots = 0 /\ todo = <<>>

Serving == pc \notin {"off", "runs", "sources"}

Minted(ids, used) == IF ids \subseteq used THEN None ELSE CHOOSE id \in ids \ used : TRUE

NextRun == Minted(FreshRun, {db.runs[i].id : i \in DOMAIN db.runs})

NextSource == Minted(FreshSource, {db.sources[i].id : i \in DOMAIN db.sources})

(* A bound: ids run out.                                                   *)
CanRegister(r) == NextSource # None \/ Registered(db, r) # {}

-------------------------------------------------------------------------------
(* The HTTP API, one transaction a call.                                   *)
Respond(reply) ==
  /\ Serving
  /\ db' = reply.db
  /\ UNCHANGED <<call, pc, memory, stopping, faults, booting>>

ApiCreateProject == \E n \in Name : Respond(CreateProject(db, n))

ApiCreateExperiment == \E p, n \in Name : Respond(CreateExperiment(db, p, n))

ApiCreateRun ==
  \E p, e, n \in Name, c \in ConfigText :
    NextRun # None /\ Respond(CreateRun(db, NextRun, <<p, e>>, n, c))

ApiUpdateRun ==
  \E i \in DOMAIN db.runs, t \in RunTargets : Respond(UpdateRunStatus(db, db.runs[i].id, t))

ApiRegisterSource ==
  \E r \in Registrations : CanRegister(r) /\ Respond(RegisterSource(db, NextSource, r))

ApiUpdateSource ==
  \E i \in DOMAIN db.sources, t \in SourceTargets :
    Respond(UpdateSourceState(db, db.sources[i].id, t))

-------------------------------------------------------------------------------
(* ensure_hierarchy: three times a lookup and, if nothing of that name was *)
(* found, a create; the lock is released in between.  Lookups compare the  *)
(* name as it was passed, creates store it trimmed.                        *)
Goto(c, at) ==
  /\ call' = [call EXCEPT ![c].at = at]
  /\ UNCHANGED <<db, pc, memory, stopping, faults, booting>>

Creates(c, reply, at) ==
  /\ db' = reply.db
  /\ call' = [call EXCEPT ![c] = IF reply.ok THEN [@ EXCEPT !.at = at] ELSE Waiting]
  /\ UNCHANGED <<pc, memory, stopping, faults, booting>>

NamedRuns(x, n) == {i \in DOMAIN db.runs : db.runs[i].experiment = x /\ db.runs[i].name = n}

EnsureBegins(c) ==
  /\ Serving /\ call[c].at = "idle"
  /\ \E h \in Hierarchies :
       call' = [call EXCEPT ![c] = [at |-> "project", names |-> h,
                                    existed |-> NamedRuns(<<h[1], h[2]>>, h[3]) # {}]]
  /\ UNCHANGED <<db, pc, memory, stopping, faults, booting>>

EnsureProject(c) ==
  /\ call[c].at = "project"
  /\ Goto(c, IF call[c].names[1] \in db.projects THEN "experiment" ELSE "newProject")

EnsureNewProject(c) ==
  call[c].at = "newProject" /\ Creates(c, CreateProject(db, call[c].names[1]), "experiment")

(* The project's row carries its trimmed name from here on.                *)
EnsureExperiment(c) ==
  LET p == Trim[call[c].names[1]]
  IN /\ call[c].at = "experiment"
     /\ Goto(c, IF <<p, call[c].names[2]>> \in ListExperiments(db, p) THEN "run" ELSE "newExperiment")

EnsureNewExperiment(c) ==
  /\ call[c].at = "newExperiment"
  /\ Creates(c, CreateExperiment(db, Trim[call[c].names[1]], call[c].names[2]), "run")

EnsuredIn(c) == <<Trim[call[c].names[1]], Trim[call[c].names[2]]>>

EnsureRun(c) ==
  /\ call[c].at = "run"
  /\ IF FirstNamed(db, ListRuns(db, EnsuredIn(c)), call[c].names[3]) # None
     THEN /\ call' = [call EXCEPT ![c] = Waiting]
          /\ UNCHANGED <<db, pc, memory, stopping, faults, booting>>
     ELSE Goto(c, "newRun")

EnsureNewRun(c) ==
  /\ call[c].at = "newRun" /\ NextRun # None
  /\ \E text \in ConfigText : Creates(c, CreateRun(db, NextRun, EnsuredIn(c), call[c].names[3], text), "idle")

-------------------------------------------------------------------------------
(* The process: the configuration is applied before anything is served.    *)
Boot ==
  /\ pc = "off" /\ boots < MaxBoots
  /\ boots' = boots + 1
  /\ todo' \in Configurations /\ pc' = "runs"
  /\ call' = [c \in Caller |-> Waiting]
  /\ listed' = {} /\ known' = {}
  /\ due' = <<>> /\ waiting' = {} /\ scheduled' = {}
  /\ tasks' = Empty /\ lost' = {}
  /\ stopping' = FALSE
  /\ UNCHANGED <<db, faults>>

(* apply_config: a Run, then its Sources, one transaction each.  An error  *)
(* ends the process and leaves what was done before.                       *)
ConfigureRun ==
  /\ pc = "runs"
  /\ IF todo = <<>> THEN pc' = "list" /\ UNCHANGED db
     ELSE LET c == Head(todo)
              reply == EnsureConfiguredRun(db, c.run, c.project, c.experiment, c.name, c.config)
          IN db' = reply.db /\ pc' = IF reply.ok THEN "sources" ELSE "off"
  /\ UNCHANGED <<call, memory, stopping, faults, booting>>

ConfigureSource ==
  /\ pc = "sources"
  /\ LET left == Head(todo).sources
     IN IF left = <<>> THEN todo' = Tail(todo) /\ pc' = "runs" /\ UNCHANGED db
        ELSE /\ CanRegister(Head(left))
             /\ LET reply == RegisterSource(db, NextSource, Head(left))
                IN db' = reply.db /\ pc' = IF reply.ok THEN pc ELSE "off"
             /\ todo' = [todo EXCEPT ![1].sources = Tail(@)]
  /\ UNCHANGED <<call, memory, stopping, faults, boots>>

Signal ==
  /\ Serving /\ ~stopping
  /\ stopping' = TRUE
  /\ UNCHANGED <<db, call, pc, memory, faults, booting>>

Crash ==
  /\ pc # "off" /\ faults < MaxFaults
  /\ pc' = "off" /\ faults' = faults + 1
  /\ tasks' = Empty
  /\ call' = [c \in Caller |-> Waiting]
  /\ UNCHANGED <<db, listed, known, due, waiting, scheduled, lost, stopping, booting>>

-------------------------------------------------------------------------------
(* refresh_schedule.                                                       *)
Listing ==
  /\ pc = "list"
  /\ \/ listed' = ListSources(db) /\ pc' = "apply" /\ UNCHANGED faults
     \/ faults < MaxFaults /\ faults' = faults + 1 /\ pc' = "reap" /\ UNCHANGED listed
  /\ UNCHANGED <<db, call, known, due, waiting, scheduled, tasks, lost, stopping, booting>>

Live(ss) == {s.id : s \in {s \in ss : s.state \notin Stopped}}

(* A bug: a Source that is running now is queued again.                    *)
FoundUnlessQueued(ss) == Live(ss) \ scheduled

Found(ss) == (Live(ss) \ known) \ scheduled

Refresh ==
  /\ pc = "apply"
  /\ LET new == SetToSeq(Found(listed))
     IN due' = due \o new /\ scheduled' = scheduled \cup ToSet(new)
  /\ known' = (known \ {s.id : s \in listed}) \cup Live(listed)
  /\ pc' = "reap" /\ listed' = {}
  /\ UNCHANGED <<db, call, waiting, tasks, lost, stopping, faults, booting>>

-------------------------------------------------------------------------------
(* The loop of run_scraper.                                                *)
Finished == {i \in Slot : tasks[i].at \in {"data", "nothing", "panicked"}}

Free == {i \in Slot : tasks[i] = NoTask}

Push(id) == waiting' = waiting \cup {id} /\ scheduled' = scheduled \cup {id}

(* A joined task goes back on the schedule, unless it panicked.            *)
Join(i) ==
  /\ tasks' = [tasks EXCEPT ![i] = NoTask]
  /\ IF tasks[i].at = "panicked"
     THEN lost' = lost \cup {tasks[i].id} /\ UNCHANGED <<waiting, scheduled>>
     ELSE Push(tasks[i].id) /\ UNCHANGED lost
  /\ UNCHANGED <<db, call, listed, known, due, stopping, faults, booting>>

Reap ==
  /\ pc = "reap"
  /\ IF Finished # {} THEN \E i \in Finished : Join(i) /\ UNCHANGED pc
     ELSE pc' = "spawn" /\ UNCHANGED <<db, call, memory, stopping, faults, booting>>

Spawn ==
  /\ pc = "spawn"
  /\ IF Free # {} /\ due # <<>>
     THEN LET id == Head(due) IN
          /\ due' = Tail(due)
          /\ scheduled' = scheduled \ {id}
          /\ tasks' = IF id \notin known THEN tasks
                      ELSE [tasks EXCEPT ![Min(Free)] = [id |-> id, at |-> "begun"]]
          /\ UNCHANGED pc
     ELSE pc' = "select" /\ UNCHANGED <<due, scheduled, tasks>>
  /\ UNCHANGED <<db, call, listed, known, waiting, lost, stopping, faults, booting>>

SelectWake ==
  /\ pc = "select" /\ Free # {} /\ (due # <<>> \/ waiting = {})
  /\ pc' = "reap"
  /\ UNCHANGED <<db, call, memory, stopping, faults, booting>>

SelectDiscovery ==
  /\ pc = "select"
  /\ pc' = "list"
  /\ UNCHANGED <<db, call, memory, stopping, faults, booting>>

SelectJoin == pc = "select" /\ pc' = "reap" /\ \E i \in Finished : Join(i)

(* The loop ends: every task is aborted and joined.                        *)
SelectShutdown ==
  /\ pc = "select" /\ stopping
  /\ pc' = "off"
  /\ tasks' = Empty
  /\ call' = [c \in Caller |-> Waiting]
  /\ UNCHANGED <<db, listed, known, due, waiting, scheduled, lost, stopping, faults, booting>>

Tick(id) ==
  /\ Serving /\ id \in waiting
  /\ due' = Append(due, id) /\ waiting' = waiting \ {id}
  /\ UNCHANGED <<db, call, pc, listed, known, scheduled, tasks, lost, stopping, faults, booting>>

-------------------------------------------------------------------------------
(* A scrape.                                                               *)
CheckSource(i) ==
  /\ tasks[i].at = "begun"
  /\ tasks' = [tasks EXCEPT ![i].at =
                 IF SourceOf(db, tasks[i].id).state \in Stopped THEN "nothing" ELSE "pulling"]
  /\ UNCHANGED <<db, call, pc, listed, known, due, waiting, scheduled, lost, stopping, faults, booting>>

Ends(i, at) ==
  /\ tasks[i].at = "pulling"
  /\ tasks' = [tasks EXCEPT ![i].at = at]
  /\ UNCHANGED <<call, pc, listed, known, due, waiting, scheduled, lost, stopping, booting>>

Succeeds(i) ==
  /\ \E at \in {"data", "nothing"} : Ends(i, at)
  /\ db' = UpdateSourceSuccess(db, tasks[i].id)
  /\ UNCHANGED faults

(* The error is stored with the Source, unless that fails as well.         *)
Fails(i) ==
  /\ Ends(i, "nothing")
  /\ \/ db' = UpdateSourceFailure(db, tasks[i].id) /\ UNCHANGED faults
     \/ faults < MaxFaults /\ faults' = faults + 1 /\ UNCHANGED db

Panics(i) ==
  /\ faults < MaxFaults /\ faults' = faults + 1
  /\ Ends(i, "panicked")
  /\ UNCHANGED db

-------------------------------------------------------------------------------
Registering ==
  \/ ApiCreateProject \/ ApiCreateExperiment \/ ApiCreateRun
  \/ \E c \in Caller :
       \/ EnsureBegins(c) \/ EnsureProject(c) \/ EnsureNewProject(c)
       \/ EnsureExperiment(c) \/ EnsureNewExperiment(c) \/ EnsureRun(c) \/ EnsureNewRun(c)

Steering == ApiUpdateRun \/ ApiRegisterSource \/ ApiUpdateSource

Loop ==
  \/ Listing \/ Refresh \/ Reap \/ Spawn
  \/ SelectWake \/ SelectDiscovery \/ SelectJoin \/ SelectShutdown

Scraping == \E i \in Slot : CheckSource(i) \/ Succeeds(i) \/ Fails(i) \/ Panics(i)

Lifetime == Boot \/ ConfigureRun \/ ConfigureSource \/ Signal \/ Crash

SchedulerNext ==
  \/ Registering \/ Steering \/ Lifetime \/ Loop \/ Scraping
  \/ \E id \in waiting : Tick(id)

SchedulerSpec == SchedulerInit /\ [][SchedulerNext]_schedulerVars

-------------------------------------------------------------------------------
Places(id) ==
  Cardinality({k \in DOMAIN due : due[k] = id}) + Cardinality({id} \cap waiting)
    + Cardinality({i \in Slot : tasks[i].id = id})

(* run_scraper never scrapes a Source twice at once and never forgets one: *)
(* through refreshes that see stale listings, stops, re-registrations and  *)
(* errors, each Source it knows has exactly one place, on the schedule or  *)
(* in a task, unless its task panicked; and `scheduled` is what the heap   *)
(* holds.                                                                  *)
EverySourceHasOnePlace ==
  pc # "off" =>
    /\ scheduled = ToSet(due) \cup waiting
    /\ \A i \in DOMAIN db.sources :
         LET id == db.sources[i].id
         IN /\ Places(id) <= 1
            /\ id \in known \ lost => Places(id) = 1

(* A Run that has ended is settled: its Sources were stopped with it, a    *)
(* scrape in flight at that moment brings none back, and one registered    *)
(* afterwards, though it is scheduled and scraped like any other, is shown *)
(* as discovered and never as active or stale.                             *)
EndedRunsAreSettled ==
  \A i \in DOMAIN db.sources :
    RunOf(db, db.sources[i].run).status \in Ended => db.sources[i].state \notin {"active", "stale"}

(* ensure_hierarchy, called with trimmed names when a Run of that name is  *)
(* there, creates no other, whatever concurrent callers do.  (A padded     *)
(* name is never found by the lookups, and callers that begin before there *)
(* is such a Run may each create one.)                                     *)
EnsureIsIdempotent ==
  \A c \in Caller :
    /\ call[c].at = "newRun"
    /\ \A k \in 1 .. 3 : Trim[call[c].names[k]] = call[c].names[k]
    => ~call[c].existed

===============================================================================

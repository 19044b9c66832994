-------------------------------- MODULE Registry ------------------------------
(***************************************************************************)
(* metadata.db: projects, experiments, Runs and Sources.  Every operation  *)
(* holds the connection's lock and is one transaction, so each is an       *)
(* operator from the tables and its arguments to the tables it leaves and  *)
(* its answer.  Projects and experiments have unique names and are never   *)
(* deleted: their names stand for their ids.                               *)
(***************************************************************************)
EXTENDS Integers, SequencesExt

CONSTANTS
  Trim,         \* what str::trim makes of each name a caller may pass
  Blank,        \* the name with nothing in it
  TooLong,      \* names over 4096 bytes
  JsonValue,    \* the value each configuration text parses to
  Malformed,    \* the "value" of a text that is not JSON
  JsonObject,   \* the values that are objects
  BaseUrl,      \* the base URL each endpoint text normalises to
  NotBase,      \* that of a text that is no absolute HTTP(S) URL without query and fragment
  MinInterval,  \* 50 ms
  None

Name == DOMAIN Trim

ASSUME RegistryAssumption ==
  /\ Blank \in Name /\ TooLong \subseteq Name
  /\ \A n \in Name : Trim[n] \in Name /\ Trim[Trim[n]] = Trim[n]
  /\ Malformed \notin JsonObject
  /\ MinInterval \in Nat

EmptyRegistry ==
  [projects |-> {}, experiments |-> {}, runs |-> <<>>, sources |-> <<>>]

Done(db, value) == [db |-> db, ok |-> TRUE, value |-> value]

Refused(db) == [db |-> db, ok |-> FALSE, value |-> None]

ValidName(n) == Trim[n] # Blank

-------------------------------------------------------------------------------
(* The hierarchy.                                                          *)
CreateProject(db, n) ==
  IF ~ValidName(n) \/ Trim[n] \in db.projects THEN Refused(db)
  ELSE Done([db EXCEPT !.projects = @ \cup {Trim[n]}], Trim[n])

CreateExperiment(db, p, n) ==
  IF \/ ~ValidName(n)
     \/ p \notin db.projects
     \/ <<p, Trim[n]>> \in db.experiments THEN Refused(db)
  ELSE Done([db EXCEPT !.experiments = @ \cup {<<p, Trim[n]>>}], <<p, Trim[n]>>)

NewRun(id, x, n, config) ==
  [id |-> id, experiment |-> x, name |-> Trim[n], config |-> config, status |-> "created"]

CreateRun(db, id, x, n, config) ==
  IF ~ValidName(n) \/ JsonValue[config] = Malformed \/ x \notin db.experiments THEN Refused(db)
  ELSE Done([db EXCEPT !.runs = Append(@, NewRun(id, x, n, config))], id)

ListExperiments(db, p) == {x \in db.experiments : x[1] = p}

(* The places of an experiment's Runs: they are listed from the last one.  *)
ListRuns(db, x) == {i \in DOMAIN db.runs : db.runs[i].experiment = x}

(* A bug: only the newest Run of the experiment is looked at.              *)
NewestNamed(db, places, n) ==
  IF places # {} /\ db.runs[Max(places)].name = n THEN db.runs[Max(places)].id ELSE None

FirstNamed(db, places, n) ==
  LET named == {i \in places : db.runs[i].name = n}
  IN IF named = {} THEN None ELSE db.runs[Max(named)].id

RunIndex(db, id) == {i \in DOMAIN db.runs : db.runs[i].id = id}

RunOf(db, id) == db.runs[CHOOSE i \in RunIndex(db, id) : TRUE]

(* One transaction: a Run that is there under another identity or with     *)
(* another configuration rolls the whole hierarchy back.                   *)
EnsureConfiguredRun(db, id, p, e, n, config) ==
  LET x == <<Trim[p], Trim[e]>>
      named == [db EXCEPT !.projects = @ \cup {Trim[p]}, !.experiments = @ \cup {x}]
      same(r) == /\ r.experiment = x /\ r.name = Trim[n]
                 /\ JsonValue[r.config] = JsonValue[config]
  IN IF \/ \E m \in {p, e, n} : ~ValidName(m) \/ m \in TooLong
        \/ JsonValue[config] \notin JsonObject THEN Refused(db)
     ELSE IF RunIndex(db, id) = {}
       THEN Done([named EXCEPT !.runs = Append(@, NewRun(id, x, n, config))], id)
     ELSE IF same(RunOf(db, id)) THEN Done(named, id) ELSE Refused(db)

-------------------------------------------------------------------------------
(* Lifecycles.                                                             *)
Open == {"created", "running"}

Ended == {"finished", "failed", "cancelled"}

Stopped == {"draining", "ended", "lost"}

ValidRunTransition(current, target) ==
  \/ current = target
  \/ current = "created" /\ target \in {"running"} \cup Ended
  \/ current = "running" /\ target \in Ended

ValidSourceTransition(current, target) ==
  \/ current = target
  \/ current \in {"discovered", "active", "stale"} /\ target \in Stopped
  \/ current = "draining" /\ target \in {"ended", "lost"}

(* Ending a Run stops its Sources in the same transaction.                 *)
StopSources(sources, id, target) ==
  IF target \notin Ended THEN sources
  ELSE [i \in DOMAIN sources |->
          IF sources[i].run = id /\ sources[i].state \notin {"ended", "lost"}
          THEN [sources[i] EXCEPT !.state = IF target = "failed" THEN "lost" ELSE "ended"]
          ELSE sources[i]]

UpdateRunStatus(db, id, target) ==
  IF RunIndex(db, id) = {} \/ ~ValidRunTransition(RunOf(db, id).status, target) THEN Refused(db)
  ELSE LET i == CHOOSE i \in RunIndex(db, id) : TRUE
       IN IF db.runs[i].status = target THEN Done(db, id)
          ELSE Done([db EXCEPT !.runs[i].status = target,
                               !.sources = StopSources(@, id, target)], id)

SourceIndex(db, id) == {i \in DOMAIN db.sources : db.sources[i].id = id}

SourceOf(db, id) == db.sources[CHOOSE i \in SourceIndex(db, id) : TRUE]

UpdateSourceState(db, id, target) ==
  IF \/ target \notin Stopped
     \/ SourceIndex(db, id) = {}
     \/ ~ValidSourceTransition(SourceOf(db, id).state, target) THEN Refused(db)
  ELSE Done([db EXCEPT !.sources[CHOOSE i \in SourceIndex(db, id) : TRUE].state = target], id)

-------------------------------------------------------------------------------
(* Sources.                                                                *)
ValidRegistration(r) ==
  /\ \A n \in {r.attempt, r.role} : ValidName(n)
  /\ BaseUrl[r.endpoint] # NotBase
  /\ r.interval >= MinInterval
  /\ r.timeout > 0 /\ r.timeout < 10 * r.interval

(* A Run's endpoint is registered once: doing it again changes what the    *)
(* producer is, and leaves the Source's state alone.                       *)
Registered(db, r) ==
  {i \in DOMAIN db.sources : db.sources[i].run = r.run /\ db.sources[i].endpoint = BaseUrl[r.endpoint]}

NewSource(id, r) ==
  [id |-> id, run |-> r.run, endpoint |-> BaseUrl[r.endpoint], attempt |-> r.attempt,
   role |-> r.role, state |-> "discovered"]

RegisterSource(db, id, r) ==
  IF ~ValidRegistration(r) \/ RunIndex(db, r.run) = {} THEN Refused(db)
  ELSE IF Registered(db, r) = {}
    THEN Done([db EXCEPT !.sources = Append(@, NewSource(id, r))], id)
  ELSE LET i == CHOOSE i \in Registered(db, r) : TRUE
       IN Done([db EXCEPT !.sources[i].attempt = r.attempt, !.sources[i].role = r.role],
               db.sources[i].id)

ListSources(db) == ToSet(db.sources)

(* What the writer may still say of a Source: see Collector.               *)
MayUpdateAnyRun(db, s) == s.state \notin Stopped

MayUpdate(db, s) == RunOf(db, s.run).status \in Open /\ s.state \notin Stopped

UpdateSourceSuccess(db, id) ==
  LET i == CHOOSE i \in SourceIndex(db, id) : TRUE
      s == db.sources[i]
      seen == IF MayUpdate(db, s) THEN [s EXCEPT !.state = "active"] ELSE s
      begun(r) == IF r.id = s.run /\ r.status = "created" THEN [r EXCEPT !.status = "running"] ELSE r
  IN [db EXCEPT !.sources[i] = seen, !.runs = [j \in DOMAIN @ |-> begun(@[j])]]

UpdateSourceFailure(db, id) ==
  LET i == CHOOSE i \in SourceIndex(db, id) : TRUE
  IN IF MayUpdate(db, db.sources[i]) THEN [db EXCEPT !.sources[i].state = "stale"] ELSE db

===============================================================================

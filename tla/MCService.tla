------------------------------- MODULE MCService ------------------------------
(* The two sides of a server that share nothing but the database file: the *)
(* registry with its scraper, and the sessions with their sockets.  A      *)
(* behaviour exercises one concern, its focus, and leaves the rest idle:   *)
(* interleaving independent parts would only multiply states.              *)
EXTENDS Scheduler, Sessions, TLC

CONSTANTS
  alpha, beta, padded, long, blank, json, list, text,
  http, slash, https, ftp, r0, r1, r2, r3, s1, s2,
  b1, b2, b3, p1, p2, p3, home, away, n1, n2, secret, renewed,
  LastingTime

VARIABLE focus

serviceVars == <<focus, schedulerVars, webVars>>

MCTrim == (alpha :> alpha) @@ (beta :> beta) @@ (padded :> alpha) @@ (long :> alpha) @@ (blank :> blank)

MCJsonValue == (json :> json) @@ (list :> list) @@ (text :> Malformed)

MCBaseUrl == (http :> http) @@ (slash :> http) @@ (https :> https) @@ (ftp :> NotBase)

Configure(id, name, config, registrations) ==
  [run |-> id, project |-> alpha, experiment |-> alpha, name |-> name, config |-> config,
   sources |-> registrations]

Describe(run, role, endpoint, interval, timeout) ==
  [run |-> run, attempt |-> alpha, role |-> role, endpoint |-> endpoint, interval |-> interval, timeout |-> timeout]

Good == Describe(r0, alpha, http, 50, 499)

(* Files that name r0 with a Source and without, with another              *)
(* configuration, with a name too long, and with a Source that is refused. *)
MCConfigurations ==
  {<<Configure(r0, alpha, json, <<Good>>)>>, <<Configure(r0, alpha, json, <<>>)>>, <<Configure(r0, padded, list, <<>>)>>,
   <<Configure(r0, long, json, <<>>)>>,
   <<Configure(r0, alpha, json, <<[Good EXCEPT !.timeout = 500]>>)>>}

MCRegistrations ==
  {[Good EXCEPT !.endpoint = slash], [Good EXCEPT !.endpoint = ftp],
   [Good EXCEPT !.interval = 49], [Good EXCEPT !.run = r3],
   [Good EXCEPT !.endpoint = https], [Good EXCEPT !.timeout = 0]}

MCFreshRun == {r1, r2}

MCFreshSource == {s1, s2}

MCHierarchies == {<<alpha, alpha, alpha>>, <<alpha, padded, alpha>>}

-------------------------------------------------------------------------------
MCPeerOf == (b1 :> p1) @@ (b2 :> p2) @@ (b3 :> p3)

MCFreshNonce == <<n1, n2>>

MCPolicies ==
  {[token |-> Nil, origin |-> Nil], [token |-> secret, origin |-> home], [token |-> renewed, origin |-> Nil]}

Bare(o) == [origin |-> o, bare |-> TRUE]

Plain ==
  [method |-> "POST", path |-> "login", query |-> FALSE, host |-> [origin |-> home, loopback |-> TRUE],
   site |-> "same-origin", page |-> Nil, origins |-> <<Bare(home)>>, referer |-> Nil,
   authorization |-> Nil, cookies |-> <<>>]

Connect == [Plain EXCEPT !.method = "GET", !.path = "connection"]

Basic == [scheme |-> "basic", user |-> "rvx", secret |-> secret, short |-> TRUE]

MCRequests ==
  {Plain, [Plain EXCEPT !.origins = <<>>], [Plain EXCEPT !.query = TRUE],
   [Plain EXCEPT !.path = "logout"], [Plain EXCEPT !.path = "logout", !.site = "cross-site"],
   [Plain EXCEPT !.path = "logout", !.cookies = <<Garbage>>],
   Connect, [Connect EXCEPT !.host = Nil], [Connect EXCEPT !.origins = <<Garbage>>],
   [Connect EXCEPT !.authorization = Basic], [Connect EXCEPT !.authorization = Basic, !.site = Nil],
   [Connect EXCEPT !.host.loopback = FALSE, !.host.origin = away, !.authorization = [Basic EXCEPT !.scheme = "bearer"]]}

-------------------------------------------------------------------------------
MCInit == SchedulerInit /\ WebInit /\ focus \in {"registry", "scraper", "throttle", "sessions", "sockets"}

Registry_ ==
  /\ focus = "registry"
  /\ Registering \/ ApiUpdateRun \/ Boot \/ ConfigureRun \/ ConfigureSource
  /\ db'.projects \subseteq {alpha} /\ db'.experiments \subseteq {<<alpha, alpha>>}

Scraper_ ==
  /\ focus = "scraper"
  /\ \/ Lifetime \/ Steering \/ Loop \/ Scraping
     \/ \E id \in {s1, s2} : Tick(id)

Throttle_ ==
  /\ focus = "throttle"
  /\ \/ Start \/ Elapse
     \/ \E b \in Browser : LoginArrives(b, Plain, Nil)

(* Time, expiry, rotation and a second browser, and one socket to feel it. *)
Sessions_ ==
  /\ focus = "sessions"
  /\ \/ Start \/ Exit
     \/ now < LastingTime /\ Elapse
     \/ Connecting(b1)
     \/ \E b \in {b1, b2} : LoginArrives(b, Plain, policy.token) \/ Authenticating(b)

(* Two browsers compete for the permits of a server that shuts down.       *)
Sockets_ ==
  /\ focus = "sockets"
  /\ \/ Process
     \/ \E b \in {b1, b2} : Connecting(b)
     \/ LoginArrives(b1, Plain, policy.token) \/ Authenticating(b1)

MCNext ==
  \/ (Registry_ \/ Scraper_) /\ UNCHANGED <<webVars, focus>>
  \/ (Throttle_ \/ Sessions_ \/ Sockets_) /\ UNCHANGED <<schedulerVars, focus>>

MCSpec == MCInit /\ [][MCNext]_serviceVars
===============================================================================

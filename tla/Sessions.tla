-------------------------------- MODULE Sessions ------------------------------
(***************************************************************************)
(* Browsers that log in, hold heartbeat sockets and log out, and the       *)
(* server processes that answer them over one metadata.db: the durable     *)
(* sessions, the login throttle of each process, and its UiConnections.    *)
(*                                                                         *)
(* Every await between two reads or writes of shared state is a step       *)
(* boundary: admission, the session transaction and the reply of a login   *)
(* or logout; admission, permit, upgrade and attachment of a socket; and   *)
(* receipt, session check and reply of each heartbeat.                     *)
(***************************************************************************)
EXTENDS Access, SequencesExt

CONSTANTS
  Browser,
  PeerOf,          \* the transport address of each
  Peer,
  Policies,        \* what the processes are started with
  Requests,        \* the requests they send, cookies aside
  FreshNonce,      \* nonces, in the order they are drawn
  SessionLife,     \* AUTH_SESSION_SECONDS
  MaxSessions,     \* MAX_AUTH_SESSIONS
  AttemptWindow,   \* ATTEMPT_WINDOW
  MaxAttempts,     \* MAX_ATTEMPTS
  MaxPeers,        \* MAX_PEERS
  MaxConnections,  \* MAX_CONNECTIONS
  MaxMessages,     \* MAX_MESSAGES_PER_SECOND
  MaxTime,
  MaxStarts

ASSUME SessionsAssumption ==
  /\ PeerOf \in [Browser -> Peer]
  /\ {SessionLife, AttemptWindow, MaxAttempts, MaxMessages} \subseteq Nat \ {0}
  /\ MaxPeers \in Nat /\ MaxConnections \in Nat /\ MaxSessions \in Nat
  /\ MaxTime \in Nat /\ MaxStarts \in Nat
  /\ IsFiniteSet(Browser)

(* A nonce is random: none is drawn twice, and no request carries one that *)
(* the server has not given to its browser.                                *)
ASSUME NonceAssumption ==
  /\ IsInjective(FreshNonce) /\ FreshNonce \in Seq(Nonce)
  /\ Nil \notin Nonce \cup Password \cup Nat \cup ((Password \cup {Nil}) \X Nonce)
  /\ \A p \in Policies : p.token \in Password \cup {Nil}
  /\ \A r \in Requests :
       /\ "cookies" \in DOMAIN r /\ r.cookies \in Seq(Nonce \cup {Garbage})
       /\ \A i \in DOMAIN r.cookies : r.cookies[i] \notin ToSet(FreshNonce)

VARIABLES
  now,
  auth,       \* auth_session_key and auth_sessions
  policy,     \* of the running process, or Nil
  starts,
  throttle,
  granted,    \* history: when each peer was let through, in the window that ends with the last
  tried,      \* history: when login was attempted last
  flight,     \* each browser's login or logout on its way
  cookie,     \* the nonce each browser holds
  drawn,      \* nonces used up
  socket,     \* each browser's WebSocket
  permits,    \* left in the semaphore
  shut        \* "no", "draining" and "done": UiConnections::shutdown

webVars == <<now, auth, policy, starts, throttle, granted, tried, flight, cookie, drawn,
             socket, permits, shut>>
durable == <<auth, cookie, drawn>>

NoFlight == [at |-> "none", nonce |-> Nil, digest |-> Nil]

NoSocket == [at |-> "none", session |-> Nil, count |-> 0, live |-> FALSE]

(* No entry of a closed throttle.                                          *)
NoPeers == [peers |-> [p \in {} |-> Nil], cleanup |-> Nil]

WebInit ==
  /\ now = 0
  /\ auth = [key |-> Nil, sessions |-> [d \in {} |-> 0]]
  /\ policy = Nil /\ starts = 0
  /\ throttle = NoPeers
  /\ granted = [p \in Peer |-> <<>>] /\ tried = 0
  /\ flight = [b \in Browser |-> NoFlight]
  /\ cookie = [b \in Browser |-> Nil]
  /\ drawn = 0
  /\ socket = [b \in Browser |-> NoSocket]
  /\ permits = MaxConnections /\ shut = "no"

Up == policy # Nil

-------------------------------------------------------------------------------
(* auth_sessions.  A session is active under the current key, until it     *)
(* expires or is deleted.                                                  *)
Active(a, key, digest, time) ==
  digest \in DOMAIN a.sessions /\ a.sessions[digest] > time /\ a.key = key

ConfigureAuthSessions(a, key) ==
  IF a.key = key THEN a ELSE [key |-> key, sessions |-> [d \in {} |-> 0]]

(* A bug: the oldest sessions make room for a new one.                     *)
EvictingCreate(a, key, digest, previous, time) ==
  LET live == {d \in DOMAIN a.sessions \ {previous} : a.sessions[d] > time}
      kept == IF Cardinality(live) >= MaxSessions
              THEN live \ {CHOOSE d \in live : \A e \in live : a.sessions[d] <= a.sessions[e]}
              ELSE live
  IN IF a.key # key THEN a
     ELSE [a EXCEPT !.sessions = [d \in kept \cup {digest} |->
                                    IF d = digest THEN time + SessionLife ELSE a.sessions[d]]]

(* Expired rows go and so does the browser's previous session; a full      *)
(* table refuses, and the transaction is rolled back.                      *)
CreateAuthSession(a, key, digest, previous, time) ==
  LET kept == {d \in DOMAIN a.sessions \ {previous} : a.sessions[d] > time}
  IN IF a.key # key \/ Cardinality(kept) >= MaxSessions THEN a
     ELSE [a EXCEPT !.sessions = [d \in kept \cup {digest} |->
                                    IF d = digest THEN time + SessionLife ELSE a.sessions[d]]]

RevokeAuthSession(a, digest) ==
  [a EXCEPT !.sessions = [d \in DOMAIN @ \ {digest} |-> @[d]]]

(* A request's own cookie session.                                         *)
CookieActive(p, r) == Active(auth, SessionKeyDigest(p), CookieDigest(p, r), now)

-------------------------------------------------------------------------------
(* LoginThrottle::attempt.  The table is cleaned at most once a window.    *)
ForgetAll(peers) == [p \in {} |-> Nil]

Retained(peers) ==
  [p \in {p \in DOMAIN peers : now - peers[p].began < AttemptWindow} |-> peers[p]]

Cleaned(t) ==
  IF t.cleanup = Nil \/ now >= t.cleanup
  THEN [peers |-> Retained(t.peers), cleanup |-> now + AttemptWindow]
  ELSE t

Attempt(t, peer) ==
  LET c == Cleaned(t)
      old == IF peer \in DOMAIN c.peers THEN c.peers[peer] ELSE [began |-> now, attempts |-> 0]
      window == IF now - old.began >= AttemptWindow THEN [began |-> now, attempts |-> 0] ELSE old
      with(w) == [c EXCEPT !.peers = [p \in DOMAIN @ \cup {peer} |-> IF p = peer THEN w ELSE @[p]]]
  IN IF peer \notin DOMAIN c.peers /\ Cardinality(DOMAIN c.peers) >= MaxPeers
       THEN [throttle |-> c, ok |-> FALSE]
     ELSE IF window.attempts >= MaxAttempts THEN [throttle |-> with(window), ok |-> FALSE]
     ELSE [throttle |-> with([window EXCEPT !.attempts = @ + 1]), ok |-> TRUE]

-------------------------------------------------------------------------------
(* The process.                                                            *)
Start ==
  /\ ~Up /\ starts < MaxStarts
  /\ \E p \in Policies :
       /\ policy' = p
       /\ auth' = IF Required(p) THEN ConfigureAuthSessions(auth, SessionKeyDigest(p)) ELSE auth
  /\ starts' = starts + 1
  /\ throttle' = NoPeers /\ granted' = [p \in Peer |-> <<>>] /\ tried' = now
  /\ permits' = MaxConnections /\ shut' = "no"
  /\ UNCHANGED <<now, flight, cookie, drawn, socket>>

(* The process ends, after a shutdown or by a crash: what was in memory,   *)
(* on its way or connected is gone.                                        *)
Exit ==
  /\ Up
  /\ policy' = Nil
  /\ flight' = [b \in Browser |-> NoFlight]
  /\ socket' = [b \in Browser |-> NoSocket]
  /\ UNCHANGED <<now, auth, starts, throttle, granted, tried, cookie, drawn, permits, shut>>

Elapse ==
  /\ now < MaxTime
  /\ now' = now + 1
  /\ UNCHANGED <<auth, policy, starts, throttle, granted, tried, flight, cookie, drawn,
                 socket, permits, shut>>

-------------------------------------------------------------------------------
(* Login and logout.                                                       *)
With(r, b) ==
  [r EXCEPT !.cookies = IF cookie[b] = Nil THEN @ ELSE Append(@, cookie[b])]

Step(b, f) ==
  /\ flight' = [flight EXCEPT ![b] = f]
  /\ UNCHANGED <<now, policy, starts, drawn, socket, permits, shut>>

(* Of a history in order, what the window that ends now holds.             *)
Recent(times) ==
  SubSeq(times, Cardinality({i \in DOMAIN times : now - times[i] >= AttemptWindow}) + 1, Len(times))

LoginArrives(b, r, secret) ==
  LET q == With(r, b)
      tryAt == Attempt(throttle, PeerOf[b])
      passed == /\ tryAt.ok /\ Admit(policy, q, FALSE) = "next"
                /\ PasswordMatches(policy, secret)
  IN /\ Up /\ flight[b] = NoFlight
     /\ r.path = "login" /\ r.method = "POST" /\ Gate(policy, q) = Nil
     /\ passed => drawn < Len(FreshNonce)
     /\ throttle' = tryAt.throttle /\ tried' = now
     /\ granted' = IF tryAt.ok THEN [granted EXCEPT ![PeerOf[b]] = Recent(Append(@, now))] ELSE granted
     /\ drawn' = IF passed THEN drawn + 1 ELSE drawn
     /\ flight' = IF ~passed THEN flight
                  ELSE [flight EXCEPT ![b] = [at |-> "creating", nonce |-> FreshNonce[drawn + 1],
                                              digest |-> CookieDigest(policy, q)]]
     /\ UNCHANGED <<now, auth, policy, starts, cookie, socket, permits, shut>>

LoginCreates(b) ==
  LET f == flight[b]
      digest == SessionDigest(policy, f.nonce)
      after == CreateAuthSession(auth, SessionKeyDigest(policy), digest, f.digest, now)
  IN /\ f.at = "creating"
     /\ auth' = after
     /\ Step(b, IF digest \in DOMAIN after.sessions THEN [f EXCEPT !.at = "loggedIn"] ELSE NoFlight)
     /\ UNCHANGED <<throttle, granted, tried, cookie>>

LogoutArrives(b, r) ==
  LET q == With(r, b)
  IN /\ Up /\ flight[b] = NoFlight
     /\ r.path = "logout" /\ r.method = "POST"
     /\ Gate(policy, q) = Nil /\ Admit(policy, q, FALSE) = "next"
     /\ Step(b, [at |-> IF CookieDigest(policy, q) = Nil THEN "loggedOut" ELSE "revoking",
                 nonce |-> Nil, digest |-> CookieDigest(policy, q)])
     /\ UNCHANGED <<auth, throttle, granted, tried, cookie>>

LogoutRevokes(b) ==
  /\ flight[b].at = "revoking"
  /\ auth' = RevokeAuthSession(auth, flight[b].digest)
  /\ Step(b, [flight[b] EXCEPT !.at = "loggedOut"])
  /\ UNCHANGED <<throttle, granted, tried, cookie>>

(* The reply sets or clears the cookie, or is lost.                        *)
ReplyArrives(b) ==
  /\ flight[b].at \in {"loggedIn", "loggedOut"}
  /\ cookie' \in {cookie, [cookie EXCEPT ![b] = flight[b].nonce]}
  /\ Step(b, NoFlight)
  /\ UNCHANGED <<auth, throttle, granted, tried>>

-------------------------------------------------------------------------------
(* UiConnections.  A socket that holds a permit gives it back when it is   *)
(* dropped.                                                                *)
Holding == {"upgrading", "open", "received", "checked", "closing"}

Owned == Holding \ {"upgrading"}

Moves(b, s) ==
  /\ socket' = [socket EXCEPT ![b] = s]
  /\ permits' = IF socket[b].at \in Holding /\ s.at \notin Holding THEN permits + 1 ELSE permits
  /\ UNCHANGED <<now, auth, policy, starts, throttle, granted, tried, flight, cookie, drawn, shut>>

ConnectArrives(b, r) ==
  LET q == With(r, b)
  IN /\ Up /\ socket[b] = NoSocket
     /\ r.path = "connection" /\ r.method = "GET" /\ Gate(policy, q) = Nil
     /\ Admit(policy, q, CookieActive(policy, q)) = "next"
     /\ Moves(b, [NoSocket EXCEPT !.at = "admitted", !.session = SessionOf(policy, q)])

Upgrade(b) ==
  /\ socket[b].at = "admitted"
  /\ IF permits > 0 /\ shut = "no"
     THEN /\ socket' = [socket EXCEPT ![b].at = "upgrading"]
          /\ permits' = permits - 1
          /\ UNCHANGED <<now, auth, policy, starts, throttle, granted, tried, flight, cookie, drawn, shut>>
     ELSE Moves(b, NoSocket)

(* A bug: an upgrade that completes during the shutdown is let in.         *)
AttachAlways(b) == socket[b].at = "upgrading" /\ Moves(b, [socket[b] EXCEPT !.at = "open"])

Attach(b) ==
  /\ socket[b].at = "upgrading"
  /\ Moves(b, IF shut # "no" THEN NoSocket ELSE [socket[b] EXCEPT !.at = "open"])

(* Any frame is counted, in a fresh second or in the current one.  A ping  *)
(* with a bounded id and a protocol ping get an answer, a pong none, and   *)
(* everything else, one frame too many included, ends the connection.      *)
SessionActive(s) == s.session = Nil \/ Active(auth, SessionKeyDigest(policy), s.session, now)

Receive(b) ==
  /\ socket[b].at = "open" /\ shut = "no"
  /\ \E begun \in {0, socket[b].count}, frame \in {"ping", "pong", "other"} :
       LET s == [socket[b] EXCEPT !.count = begun + 1]
       IN Moves(b, IF s.count > MaxMessages \/ frame = "other" THEN [s EXCEPT !.at = "closing"]
                   ELSE IF frame = "pong" THEN s
                   ELSE [s EXCEPT !.at = "received", !.live = SessionActive(s)])

(* The session is checked for each answer; an error or a timeout of the    *)
(* check closes as well.                                                   *)
CheckNoMore(b) == TRUE

CheckAgain(b) == SessionActive(socket[b])

Verify(b) ==
  /\ socket[b].at = "received" /\ shut = "no"
  /\ \/ CheckAgain(b) /\ Moves(b, [socket[b] EXCEPT !.at = "checked"])
     \/ Moves(b, [socket[b] EXCEPT !.at = "closing"])

Answer(b) ==
  /\ socket[b].at = "checked" /\ shut = "no"
  /\ Moves(b, [socket[b] EXCEPT !.at = "open", !.live = FALSE])

(* A peer that is gone, silent for too long or does not take its answer; a *)
(* shutdown seen at any select.                                            *)
Close(b) ==
  /\ socket[b].at \in {"open", "received", "checked"}
  /\ shut # "no" \/ socket[b].at \in {"open", "checked"}
  /\ Moves(b, [socket[b] EXCEPT !.at = "closing"])

(* The close frame is sent or times out, and the task ends.                *)
Leave(b) == socket[b].at = "closing" /\ Moves(b, NoSocket)

ShutdownBegins ==
  /\ Up /\ shut = "no"
  /\ shut' = "draining"
  /\ UNCHANGED <<now, auth, policy, starts, throttle, granted, tried, flight, cookie, drawn, socket, permits>>

(* All tasks are joined, or aborted when they take over two seconds.       *)
ShutdownEnds ==
  LET owned == {b \in Browser : socket[b].at \in Owned}
  IN /\ shut = "draining" /\ Up
     /\ shut' = "done"
     /\ socket' = [b \in Browser |-> IF b \in owned THEN NoSocket ELSE socket[b]]
     /\ permits' = permits + Cardinality(owned)
     /\ UNCHANGED <<now, auth, policy, starts, throttle, granted, tried, flight, cookie, drawn>>

-------------------------------------------------------------------------------
Process == Start \/ Exit \/ ShutdownBegins \/ ShutdownEnds

Authenticating(b) ==
  \/ LoginCreates(b) \/ LogoutRevokes(b) \/ ReplyArrives(b)
  \/ \E r \in Requests : LogoutArrives(b, r)

Connecting(b) ==
  \/ \E r \in Requests : ConnectArrives(b, r)
  \/ Upgrade(b) \/ Attach(b) \/ Receive(b) \/ Verify(b) \/ Answer(b) \/ Close(b) \/ Leave(b)

LoggingIn(b) == \E r \in Requests, secret \in Password \cup {Nil} : LoginArrives(b, r, secret)

WebNext ==
  \/ Process \/ Elapse
  \/ \E b \in Browser : Authenticating(b) \/ Connecting(b) \/ LoggingIn(b)

WebSpec == WebInit /\ [][WebNext]_webVars

-------------------------------------------------------------------------------
(* A heartbeat that arrives after its session was revoked, has expired or  *)
(* was rotated away is never answered, however the check and the answer    *)
(* interleave with logouts, logins and time: the session was alive when    *)
(* the message came.                                                       *)
AnsweredWhileActive ==
  \A b \in Browser : socket[b].at = "checked" => socket[b].live

(* A shutdown leaves no heartbeat task behind, not even one of an upgrade  *)
(* that was under way when it began, and every permit is accounted for.    *)
NothingOutlivesShutdown ==
  /\ shut = "done" => \A b \in Browser : socket[b].at \notin Owned
  /\ Up => permits + Cardinality({b \in Browser : socket[b].at \in Holding}) = MaxConnections

(* The throttle's two promises, through every cleanup and window boundary: *)
(* a peer gets less than two windows' worth of attempts in any span of one *)
(* window, and a window is forgotten before it is two windows old, so      *)
(* peers that have gone away do not keep others out.                       *)
ThrottleHolds ==
  /\ \A p \in Peer : Len(granted[p]) < 2 * MaxAttempts
  /\ \A p \in DOMAIN throttle.peers : tried - throttle.peers[p].began < 2 * AttemptWindow

(* A session that was created ends for one of four reasons only: it        *)
(* expires, it is logged out, its browser logs in anew, or the password is *)
(* changed.  A full table never costs anybody a session.                   *)
SessionsEndForCause ==
  [][\A d \in DOMAIN auth.sessions :
       auth.sessions[d] > now =>
         \/ d \in DOMAIN auth'.sessions
         \/ auth'.key # auth.key
         \/ \E b \in Browser : flight[b].digest = d /\ flight[b].at \in {"creating", "revoking"}]_webVars
===============================================================================

------------------------------ MODULE ServiceProofs ---------------------------
(***************************************************************************)
(* What holds of the two sides of a server.  First the sessions, the login *)
(* throttle and the heartbeat sockets, for any browsers, requests,         *)
(* policies and limits; then the registry and its scraper.                 *)
(*                                                                         *)
(* The sessions' invariant has four parts beside the types: nothing is     *)
(* left of a process that is down; a nonce whose session is not created    *)
(* yet is known to nobody; each permit is in the semaphore or with one     *)
(* socket; and the throttle's table agrees with what was let through.      *)
(***************************************************************************)
EXTENDS Sessions, Scheduler, FiniteSetTheorems, WellFoundedInduction, SequenceTheorems, TLAPS

-------------------------------------------------------------------------------
(* A non-empty set of naturals has a least element.                        *)
LEMMA LeastNatural ==
  ASSUME NEW S, S \subseteq Nat, S # {}
  PROVE  \E m \in S : \A n \in S : m <= n
<1> DEFINE T == {0 .. n : n \in S}
<1>1. T \subseteq FiniteSubsetsOf(Nat)
  <2> SUFFICES ASSUME NEW n \in S PROVE 0 .. n \in FiniteSubsetsOf(Nat)
    OBVIOUS
  <2>1. n \in Nat
    OBVIOUS
  <2>2. IsFiniteSet(0 .. n)
    BY <2>1, FS_Interval
  <2>3. 0 .. n \subseteq Nat
    BY <2>1
  <2> QED BY <2>2, <2>3 DEF FiniteSubsetsOf
<1>2. T # {}
  OBVIOUS
<1>3. \E x \in T : \A y \in T : ~(<<y, x>> \in StrictSubsetOrdering(Nat))
  BY <1>1, <1>2, FS_StrictSubsetOrderingWellFounded, WFMin
<1>4. PICK m \in S : \A n \in S : ~(<<0 .. n, 0 .. m>> \in StrictSubsetOrdering(Nat))
  BY <1>3
<1>5. ASSUME NEW n \in S PROVE m <= n
  <2> SUFFICES ASSUME n < m PROVE FALSE
    OBVIOUS
  <2>1. 0 .. n \subseteq 0 .. m /\ m \in 0 .. m /\ m \notin 0 .. n
    OBVIOUS
  <2>2. 0 .. n \in SUBSET Nat /\ 0 .. m \in SUBSET Nat
    OBVIOUS
  <2>3. <<0 .. n, 0 .. m>> \in StrictSubsetOrdering(Nat)
    BY <2>1, <2>2 DEF StrictSubsetOrdering
  <2> QED BY <1>4, <2>3
<1> QED BY <1>5

(* A non-empty bounded set of naturals has a greatest element.             *)
LEMMA GreatestNatural ==
  ASSUME NEW S, NEW b \in Nat, S \subseteq 0 .. b, S # {}
  PROVE  \E m \in S : \A n \in S : n <= m
<1> DEFINE T == {k \in Nat : \E n \in S : k = b - n}
<1>1. \A n \in S : n \in Nat /\ b - n \in T
  OBVIOUS
<1>2. T \subseteq Nat /\ T # {}
  BY <1>1
<1>3. PICK t \in T : \A u \in T : t <= u
  BY <1>2, LeastNatural
<1>4. PICK m \in S : t = b - m
  OBVIOUS
<1>5. \A n \in S : n <= m
  <2> TAKE n \in S
  <2>1. b - n \in T /\ n \in Nat /\ m \in Nat
    BY <1>1
  <2> QED BY <1>3, <1>4, <2>1
<1> QED BY <1>5

-------------------------------------------------------------------------------
Digest == Password \X Nonce

FlightAt == {"none", "creating", "loggedIn", "revoking", "loggedOut"}

Flights == [at : FlightAt, nonce : {Nil} \cup Nonce, digest : {Nil} \cup Digest]

SocketAt == {"none", "admitted"} \cup Holding

Sockets == [at : SocketAt, session : {Nil} \cup Digest, count : Nat, live : BOOLEAN]

SessionTypes ==
  /\ now \in Nat
  /\ auth = [key |-> auth.key, sessions |-> auth.sessions]
  /\ \A d \in DOMAIN auth.sessions : auth.sessions[d] \in Nat
  /\ Up => policy \in Policies
  /\ flight \in [Browser -> Flights]
  /\ cookie \in [Browser -> {Nil} \cup Nonce]
  /\ drawn \in 0 .. Len(FreshNonce)
  /\ socket \in [Browser -> Sockets]
  /\ permits \in Int
  /\ shut \in {"no", "draining", "done"}

(* What a process kept in memory goes with it.                             *)
DownInv ==
  ~Up => \A b \in Browser : socket[b] = NoSocket /\ flight[b] = NoFlight

(* Who holds a nonce: as a cookie, as the session of a socket, or in a     *)
(* reply on its way.                                                       *)
Known ==
  {n \in Nonce : \E c \in Browser :
     \/ cookie[c] = n
     \/ Up /\ socket[c].session = SessionDigest(policy, n)
     \/ flight[c].at # "creating" /\ flight[c].nonce = n}

Creating(b) == flight[b].at = "creating"

FreshInv ==
  /\ \A i \in drawn + 1 .. Len(FreshNonce) :
       /\ FreshNonce[i] \notin Known
       /\ \A b \in Browser : Creating(b) => flight[b].nonce # FreshNonce[i]
  /\ \A b \in Browser : Creating(b) =>
       /\ flight[b].nonce \in ToSet(FreshNonce) /\ flight[b].nonce \notin Known
       /\ \A c \in Browser : Creating(c) /\ flight[c].nonce = flight[b].nonce => c = b

(* A session that is active now was active when the message came.          *)
LiveInv ==
  \A b \in Browser :
    /\ socket[b].at = "received" /\ SessionActive(socket[b]) => socket[b].live
    /\ socket[b].at = "checked" => socket[b].live

Holders == {b \in Browser : socket[b].at \in Holding}

SocketInv ==
  /\ Up => permits + Cardinality(Holders) = MaxConnections
  /\ shut = "done" => \A b \in Browser : socket[b].at \notin Owned

-------------------------------------------------------------------------------
(* The throttle.  A peer's history ends with the attempts of its window,   *)
(* of which the first began it; what came before is less than a window's   *)
(* worth.  Of a peer that is not in the table, less than that is recent.   *)
InOrder(g, time) ==
  /\ g \in Seq(Nat)
  /\ \A i, j \in DOMAIN g : i <= j => g[i] <= g[j]
  /\ \A i \in DOMAIN g : g[i] <= time

WindowFits(w, g) ==
  /\ w.attempts <= Len(g) /\ Len(g) - w.attempts < MaxAttempts
  /\ g[Len(g) - w.attempts + 1] = w.began

FewRecent(g, time) ==
  \E k \in 0 .. Len(g) :
    Len(g) - k < MaxAttempts /\ \A i \in 1 .. k : time - g[i] >= AttemptWindow

Windows == [began : Nat, attempts : 1 .. MaxAttempts]

(* Of a table that was used at a time.                                     *)
TableFits(t, time) ==
  /\ t = [peers |-> t.peers, cleanup |-> t.cleanup]
  /\ DOMAIN t.peers \subseteq Peer
  /\ \A p \in DOMAIN t.peers : t.peers[p] \in Windows /\ t.peers[p].began <= time
  /\ t.cleanup \in Nat \cup {Nil}
  /\ t.cleanup = Nil => DOMAIN t.peers = {}
  /\ t.cleanup # Nil =>
       /\ time < t.cleanup /\ t.cleanup <= time + AttemptWindow
       /\ \A p \in DOMAIN t.peers : t.cleanup < t.peers[p].began + 2 * AttemptWindow

HistoryFits(t, p, g, time) ==
  /\ InOrder(g, time)
  /\ Len(g) < 2 * MaxAttempts
  /\ p \in DOMAIN t.peers => WindowFits(t.peers[p], g)
  /\ p \notin DOMAIN t.peers => FewRecent(g, time)

ThrottleInv ==
  /\ tried \in Nat /\ tried <= now
  /\ DOMAIN granted = Peer
  /\ TableFits(throttle, tried)
  /\ \A p \in Peer : HistoryFits(throttle, p, granted[p], tried)

SessionsInv == SessionTypes /\ DownInv /\ FreshInv /\ LiveInv /\ SocketInv /\ ThrottleInv
-------------------------------------------------------------------------------
(* Cookies, digests and sessions.                                          *)
LEMMA NilIsNothing ==
  /\ Nil \notin Nonce /\ Nil \notin Nat /\ Nil \notin Digest /\ Nil \notin Password
  /\ \A p \in Policies, n \in Nonce : SessionDigest(p, n) # Nil
  /\ \A p \in Policies : p.token \in Password \cup {Nil}
  /\ \A i \in 1 .. Len(FreshNonce) : FreshNonce[i] \in Nonce
  /\ \A i \in 1 .. Len(FreshNonce) : FreshNonce[i] \in ToSet(FreshNonce)
  /\ ToSet(FreshNonce) \subseteq Nonce
  /\ \A i, j \in 1 .. Len(FreshNonce) : FreshNonce[i] = FreshNonce[j] => i = j
BY NonceAssumption DEF Digest, SessionDigest, IsInjective, ToSet

LEMMA DigestsDiffer ==
  \A p, q, n, m : SessionDigest(p, n) = SessionDigest(q, m) => n = m
BY DEF SessionDigest

(* The digest of a request is of the browser's own cookie, or of a nonce   *)
(* the server will not draw.                                               *)
LEMMA CookieDigests ==
  ASSUME SessionTypes, Up, NEW b \in Browser, NEW r \in Requests,
         CookieDigest(policy, With(r, b)) # Nil
  PROVE  \E n \in Nonce :
           /\ CookieDigest(policy, With(r, b)) = SessionDigest(policy, n)
           /\ SessionDigest(policy, n) \in Digest
           /\ cookie[b] = n \/ n \notin ToSet(FreshNonce)
<1> DEFINE q == With(r, b)
<1>1. /\ "cookies" \in DOMAIN r /\ r.cookies \in Seq(Nonce \cup {Garbage})
      /\ \A i \in DOMAIN r.cookies : r.cookies[i] \notin ToSet(FreshNonce)
  BY NonceAssumption
<1>2. q.cookies = IF cookie[b] = Nil THEN r.cookies ELSE Append(r.cookies, cookie[b])
  BY <1>1 DEF With
<1>3. Required(policy) /\ Len(q.cookies) = 1 /\ q.cookies[1] \in Nonce
      /\ CookieDigest(policy, q) = SessionDigest(policy, q.cookies[1])
  BY DEF CookieDigest
<1>4. SessionDigest(policy, q.cookies[1]) \in Digest
  BY <1>3, NilIsNothing DEF SessionTypes, Required, SessionDigest, Digest
<1>5. cookie[b] = q.cookies[1] \/ q.cookies[1] \notin ToSet(FreshNonce)
  <2>1. CASE cookie[b] = Nil
    <3>1. q.cookies = r.cookies /\ 1 \in DOMAIN r.cookies
      BY <2>1, <1>1, <1>2, <1>3
    <3> QED BY <3>1, <1>1
  <2>2. CASE cookie[b] # Nil
    <3>1. q.cookies = Append(r.cookies, cookie[b]) /\ Len(r.cookies) \in Nat
      BY <2>2, <1>1, <1>2
    <3>2. Len(q.cookies) = Len(r.cookies) + 1
      BY <3>1, <1>1
    <3>3. q.cookies[1] = cookie[b]
      BY <3>1, <3>2, <1>1, <1>3
    <3> QED BY <3>3
  <2> QED BY <2>1, <2>2
<1> QED BY <1>3, <1>4, <1>5

-------------------------------------------------------------------------------
(* What the steps of a socket have in common.                              *)
Held(s) == IF s.at \in Holding THEN 1 ELSE 0

OnlySockets ==
  UNCHANGED <<now, auth, policy, starts, throttle, granted, tried, flight, cookie, drawn, shut>>

(* The socket's session is none, what it was, or that of a request.        *)
SessionRule(b, s) ==
  \/ s.session = Nil \/ s.session = socket[b].session
  \/ \E r \in Requests : s.session = CookieDigest(policy, With(r, b))

AttachRule(b, s) == s.at \in Owned => socket[b].at \in Owned \/ shut = "no"

LiveRule(s) ==
  /\ s.at = "received" /\ SessionActive(s) => s.live
  /\ s.at = "checked" => s.live

SocketStep(b, s) ==
  /\ Up /\ s \in Sockets
  /\ socket' = [socket EXCEPT ![b] = s]
  /\ permits' = permits + Held(socket[b]) - Held(s)
  /\ OnlySockets
  /\ SessionRule(b, s) /\ AttachRule(b, s) /\ LiveRule(s)

LEMMA MovesAreSteps ==
  ASSUME SessionTypes, NEW b \in Browser, Up, NEW s \in Sockets, Moves(b, s),
         s.at \in Holding => socket[b].at \in Holding,
         SessionRule(b, s), AttachRule(b, s), LiveRule(s)
  PROVE  SocketStep(b, s)
BY DEF SessionTypes, Moves, SocketStep, Held, OnlySockets

LEMMA NoSocketIsOne ==
  /\ NoSocket \in Sockets /\ NoSocket.at = "none" /\ NoSocket.session = Nil
  /\ "none" \notin Holding /\ Owned \subseteq Holding
BY DEF NoSocket, Sockets, SocketAt, Holding, Owned

LEMMA LeavingIsAStep ==
  ASSUME SessionTypes, NEW b \in Browser, Up, Moves(b, NoSocket)
  PROVE  SocketStep(b, NoSocket)
<1>1. SessionRule(b, NoSocket) /\ AttachRule(b, NoSocket) /\ LiveRule(NoSocket)
  BY NoSocketIsOne DEF SessionRule, AttachRule, LiveRule
<1> QED BY <1>1, NoSocketIsOne, MovesAreSteps

LEMMA ReceivedSocket ==
  ASSUME NEW s \in Sockets, NEW v \in BOOLEAN
  PROVE  LET t == [s EXCEPT !.at = "received", !.live = v]
         IN t \in Sockets /\ t.at = "received" /\ t.session = s.session /\ t.live = v
BY DEF Sockets, SocketAt, Holding

LEMMA BusyMeansUp ==
  ASSUME DownInv, NEW b \in Browser, socket[b].at # "none" \/ flight[b].at # "none"
  PROVE  Up
BY DEF DownInv, NoSocket, NoFlight

LEMMA ConnectingIsAStep ==
  ASSUME SessionTypes, DownInv, LiveInv, NEW b \in Browser, Connecting(b)
  PROVE  \E s \in Sockets : SocketStep(b, s)
<1> DEFINE old == socket[b]
<1>0. old \in Sockets /\ old = [at |-> old.at, session |-> old.session, count |-> old.count, live |-> old.live]
  BY DEF SessionTypes, Sockets
<1>h. Holding = {"upgrading", "open", "received", "checked", "closing"}
      /\ Owned = {"open", "received", "checked", "closing"} /\ SocketAt = {"none", "admitted"} \cup Holding
  BY DEF Holding, Owned, SocketAt
<1>1. ASSUME NEW r \in Requests, ConnectArrives(b, r) PROVE \E s \in Sockets : SocketStep(b, s)
  <2> DEFINE q == With(r, b)
             s == [NoSocket EXCEPT !.at = "admitted", !.session = SessionOf(policy, q)]
  <2>1. Up /\ Moves(b, s)
    BY <1>1 DEF ConnectArrives
  <2>2. SessionOf(policy, q) = Nil \/ SessionOf(policy, q) = CookieDigest(policy, q)
    BY DEF SessionOf
  <2>3. SessionOf(policy, q) \in {Nil} \cup Digest
    BY <2>1, <2>2, CookieDigests
  <2>4. s \in Sockets /\ s.at = "admitted" /\ s.session = SessionOf(policy, q)
    BY <2>3, <1>h DEF Sockets, NoSocket
  <2>5. SessionRule(b, s) /\ AttachRule(b, s) /\ LiveRule(s) /\ s.at \notin Holding
    BY <2>2, <2>4, <1>h DEF SessionRule, AttachRule, LiveRule
  <2> QED BY <2>1, <2>4, <2>5, MovesAreSteps
<1>2. ASSUME Upgrade(b) PROVE \E s \in Sockets : SocketStep(b, s)
  <2>1. Up /\ old.at = "admitted"
    BY <1>2, BusyMeansUp DEF Upgrade
  <2>2. CASE permits > 0 /\ shut = "no"
    <3> DEFINE s == [old EXCEPT !.at = "upgrading"]
    <3>1. s \in Sockets /\ s.at = "upgrading" /\ s.session = old.session
      BY <1>0, <1>h DEF Sockets
    <3>2. socket' = [socket EXCEPT ![b] = s] /\ permits' = permits - 1 /\ OnlySockets
      BY <1>2, <2>2 DEF Upgrade, OnlySockets
    <3>3. SessionRule(b, s) /\ AttachRule(b, s) /\ LiveRule(s) /\ Held(old) = 0 /\ Held(s) = 1
      BY <2>1, <3>1, <1>h DEF SessionRule, AttachRule, LiveRule, Held
    <3>4. permits' = permits + Held(socket[b]) - Held(s)
      BY <3>2, <3>3 DEF SessionTypes
    <3> QED BY <2>1, <3>1, <3>2, <3>3, <3>4 DEF SocketStep
  <2>3. CASE ~(permits > 0 /\ shut = "no")
    BY <1>2, <2>1, <2>3, LeavingIsAStep, NoSocketIsOne DEF Upgrade
  <2> QED BY <2>2, <2>3
<1>3. ASSUME NEW s \in Sockets, Moves(b, s), old.at \in Holding, s.session = old.session,
             AttachRule(b, s), LiveRule(s)
      PROVE  SocketStep(b, s)
  <2>1. Up /\ SessionRule(b, s)
    BY <1>3, NoSocketIsOne, BusyMeansUp DEF SessionRule
  <2> QED BY <1>3, <2>1, MovesAreSteps
<1>4. ASSUME Attach(b) PROVE \E s \in Sockets : SocketStep(b, s)
  <2>1. Up /\ old.at = "upgrading"
    BY <1>4, BusyMeansUp DEF Attach
  <2>2. CASE shut # "no"
    BY <1>4, <2>1, <2>2, LeavingIsAStep, NoSocketIsOne DEF Attach
  <2>3. CASE shut = "no"
    <3> DEFINE s == [old EXCEPT !.at = "open"]
    <3>1. s \in Sockets /\ s.at = "open" /\ s.session = old.session /\ Moves(b, s)
      BY <1>0, <1>h, <1>4, <2>3 DEF Sockets, Attach
    <3>2. AttachRule(b, s) /\ LiveRule(s)
      BY <2>3, <3>1 DEF AttachRule, LiveRule
    <3> QED BY <1>3, <1>h, <2>1, <3>1, <3>2
  <2> QED BY <2>2, <2>3
<1>5. ASSUME Receive(b) PROVE \E s \in Sockets : SocketStep(b, s)
  <2>1. old.at = "open" /\ old.at \in Owned
    BY <1>5, <1>h DEF Receive
  <2>2. PICK begun \in {0, old.count}, frame \in {"ping", "pong", "other"} :
          LET s == [old EXCEPT !.count = begun + 1]
          IN Moves(b, IF s.count > MaxMessages \/ frame = "other" THEN [s EXCEPT !.at = "closing"]
                      ELSE IF frame = "pong" THEN s
                      ELSE [s EXCEPT !.at = "received", !.live = SessionActive(s)])
    BY <1>5 DEF Receive
  <2> DEFINE s0 == [old EXCEPT !.count = begun + 1]
             s1 == [s0 EXCEPT !.at = "closing"]
             s2 == [s0 EXCEPT !.at = "received", !.live = SessionActive(s0)]
  <2>3. begun + 1 \in Nat
    BY <1>0 DEF Sockets
  <2>4. s0 \in Sockets /\ s0.at = "open" /\ s0.session = old.session
    BY <1>0, <2>1, <2>3 DEF Sockets
  <2>5. s1 \in Sockets /\ s1.at = "closing" /\ s1.session = old.session
    BY <2>4, <1>h DEF Sockets
  <2>6. SessionActive(s0) \in BOOLEAN
    BY DEF SessionActive, Active
  <2> DEFINE active == SessionActive(s0)
  <2>7. s2 \in Sockets /\ s2.at = "received" /\ s2.session = old.session /\ s2.live = active
    <3> HIDE DEF s0
    <3> QED BY <2>4, <2>6, ReceivedSocket
  <2>8. SessionActive(s2) <=> active
    BY <2>4, <2>7 DEF SessionActive
  <2>9. Moves(b, s1) \/ Moves(b, s0) \/ Moves(b, s2)
    BY <2>2
  <2>10. /\ AttachRule(b, s0) /\ LiveRule(s0)
         /\ AttachRule(b, s1) /\ LiveRule(s1)
         /\ AttachRule(b, s2)
    <3> HIDE DEF s0, s1, s2
    <3> QED BY <2>1, <2>4, <2>5, <2>7 DEF AttachRule, LiveRule
  <2>11. LiveRule(s2)
    <3>1. SessionActive(s2) => s2.live
      <4> HIDE DEF s0, s2
      <4> QED BY <2>7, <2>8
    <3>2. s2.at # "checked"
      BY <2>7
    <3> HIDE DEF s2
    <3> QED BY <3>1, <3>2, Zenon DEF LiveRule
  <2> HIDE DEF s0, s1, s2
  <2> QED BY <1>3, <1>h, <2>1, <2>4, <2>5, <2>7, <2>9, <2>10, <2>11
<1>6. ASSUME Verify(b) PROVE \E s \in Sockets : SocketStep(b, s)
  <2>1. old.at = "received"
    BY <1>6 DEF Verify
  <2>2. CASE CheckAgain(b) /\ Moves(b, [old EXCEPT !.at = "checked"])
    <3> DEFINE s == [old EXCEPT !.at = "checked"]
    <3>1. s \in Sockets /\ s.at = "checked" /\ s.session = old.session /\ s.live = old.live
      BY <1>0, <1>h DEF Sockets
    <3>2. old.live
      BY <2>1, <2>2 DEF CheckAgain, LiveInv
    <3>3. AttachRule(b, s) /\ LiveRule(s)
      BY <2>1, <3>1, <3>2, <1>h DEF AttachRule, LiveRule
    <3> QED BY <1>3, <1>h, <2>1, <2>2, <3>1, <3>3
  <2>3. CASE Moves(b, [old EXCEPT !.at = "closing"])
    <3> DEFINE s == [old EXCEPT !.at = "closing"]
    <3>1. s \in Sockets /\ s.at = "closing" /\ s.session = old.session
      BY <1>0, <1>h DEF Sockets
    <3>2. AttachRule(b, s) /\ LiveRule(s)
      BY <2>1, <3>1, <1>h DEF AttachRule, LiveRule
    <3> QED BY <1>3, <1>h, <2>1, <2>3, <3>1, <3>2
  <2> QED BY <1>6, <2>2, <2>3 DEF Verify
<1>7. ASSUME Answer(b) PROVE \E s \in Sockets : SocketStep(b, s)
  <2> DEFINE s == [old EXCEPT !.at = "open", !.live = FALSE]
  <2>1. old.at = "checked" /\ Moves(b, s)
    BY <1>7 DEF Answer
  <2>2. s \in Sockets /\ s.at = "open" /\ s.session = old.session
    BY <1>0, <1>h DEF Sockets
  <2>3. AttachRule(b, s) /\ LiveRule(s)
    BY <2>1, <2>2, <1>h DEF AttachRule, LiveRule
  <2> QED BY <1>3, <1>h, <2>1, <2>2, <2>3
<1>8. ASSUME Close(b) PROVE \E s \in Sockets : SocketStep(b, s)
  <2> DEFINE s == [old EXCEPT !.at = "closing"]
  <2>1. old.at \in {"open", "received", "checked"} /\ Moves(b, s)
    BY <1>8 DEF Close
  <2>2. s \in Sockets /\ s.at = "closing" /\ s.session = old.session
    BY <1>0, <1>h DEF Sockets
  <2>3. AttachRule(b, s) /\ LiveRule(s)
    BY <2>1, <2>2, <1>h DEF AttachRule, LiveRule
  <2> QED BY <1>3, <1>h, <2>1, <2>2, <2>3
<1>9. ASSUME Leave(b) PROVE \E s \in Sockets : SocketStep(b, s)
  <2>1. Up /\ Moves(b, NoSocket)
    BY <1>9, BusyMeansUp DEF Leave
  <2> QED BY <2>1, LeavingIsAStep, NoSocketIsOne
<1> QED
  BY <1>1, <1>2, <1>4, <1>5, <1>6, <1>7, <1>8, <1>9 DEF Connecting

-------------------------------------------------------------------------------
(* The tables of sessions.                                                 *)
AuthFits(a) ==
  /\ a = [key |-> a.key, sessions |-> a.sessions]
  /\ \A d \in DOMAIN a.sessions : a.sessions[d] \in Nat

LEMMA OtherSessions ==
  ASSUME NEW a, AuthFits(a), NEW s
  PROVE  [a EXCEPT !.sessions = s] = [key |-> a.key, sessions |-> s]
<1>1. PICK k, old : a = [key |-> k, sessions |-> old]
  BY DEF AuthFits
<1> QED BY <1>1

LEMMA CreatedSessions ==
  ASSUME NEW a, AuthFits(a), NEW key, NEW digest, NEW previous, NEW time \in Nat
  PROVE  LET after == CreateAuthSession(a, key, digest, previous, time)
         IN /\ AuthFits(after) /\ after.key = a.key
            /\ \A d \in DOMAIN after.sessions :
                 d = digest \/ (d \in DOMAIN a.sessions /\ after.sessions[d] = a.sessions[d])
            /\ \A d \in DOMAIN a.sessions :
                 a.sessions[d] > time => d \in DOMAIN after.sessions \/ d = previous
<1> DEFINE kept == {d \in DOMAIN a.sessions \ {previous} : a.sessions[d] > time}
           grown == [d \in kept \cup {digest} |->
                       IF d = digest THEN time + SessionLife ELSE a.sessions[d]]
           after == CreateAuthSession(a, key, digest, previous, time)
<1> SUFFICES
      /\ AuthFits(after) /\ after.key = a.key
      /\ \A d \in DOMAIN after.sessions :
           d = digest \/ (d \in DOMAIN a.sessions /\ after.sessions[d] = a.sessions[d])
      /\ \A d \in DOMAIN a.sessions :
           a.sessions[d] > time => d \in DOMAIN after.sessions \/ d = previous
  OBVIOUS
<1>1. CASE a.key # key \/ Cardinality(kept) >= MaxSessions
  <2>1. after = a
    BY <1>1 DEF CreateAuthSession
  <2> QED BY <2>1
<1>2. CASE ~(a.key # key \/ Cardinality(kept) >= MaxSessions)
  <2>1. after = [a EXCEPT !.sessions = grown]
    BY <1>2 DEF CreateAuthSession
  <2>2. SessionLife \in Nat
    BY SessionsAssumption
  <2>3. DOMAIN grown = kept \cup {digest} /\ \A d \in DOMAIN grown : grown[d] \in Nat
    BY <2>2 DEF AuthFits
  <2>4. after.key = a.key /\ after.sessions = grown /\ after = [key |-> a.key, sessions |-> grown]
    <3> HIDE DEF grown, after
    <3> QED BY <2>1, OtherSessions
  <2>5. AuthFits(after)
    <3> HIDE DEF grown, after
    <3> QED BY <2>3, <2>4 DEF AuthFits
  <2>6. \A d \in DOMAIN grown :
          d = digest \/ (d \in DOMAIN a.sessions /\ grown[d] = a.sessions[d])
    OBVIOUS
  <2>7. \A d \in DOMAIN a.sessions : a.sessions[d] > time => d \in DOMAIN grown \/ d = previous
    OBVIOUS
  <2> HIDE DEF grown, after
  <2> QED BY <2>4, <2>5, <2>6, <2>7
<1> QED BY <1>1, <1>2

LEMMA RevokedSessions ==
  ASSUME NEW a, AuthFits(a), NEW digest
  PROVE  LET after == RevokeAuthSession(a, digest)
         IN /\ AuthFits(after) /\ after.key = a.key
            /\ DOMAIN after.sessions = DOMAIN a.sessions \ {digest}
            /\ \A d \in DOMAIN after.sessions : after.sessions[d] = a.sessions[d]
<1> DEFINE left == [d \in DOMAIN a.sessions \ {digest} |-> a.sessions[d]]
           after == RevokeAuthSession(a, digest)
<1> SUFFICES
      /\ AuthFits(after) /\ after.key = a.key
      /\ DOMAIN after.sessions = DOMAIN a.sessions \ {digest}
      /\ \A d \in DOMAIN after.sessions : after.sessions[d] = a.sessions[d]
  OBVIOUS
<1>1. after = [key |-> a.key, sessions |-> left]
  <2>1. after = [a EXCEPT !.sessions = left]
    BY DEF RevokeAuthSession
  <2> HIDE DEF left, after
  <2> QED BY <2>1, OtherSessions
<1>2. after.key = a.key /\ after.sessions = left
  BY <1>1
<1>3. DOMAIN left = DOMAIN a.sessions \ {digest} /\ \A d \in DOMAIN left : left[d] = a.sessions[d] /\ left[d] \in Nat
  BY DEF AuthFits
<1> HIDE DEF left, after
<1> QED BY <1>1, <1>2, <1>3 DEF AuthFits

-------------------------------------------------------------------------------
(* What the steps of a login or logout have in common.                     *)
Answering(b, f) ==
  /\ drawn' = drawn
  /\ f.nonce \in {Nil, flight[b].nonce}
  /\ f.at # "creating"
  /\ cookie' = cookie \/ (flight[b].at # "creating" /\ cookie' = [cookie EXCEPT ![b] = flight[b].nonce])

Drawing(b, f) ==
  /\ drawn < Len(FreshNonce) /\ drawn' = drawn + 1
  /\ f.at = "creating" /\ f.nonce = FreshNonce[drawn + 1]
  /\ cookie' = cookie

AuthRule(b) ==
  /\ AuthFits(auth') /\ auth'.key = auth.key
  /\ \A d \in DOMAIN auth'.sessions :
       \/ d \in DOMAIN auth.sessions /\ auth'.sessions[d] = auth.sessions[d]
       \/ flight[b].at = "creating" /\ d = SessionDigest(policy, flight[b].nonce)

FlightStep(b, f) ==
  /\ Up /\ f \in Flights
  /\ flight' = [flight EXCEPT ![b] = f]
  /\ Answering(b, f) \/ Drawing(b, f)
  /\ AuthRule(b)
  /\ UNCHANGED <<now, policy, starts, socket, permits, shut>>

LEMMA NoFlightIsOne ==
  NoFlight \in Flights /\ NoFlight.at = "none" /\ NoFlight.nonce = Nil
BY DEF NoFlight, Flights, FlightAt

LEMMA AuthFitsNow ==
  ASSUME SessionTypes PROVE AuthFits(auth)
BY DEF SessionTypes, AuthFits

LEMMA AuthKept ==
  ASSUME SessionTypes, NEW b \in Browser, auth' = auth PROVE AuthRule(b)
BY AuthFitsNow DEF AuthRule

LEMMA CreatingIsAStep ==
  ASSUME SessionTypes, DownInv, NEW b \in Browser, LoginCreates(b)
  PROVE  \E f \in Flights : FlightStep(b, f) /\ UNCHANGED <<throttle, granted, tried>>
<1> DEFINE f0 == flight[b]
           digest == SessionDigest(policy, f0.nonce)
           after == CreateAuthSession(auth, SessionKeyDigest(policy), digest, f0.digest, now)
           f == IF digest \in DOMAIN after.sessions THEN [f0 EXCEPT !.at = "loggedIn"] ELSE NoFlight
<1>1. f0.at = "creating" /\ auth' = after /\ Step(b, f) /\ UNCHANGED <<throttle, granted, tried, cookie>>
  BY DEF LoginCreates
<1>2. f0 \in Flights /\ Up
  BY <1>1, BusyMeansUp DEF SessionTypes
<1>3. f \in Flights /\ f.at \in {"none", "loggedIn"} /\ f.nonce \in {Nil, f0.nonce}
  <2>1. [f0 EXCEPT !.at = "loggedIn"] \in Flights /\ [f0 EXCEPT !.at = "loggedIn"].at = "loggedIn"
        /\ [f0 EXCEPT !.at = "loggedIn"].nonce = f0.nonce
    BY <1>2 DEF Flights, FlightAt
  <2> HIDE DEF f0, after
  <2> QED BY <2>1, NoFlightIsOne
<1>4. now \in Nat
  BY DEF SessionTypes
<1>5. /\ AuthFits(after) /\ after.key = auth.key
      /\ \A d \in DOMAIN after.sessions :
           d = digest \/ (d \in DOMAIN auth.sessions /\ after.sessions[d] = auth.sessions[d])
  <2> HIDE DEF digest, f0
  <2> QED BY <1>4, AuthFitsNow, CreatedSessions
<1> HIDE DEF after, f
<1>6. AuthRule(b)
  BY <1>1, <1>5 DEF AuthRule
<1>7. Answering(b, f)
  BY <1>1, <1>3 DEF Answering, Step
<1> QED BY <1>1, <1>2, <1>3, <1>6, <1>7 DEF FlightStep, Step

LEMMA RevokingIsAStep ==
  ASSUME SessionTypes, DownInv, NEW b \in Browser, LogoutRevokes(b)
  PROVE  \E f \in Flights : FlightStep(b, f) /\ UNCHANGED <<throttle, granted, tried>>
<1> DEFINE f0 == flight[b]
           f == [f0 EXCEPT !.at = "loggedOut"]
           after == RevokeAuthSession(auth, f0.digest)
<1>1. f0.at = "revoking" /\ auth' = after /\ Step(b, f) /\ UNCHANGED <<throttle, granted, tried, cookie>>
  BY DEF LogoutRevokes
<1>2. f0 \in Flights /\ Up
  BY <1>1, BusyMeansUp DEF SessionTypes
<1>3. f \in Flights /\ f.at = "loggedOut" /\ f.nonce = f0.nonce
  BY <1>2 DEF Flights, FlightAt
<1>5. /\ AuthFits(after) /\ after.key = auth.key
      /\ \A d \in DOMAIN after.sessions : d \in DOMAIN auth.sessions /\ after.sessions[d] = auth.sessions[d]
  <2> HIDE DEF f0
  <2> QED BY AuthFitsNow, RevokedSessions
<1> HIDE DEF after, f
<1>6. AuthRule(b)
  BY <1>1, <1>5 DEF AuthRule
<1>7. Answering(b, f)
  BY <1>1, <1>3 DEF Answering, Step
<1> QED BY <1>1, <1>2, <1>3, <1>6, <1>7 DEF FlightStep, Step

LEMMA AuthenticatingIsAStep ==
  ASSUME SessionTypes, DownInv, NEW b \in Browser, Authenticating(b)
  PROVE  \E f \in Flights : FlightStep(b, f) /\ UNCHANGED <<throttle, granted, tried>>
<1>1. ASSUME ReplyArrives(b)
      PROVE  \E f \in Flights : FlightStep(b, f) /\ UNCHANGED <<throttle, granted, tried>>
  <2>1. /\ flight[b].at \in {"loggedIn", "loggedOut"} /\ Step(b, NoFlight)
        /\ cookie' \in {cookie, [cookie EXCEPT ![b] = flight[b].nonce]}
        /\ UNCHANGED <<auth, throttle, granted, tried>>
    BY <1>1 DEF ReplyArrives
  <2>2. Up /\ AuthRule(b)
    BY <2>1, AuthKept, BusyMeansUp
  <2>3. Answering(b, NoFlight)
    BY <2>1, NoFlightIsOne DEF Answering, Step
  <2> QED BY <2>1, <2>2, <2>3, NoFlightIsOne DEF FlightStep, Step
<1>2. ASSUME NEW r \in Requests, LogoutArrives(b, r)
      PROVE  \E f \in Flights : FlightStep(b, f) /\ UNCHANGED <<throttle, granted, tried>>
  <2> DEFINE d == CookieDigest(policy, With(r, b))
             f == [at |-> IF d = Nil THEN "loggedOut" ELSE "revoking", nonce |-> Nil, digest |-> d]
  <2>1. Up /\ Step(b, f) /\ UNCHANGED <<auth, throttle, granted, tried, cookie>>
    BY <1>2 DEF LogoutArrives
  <2>2. d \in {Nil} \cup Digest
    BY <2>1, CookieDigests
  <2>3. f \in Flights /\ f.at # "creating" /\ f.nonce = Nil
    <3> HIDE DEF d
    <3> QED BY <2>2 DEF Flights, FlightAt
  <2> HIDE DEF f
  <2>4. AuthRule(b)
    BY <2>1, AuthKept
  <2>5. Answering(b, f)
    BY <2>1, <2>3 DEF Answering, Step
  <2> QED BY <2>1, <2>3, <2>4, <2>5 DEF FlightStep, Step
<1> QED BY <1>1, <1>2, CreatingIsAStep, RevokingIsAStep DEF Authenticating

LEMMA LoginIsAStep ==
  ASSUME SessionTypes, NEW b \in Browser, NEW r \in Requests, NEW secret, LoginArrives(b, r, secret)
  PROVE  \E f \in Flights : FlightStep(b, f)
<1> DEFINE q == With(r, b)
           tryAt == Attempt(throttle, PeerOf[b])
           passed == /\ tryAt.ok /\ Admit(policy, q, FALSE) = "next"
                     /\ PasswordMatches(policy, secret)
           d == CookieDigest(policy, q)
           f == [at |-> "creating", nonce |-> FreshNonce[drawn + 1], digest |-> d]
<1>1. /\ Up /\ flight[b] = NoFlight
      /\ passed => drawn < Len(FreshNonce)
      /\ drawn' = IF passed THEN drawn + 1 ELSE drawn
      /\ flight' = IF ~passed THEN flight ELSE [flight EXCEPT ![b] = f]
      /\ UNCHANGED <<now, auth, policy, starts, cookie, socket, permits, shut>>
  BY DEF LoginArrives
<1>2. AuthRule(b)
  BY <1>1, AuthKept
<1> HIDE DEF passed
<1>3. CASE passed
  <2>1. d \in {Nil} \cup Digest
    BY <1>1, CookieDigests
  <2>2. drawn < Len(FreshNonce) /\ drawn \in Nat /\ drawn + 1 \in 1 .. Len(FreshNonce)
    BY <1>1, <1>3, NonceAssumption DEF SessionTypes
  <2>3. FreshNonce[drawn + 1] \in Nonce
    BY <2>2, NilIsNothing
  <2>4. f \in Flights /\ f.at = "creating" /\ f.nonce = FreshNonce[drawn + 1]
    <3> HIDE DEF d
    <3> QED BY <2>1, <2>3 DEF Flights, FlightAt
  <2> HIDE DEF f
  <2>5. Drawing(b, f)
    BY <1>1, <1>3, <2>2, <2>4 DEF Drawing
  <2> QED BY <1>1, <1>2, <1>3, <2>4, <2>5 DEF FlightStep
<1>4. CASE ~passed
  <2>1. flight' = [flight EXCEPT ![b] = NoFlight]
    BY <1>1, <1>4 DEF SessionTypes
  <2>2. Answering(b, NoFlight)
    BY <1>1, <1>4, NoFlightIsOne DEF Answering
  <2> QED BY <1>1, <1>2, <2>1, <2>2, NoFlightIsOne DEF FlightStep
<1> QED BY <1>3, <1>4

-------------------------------------------------------------------------------
(* Every step, as the invariant sees it: the process starts or ends, its   *)
(* connections begin or end to shut down, time passes, or one browser's    *)
(* socket or flight moves.                                                 *)
LEMMA StepKinds ==
  ASSUME SessionTypes, DownInv, LiveInv, WebNext
  PROVE  \/ Start \/ Exit \/ ShutdownBegins \/ ShutdownEnds \/ Elapse
         \/ \E b \in Browser, s \in Sockets : SocketStep(b, s)
         \/ \E b \in Browser, f \in Flights : FlightStep(b, f)
<1>1. CASE Process \/ Elapse
  BY <1>1 DEF Process
<1>2. ASSUME NEW b \in Browser, Authenticating(b) PROVE \E f \in Flights : FlightStep(b, f)
  BY <1>2, AuthenticatingIsAStep
<1>3. ASSUME NEW b \in Browser, Connecting(b) PROVE \E s \in Sockets : SocketStep(b, s)
  BY <1>3, ConnectingIsAStep
<1>4. ASSUME NEW b \in Browser, LoggingIn(b) PROVE \E f \in Flights : FlightStep(b, f)
  BY <1>4, LoginIsAStep DEF LoggingIn
<1> QED BY <1>1, <1>2, <1>3, <1>4 DEF WebNext

LEMMA ConfiguredSessions ==
  ASSUME NEW a, AuthFits(a), NEW key
  PROVE  AuthFits(ConfigureAuthSessions(a, key))
<1>1. CASE a.key = key
  BY <1>1 DEF ConfigureAuthSessions
<1>2. CASE a.key # key
  BY <1>2 DEF ConfigureAuthSessions, AuthFits
<1> QED BY <1>1, <1>2

LEMMA OwnersArePart ==
  /\ IsFiniteSet(Holders) /\ Cardinality(Holders) \in Nat
  /\ \A T \in SUBSET Browser : IsFiniteSet(T) /\ Cardinality(T) \in Nat
BY SessionsAssumption, FS_Subset, FS_CardinalityType DEF Holders

LEMMA TypesKept ==
  ASSUME SessionTypes, DownInv, LiveInv, WebNext
  PROVE  SessionTypes'
<1>1. ASSUME Start PROVE SessionTypes'
  <2>1. policy' \in Policies /\ permits' \in Int /\ shut' \in {"no", "draining", "done"}
    BY <1>1, SessionsAssumption DEF Start
  <2>2. AuthFits(auth')
    BY <1>1, AuthFitsNow, ConfiguredSessions DEF Start
  <2> QED BY <1>1, <2>1, <2>2 DEF SessionTypes, AuthFits, Start
<1>2. ASSUME Exit PROVE SessionTypes'
  BY <1>2, NoSocketIsOne, NoFlightIsOne DEF Exit, SessionTypes, Up
<1>3. ASSUME ShutdownBegins PROVE SessionTypes'
  BY <1>3 DEF ShutdownBegins, SessionTypes, Up
<1>4. ASSUME ShutdownEnds PROVE SessionTypes'
  <2> DEFINE owned == {b \in Browser : socket[b].at \in Owned}
  <2>1. Cardinality(owned) \in Nat
    BY OwnersArePart
  <2>2. permits' \in Int /\ shut' = "done"
    BY <1>4, <2>1 DEF ShutdownEnds, SessionTypes
  <2>3. socket' \in [Browser -> Sockets]
    BY <1>4, NoSocketIsOne DEF ShutdownEnds, SessionTypes
  <2> QED BY <1>4, <2>2, <2>3 DEF ShutdownEnds, SessionTypes, Up
<1>5. ASSUME Elapse PROVE SessionTypes'
  BY <1>5 DEF Elapse, SessionTypes, Up
<1>6. ASSUME NEW b \in Browser, NEW s \in Sockets, SocketStep(b, s) PROVE SessionTypes'
  <2>1. socket' \in [Browser -> Sockets] /\ permits' \in Int
    BY <1>6 DEF SocketStep, SessionTypes, Held
  <2> QED BY <1>6, <2>1 DEF SocketStep, OnlySockets, SessionTypes, Up
<1>7. ASSUME NEW b \in Browser, NEW f \in Flights, FlightStep(b, f) PROVE SessionTypes'
  <2>1. flight' \in [Browser -> Flights]
    BY <1>7 DEF FlightStep, SessionTypes
  <2>2. flight[b].nonce \in {Nil} \cup Nonce
    BY DEF SessionTypes, Flights
  <2>3. cookie' \in [Browser -> {Nil} \cup Nonce]
    BY <1>7, <2>2 DEF FlightStep, Answering, Drawing, SessionTypes
  <2>4. drawn' \in 0 .. Len(FreshNonce)
    BY <1>7, NonceAssumption DEF FlightStep, Answering, Drawing, SessionTypes
  <2>5. AuthFits(auth')
    BY <1>7 DEF FlightStep, AuthRule
  <2> QED BY <1>7, <2>1, <2>3, <2>4, <2>5 DEF FlightStep, AuthFits, SessionTypes, Up
<1> QED BY <1>1, <1>2, <1>3, <1>4, <1>5, <1>6, <1>7, StepKinds

LEMMA DownKept ==
  ASSUME SessionTypes, DownInv, LiveInv, WebNext
  PROVE  DownInv'
<1>1. ASSUME Start PROVE DownInv'
  BY <1>1 DEF Start, DownInv, Up
<1>2. ASSUME Exit PROVE DownInv'
  BY <1>2 DEF Exit, DownInv, Up
<1>3. ASSUME ShutdownBegins \/ ShutdownEnds PROVE DownInv'
  BY <1>3 DEF ShutdownBegins, ShutdownEnds, DownInv, Up
<1>4. ASSUME Elapse PROVE DownInv'
  BY <1>4 DEF Elapse, DownInv, Up
<1>5. ASSUME NEW b \in Browser, NEW s \in Sockets, SocketStep(b, s) PROVE DownInv'
  BY <1>5 DEF SocketStep, OnlySockets, DownInv, Up
<1>6. ASSUME NEW b \in Browser, NEW f \in Flights, FlightStep(b, f) PROVE DownInv'
  BY <1>6 DEF FlightStep, DownInv, Up
<1> QED BY <1>1, <1>2, <1>3, <1>4, <1>5, <1>6, StepKinds

(* Permits are counted.                                                    *)
LEMMA SocketsKept ==
  ASSUME SessionTypes, DownInv, LiveInv, SocketInv, WebNext
  PROVE  SocketInv'
<1>0. IsFiniteSet(Holders) /\ Cardinality(Holders) \in Nat /\ permits \in Int /\ MaxConnections \in Nat
  BY OwnersArePart, SessionsAssumption DEF SessionTypes
<1>1. ASSUME Start PROVE SocketInv'
  <2>1. \A b \in Browser : socket'[b].at = "none"
    BY <1>1, NoSocketIsOne DEF Start, DownInv
  <2>2. Holders' = {} /\ \A b \in Browser : socket'[b].at \notin Owned
    BY <2>1, NoSocketIsOne DEF Holders
  <2> QED BY <1>1, <2>2, <1>0, FS_EmptySet DEF Start, SocketInv
<1>2. ASSUME Exit PROVE SocketInv'
  BY <1>2, NoSocketIsOne DEF Exit, SocketInv, Up
<1>3. ASSUME ShutdownBegins PROVE SocketInv'
  BY <1>3 DEF ShutdownBegins, SocketInv, Holders, Up
<1>4. ASSUME ShutdownEnds PROVE SocketInv'
  <2> DEFINE owned == {b \in Browser : socket[b].at \in Owned}
  <2>1. /\ \A b \in Browser : socket'[b].at = IF b \in owned THEN "none" ELSE socket[b].at
        /\ permits' = permits + Cardinality(owned) /\ policy' = policy /\ Up
    BY <1>4, NoSocketIsOne DEF ShutdownEnds
  <2>2. owned \subseteq Holders /\ Holders' = Holders \ owned
    BY <2>1, NoSocketIsOne DEF Holders
  <2>3. /\ IsFiniteSet(owned) /\ IsFiniteSet(Holders') /\ Cardinality(owned) \in Nat
        /\ Cardinality(Holders') \in Nat
    BY <1>0, <2>2, FS_Subset, FS_CardinalityType
  <2>4. owned \cup Holders' = Holders /\ owned \cap Holders' = {}
    BY <2>2
  <2>5. Cardinality(Holders) = Cardinality(owned) + Cardinality(Holders') - Cardinality({})
    BY <2>3, <2>4, FS_Union
  <2>6. Cardinality({}) = 0
    BY FS_EmptySet
  <2>7. permits' + Cardinality(Holders') = permits + Cardinality(Holders)
    BY <1>0, <2>1, <2>3, <2>5, <2>6
  <2>8. \A b \in Browser : socket'[b].at \notin Owned
    BY <2>1, NoSocketIsOne
  <2> QED BY <2>1, <2>7, <2>8 DEF SocketInv, Up
<1>5. ASSUME Elapse PROVE SocketInv'
  BY <1>5 DEF Elapse, SocketInv, Holders, Up
<1>6. ASSUME NEW b \in Browser, NEW s \in Sockets, SocketStep(b, s) PROVE SocketInv'
  <2>1. /\ \A c \in Browser : socket'[c] = IF c = b THEN s ELSE socket[c]
        /\ permits' = permits + Held(socket[b]) - Held(s) /\ shut' = shut /\ policy' = policy /\ Up
        /\ AttachRule(b, s)
    BY <1>6 DEF SocketStep, OnlySockets, SessionTypes
  <2>2. Cardinality(Holders') = Cardinality(Holders) + Held(s) - Held(socket[b])
    <3>1. CASE s.at \in Holding
      <4>1. Holders' = Holders \cup {b} /\ Held(s) = 1
        BY <3>1, <2>1 DEF Holders, Held
      <4>2. Held(socket[b]) = IF b \in Holders THEN 1 ELSE 0
        BY DEF Held, Holders
      <4>3. Cardinality(Holders \cup {b}) = IF b \in Holders THEN Cardinality(Holders) ELSE Cardinality(Holders) + 1
        BY <1>0, FS_AddElement
      <4> QED BY <1>0, <4>1, <4>2, <4>3
    <3>2. CASE s.at \notin Holding
      <4>1. Holders' = Holders \ {b} /\ Held(s) = 0
        BY <3>2, <2>1 DEF Holders, Held
      <4>2. Held(socket[b]) = IF b \in Holders THEN 1 ELSE 0
        BY DEF Held, Holders
      <4>3. Cardinality(Holders \ {b}) = IF b \in Holders THEN Cardinality(Holders) - 1 ELSE Cardinality(Holders)
        BY <1>0, FS_RemoveElement
      <4> QED BY <1>0, <4>1, <4>2, <4>3
    <3> QED BY <3>1, <3>2
  <2>3. Held(s) \in Nat /\ Held(socket[b]) \in Nat
    BY DEF Held
  <2>4. permits' + Cardinality(Holders') = permits + Cardinality(Holders)
    BY <1>0, <2>1, <2>2, <2>3
  <2>5. shut = "done" => \A c \in Browser : socket'[c].at \notin Owned
    BY <2>1 DEF AttachRule, SocketInv
  <2> QED BY <2>1, <2>4, <2>5 DEF SocketInv, Up
<1>7. ASSUME NEW b \in Browser, NEW f \in Flights, FlightStep(b, f) PROVE SocketInv'
  BY <1>7 DEF FlightStep, SocketInv, Holders, Up
<1> QED BY <1>1, <1>2, <1>3, <1>4, <1>5, <1>6, <1>7, StepKinds

-------------------------------------------------------------------------------
(* A session that has ended stays ended: nobody creates it again.          *)
LEMMA LiveKept ==
  ASSUME SessionTypes, DownInv, FreshInv, LiveInv, WebNext
  PROVE  LiveInv'
<1>1. ASSUME Start \/ Exit PROVE LiveInv'
  <2>1. \A b \in Browser : socket'[b].at = "none"
    BY <1>1, NoSocketIsOne DEF Start, Exit, DownInv
  <2> QED BY <2>1 DEF LiveInv
<1>2. ASSUME ShutdownBegins \/ ShutdownEnds PROVE LiveInv'
  <2>1. \A b \in Browser : socket'[b] = socket[b] \/ socket'[b].at = "none"
    BY <1>2, NoSocketIsOne DEF ShutdownBegins, ShutdownEnds
  <2>2. UNCHANGED <<auth, policy, now>>
    BY <1>2 DEF ShutdownBegins, ShutdownEnds
  <2>3. \A b \in Browser : socket'[b] = socket[b] => (SessionActive(socket[b])' <=> SessionActive(socket[b]))
    BY <2>2 DEF SessionActive, Active
  <2> QED BY <2>1, <2>3 DEF LiveInv
<1>3. ASSUME \A b \in Browser : SessionActive(socket[b])' => SessionActive(socket[b]), socket' = socket
      PROVE  LiveInv'
  BY <1>3 DEF LiveInv
<1>4. ASSUME Elapse PROVE LiveInv'
  <2>1. now' = now + 1 /\ auth' = auth /\ policy' = policy /\ socket' = socket
    BY <1>4 DEF Elapse
  <2>2. now \in Nat /\ \A d \in DOMAIN auth.sessions : auth.sessions[d] \in Nat
    BY DEF SessionTypes
  <2>3. \A b \in Browser : SessionActive(socket[b])' => SessionActive(socket[b])
    BY <2>1, <2>2 DEF SessionActive, Active
  <2> QED BY <1>3, <2>1, <2>3
<1>5. ASSUME NEW b \in Browser, NEW s \in Sockets, SocketStep(b, s) PROVE LiveInv'
  <2>1. \A c \in Browser : socket'[c] = IF c = b THEN s ELSE socket[c]
    BY <1>5 DEF SocketStep, SessionTypes
  <2>2. UNCHANGED <<auth, policy, now>> /\ LiveRule(s)
    BY <1>5 DEF SocketStep, OnlySockets
  <2>3. SessionActive(s)' <=> SessionActive(s)
    BY <2>2 DEF SessionActive, Active
  <2>4. \A c \in Browser : c # b => (SessionActive(socket[c])' <=> SessionActive(socket[c]))
    BY <2>1, <2>2 DEF SessionActive, Active
  <2>5. ASSUME NEW c \in Browser
        PROVE  /\ socket'[c].at = "received" /\ SessionActive(socket[c])' => socket'[c].live
               /\ socket'[c].at = "checked" => socket'[c].live
    <3>1. CASE c = b
      <4>1. socket'[c] = s
        BY <2>1, <3>1
      <4>2. SessionActive(socket[c])' <=> SessionActive(s)
        BY <2>2, <4>1 DEF SessionActive, Active
      <4> QED BY <2>2, <4>1, <4>2 DEF LiveRule
    <3>2. CASE c # b
      <4>1. socket'[c] = socket[c] /\ (SessionActive(socket[c])' => SessionActive(socket[c]))
        BY <2>1, <2>4, <3>2
      <4> QED BY <4>1 DEF LiveInv
    <3> QED BY <3>1, <3>2
  <2> QED BY <2>5 DEF LiveInv
<1>6. ASSUME NEW b \in Browser, NEW f \in Flights, FlightStep(b, f) PROVE LiveInv'
  <2>1. AuthRule(b) /\ UNCHANGED <<now, policy, socket>> /\ Up
    BY <1>6 DEF FlightStep
  <2>2. Creating(b) => \A c \in Browser : socket[c].session # SessionDigest(policy, flight[b].nonce)
    BY <2>1, NilIsNothing DEF FreshInv, Known
  <2>3. ASSUME NEW c \in Browser, SessionActive(socket[c])' PROVE SessionActive(socket[c])
    <3> DEFINE d == socket[c].session
    <3>1. CASE d = Nil
      BY <3>1 DEF SessionActive
    <3>2. CASE d # Nil
      <4>1. d \in DOMAIN auth'.sessions /\ auth'.sessions[d] > now /\ auth'.key = SessionKeyDigest(policy)
        BY <2>1, <2>3, <3>2 DEF SessionActive, Active
      <4>2. d \in DOMAIN auth.sessions /\ auth'.sessions[d] = auth.sessions[d] /\ auth.key = auth'.key
        BY <2>1, <2>2, <4>1 DEF AuthRule, Creating
      <4> QED BY <4>1, <4>2 DEF SessionActive, Active
    <3> QED BY <3>1, <3>2
  <2> QED BY <1>3, <2>1, <2>3
<1> QED BY <1>1, <1>2, <1>4, <1>5, <1>6, StepKinds

(* Nobody learns a nonce before its session is there.                      *)
LEMMA FreshKept ==
  ASSUME SessionTypes, DownInv, LiveInv, FreshInv, WebNext
  PROVE  FreshInv'
<1>0. \A i \in drawn + 1 .. Len(FreshNonce) : FreshNonce[i] \in Nonce /\ FreshNonce[i] # Nil
  BY NilIsNothing DEF SessionTypes
<1>1. ASSUME drawn' = drawn, Known' \cap ToSet(FreshNonce) \subseteq Known,
             \A b \in Browser : Creating(b)' => Creating(b) /\ flight'[b].nonce = flight[b].nonce
      PROVE  FreshInv'
  <2>1. \A i \in drawn + 1 .. Len(FreshNonce) : FreshNonce[i] \in ToSet(FreshNonce)
    BY NilIsNothing DEF SessionTypes
  <2>2. ASSUME NEW i \in drawn + 1 .. Len(FreshNonce)
        PROVE  /\ FreshNonce[i] \notin Known'
               /\ \A b \in Browser : Creating(b)' => flight'[b].nonce # FreshNonce[i]
    BY <1>1, <2>1 DEF FreshInv
  <2>3. ASSUME NEW b \in Browser, Creating(b)'
        PROVE  /\ flight'[b].nonce \in ToSet(FreshNonce) /\ flight'[b].nonce \notin Known'
               /\ \A c \in Browser : Creating(c)' /\ flight'[c].nonce = flight'[b].nonce => c = b
    BY <1>1, <2>3 DEF FreshInv
  <2> QED BY <1>1, <2>2, <2>3 DEF FreshInv
<1>2. ASSUME Start PROVE FreshInv'
  <2>1. drawn' = drawn /\ flight' = flight /\ cookie' = cookie /\ policy' \in Policies
        /\ \A b \in Browser : socket'[b] = NoSocket /\ flight[b] = NoFlight
    BY <1>2 DEF Start, DownInv
  <2>2. \A n \in Nonce : SessionDigest(policy', n) # Nil
    BY <2>1, NilIsNothing
  <2>3. Known' \subseteq Known
    BY <2>1, <2>2, NoSocketIsOne DEF Known
  <2>4. \A b \in Browser : ~Creating(b)'
    BY <2>1, NoFlightIsOne DEF Creating
  <2> QED BY <1>1, <2>1, <2>3, <2>4
<1>3. ASSUME Exit PROVE FreshInv'
  <2>1. drawn' = drawn /\ cookie' = cookie /\ ~Up'
        /\ \A b \in Browser : flight'[b] = NoFlight
    BY <1>3 DEF Exit, Up
  <2>2. Known' \subseteq Known
    BY <2>1, NoFlightIsOne, NilIsNothing DEF Known
  <2>4. \A b \in Browser : ~Creating(b)'
    BY <2>1, NoFlightIsOne DEF Creating
  <2> QED BY <1>1, <2>1, <2>2, <2>4
<1>4. ASSUME ShutdownBegins \/ ShutdownEnds PROVE FreshInv'
  <2>1. UNCHANGED <<drawn, cookie, flight, policy>>
        /\ \A b \in Browser : socket'[b] = socket[b] \/ socket'[b] = NoSocket
    BY <1>4 DEF ShutdownBegins, ShutdownEnds
  <2>2. Up => \A n \in Nonce : SessionDigest(policy, n) # Nil
    BY NilIsNothing DEF SessionTypes
  <2>3. Known' \subseteq Known
    BY <2>1, <2>2, NoSocketIsOne DEF Known, Up
  <2> QED BY <1>1, <2>1, <2>3 DEF Creating
<1>5. ASSUME Elapse PROVE FreshInv'
  <2>1. UNCHANGED <<drawn, cookie, flight, policy, socket>>
    BY <1>5 DEF Elapse
  <2>2. Known' \subseteq Known
    BY <2>1 DEF Known, Up
  <2> QED BY <1>1, <2>1, <2>2 DEF Creating
<1>6. ASSUME NEW b \in Browser, NEW s \in Sockets, SocketStep(b, s) PROVE FreshInv'
  <2>1. /\ UNCHANGED <<drawn, cookie, flight, policy>> /\ Up /\ SessionRule(b, s)
        /\ \A c \in Browser : socket'[c] = IF c = b THEN s ELSE socket[c]
    BY <1>6 DEF SocketStep, OnlySockets, SessionTypes
  <2>2. \A n \in Nonce : SessionDigest(policy, n) # Nil
    BY <2>1, NilIsNothing DEF SessionTypes
  <2>3. ASSUME NEW n \in Nonce, n \in ToSet(FreshNonce), n \in Known' PROVE n \in Known
    <3>1. CASE \E c \in Browser : cookie'[c] = n \/ (flight'[c].at # "creating" /\ flight'[c].nonce = n)
      BY <3>1, <2>1 DEF Known
    <3>2. CASE \E c \in Browser : Up' /\ socket'[c].session = SessionDigest(policy', n)
      <4>1. PICK c \in Browser : socket'[c].session = SessionDigest(policy, n)
        BY <3>2, <2>1
      <4>2. CASE c # b
        BY <4>1, <4>2, <2>1 DEF Known
      <4>3. CASE c = b
        <5>1. s.session = SessionDigest(policy, n) /\ s.session # Nil
          BY <4>1, <4>3, <2>1, <2>2
        <5>2. CASE s.session = socket[b].session
          BY <5>1, <5>2, <2>1 DEF Known
        <5>3. ASSUME NEW r \in Requests, s.session = CookieDigest(policy, With(r, b)) PROVE n \in Known
          <6>1. PICK m \in Nonce : s.session = SessionDigest(policy, m) /\ (cookie[b] = m \/ m \notin ToSet(FreshNonce))
            BY <5>1, <5>3, <2>1, CookieDigests
          <6>2. m = n
            BY <5>1, <6>1, DigestsDiffer
          <6> QED BY <6>1, <6>2, <2>3 DEF Known
        <5> QED BY <5>1, <5>2, <5>3, <2>1 DEF SessionRule
      <4> QED BY <4>2, <4>3
    <3> QED BY <3>1, <3>2, <2>3 DEF Known
  <2>4. Known' \cap ToSet(FreshNonce) \subseteq Known
    BY <2>3, NilIsNothing
  <2>5. \A c \in Browser : Creating(c)' => Creating(c) /\ flight'[c].nonce = flight[c].nonce
    BY <2>1 DEF Creating
  <2> QED BY <1>1, <2>1, <2>4, <2>5
<1>7. ASSUME NEW b \in Browser, NEW f \in Flights, FlightStep(b, f), Answering(b, f) PROVE FreshInv'
  <2>1. /\ UNCHANGED <<drawn, policy, socket>> /\ f.at # "creating" /\ f.nonce \in {Nil, flight[b].nonce}
        /\ \A c \in Browser : flight'[c] = IF c = b THEN f ELSE flight[c]
        /\ cookie' = cookie \/ (~Creating(b) /\ cookie' = [cookie EXCEPT ![b] = flight[b].nonce])
    BY <1>7 DEF FlightStep, Answering, SessionTypes, Creating
  <2>2. ASSUME NEW n \in Nonce, n \in Known' PROVE n \in Known \/ (Creating(b) /\ n = flight[b].nonce)
    <3>1. CASE \E c \in Browser : Up' /\ socket'[c].session = SessionDigest(policy', n)
      BY <3>1, <2>1 DEF Known, Up
    <3>2. ASSUME NEW c \in Browser, cookie'[c] = n PROVE n \in Known
      BY <2>1, <3>2 DEF Known, Creating, SessionTypes
    <3>3. ASSUME NEW c \in Browser, flight'[c].at # "creating", flight'[c].nonce = n
          PROVE n \in Known \/ (Creating(b) /\ n = flight[b].nonce)
      <4>1. CASE c # b
        BY <2>1, <3>3, <4>1 DEF Known
      <4>2. CASE c = b
        <5>1. n = flight[b].nonce
          BY <2>1, <3>3, <4>2, NilIsNothing
        <5> QED BY <5>1 DEF Known, Creating
      <4> QED BY <4>1, <4>2
    <3> QED BY <2>2, <3>1, <3>2, <3>3 DEF Known
  <2>3. \A c \in Browser : Creating(c)' => c # b /\ Creating(c) /\ flight'[c].nonce = flight[c].nonce
    BY <2>1 DEF Creating
  <2>4. ASSUME NEW i \in drawn' + 1 .. Len(FreshNonce)
        PROVE  /\ FreshNonce[i] \notin Known'
               /\ \A c \in Browser : Creating(c)' => flight'[c].nonce # FreshNonce[i]
    BY <1>0, <2>1, <2>2, <2>3 DEF FreshInv
  <2>5. ASSUME NEW c \in Browser, Creating(c)'
        PROVE  /\ flight'[c].nonce \in ToSet(FreshNonce) /\ flight'[c].nonce \notin Known'
               /\ \A e \in Browser : Creating(e)' /\ flight'[e].nonce = flight'[c].nonce => e = c
    <3>1. c # b /\ Creating(c) /\ flight'[c].nonce = flight[c].nonce
      BY <2>3, <2>5
    <3>2. /\ flight[c].nonce \in ToSet(FreshNonce) /\ flight[c].nonce \notin Known
          /\ \A e \in Browser : Creating(e) /\ flight[e].nonce = flight[c].nonce => e = c
      BY <3>1 DEF FreshInv
    <3>3. flight[c].nonce \in Nonce /\ ~(Creating(b) /\ flight[c].nonce = flight[b].nonce)
      BY <3>1, <3>2, NilIsNothing
    <3> DEFINE n == flight'[c].nonce
    <3>4. n \notin Known'
      <4>1. n \in Nonce /\ n \notin Known /\ ~(Creating(b) /\ n = flight[b].nonce)
        BY <3>1, <3>2, <3>3
      <4> QED BY <2>2, <4>1
    <3> QED BY <2>3, <3>1, <3>2, <3>4
  <2> QED BY <2>4, <2>5 DEF FreshInv
<1>8. ASSUME NEW b \in Browser, NEW f \in Flights, FlightStep(b, f), Drawing(b, f) PROVE FreshInv'
  <2> DEFINE new == FreshNonce[drawn + 1]
  <2>1. /\ UNCHANGED <<policy, socket, cookie>> /\ f.at = "creating" /\ f.nonce = new
        /\ drawn' = drawn + 1 /\ drawn < Len(FreshNonce)
        /\ \A c \in Browser : flight'[c] = IF c = b THEN f ELSE flight[c]
    BY <1>8 DEF FlightStep, Drawing, SessionTypes
  <2>2. drawn \in Nat /\ Len(FreshNonce) \in Nat /\ drawn + 1 \in drawn + 1 .. Len(FreshNonce)
        /\ drawn + 1 \in 1 .. Len(FreshNonce)
    BY <2>1, NonceAssumption DEF SessionTypes
  <2>3. Known' \subseteq Known
    BY <2>1 DEF Known, Up
  <2>4. /\ new \in Nonce /\ new \in ToSet(FreshNonce) /\ new \notin Known
        /\ \A c \in Browser : Creating(c) => flight[c].nonce # new
    BY <2>2, NilIsNothing DEF FreshInv
  <2>5. ASSUME NEW i \in drawn' + 1 .. Len(FreshNonce)
        PROVE  /\ FreshNonce[i] \notin Known'
               /\ \A c \in Browser : Creating(c)' => flight'[c].nonce # FreshNonce[i]
    <3>1. i \in drawn + 1 .. Len(FreshNonce) /\ i \in 1 .. Len(FreshNonce) /\ i # drawn + 1
      BY <2>1, <2>2
    <3>2. FreshNonce[i] # new
      BY <2>2, <3>1, NilIsNothing
    <3>3. FreshNonce[i] \notin Known'
      BY <1>0, <2>3, <3>1 DEF FreshInv
    <3>4. \A c \in Browser : Creating(c)' => flight'[c].nonce # FreshNonce[i]
      BY <2>1, <3>1, <3>2 DEF FreshInv, Creating
    <3> QED BY <3>3, <3>4
  <2>6. ASSUME NEW c \in Browser, Creating(c)'
        PROVE  /\ flight'[c].nonce \in ToSet(FreshNonce) /\ flight'[c].nonce \notin Known'
               /\ \A e \in Browser : Creating(e)' /\ flight'[e].nonce = flight'[c].nonce => e = c
    <3> DEFINE n == flight'[c].nonce
    <3>1. CASE c = b
      <4>1. n = new
        BY <2>1, <3>1
      <4>2. n \notin Known'
        BY <2>3, <2>4, <4>1
      <4>3. \A e \in Browser : Creating(e)' /\ flight'[e].nonce = n => e = c
        BY <2>1, <2>4, <3>1, <4>1 DEF Creating
      <4> QED BY <2>4, <4>1, <4>2, <4>3
    <3>2. CASE c # b
      <4>1. n = flight[c].nonce /\ Creating(c)
        BY <2>1, <2>6, <3>2 DEF Creating
      <4>2. /\ n \in ToSet(FreshNonce) /\ n \notin Known /\ n # new
            /\ \A e \in Browser : Creating(e) /\ flight[e].nonce = n => e = c
        BY <2>4, <4>1 DEF FreshInv
      <4>3. n \notin Known'
        BY <2>3, <4>2, NilIsNothing
      <4>4. \A e \in Browser : Creating(e)' /\ flight'[e].nonce = n => e = c
        BY <2>1, <4>2 DEF Creating
      <4> QED BY <4>2, <4>3, <4>4
    <3> QED BY <3>1, <3>2
  <2> QED BY <2>5, <2>6 DEF FreshInv
<1>9. ASSUME NEW b \in Browser, NEW f \in Flights, FlightStep(b, f) PROVE FreshInv'
  BY <1>7, <1>8, <1>9 DEF FlightStep
<1> QED BY <1>2, <1>3, <1>4, <1>5, <1>6, <1>9, StepKinds

-------------------------------------------------------------------------------
(* The throttle.                                                           *)
LEMMA Limits ==
  /\ AttemptWindow \in Nat /\ AttemptWindow > 0
  /\ MaxAttempts \in Nat /\ MaxAttempts > 0
BY SessionsAssumption

(* Of an ordered history, the recent part is a suffix.                     *)
LEMMA RecentIsSuffix ==
  ASSUME now \in Nat, NEW g, InOrder(g, now)
  PROVE  \E d \in 0 .. Len(g) :
           /\ Recent(g) = SubSeq(g, d + 1, Len(g))
           /\ \A i \in 1 .. d : now - g[i] >= AttemptWindow
           /\ \A i \in d + 1 .. Len(g) : now - g[i] < AttemptWindow
<1> DEFINE old == {i \in DOMAIN g : now - g[i] >= AttemptWindow}
<1>1. /\ g \in Seq(Nat) /\ Len(g) \in Nat /\ DOMAIN g = 1 .. Len(g)
      /\ \A i \in 1 .. Len(g) : g[i] \in Nat
      /\ \A i, j \in 1 .. Len(g) : i <= j => g[i] <= g[j]
  BY DEF InOrder
<1>2. \E d \in 0 .. Len(g) : old = 1 .. d
  <2>1. CASE old = {}
    BY <2>1, <1>1
  <2>2. CASE old # {}
    <3>1. old \subseteq 0 .. Len(g)
      BY <1>1
    <3> HIDE DEF old
    <3>2. PICK d \in old : \A n \in old : n <= d
      BY <1>1, <2>2, <3>1, GreatestNatural
    <3> USE DEF old
    <3>3. ASSUME NEW i \in 1 .. d PROVE i \in old
      BY <3>2, <3>3, <1>1, Limits
    <3>4. \A i \in old : i \in 1 .. d
      BY <3>2, <1>1
    <3> QED BY <3>1, <3>2, <3>3, <3>4
  <2> QED BY <2>1, <2>2
<1>3. PICK d \in 0 .. Len(g) : old = 1 .. d
  BY <1>2
<1>4. Cardinality(old) = d
  <2>1. Cardinality(1 .. d) = IF 1 > d THEN 0 ELSE d - 1 + 1
    BY <1>3, FS_Interval
  <2>2. Cardinality(1 .. d) = d
    BY <1>1, <2>1
  <2> HIDE DEF old
  <2> QED BY <1>3, <2>2
<1>5. Recent(g) = SubSeq(g, d + 1, Len(g))
  BY <1>4 DEF Recent
<1>6. \A i \in 1 .. d : i \in old
  BY <1>3
<1>7. \A i \in d + 1 .. Len(g) : i \notin old
  BY <1>1, <1>3
<1>8. \A i \in d + 1 .. Len(g) : now - g[i] < AttemptWindow
  BY <1>1, <1>7, Limits
<1> QED BY <1>5, <1>6, <1>8

LEMMA OrderLater ==
  ASSUME NEW g, NEW time \in Nat, NEW later \in Nat, time <= later, InOrder(g, time)
  PROVE  InOrder(g, later)
BY DEF InOrder

(* Of a window that is over, at most the later attempts are recent.        *)
LEMMA OldWindowIsFew ==
  ASSUME now \in Nat, NEW g, InOrder(g, now), NEW w \in Windows, WindowFits(w, g),
         now - w.began >= AttemptWindow
  PROVE  FewRecent(g, now)
<1> DEFINE k == Len(g) - w.attempts + 1
<1>1. Len(g) \in Nat /\ \A i \in 1 .. Len(g) : g[i] \in Nat
  BY DEF InOrder
<1>2. w.attempts \in 1 .. MaxAttempts /\ w.began \in Nat /\ w.attempts <= Len(g) /\ g[k] = w.began
  BY DEF Windows, WindowFits
<1>3. k \in 1 .. Len(g) /\ Len(g) - k < MaxAttempts
  BY <1>1, <1>2, Limits, SMTT(30)
<1> HIDE DEF k
<1>4. \A i \in 1 .. k : g[i] <= g[k]
  BY <1>3 DEF InOrder
<1>5. \A i \in 1 .. k : now - g[i] >= AttemptWindow
  BY <1>1, <1>2, <1>3, <1>4, Limits, SMTT(30)
<1> QED BY <1>1, <1>3, <1>5 DEF FewRecent

(* The table after the cleanup of an attempt, and each history with it.    *)
LEMMA TableCleaned ==
  ASSUME now \in Nat, NEW t, NEW time \in Nat, time <= now, TableFits(t, time)
  PROVE  TableFits(Cleaned(t), now) /\ Cleaned(t).cleanup \in Nat
<1> DEFINE c == Cleaned(t)
<1> SUFFICES TableFits(c, now) /\ c.cleanup \in Nat
  OBVIOUS
<1>1. CASE t.cleanup = Nil \/ now >= t.cleanup
  <2> DEFINE left == Retained(t.peers)
  <2>1. c = [peers |-> left, cleanup |-> now + AttemptWindow]
    BY <1>1 DEF Cleaned
  <2>2. /\ DOMAIN left \subseteq DOMAIN t.peers
        /\ \A p \in DOMAIN left : left[p] = t.peers[p] /\ now - t.peers[p].began < AttemptWindow
    BY DEF Retained
  <2>3. c.peers = left /\ c.cleanup = now + AttemptWindow
    BY <2>1
  <2>4. \A p \in DOMAIN left : left[p] \in Windows /\ left[p].began <= now /\ left[p].began \in Nat
    BY <2>2 DEF TableFits, Windows
  <2>5. \A p \in DOMAIN left : c.cleanup < left[p].began + 2 * AttemptWindow
    BY <2>2, <2>3, <2>4, Limits
  <2>6. c.cleanup \in Nat /\ now < c.cleanup /\ c.cleanup <= now + AttemptWindow /\ c.cleanup # Nil
    BY <2>3, Limits, NilIsNothing
  <2>7. DOMAIN left \subseteq Peer
    BY <2>2 DEF TableFits
  <2> HIDE DEF left, c
  <2> QED BY <2>1, <2>3, <2>4, <2>5, <2>6, <2>7 DEF TableFits
<1>2. CASE ~(t.cleanup = Nil \/ now >= t.cleanup)
  <2>1. c = t /\ t.cleanup \in Nat /\ now < t.cleanup /\ t.cleanup <= now + AttemptWindow
    BY <1>2, Limits DEF Cleaned, TableFits
  <2>2. \A p \in DOMAIN t.peers : t.peers[p].began <= now
    BY DEF TableFits, Windows
  <2> HIDE DEF c
  <2> QED BY <2>1, <2>2 DEF TableFits
<1> QED BY <1>1, <1>2

LEMMA HistoryCleaned ==
  ASSUME now \in Nat, NEW t, NEW time \in Nat, time <= now, TableFits(t, time),
         NEW p \in Peer, NEW g, HistoryFits(t, p, g, time)
  PROVE  HistoryFits(Cleaned(t), p, g, now)
<1> DEFINE c == Cleaned(t)
<1> SUFFICES HistoryFits(c, p, g, now)
  OBVIOUS
<1>1. InOrder(g, now) /\ Len(g) < 2 * MaxAttempts
  BY OrderLater DEF HistoryFits
<1>2. Len(g) \in Nat /\ \A i \in 1 .. Len(g) : g[i] \in Nat
  BY <1>1 DEF InOrder
<1>3. FewRecent(g, time) => FewRecent(g, now)
  BY <1>2, Limits, SMTT(30) DEF FewRecent
<1>4. CASE p \in DOMAIN t.peers /\ p \notin DOMAIN c.peers
  <2>1. t.peers[p] \in Windows /\ WindowFits(t.peers[p], g)
    BY <1>4 DEF TableFits, HistoryFits
  <2>2. now - t.peers[p].began >= AttemptWindow
    <3>1. c.peers = Retained(t.peers)
      BY <1>4 DEF Cleaned
    <3> QED BY <3>1, <1>4, <2>1, Limits DEF Retained, Windows
  <2>3. FewRecent(g, now)
    BY <1>1, <2>1, <2>2, OldWindowIsFew
  <2> QED BY <1>1, <1>4, <2>3 DEF HistoryFits
<1>5. CASE p \in DOMAIN t.peers /\ p \in DOMAIN c.peers
  <2>1. c.peers[p] = t.peers[p]
    BY <1>5 DEF Cleaned, Retained
  <2> HIDE DEF c
  <2> QED BY <1>1, <1>5, <2>1 DEF HistoryFits
<1>6. CASE p \notin DOMAIN t.peers
  <2>1. p \notin DOMAIN c.peers
    BY <1>6 DEF Cleaned, Retained
  <2> HIDE DEF c
  <2> QED BY <1>1, <1>3, <1>6, <2>1 DEF HistoryFits
<1> QED BY <1>4, <1>5, <1>6

(* A history after one more attempt.                                       *)
LEMMA RecentOfOneMore ==
  ASSUME now \in Nat, NEW g, InOrder(g, now), NEW h, h = Recent(Append(g, now))
  PROVE  \E d \in 0 .. Len(g) :
           /\ InOrder(h, now) /\ Len(h) = Len(g) + 1 - d /\ h[Len(h)] = now
           /\ \A i \in 1 .. Len(g) - d : h[i] = g[i + d]
           /\ \A i \in 1 .. d : now - g[i] >= AttemptWindow
           /\ \A i \in d + 1 .. Len(g) : now - g[i] < AttemptWindow
<1>1. /\ g \in Seq(Nat) /\ Len(g) \in Nat /\ DOMAIN g = 1 .. Len(g)
      /\ \A i \in 1 .. Len(g) : g[i] \in Nat /\ g[i] <= now
      /\ \A i, j \in 1 .. Len(g) : i <= j => g[i] <= g[j]
  BY DEF InOrder
<1>0. PICK n \in Nat : n = Len(g)
  BY <1>1
<1>a. PICK a : a = Append(g, now)
  OBVIOUS
<1>2. /\ a \in Seq(Nat) /\ Len(a) = n + 1 /\ DOMAIN a = 1 .. n + 1
      /\ a[n + 1] = now /\ \A i \in 1 .. n : a[i] = g[i]
  BY <1>0, <1>1, <1>a
<1>3. InOrder(a, now)
  <2>1. \A i \in 1 .. n + 1 : a[i] \in Nat /\ a[i] <= now /\ (i \in 1 .. n \/ i = n + 1)
    BY <1>0, <1>1, <1>2
  <2>2. ASSUME NEW i \in 1 .. n + 1, NEW j \in 1 .. n + 1, i <= j PROVE a[i] <= a[j]
    <3>1. CASE j = n + 1
      BY <1>2, <2>1, <3>1
    <3>2. CASE j \in 1 .. n
      <4>1. i \in 1 .. n
        BY <2>2, <3>2
      <4> QED BY <1>0, <1>1, <1>2, <2>2, <3>2, <4>1
    <3> QED BY <2>1, <3>1, <3>2
  <2> QED BY <1>2, <2>1, <2>2 DEF InOrder
<1>4. PICK d \in 0 .. n + 1 :
        /\ h = SubSeq(a, d + 1, n + 1)
        /\ \A i \in 1 .. d : now - a[i] >= AttemptWindow
        /\ \A i \in d + 1 .. n + 1 : now - a[i] < AttemptWindow
  BY <1>2, <1>3, <1>a, RecentIsSuffix
<1>5. d \in 0 .. n
  <2>1. CASE d = n + 1
    <3>1. n + 1 \in 1 .. d
      BY <2>1
    <3>2. now - a[n + 1] >= AttemptWindow
      BY <1>4, <3>1
    <3> QED BY <1>2, <3>2, Limits
  <2> QED BY <1>4, <2>1
<1>6. /\ h \in Seq(Nat) /\ Len(h) = n + 1 - d /\ DOMAIN h = 1 .. n + 1 - d
      /\ \A i \in 1 .. n + 1 - d : h[i] = a[i + d]
  <2>1. /\ d + 1 \in Int /\ n + 1 \in Int /\ d + 1 <= n + 1 /\ n + 1 - (d + 1) + 1 = n + 1 - d
        /\ \A i \in d + 1 .. n + 1 : i \in 1 .. n + 1
    BY <1>5
  <2>2. \A i \in d + 1 .. n + 1 : a[i] \in Nat
    BY <1>2, <2>1
  <2>3. /\ h \in Seq(Nat) /\ Len(h) = IF d + 1 <= n + 1 THEN n + 1 - (d + 1) + 1 ELSE 0
        /\ \A i \in 1 .. n + 1 - (d + 1) + 1 : h[i] = a[d + 1 + i - 1]
    BY <1>4, <2>1, <2>2, SubSeqProperties, SMTT(30)
  <2>4. \A i \in 1 .. n + 1 - d : d + 1 + i - 1 = i + d
    BY <1>5
  <2> QED BY <2>1, <2>3, <2>4
<1>7. \A i \in 1 .. n + 1 - d : i + d \in 1 .. n + 1
  BY <1>5
<1>8. InOrder(h, now)
  <2>1. \A i \in DOMAIN h : h[i] <= now
    BY <1>2, <1>3, <1>6, <1>7 DEF InOrder
  <2>2. ASSUME NEW i \in DOMAIN h, NEW j \in DOMAIN h, i <= j PROVE h[i] <= h[j]
    <3>1. i \in 1 .. n + 1 - d /\ j \in 1 .. n + 1 - d
      BY <1>6
    <3>2. i + d \in 1 .. n + 1 /\ j + d \in 1 .. n + 1
      BY <1>7, <3>1
    <3>3. i + d <= j + d
      BY <1>5, <2>2, <3>1
    <3>4. i + d \in DOMAIN a /\ j + d \in DOMAIN a
      BY <1>2, <3>2
    <3>5. a[i + d] <= a[j + d]
      BY <1>3, <3>3, <3>4 DEF InOrder
    <3>6. h[i] = a[i + d] /\ h[j] = a[j + d]
      BY <1>6, <3>1
    <3> QED BY <3>5, <3>6
  <2> QED BY <1>6, <2>1, <2>2 DEF InOrder
<1>9. h[n + 1 - d] = now /\ \A i \in 1 .. n - d : h[i] = g[i + d]
  <2>1. n + 1 - d \in 1 .. n + 1 - d /\ n + 1 - d + d = n + 1
    BY <1>5
  <2>2. h[n + 1 - d] = a[n + 1]
    BY <1>6, <2>1
  <2>3. \A i \in 1 .. n - d : i \in 1 .. n + 1 - d /\ i + d \in 1 .. n
    BY <1>5
  <2> QED BY <1>2, <1>6, <2>2, <2>3
<1>10. /\ \A i \in 1 .. d : now - g[i] >= AttemptWindow
       /\ \A i \in d + 1 .. n : now - g[i] < AttemptWindow
  <2>1. \A i \in 1 .. d : i \in 1 .. n
    BY <1>5
  <2>2. \A i \in d + 1 .. n : i \in 1 .. n /\ i \in d + 1 .. n + 1
    BY <1>5
  <2> QED BY <1>2, <1>4, <2>1, <2>2
<1> QED BY <1>0, <1>5, <1>6, <1>8, <1>9, <1>10

LEMMA FirstOfWindow ==
  ASSUME now \in Nat, NEW g, InOrder(g, now), FewRecent(g, now),
         NEW h, h = Recent(Append(g, now))
  PROVE  /\ InOrder(h, now) /\ Len(h) < 2 * MaxAttempts
         /\ WindowFits([began |-> now, attempts |-> 1], h)
<1>1. PICK d \in 0 .. Len(g) :
        /\ InOrder(h, now) /\ Len(h) = Len(g) + 1 - d /\ h[Len(h)] = now
        /\ \A i \in d + 1 .. Len(g) : now - g[i] < AttemptWindow
  BY RecentOfOneMore
<1>2. PICK k \in 0 .. Len(g) : Len(g) - k < MaxAttempts /\ \A i \in 1 .. k : now - g[i] >= AttemptWindow
  BY DEF FewRecent
<1>3. Len(g) \in Nat /\ \A i \in 1 .. Len(g) : g[i] \in Nat
  BY DEF InOrder
<1>4. k <= d
  <2>1. ASSUME d < k PROVE FALSE
    <3>1. k \in d + 1 .. Len(g) /\ k \in 1 .. k
      BY <1>3, <2>1
    <3>2. now - g[k] < AttemptWindow /\ now - g[k] >= AttemptWindow /\ g[k] \in Nat
      BY <1>1, <1>2, <1>3, <3>1
    <3> QED BY <3>2, Limits
  <2> QED BY <1>3, <2>1
<1>5. Len(h) \in Nat /\ Len(h) >= 1 /\ Len(h) <= MaxAttempts
  BY <1>1, <1>2, <1>3, <1>4, Limits
<1>6. Len(h) < 2 * MaxAttempts /\ Len(h) - 1 < MaxAttempts /\ h[Len(h) - 1 + 1] = now
  BY <1>1, <1>5, Limits
<1> QED BY <1>1, <1>5, <1>6 DEF WindowFits

LEMMA NextOfWindow ==
  ASSUME now \in Nat, NEW g, InOrder(g, now), Len(g) < 2 * MaxAttempts,
         NEW w \in Windows, WindowFits(w, g), w.began <= now,
         now - w.began < AttemptWindow, w.attempts < MaxAttempts,
         NEW h, h = Recent(Append(g, now))
  PROVE  /\ InOrder(h, now) /\ Len(h) < 2 * MaxAttempts
         /\ WindowFits([w EXCEPT !.attempts = @ + 1], h)
<1>1. PICK d \in 0 .. Len(g) :
        /\ InOrder(h, now) /\ Len(h) = Len(g) + 1 - d /\ h[Len(h)] = now
        /\ \A i \in 1 .. Len(g) - d : h[i] = g[i + d]
        /\ \A i \in 1 .. d : now - g[i] >= AttemptWindow
  BY RecentOfOneMore
<1>2. PICK n \in 1 .. MaxAttempts, t \in Nat : n = w.attempts /\ t = w.began
  BY DEF Windows
<1>3. PICK l \in Nat : l = Len(g)
  BY DEF InOrder
<1>4. n <= l /\ l - n < MaxAttempts /\ g[l - n + 1] = t /\ t <= now /\ now - t < AttemptWindow /\ n < MaxAttempts
  BY <1>2, <1>3 DEF WindowFits
<1>5. d <= l - n
  <2>1. ASSUME l - n < d PROVE FALSE
    <3>1. l - n + 1 \in 1 .. d
      BY <1>1, <1>3, <1>4, <2>1
    <3>2. now - t >= AttemptWindow
      BY <1>1, <1>4, <3>1
    <3> QED BY <1>4, <3>2, Limits
  <2> QED BY <1>1, <1>3, <1>4, <2>1
<1>a. d \in Nat /\ n \in Nat /\ n >= 1
  BY <1>1, <1>2, <1>3
<1>b. Len(h) = l + 1 - d
  BY <1>1, <1>3
<1>6. l - n + 1 - d \in 1 .. l - d /\ l - n + 1 - d + d = l - n + 1
  BY <1>3, <1>4, <1>5, <1>a
<1>7. h[l - n + 1 - d] = t
  BY <1>1, <1>3, <1>4, <1>6
<1>8. /\ Len(h) = l + 1 - d /\ n + 1 <= Len(h) /\ Len(h) - (n + 1) < MaxAttempts
      /\ Len(h) - (n + 1) + 1 = l - n + 1 - d /\ Len(h) < 2 * MaxAttempts
  BY <1>3, <1>4, <1>5, <1>a, <1>b, Limits, SMTT(30)
<1>9. [w EXCEPT !.attempts = @ + 1].attempts = n + 1 /\ [w EXCEPT !.attempts = @ + 1].began = t
  BY <1>2 DEF Windows
<1> QED BY <1>1, <1>7, <1>8, <1>9 DEF WindowFits
(* A peer's row in the table.                                              *)
Written(c, peer, w) ==
  [c EXCEPT !.peers = [p \in DOMAIN @ \cup {peer} |-> IF p = peer THEN w ELSE @[p]]]

LEMMA RowWritten ==
  ASSUME now \in Nat, NEW c, TableFits(c, now), c.cleanup \in Nat,
         NEW peer \in Peer, NEW w \in Windows, w.began <= now,
         w.began = now \/ (peer \in DOMAIN c.peers /\ w.began = c.peers[peer].began),
         NEW t, t = Written(c, peer, w)
  PROVE  /\ TableFits(t, now)
         /\ DOMAIN t.peers = DOMAIN c.peers \cup {peer}
         /\ t.peers[peer] = w /\ \A p \in DOMAIN c.peers \ {peer} : t.peers[p] = c.peers[p]
<1>1. PICK old, n : c = [peers |-> old, cleanup |-> n]
  BY DEF TableFits
<1>2. PICK new : new = [p \in DOMAIN old \cup {peer} |-> IF p = peer THEN w ELSE old[p]]
  OBVIOUS
<1>3. t = [peers |-> new, cleanup |-> n]
  BY <1>1, <1>2 DEF Written
<1>4. /\ DOMAIN new = DOMAIN old \cup {peer} /\ new[peer] = w
      /\ \A p \in DOMAIN old \ {peer} : new[p] = old[p]
  BY <1>2
<1>5. c.peers = old /\ c.cleanup = n /\ t.peers = new /\ t.cleanup = n
  BY <1>1, <1>3
<1>6. /\ DOMAIN old \subseteq Peer /\ \A p \in DOMAIN old : old[p] \in Windows /\ old[p].began <= now
      /\ n \in Nat /\ n # Nil /\ now < n /\ n <= now + AttemptWindow
      /\ \A p \in DOMAIN old : n < old[p].began + 2 * AttemptWindow
  BY <1>5, NilIsNothing DEF TableFits
<1>7. n < w.began + 2 * AttemptWindow
  <2>1. CASE w.began = now
    BY <1>6, <2>1, Limits
  <2>2. CASE peer \in DOMAIN old /\ w.began = old[peer].began
    BY <1>6, <2>2
  <2> QED BY <1>5, <2>1, <2>2
<1>8. \A p \in DOMAIN new : /\ new[p] \in Windows /\ new[p].began <= now
                            /\ n < new[p].began + 2 * AttemptWindow
  BY <1>4, <1>6, <1>7
<1>9. DOMAIN new \subseteq Peer
  BY <1>4, <1>6
<1> QED BY <1>3, <1>4, <1>5, <1>6, <1>8, <1>9 DEF TableFits

(* What an attempt leaves of the table, and of each history.               *)
LEMMA AttemptFits ==
  ASSUME now \in Nat, NEW t, NEW time \in Nat, time <= now, TableFits(t, time),
         NEW gs, \A p \in Peer : HistoryFits(t, p, gs[p], time),
         NEW peer \in Peer, NEW a, a = Attempt(t, peer)
  PROVE  /\ TableFits(a.throttle, now)
         /\ \A p \in Peer \ {peer} : HistoryFits(a.throttle, p, gs[p], now)
         /\ a.ok => HistoryFits(a.throttle, peer, Recent(Append(gs[peer], now)), now)
         /\ ~a.ok => HistoryFits(a.throttle, peer, gs[peer], now)
<1> DEFINE c == Cleaned(t)
           fresh == [began |-> now, attempts |-> 0]
           old == IF peer \in DOMAIN c.peers THEN c.peers[peer] ELSE fresh
           window == IF now - old.began >= AttemptWindow THEN fresh ELSE old
           next == [window EXCEPT !.attempts = @ + 1]
           full == peer \notin DOMAIN c.peers /\ Cardinality(DOMAIN c.peers) >= MaxPeers
<1>1. TableFits(c, now) /\ c.cleanup \in Nat
  BY TableCleaned
<1>2. \A p \in Peer : HistoryFits(c, p, gs[p], now)
  BY HistoryCleaned
<1>3. a = IF full THEN [throttle |-> c, ok |-> FALSE]
          ELSE IF window.attempts >= MaxAttempts
            THEN [throttle |-> Written(c, peer, window), ok |-> FALSE]
          ELSE [throttle |-> Written(c, peer, next), ok |-> TRUE]
  BY DEF Attempt, Written
<1> HIDE DEF c, full
<1>4. fresh.began = now /\ fresh.attempts = 0
  OBVIOUS
<1>5. peer \in DOMAIN c.peers => c.peers[peer] \in Windows /\ WindowFits(c.peers[peer], gs[peer])
                                  /\ c.peers[peer].began <= now
  BY <1>1, <1>2 DEF TableFits, HistoryFits
<1>6. InOrder(gs[peer], now) /\ Len(gs[peer]) < 2 * MaxAttempts
  BY <1>2 DEF HistoryFits
<1>7. CASE full
  <2>1. a.throttle = c /\ a.ok = FALSE
    BY <1>3, <1>7
  <2> QED BY <1>1, <1>2, <2>1
<1>8. ASSUME peer \in DOMAIN c.peers, ~(now - c.peers[peer].began >= AttemptWindow), ~full
      PROVE  /\ TableFits(a.throttle, now)
             /\ \A p \in Peer \ {peer} : HistoryFits(a.throttle, p, gs[p], now)
             /\ a.ok => HistoryFits(a.throttle, peer, Recent(Append(gs[peer], now)), now)
             /\ ~a.ok => HistoryFits(a.throttle, peer, gs[peer], now)
  <2>1. PICK w \in Windows : w = c.peers[peer]
    BY <1>5, <1>8
  <2>2. window = w /\ WindowFits(w, gs[peer]) /\ w.began <= now /\ w.began \in Nat
        /\ w.attempts \in 1 .. MaxAttempts /\ now - w.began < AttemptWindow
    BY <1>5, <1>8, <2>1, Limits DEF Windows
  <2> HIDE DEF window
  <2>3. CASE w.attempts >= MaxAttempts
    <3>1. PICK u : u = Written(c, peer, w)
      OBVIOUS
    <3>2. a.throttle = u /\ a.ok = FALSE
      BY <1>3, <1>8, <2>2, <2>3, <3>1
    <3>3. /\ TableFits(u, now) /\ DOMAIN u.peers = DOMAIN c.peers \cup {peer} /\ u.peers[peer] = w
          /\ \A p \in DOMAIN c.peers \ {peer} : u.peers[p] = c.peers[p]
      BY <1>1, <1>8, <2>1, <2>2, <3>1, RowWritten
    <3>4. \A p \in Peer : HistoryFits(u, p, gs[p], now)
      BY <1>2, <1>8, <2>1, <3>3 DEF HistoryFits
    <3> QED BY <3>2, <3>3, <3>4
  <2>4. CASE w.attempts < MaxAttempts
    <3>1. PICK u : u = Written(c, peer, next)
      OBVIOUS
    <3>0. ~(w.attempts >= MaxAttempts)
      BY <2>2, <2>4, Limits
    <3>2. a.throttle = u /\ a.ok = TRUE
      BY <1>3, <1>8, <2>2, <3>0, <3>1
    <3>3. next \in Windows /\ next.began = w.began /\ next = [w EXCEPT !.attempts = @ + 1]
      BY <2>1, <2>2, <2>4, Limits DEF Windows
    <3>4. PICK h : h = Recent(Append(gs[peer], now))
      OBVIOUS
    <3>5. InOrder(h, now) /\ Len(h) < 2 * MaxAttempts /\ WindowFits(next, h)
      BY <1>6, <2>2, <2>4, <3>3, <3>4, NextOfWindow
    <3> HIDE DEF next
    <3>a. next \in Windows /\ next.began <= now /\ next.began = c.peers[peer].began
      BY <2>1, <2>2, <3>3
    <3>6. /\ TableFits(u, now) /\ DOMAIN u.peers = DOMAIN c.peers \cup {peer} /\ u.peers[peer] = next
          /\ \A p \in DOMAIN c.peers \ {peer} : u.peers[p] = c.peers[p]
      BY <1>1, <1>8, <3>1, <3>a, RowWritten
    <3>7. \A p \in Peer \ {peer} : HistoryFits(u, p, gs[p], now)
      BY <1>2, <3>6 DEF HistoryFits
    <3>8. HistoryFits(u, peer, h, now)
      BY <3>5, <3>6 DEF HistoryFits
    <3> QED BY <3>2, <3>4, <3>6, <3>7, <3>8
  <2> QED BY <2>2, <2>3, <2>4, Limits
<1>9. ASSUME ~(peer \in DOMAIN c.peers /\ ~(now - c.peers[peer].began >= AttemptWindow)), ~full
      PROVE  /\ TableFits(a.throttle, now)
             /\ \A p \in Peer \ {peer} : HistoryFits(a.throttle, p, gs[p], now)
             /\ a.ok => HistoryFits(a.throttle, peer, Recent(Append(gs[peer], now)), now)
             /\ ~a.ok => HistoryFits(a.throttle, peer, gs[peer], now)
  <2>1. window = fresh
    BY <1>9
  <2>2. FewRecent(gs[peer], now)
    <3>1. CASE peer \notin DOMAIN c.peers
      BY <1>2, <3>1 DEF HistoryFits
    <3>2. CASE peer \in DOMAIN c.peers
      BY <1>5, <1>6, <1>9, <3>2, OldWindowIsFew
    <3> QED BY <3>1, <3>2
  <2>3. next = [began |-> now, attempts |-> 1]
    BY <2>1
  <2>4. next \in Windows /\ next.began = now
    BY <2>3, Limits DEF Windows
  <2>5. window.attempts = 0
    BY <2>1
  <2> HIDE DEF window
  <2>6. PICK u : u = Written(c, peer, next)
    OBVIOUS
  <2>7. a.throttle = u /\ a.ok = TRUE
    BY <1>3, <1>9, <2>5, <2>6, Limits
  <2>8. PICK h : h = Recent(Append(gs[peer], now))
    OBVIOUS
  <2>9. InOrder(h, now) /\ Len(h) < 2 * MaxAttempts /\ WindowFits(next, h)
    BY <1>6, <2>2, <2>3, <2>8, FirstOfWindow
  <2> HIDE DEF next
  <2>10. /\ TableFits(u, now) /\ DOMAIN u.peers = DOMAIN c.peers \cup {peer} /\ u.peers[peer] = next
         /\ \A p \in DOMAIN c.peers \ {peer} : u.peers[p] = c.peers[p]
    BY <1>1, <2>4, <2>6, RowWritten
  <2>11. \A p \in Peer \ {peer} : HistoryFits(u, p, gs[p], now)
    BY <1>2, <2>10 DEF HistoryFits
  <2>12. HistoryFits(u, peer, h, now)
    BY <2>9, <2>10 DEF HistoryFits
  <2> QED BY <2>7, <2>8, <2>10, <2>11, <2>12
<1> QED BY <1>7, <1>8, <1>9

LEMMA ThrottleKept ==
  ASSUME SessionTypes, DownInv, LiveInv, ThrottleInv, WebNext
  PROVE  ThrottleInv'
<1>0. now \in Nat /\ tried \in Nat /\ tried <= now
  BY DEF SessionTypes, ThrottleInv
<1>1. ASSUME Start PROVE ThrottleInv'
  <2>1. /\ throttle' = NoPeers /\ granted' = [p \in Peer |-> <<>>] /\ tried' = now /\ now' = now
    BY <1>1 DEF Start
  <2>2. TableFits(NoPeers, now)
    BY NilIsNothing DEF TableFits, NoPeers
  <2>3. InOrder(<<>>, now) /\ FewRecent(<<>>, now) /\ Len(<<>>) < 2 * MaxAttempts
    BY Limits DEF InOrder, FewRecent
  <2>4. \A p \in Peer : HistoryFits(NoPeers, p, <<>>, now)
    BY <2>3 DEF HistoryFits, NoPeers
  <2> QED BY <1>0, <2>1, <2>2, <2>4 DEF ThrottleInv
<1>2. ASSUME UNCHANGED <<throttle, granted, tried>>, now' \in Nat, now' >= now PROVE ThrottleInv'
  BY <1>0, <1>2 DEF ThrottleInv, TableFits, HistoryFits, InOrder, FewRecent
<1>3. ASSUME NEW b \in Browser, LoggingIn(b) PROVE ThrottleInv'
  <2> DEFINE peer == PeerOf[b]
  <2>1. PICK r \in Requests, secret \in Password \cup {Nil} : LoginArrives(b, r, secret)
    BY <1>3 DEF LoggingIn
  <2>2. PICK a : a = Attempt(throttle, peer)
    OBVIOUS
  <2>3. /\ throttle' = a.throttle /\ tried' = now /\ now' = now
        /\ granted' = IF a.ok THEN [granted EXCEPT ![peer] = Recent(Append(@, now))] ELSE granted
    BY <2>1, <2>2 DEF LoginArrives
  <2>4. peer \in Peer /\ DOMAIN granted = Peer
    BY SessionsAssumption DEF ThrottleInv
  <2> HIDE DEF peer
  <2>5. /\ TableFits(a.throttle, now)
        /\ \A p \in Peer \ {peer} : HistoryFits(a.throttle, p, granted[p], now)
        /\ a.ok => HistoryFits(a.throttle, peer, Recent(Append(granted[peer], now)), now)
        /\ ~a.ok => HistoryFits(a.throttle, peer, granted[peer], now)
    BY <1>0, <2>2, <2>4, AttemptFits DEF ThrottleInv
  <2>6. /\ DOMAIN granted' = Peer /\ \A p \in Peer \ {peer} : granted'[p] = granted[p]
        /\ a.ok => granted'[peer] = Recent(Append(granted[peer], now))
        /\ ~a.ok => granted'[peer] = granted[peer]
    BY <2>3, <2>4
  <2>7. \A p \in Peer : HistoryFits(throttle', p, granted'[p], now)
    BY <2>3, <2>5, <2>6
  <2> QED BY <1>0, <2>3, <2>5, <2>6, <2>7 DEF ThrottleInv
<1>4. ASSUME NEW b \in Browser, Authenticating(b) PROVE ThrottleInv'
  <2>1. PICK f \in Flights : FlightStep(b, f) /\ UNCHANGED <<throttle, granted, tried>>
    BY <1>4, AuthenticatingIsAStep
  <2> QED BY <1>0, <1>2, <2>1 DEF FlightStep
<1>5. ASSUME NEW b \in Browser, Connecting(b) PROVE ThrottleInv'
  <2>1. PICK s \in Sockets : SocketStep(b, s)
    BY <1>5, ConnectingIsAStep
  <2> QED BY <1>0, <1>2, <2>1 DEF SocketStep, OnlySockets
<1>6. ASSUME Exit \/ ShutdownBegins \/ ShutdownEnds \/ Elapse PROVE ThrottleInv'
  <2>1. UNCHANGED <<throttle, granted, tried>> /\ (now' = now \/ now' = now + 1)
    BY <1>6 DEF Exit, ShutdownBegins, ShutdownEnds, Elapse
  <2> QED BY <1>0, <1>2, <2>1
<1> QED BY <1>1, <1>3, <1>4, <1>5, <1>6 DEF WebNext, Process

-------------------------------------------------------------------------------
LEMMA SessionsStart ==
  WebInit => SessionsInv
<1> SUFFICES ASSUME WebInit PROVE SessionsInv
  OBVIOUS
<1>0. /\ \A b \in Browser : socket[b] = NoSocket /\ flight[b] = NoFlight /\ cookie[b] = Nil
      /\ ~Up
  BY DEF WebInit, Up
<1>1. SessionTypes
  BY NoSocketIsOne, NoFlightIsOne, NonceAssumption, SessionsAssumption DEF WebInit, SessionTypes, Up
<1>2. DownInv
  BY <1>0 DEF DownInv
<1>3. Known = {} /\ \A b \in Browser : ~Creating(b)
  BY <1>0, NoFlightIsOne, NilIsNothing DEF Known, Creating
<1>4. FreshInv
  BY <1>3 DEF FreshInv
<1>5. LiveInv
  BY <1>0, NoSocketIsOne DEF LiveInv
<1>6. SocketInv
  BY <1>0 DEF SocketInv, WebInit
<1>7. ThrottleInv
  <2>1. TableFits(NoPeers, 0)
    BY NilIsNothing DEF TableFits, NoPeers
  <2>2. InOrder(<<>>, 0) /\ FewRecent(<<>>, 0) /\ Len(<<>>) < 2 * MaxAttempts
    BY Limits DEF InOrder, FewRecent
  <2>3. \A p \in Peer : HistoryFits(NoPeers, p, <<>>, 0)
    BY <2>2 DEF HistoryFits, NoPeers
  <2> QED BY <2>1, <2>3 DEF WebInit, ThrottleInv
<1> QED BY <1>1, <1>2, <1>4, <1>5, <1>6, <1>7 DEF SessionsInv

LEMMA SessionsStep ==
  SessionsInv /\ [WebNext]_webVars => SessionsInv'
<1> SUFFICES ASSUME SessionsInv, [WebNext]_webVars PROVE SessionsInv'
  OBVIOUS
<1>1. CASE WebNext
  BY <1>1, TypesKept, DownKept, SocketsKept, LiveKept, FreshKept, ThrottleKept DEF SessionsInv
<1>2. CASE UNCHANGED webVars
  BY <1>2 DEF webVars, SessionsInv, SessionTypes, DownInv, FreshInv, Known, Creating, LiveInv,
       SessionActive, Active, SocketInv, Holders, ThrottleInv, Up
<1> QED BY <1>1, <1>2

(* Of every reachable state of the processes and browsers (auth.rs and     *)
(* connection.rs): what is down holds nothing, a nonce whose session is    *)
(* not there yet is known to nobody, what is answered was alive, permits   *)
(* are counted, and the throttle's table agrees with what it let through.  *)
THEOREM SessionsAreSound == WebSpec => []SessionsInv
BY SessionsStart, SessionsStep, PTL DEF WebSpec

(* No heartbeat is answered whose session was not active when it came      *)
(* (connection.rs checks again before each answer, and a nonce is created  *)
(* once): however logins, logouts, expiry and rotation interleave.         *)
THEOREM AnswersAreForTheLive == WebSpec => []AnsweredWhileActive
<1>1. SessionsInv => AnsweredWhileActive
  BY DEF SessionsInv, LiveInv, AnsweredWhileActive
<1> QED BY <1>1, SessionsAreSound, PTL

(* UiConnections::shutdown leaves no heartbeat task, and no permit of the  *)
(* semaphore is lost or made, for any number of browsers.                  *)
THEOREM ShutdownLeavesNoSocket == WebSpec => []NothingOutlivesShutdown
<1>1. SessionsInv => NothingOutlivesShutdown
  BY DEF SessionsInv, SocketInv, Holders, NothingOutlivesShutdown
<1> QED BY <1>1, SessionsAreSound, PTL

(* LoginThrottle::attempt keeps its two promises through every cleanup and *)
(* window boundary, for any window, limit and number of peers.             *)
THEOREM ThrottleIsSound == WebSpec => []ThrottleHolds
<1>1. ASSUME SessionsInv PROVE ThrottleHolds
  <2>1. \A p \in Peer : Len(granted[p]) < 2 * MaxAttempts
    BY <1>1 DEF SessionsInv, ThrottleInv, HistoryFits
  <2>2. ASSUME NEW p \in DOMAIN throttle.peers
        PROVE  tried - throttle.peers[p].began < 2 * AttemptWindow
    <3>1. /\ throttle.cleanup \in Nat \cup {Nil} /\ throttle.cleanup # Nil
          /\ tried < throttle.cleanup /\ tried \in Nat
          /\ throttle.cleanup < throttle.peers[p].began + 2 * AttemptWindow
          /\ throttle.peers[p] \in Windows
      BY <1>1, <2>2 DEF SessionsInv, ThrottleInv, TableFits
    <3>2. throttle.peers[p].began \in Nat /\ throttle.cleanup \in Nat
      BY <3>1 DEF Windows
    <3> QED BY <3>1, <3>2, Limits
  <2> QED BY <2>1, <2>2 DEF ThrottleHolds
<1> QED BY <1>1, SessionsAreSound, PTL

(* create_auth_session, configure_auth_sessions and revoke_auth_session:   *)
(* a session that has not expired goes only for one of the causes.         *)
THEOREM SessionsGoForCause == WebSpec => SessionsEndForCause
<1> DEFINE Cause ==
      \A d \in DOMAIN auth.sessions :
        auth.sessions[d] > now =>
          \/ d \in DOMAIN auth'.sessions
          \/ auth'.key # auth.key
          \/ \E b \in Browser : flight[b].digest = d /\ flight[b].at \in {"creating", "revoking"}
<1>1. ASSUME SessionsInv, [WebNext]_webVars PROVE Cause
  <2>0. SessionTypes /\ DownInv /\ LiveInv /\ AuthFits(auth) /\ now \in Nat
    BY <1>1, AuthFitsNow DEF SessionsInv, SessionTypes
  <2>1. CASE auth' = auth
    BY <2>1
  <2>2. ASSUME Start PROVE Cause
    BY <2>2 DEF Start, ConfigureAuthSessions
  <2>3. ASSUME NEW b \in Browser, LoginCreates(b) PROVE Cause
    <3> DEFINE digest == SessionDigest(policy, flight[b].nonce)
               after == CreateAuthSession(auth, SessionKeyDigest(policy), digest, flight[b].digest, now)
    <3>1. flight[b].at = "creating" /\ auth' = after
      BY <2>3 DEF LoginCreates
    <3>2. \A d \in DOMAIN auth.sessions :
            auth.sessions[d] > now => d \in DOMAIN after.sessions \/ d = flight[b].digest
      <4> HIDE DEF digest
      <4> QED BY <2>0, CreatedSessions
    <3> HIDE DEF after
    <3> QED BY <3>1, <3>2
  <2>4. ASSUME NEW b \in Browser, LogoutRevokes(b) PROVE Cause
    <3>1. flight[b].at = "revoking" /\ auth' = RevokeAuthSession(auth, flight[b].digest)
      BY <2>4 DEF LogoutRevokes
    <3>2. DOMAIN auth'.sessions = DOMAIN auth.sessions \ {flight[b].digest}
      BY <2>0, <3>1, RevokedSessions
    <3> QED BY <3>1, <3>2
  <2>5. ASSUME NEW b \in Browser, Authenticating(b) PROVE Cause
    <3>1. ASSUME NEW r \in Requests, LogoutArrives(b, r) PROVE auth' = auth
      BY <3>1 DEF LogoutArrives
    <3>2. ASSUME ReplyArrives(b) PROVE auth' = auth
      BY <3>2 DEF ReplyArrives
    <3> HIDE DEF Cause
    <3> QED BY <2>1, <2>3, <2>4, <2>5, <3>1, <3>2 DEF Authenticating
  <2>6. ASSUME NEW b \in Browser, Connecting(b) PROVE auth' = auth
    BY <2>0, <2>6, ConnectingIsAStep DEF SocketStep, OnlySockets
  <2>7. ASSUME NEW b \in Browser, LoggingIn(b) PROVE auth' = auth
    BY <2>7 DEF LoggingIn, LoginArrives
  <2>8. ASSUME Exit \/ ShutdownBegins \/ ShutdownEnds \/ Elapse \/ UNCHANGED webVars PROVE auth' = auth
    BY <2>8 DEF Exit, ShutdownBegins, ShutdownEnds, Elapse, webVars
  <2> HIDE DEF Cause
  <2> QED BY <1>1, <2>1, <2>2, <2>5, <2>6, <2>7, <2>8 DEF WebNext, Process
<1>2. SessionsInv /\ [WebNext]_webVars => [Cause]_webVars
  BY <1>1
<1> QED BY <1>2, SessionsAreSound, PTL DEF WebSpec, SessionsEndForCause

-------------------------------------------------------------------------------
(* The registry and its scraper, for any names, configurations, callers    *)
(* and number of slots.  The invariant: the tables fit; the callers of     *)
(* ensure_hierarchy that found a Run still have it; the process's memory   *)
(* is of registered Sources, and a listing's stopped Sources have stopped; *)
(* each Source has its place.                                              *)

RunRow ==
  [id : RunId, experiment : Name \X Name, name : Name, config : DOMAIN JsonValue,
   status : Open \cup Ended]

SourceRow ==
  [id : FreshSource, run : RunId, endpoint : {BaseUrl[t] : t \in DOMAIN BaseUrl},
   attempt : Name, role : Name, state : {"discovered", "active", "stale"} \cup Stopped]

RegistryTables ==
  [projects : SUBSET Name, experiments : SUBSET (Name \X Name),
   runs : Seq(RunRow), sources : Seq(SourceRow)]

(* Ids are unique, a Source's Run exists, and an ended one has none of its *)
(* Sources shown as active or stale.                                       *)
RegistryFits(d) ==
  /\ d \in RegistryTables
  /\ \A i, j \in DOMAIN d.runs : d.runs[i].id = d.runs[j].id => i = j
  /\ \A i, j \in DOMAIN d.sources : d.sources[i].id = d.sources[j].id => i = j
  /\ \A i \in DOMAIN d.sources : RunIndex(d, d.sources[i].run) # {}
  /\ \A i \in DOMAIN d.sources : \A j \in RunIndex(d, d.sources[i].run) :
       d.runs[j].status \in Ended => d.sources[i].state \notin {"active", "stale"}

(* What no operation undoes: rows stay with their names, a Run's outcome   *)
(* is final, and a Source that has stopped stays stopped.                  *)
Later(d, e) ==
  /\ DOMAIN d.runs \subseteq DOMAIN e.runs /\ DOMAIN d.sources \subseteq DOMAIN e.sources
  /\ \A i \in DOMAIN d.runs : /\ e.runs[i].id = d.runs[i].id
                              /\ e.runs[i].experiment = d.runs[i].experiment
                              /\ e.runs[i].name = d.runs[i].name
                              /\ d.runs[i].status \in Ended => e.runs[i].status = d.runs[i].status
  /\ \A i \in DOMAIN d.sources : /\ e.sources[i].id = d.sources[i].id
                                 /\ e.sources[i].run = d.sources[i].run
                                 /\ d.sources[i].state \in Stopped => e.sources[i].state \in Stopped

(* What every operation does to the tables.                                *)
Kept(d, e) == RegistryFits(e) /\ Later(d, e)

-------------------------------------------------------------------------------
LEMMA NothingKept ==
  ASSUME NEW d, RegistryFits(d)
  PROVE  Kept(d, d)
BY DEF Kept, Later

(* Names alone.                                                            *)
LEMMA NamesKept ==
  ASSUME NEW d, RegistryFits(d), NEW e \in RegistryTables, e.runs = d.runs, e.sources = d.sources
  PROVE  Kept(d, e)
BY DEF RegistryFits, RunIndex, Kept, Later

LEMMA AppendIs ==
  ASSUME NEW S, NEW s \in Seq(S), NEW x \in S
  PROVE  /\ Append(s, x) \in Seq(S)
         /\ Len(s) \in Nat /\ DOMAIN s = 1 .. Len(s) /\ DOMAIN Append(s, x) = 1 .. Len(s) + 1
         /\ \A i \in DOMAIN s : i \in DOMAIN Append(s, x) /\ Append(s, x)[i] = s[i] /\ s[i] \in S
         /\ Append(s, x)[Len(s) + 1] = x
         /\ \A i \in DOMAIN Append(s, x) : i \in DOMAIN s \/ i = Len(s) + 1
         /\ Len(s) + 1 \notin DOMAIN s
<1>1. PICK n \in Nat : n = Len(s) /\ DOMAIN s = 1 .. n
  OBVIOUS
<1>2. /\ Append(s, x) \in Seq(S) /\ Len(Append(s, x)) = n + 1 /\ Append(s, x)[n + 1] = x
      /\ \A i \in 1 .. n : Append(s, x)[i] = s[i]
  BY <1>1, AppendProperties
<1>3. DOMAIN Append(s, x) = 1 .. n + 1
  BY <1>2, LenProperties
<1>4. \A i \in 1 .. n : s[i] \in S /\ i \in 1 .. n + 1
  BY <1>1, ElementOfSeq
<1>5. n + 1 \notin 1 .. n /\ \A i \in 1 .. n + 1 : i \in 1 .. n \/ i = n + 1
  BY <1>1
<1> QED BY <1>1, <1>2, <1>3, <1>4, <1>5

LEMMA RowsAreSeq ==
  ASSUME NEW S, NEW s \in Seq(S), NEW f, f = [i \in DOMAIN s |-> f[i]], \A i \in DOMAIN s : f[i] \in S
  PROVE  f \in Seq(S) /\ DOMAIN f = DOMAIN s
<1>1. PICK n \in Nat : DOMAIN s = 1 .. n
  BY LenProperties
<1>2. f \in [1 .. n -> S]
  BY <1>1
<1>3. f \in UNION {[1 .. m -> S] : m \in Nat}
  BY <1>2
<1> QED BY <1>3, SeqDef

LEMMA RowChanged ==
  ASSUME NEW S, NEW s \in Seq(S), NEW i \in DOMAIN s, NEW x \in S
  PROVE  /\ [s EXCEPT ![i] = x] \in Seq(S) /\ DOMAIN [s EXCEPT ![i] = x] = DOMAIN s
         /\ [s EXCEPT ![i] = x][i] = x
         /\ \A j \in DOMAIN s : s[j] \in S /\ (j # i => [s EXCEPT ![i] = x][j] = s[j])
<1>1. \A j \in DOMAIN s : s[j] \in S
  BY LenProperties, ElementOfSeq
<1>2. [s EXCEPT ![i] = x] = [j \in DOMAIN s |-> IF j = i THEN x ELSE s[j]]
  OBVIOUS
<1> QED BY <1>1, <1>2, RowsAreSeq

LEMMA RunAdded ==
  ASSUME NEW d, RegistryFits(d), NEW r \in RunRow, RunIndex(d, r.id) = {}
  PROVE  Kept(d, [d EXCEPT !.runs = Append(@, r)])
<1> DEFINE n == Len(d.runs) + 1
           e == [d EXCEPT !.runs = Append(@, r)]
<1>0. d.runs \in Seq(RunRow)
  BY DEF RegistryFits, RegistryTables
<1>1. e \in RegistryTables /\ e.runs = Append(d.runs, r) /\ e.sources = d.sources
  BY <1>0, AppendProperties DEF RegistryFits, RegistryTables
<1>2. /\ \A i \in DOMAIN d.runs : i \in DOMAIN e.runs /\ e.runs[i] = d.runs[i] /\ d.runs[i].id # r.id
      /\ e.runs[n] = r /\ \A i \in DOMAIN e.runs : i \in DOMAIN d.runs \/ i = n
  BY <1>0, <1>1, AppendIs DEF RunIndex
<1> HIDE DEF e, n
<1>3. ASSUME NEW i \in DOMAIN e.runs, NEW j \in DOMAIN e.runs, e.runs[i].id = e.runs[j].id PROVE i = j
  <2>1. CASE i \in DOMAIN d.runs /\ j \in DOMAIN d.runs
    BY <1>2, <1>3, <2>1 DEF RegistryFits
  <2> QED BY <1>2, <1>3, <2>1
<1>4. \A i \in DOMAIN e.sources : RunIndex(e, e.sources[i].run) # {}
  BY <1>1, <1>2 DEF RegistryFits, RunIndex
<1>5. ASSUME NEW i \in DOMAIN e.sources, NEW j \in RunIndex(e, e.sources[i].run), e.runs[j].status \in Ended
      PROVE  e.sources[i].state \notin {"active", "stale"}
  <2>1. PICK k \in DOMAIN d.runs : d.runs[k].id = d.sources[i].run
    BY <1>1 DEF RegistryFits, RunIndex
  <2>2. j \in DOMAIN e.runs /\ e.runs[j].id = d.sources[i].run
    BY <1>1 DEF RunIndex
  <2>3. j = k
    BY <1>2, <1>3, <2>1, <2>2
  <2> QED BY <1>1, <1>2, <1>5, <2>1, <2>3 DEF RegistryFits, RunIndex
<1>6. RegistryFits(e)
  BY <1>1, <1>3, <1>4, <1>5 DEF RegistryFits
<1> QED BY <1>1, <1>2, <1>6 DEF Kept, Later, e

LEMMA SourceAdded ==
  ASSUME NEW d, RegistryFits(d), NEW s \in SourceRow, RunIndex(d, s.run) # {},
         \A i \in DOMAIN d.sources : d.sources[i].id # s.id, s.state = "discovered"
  PROVE  Kept(d, [d EXCEPT !.sources = Append(@, s)])
<1> DEFINE n == Len(d.sources) + 1
           e == [d EXCEPT !.sources = Append(@, s)]
<1>0. d.sources \in Seq(SourceRow)
  BY DEF RegistryFits, RegistryTables
<1>1. e \in RegistryTables /\ e.sources = Append(d.sources, s) /\ e.runs = d.runs
  BY <1>0, AppendProperties DEF RegistryFits, RegistryTables
<1>2. /\ \A i \in DOMAIN d.sources : i \in DOMAIN e.sources /\ e.sources[i] = d.sources[i]
      /\ e.sources[n] = s /\ \A i \in DOMAIN e.sources : i \in DOMAIN d.sources \/ i = n
  BY <1>0, <1>1, AppendIs
<1> HIDE DEF e, n
<1>3. ASSUME NEW i \in DOMAIN e.sources, NEW j \in DOMAIN e.sources, e.sources[i].id = e.sources[j].id
      PROVE  i = j
  <2>1. CASE i \in DOMAIN d.sources /\ j \in DOMAIN d.sources
    BY <1>2, <1>3, <2>1 DEF RegistryFits
  <2> QED BY <1>2, <1>3, <2>1
<1>4. \A i \in DOMAIN e.sources : RunIndex(e, e.sources[i].run) # {}
  BY <1>1, <1>2 DEF RegistryFits, RunIndex
<1>5. \A i \in DOMAIN e.sources : \A j \in RunIndex(e, e.sources[i].run) :
        e.runs[j].status \in Ended => e.sources[i].state \notin {"active", "stale"}
  BY <1>1, <1>2 DEF RegistryFits, RunIndex
<1>6. RegistryFits(e)
  BY <1>1, <1>3, <1>4, <1>5 DEF RegistryFits
<1> QED BY <1>1, <1>2, <1>6 DEF Kept, Later, e

(* Rows rewritten in place.                                                *)
LEMMA RowsRewritten ==
  ASSUME NEW d, RegistryFits(d), NEW e \in RegistryTables,
         DOMAIN e.runs = DOMAIN d.runs, DOMAIN e.sources = DOMAIN d.sources,
         \A i \in DOMAIN d.runs : /\ e.runs[i].id = d.runs[i].id /\ e.runs[i].name = d.runs[i].name
                                  /\ e.runs[i].experiment = d.runs[i].experiment
                                  /\ d.runs[i].status \in Ended => e.runs[i].status = d.runs[i].status,
         \A i \in DOMAIN d.sources : /\ e.sources[i].id = d.sources[i].id
                                     /\ e.sources[i].run = d.sources[i].run
                                     /\ d.sources[i].state \in Stopped => e.sources[i].state \in Stopped,
         \A i \in DOMAIN d.sources : \A j \in DOMAIN d.runs :
           d.runs[j].id = d.sources[i].run /\ e.runs[j].status \in Ended =>
             e.sources[i].state \notin {"active", "stale"}
  PROVE  Kept(d, e)
<1>1. \A i \in DOMAIN d.sources : RunIndex(e, e.sources[i].run) = RunIndex(d, d.sources[i].run)
  BY DEF RunIndex
<1>2. RegistryFits(e)
  BY <1>1 DEF RegistryFits, RunIndex
<1> QED BY <1>2 DEF Kept, Later

LEMMA TheRun ==
  ASSUME NEW d, RegistryFits(d), NEW id, RunIndex(d, id) # {}
  PROVE  \E i \in DOMAIN d.runs :
           /\ RunIndex(d, id) = {i} /\ (CHOOSE k \in RunIndex(d, id) : TRUE) = i
           /\ d.runs[i].id = id /\ RunOf(d, id) = d.runs[i] /\ d.runs[i] \in RunRow
<1>1. PICK i \in DOMAIN d.runs : d.runs[i].id = id
  BY DEF RunIndex
<1>2. RunIndex(d, id) = {i}
  BY <1>1 DEF RunIndex, RegistryFits
<1>3. d.runs \in Seq(RunRow)
  BY DEF RegistryFits, RegistryTables
<1>4. d.runs[i] \in RunRow
  BY <1>1, <1>3
<1>5. (CHOOSE k \in RunIndex(d, id) : TRUE) = i
  BY <1>2
<1> QED BY <1>1, <1>2, <1>4, <1>5 DEF RunOf

LEMMA TheSource ==
  ASSUME NEW d, RegistryFits(d), NEW id, SourceIndex(d, id) # {}
  PROVE  \E i \in DOMAIN d.sources :
           /\ SourceIndex(d, id) = {i} /\ (CHOOSE k \in SourceIndex(d, id) : TRUE) = i
           /\ d.sources[i].id = id /\ SourceOf(d, id) = d.sources[i] /\ d.sources[i] \in SourceRow
<1>1. PICK i \in DOMAIN d.sources : d.sources[i].id = id
  BY DEF SourceIndex
<1>2. SourceIndex(d, id) = {i}
  BY <1>1 DEF SourceIndex, RegistryFits
<1>3. d.sources \in Seq(SourceRow)
  BY DEF RegistryFits, RegistryTables
<1>4. d.sources[i] \in SourceRow
  BY <1>1, <1>3
<1>5. (CHOOSE k \in SourceIndex(d, id) : TRUE) = i
  BY <1>2
<1> QED BY <1>1, <1>2, <1>4, <1>5 DEF SourceOf

-------------------------------------------------------------------------------
(* The operations.                                                         *)

LEMMA TrimIsName == \A n \in Name : Trim[n] \in Name
BY RegistryAssumption

LEMMA CreateProjectKeeps ==
  ASSUME NEW d, RegistryFits(d), NEW n \in Name
  PROVE  Kept(d, CreateProject(d, n).db)
<1> DEFINE e == [d EXCEPT !.projects = @ \cup {Trim[n]}]
<1>1. e \in RegistryTables /\ e.runs = d.runs /\ e.sources = d.sources
  BY TrimIsName DEF RegistryFits, RegistryTables
<1>2. Kept(d, e)
  BY <1>1, NamesKept
<1> QED BY <1>2, NothingKept DEF CreateProject, Done, Refused

LEMMA CreateExperimentKeeps ==
  ASSUME NEW d, RegistryFits(d), NEW p, NEW n \in Name
  PROVE  Kept(d, CreateExperiment(d, p, n).db)
<1> DEFINE e == [d EXCEPT !.experiments = @ \cup {<<p, Trim[n]>>}]
<1>1. ASSUME p \in d.projects PROVE Kept(d, e)
  <2>1. p \in Name
    BY <1>1 DEF RegistryFits, RegistryTables
  <2>2. e \in RegistryTables /\ e.runs = d.runs /\ e.sources = d.sources
    BY <2>1, TrimIsName, SMTT(30) DEF RegistryFits, RegistryTables
  <2> QED BY <2>2, NamesKept
<1> QED BY <1>1, NothingKept DEF CreateExperiment, Done, Refused

LEMMA NewRunIsRow ==
  ASSUME NEW id \in RunId, NEW x \in Name \X Name, NEW n \in Name, NEW config \in DOMAIN JsonValue
  PROVE  NewRun(id, x, n, config) \in RunRow /\ NewRun(id, x, n, config).id = id
BY TrimIsName DEF NewRun, RunRow, Open

LEMMA CreateRunKeeps ==
  ASSUME NEW d, RegistryFits(d), NEW id \in RunId, RunIndex(d, id) = {}, NEW x, NEW n \in Name,
         NEW config \in DOMAIN JsonValue
  PROVE  Kept(d, CreateRun(d, id, x, n, config).db)
<1>1. ASSUME x \in d.experiments
      PROVE  Kept(d, [d EXCEPT !.runs = Append(@, NewRun(id, x, n, config))])
  <2>1. x \in Name \X Name
    BY <1>1 DEF RegistryFits, RegistryTables
  <2> QED BY <2>1, NewRunIsRow, RunAdded
<1> QED BY <1>1, NothingKept DEF CreateRun, Done, Refused

LEMMA KeptTwice ==
  ASSUME NEW d, NEW e, NEW f, Kept(d, e), Kept(e, f)
  PROVE  Kept(d, f)
BY DEF Kept, Later

LEMMA EnsureConfiguredRunKeeps ==
  ASSUME NEW d, RegistryFits(d), NEW id \in RunId, NEW p \in Name, NEW x \in Name, NEW n \in Name,
         NEW config \in DOMAIN JsonValue
  PROVE  Kept(d, EnsureConfiguredRun(d, id, p, x, n, config).db)
<1> DEFINE xs == <<Trim[p], Trim[x]>>
           named == [d EXCEPT !.projects = @ \cup {Trim[p]}, !.experiments = @ \cup {xs}]
           r == NewRun(id, xs, n, config)
           added == [named EXCEPT !.runs = Append(@, r)]
<1>1. named \in RegistryTables /\ named.runs = d.runs /\ named.sources = d.sources
  <2>1. Trim[p] \in Name /\ xs \in Name \X Name
    BY TrimIsName
  <2> HIDE DEF xs
  <2>2. d.projects \cup {Trim[p]} \in SUBSET Name /\ d.experiments \cup {xs} \in SUBSET (Name \X Name)
    BY <2>1 DEF RegistryFits, RegistryTables
  <2> DEFINE ps == d.projects \cup {Trim[p]}
             es == d.experiments \cup {xs}
             mid == [d EXCEPT !.projects = ps]
  <2>3. named = [mid EXCEPT !.experiments = es]
    OBVIOUS
  <2> HIDE DEF ps, es
  <2>4. mid \in RegistryTables /\ mid.runs = d.runs /\ mid.sources = d.sources
    BY <2>2 DEF RegistryFits, RegistryTables, ps, es
  <2> HIDE DEF mid, named
  <2> QED BY <2>2, <2>3, <2>4 DEF RegistryTables, es
<1>2. Kept(d, named)
  BY <1>1, NamesKept
<1>3. r \in RunRow /\ r.id = id
  BY TrimIsName, NewRunIsRow
<1>4. RunIndex(named, id) = RunIndex(d, id)
  BY <1>1 DEF RunIndex
<1>5. ASSUME RunIndex(d, id) = {} PROVE Kept(d, added)
  <2> HIDE DEF named, r, xs
  <2>1. Kept(named, added)
    BY <1>2, <1>3, <1>4, <1>5, RunAdded DEF Kept
  <2> QED BY <1>2, <2>1, KeptTwice
<1>6. EnsureConfiguredRun(d, id, p, x, n, config).db \in {d, named}
      \/ (RunIndex(d, id) = {} /\ EnsureConfiguredRun(d, id, p, x, n, config).db = added)
  BY DEF EnsureConfiguredRun, Done, Refused
<1> HIDE DEF named, added
<1> QED BY <1>2, <1>5, <1>6, NothingKept

LEMMA UpdateRunStatusKeeps ==
  ASSUME NEW d, RegistryFits(d), NEW id, NEW target
  PROVE  Kept(d, UpdateRunStatus(d, id, target).db)
<1> SUFFICES ASSUME RunIndex(d, id) # {}, ValidRunTransition(RunOf(d, id).status, target),
                    RunOf(d, id).status # target
             PROVE  Kept(d, UpdateRunStatus(d, id, target).db)
  <2>1. CASE RunIndex(d, id) = {} \/ ~ValidRunTransition(RunOf(d, id).status, target)
    BY <2>1, NothingKept DEF UpdateRunStatus, Refused
  <2>2. CASE ~(RunIndex(d, id) = {} \/ ~ValidRunTransition(RunOf(d, id).status, target))
             /\ RunOf(d, id).status = target
    <3>1. RunOf(d, id) = d.runs[CHOOSE k \in RunIndex(d, id) : TRUE]
      BY DEF RunOf
    <3> QED BY <2>2, <3>1, NothingKept DEF UpdateRunStatus, Done
  <2> QED BY <2>1, <2>2
<1>1. PICK i \in DOMAIN d.runs :
        /\ RunIndex(d, id) = {i} /\ (CHOOSE k \in RunIndex(d, id) : TRUE) = i
        /\ d.runs[i].id = id /\ RunOf(d, id) = d.runs[i] /\ d.runs[i] \in RunRow
  BY TheRun
<1> DEFINE e == [d EXCEPT !.runs[i].status = target, !.sources = StopSources(@, id, target)]
<1>2. UpdateRunStatus(d, id, target).db = e
  BY <1>1 DEF UpdateRunStatus, Done, Refused
<1>3. target \in Open \cup Ended
  BY <1>1 DEF ValidRunTransition, RunRow, Open
<1>4. d.runs \in Seq(RunRow) /\ d.sources \in Seq(SourceRow)
  BY DEF RegistryFits, RegistryTables
<1>5. /\ e.runs = [d.runs EXCEPT ![i].status = target] /\ e.sources = StopSources(d.sources, id, target)
      /\ e = [d EXCEPT !.runs = e.runs, !.sources = e.sources]
  BY DEF RegistryFits, RegistryTables
<1> HIDE DEF e
<1>6. /\ e.runs \in Seq(RunRow) /\ DOMAIN e.runs = DOMAIN d.runs
      /\ \A j \in DOMAIN d.runs : /\ e.runs[j].id = d.runs[j].id /\ e.runs[j].name = d.runs[j].name
                                  /\ e.runs[j].experiment = d.runs[j].experiment
                                  /\ j # i => e.runs[j].status = d.runs[j].status
  <2>1. [d.runs[i] EXCEPT !.status = target] \in RunRow
    BY <1>1, <1>3 DEF RunRow
  <2>2. e.runs \in Seq(RunRow)
    BY <1>4, <1>5, <2>1, RowChanged
  <2> QED BY <1>1, <1>4, <1>5, <2>1, <2>2, RowChanged DEF RunRow
<1>7. \A k \in DOMAIN d.sources : d.sources[k] \in SourceRow
  BY <1>4, ElementOfSeq
<1>8. /\ e.sources \in Seq(SourceRow) /\ DOMAIN e.sources = DOMAIN d.sources
      /\ \A k \in DOMAIN d.sources :
           /\ e.sources[k] \in SourceRow /\ e.sources[k].id = d.sources[k].id /\ e.sources[k].run = d.sources[k].run
           /\ d.sources[k].state \in Stopped => e.sources[k].state \in Stopped
           /\ e.sources[k].state \in {"active", "stale"} =>
                d.sources[k].state \in {"active", "stale"} /\ (target \in Ended => d.sources[k].run # id)
  <2>1. CASE target \notin Ended
    BY <1>4, <1>5, <1>7, <2>1 DEF StopSources
  <2>2. CASE target \in Ended
    <3>1. /\ DOMAIN e.sources = DOMAIN d.sources
          /\ \A k \in DOMAIN d.sources :
               e.sources[k] = IF d.sources[k].run = id /\ d.sources[k].state \notin {"ended", "lost"}
                              THEN [d.sources[k] EXCEPT !.state = IF target = "failed" THEN "lost" ELSE "ended"]
                              ELSE d.sources[k]
      BY <1>5, <2>2 DEF StopSources
    <3>2. \A k \in DOMAIN d.sources :
           /\ e.sources[k] \in SourceRow /\ e.sources[k].id = d.sources[k].id /\ e.sources[k].run = d.sources[k].run
           /\ d.sources[k].state \in Stopped => e.sources[k].state \in Stopped
           /\ e.sources[k].state \in {"active", "stale"} =>
                d.sources[k].state \in {"active", "stale"} /\ d.sources[k].run # id
      <4> SUFFICES ASSUME NEW k \in DOMAIN d.sources
                   PROVE  /\ e.sources[k] \in SourceRow /\ e.sources[k].id = d.sources[k].id
                          /\ e.sources[k].run = d.sources[k].run
                          /\ d.sources[k].state \in Stopped => e.sources[k].state \in Stopped
                          /\ e.sources[k].state \in {"active", "stale"} =>
                               d.sources[k].state \in {"active", "stale"} /\ d.sources[k].run # id
        OBVIOUS
      <4> DEFINE last == IF target = "failed" THEN "lost" ELSE "ended"
      <4>1. last \in Stopped /\ last \notin {"active", "stale"}
        BY DEF Stopped
      <4> HIDE DEF last
      <4>2. CASE d.sources[k].run = id /\ d.sources[k].state \notin {"ended", "lost"}
        <5>1. e.sources[k] = [d.sources[k] EXCEPT !.state = last]
          BY <3>1, <4>2 DEF last
        <5>2. e.sources[k] \in SourceRow /\ e.sources[k].state = last /\ e.sources[k].id = d.sources[k].id
              /\ e.sources[k].run = d.sources[k].run
          BY <1>7, <4>1, <5>1 DEF SourceRow
        <5> QED BY <4>1, <5>2
      <4>3. CASE ~(d.sources[k].run = id /\ d.sources[k].state \notin {"ended", "lost"})
        BY <1>7, <3>1, <4>3
      <4> QED BY <4>2, <4>3
    <3>3. e.sources = [k \in DOMAIN d.sources |-> e.sources[k]]
      BY <1>5, <2>2 DEF StopSources
    <3>4. e.sources \in Seq(SourceRow)
      BY <1>4, <3>2, <3>3, RowsAreSeq
    <3> QED BY <3>1, <3>2, <3>4
  <2> QED BY <2>1, <2>2
<1>9. e \in RegistryTables
  BY <1>5, <1>6, <1>8 DEF RegistryFits, RegistryTables
<1>10. ASSUME NEW k \in DOMAIN d.sources, NEW j \in DOMAIN d.runs,
              d.runs[j].id = d.sources[k].run, e.runs[j].status \in Ended
       PROVE  e.sources[k].state \notin {"active", "stale"}
  <2>1. CASE j = i
    <3>1. e.runs[i].status = target
      BY <1>1, <1>4, <1>5 DEF RunRow
    <3>2. target \in Ended /\ d.sources[k].run = id
      BY <1>1, <1>10, <2>1, <3>1
    <3> QED BY <1>8, <3>2
  <2>2. CASE j # i
    <3>1. j \in RunIndex(d, d.sources[k].run) /\ d.runs[j].status \in Ended
      <4>1. e.runs[j].status = d.runs[j].status
        BY <1>6, <2>2
      <4> QED BY <1>10, <4>1 DEF RunIndex
    <3>2. d.sources[k].state \notin {"active", "stale"}
      BY <3>1 DEF RegistryFits
    <3> QED BY <1>8, <3>2
  <2> QED BY <2>1, <2>2
<1>11. Kept(d, e)
  <2>1. \A k \in DOMAIN d.sources : \A j \in DOMAIN d.runs :
           d.runs[j].id = d.sources[k].run /\ e.runs[j].status \in Ended =>
             e.sources[k].state \notin {"active", "stale"}
    BY <1>10
  <2>2. \A k \in DOMAIN d.sources : /\ e.sources[k].id = d.sources[k].id
                                    /\ e.sources[k].run = d.sources[k].run
                                    /\ d.sources[k].state \in Stopped => e.sources[k].state \in Stopped
    BY <1>8
  <2>3. \A j \in DOMAIN d.runs : /\ e.runs[j].id = d.runs[j].id /\ e.runs[j].name = d.runs[j].name
                                 /\ e.runs[j].experiment = d.runs[j].experiment
                                 /\ d.runs[j].status \in Ended => e.runs[j].status = d.runs[j].status
    <3>1. d.runs[i].status \notin Ended
      BY <1>1 DEF ValidRunTransition, Ended
    <3> QED BY <1>6, <3>1
  <2>4. DOMAIN e.runs = DOMAIN d.runs /\ DOMAIN e.sources = DOMAIN d.sources
    BY <1>6, <1>8
  <2> QED BY <1>9, <2>1, <2>2, <2>3, <2>4, RowsRewritten, ZenonT(40)
<1> QED BY <1>2, <1>11


LEMMA SourceChanged ==
  ASSUME NEW d, RegistryFits(d), NEW i \in DOMAIN d.sources, NEW s \in SourceRow,
         s.id = d.sources[i].id, s.run = d.sources[i].run,
         d.sources[i].state \in Stopped => s.state \in Stopped,
         s.state \in {"active", "stale"} =>
           \/ d.sources[i].state \in {"active", "stale"}
           \/ \A j \in RunIndex(d, s.run) : d.runs[j].status \notin Ended
  PROVE  Kept(d, [d EXCEPT !.sources[i] = s])
<1> DEFINE e == [d EXCEPT !.sources[i] = s]
<1>1. d.sources \in Seq(SourceRow)
  BY DEF RegistryFits, RegistryTables
<1>2. e = [d EXCEPT !.sources = [d.sources EXCEPT ![i] = s]]
  BY DEF RegistryFits, RegistryTables
<1>3. e \in RegistryTables /\ e.runs = d.runs /\ e.sources = [d.sources EXCEPT ![i] = s]
  <2>1. [d.sources EXCEPT ![i] = s] \in Seq(SourceRow)
    BY <1>1, RowChanged
  <2> QED BY <1>2, <2>1 DEF RegistryFits, RegistryTables
<1> HIDE DEF e
<1>4. /\ DOMAIN e.sources = DOMAIN d.sources /\ e.sources[i] = s
      /\ \A k \in DOMAIN d.sources : k # i => e.sources[k] = d.sources[k]
  BY <1>1, <1>3
<1>5. ASSUME NEW k \in DOMAIN d.sources, NEW j \in DOMAIN d.runs,
             d.runs[j].id = d.sources[k].run, e.runs[j].status \in Ended
      PROVE  e.sources[k].state \notin {"active", "stale"}
  <2>1. j \in RunIndex(d, d.sources[k].run) /\ d.sources[k].state \notin {"active", "stale"}
    BY <1>3, <1>5 DEF RegistryFits, RunIndex
  <2> QED BY <1>3, <1>4, <1>5, <2>1
<1>6. Kept(d, e)
  BY <1>3, <1>4, <1>5, RowsRewritten
<1> QED BY <1>6 DEF e

LEMMA UpdateSourceStateKeeps ==
  ASSUME NEW d, RegistryFits(d), NEW id, NEW target
  PROVE  Kept(d, UpdateSourceState(d, id, target).db)
<1>1. CASE \/ target \notin Stopped
           \/ SourceIndex(d, id) = {}
           \/ ~ValidSourceTransition(SourceOf(d, id).state, target)
  BY <1>1, NothingKept DEF UpdateSourceState, Refused
<1>2. CASE target \in Stopped /\ SourceIndex(d, id) # {} /\ ValidSourceTransition(SourceOf(d, id).state, target)
  <2>1. PICK i \in DOMAIN d.sources :
          /\ (CHOOSE k \in SourceIndex(d, id) : TRUE) = i
          /\ d.sources[i].id = id /\ d.sources[i] \in SourceRow
    BY <1>2, TheSource
  <2> DEFINE s == [d.sources[i] EXCEPT !.state = target]
  <2>2. [d EXCEPT !.sources[i].state = target] = [d EXCEPT !.sources[i] = s]
    OBVIOUS
  <2>3. /\ s \in SourceRow /\ s.id = d.sources[i].id /\ s.run = d.sources[i].run /\ s.state = target
    BY <1>2, <2>1 DEF SourceRow
  <2>4. target \notin {"active", "stale"}
    BY <1>2 DEF Stopped
  <2> HIDE DEF s
  <2>5. Kept(d, [d EXCEPT !.sources[i] = s])
    BY <1>2, <2>3, <2>4, SourceChanged
  <2> QED BY <1>2, <2>1, <2>2, <2>5 DEF UpdateSourceState, Done
<1> QED BY <1>1, <1>2

LEMMA RegisterSourceKeeps ==
  ASSUME NEW d, RegistryFits(d), NEW id, NEW r \in Registration,
         \/ id \in FreshSource /\ \A i \in DOMAIN d.sources : d.sources[i].id # id
         \/ Registered(d, r) # {}
  PROVE  Kept(d, RegisterSource(d, id, r).db)
<1>1. CASE ~ValidRegistration(r) \/ RunIndex(d, r.run) = {}
  BY <1>1, NothingKept DEF RegisterSource, Refused
<1>2. CASE ~(~ValidRegistration(r) \/ RunIndex(d, r.run) = {}) /\ Registered(d, r) = {}
  <2>1. NewSource(id, r) \in SourceRow /\ NewSource(id, r).id = id /\ NewSource(id, r).run = r.run
        /\ NewSource(id, r).state = "discovered"
    BY <1>2 DEF NewSource, SourceRow, Registration
  <2>2. Kept(d, [d EXCEPT !.sources = Append(@, NewSource(id, r))])
    BY <1>2, <2>1, SourceAdded
  <2> QED BY <1>2, <2>2 DEF RegisterSource, Done
<1>3. CASE ~(~ValidRegistration(r) \/ RunIndex(d, r.run) = {}) /\ Registered(d, r) # {}
  <2>1. PICK i \in DOMAIN d.sources : (CHOOSE k \in Registered(d, r) : TRUE) = i
    BY <1>3 DEF Registered
  <2>2. d.sources[i] \in SourceRow
    BY ElementOfSeq, LenProperties DEF RegistryFits, RegistryTables
  <2> DEFINE s == [d.sources[i] EXCEPT !.attempt = r.attempt, !.role = r.role]
  <2>3. [d EXCEPT !.sources[i].attempt = r.attempt, !.sources[i].role = r.role] = [d EXCEPT !.sources[i] = s]
    BY <2>1
  <2>4. /\ s \in SourceRow /\ s.id = d.sources[i].id /\ s.run = d.sources[i].run /\ s.state = d.sources[i].state
    BY <2>2 DEF SourceRow, Registration
  <2> HIDE DEF s
  <2>5. Kept(d, [d EXCEPT !.sources[i] = s])
    BY <2>4, SourceChanged
  <2> QED BY <1>3, <2>1, <2>3, <2>5 DEF RegisterSource, Done
<1> QED BY <1>1, <1>2, <1>3

LEMMA UpdateSourceFailureKeeps ==
  ASSUME NEW d, RegistryFits(d), NEW id, SourceIndex(d, id) # {}
  PROVE  Kept(d, UpdateSourceFailure(d, id))
<1>1. PICK i \in DOMAIN d.sources :
        /\ (CHOOSE k \in SourceIndex(d, id) : TRUE) = i
        /\ d.sources[i].id = id /\ d.sources[i] \in SourceRow
  BY TheSource
<1>2. CASE MayUpdate(d, d.sources[i])
  <2> DEFINE s == [d.sources[i] EXCEPT !.state = "stale"]
  <2>1. [d EXCEPT !.sources[i].state = "stale"] = [d EXCEPT !.sources[i] = s]
    OBVIOUS
  <2>2. s \in SourceRow /\ s.id = d.sources[i].id /\ s.run = d.sources[i].run
    BY <1>1 DEF SourceRow
  <2>3. \A j \in RunIndex(d, s.run) : d.runs[j].status \notin Ended
    <3>1. RunIndex(d, s.run) # {}
      BY <2>2 DEF RegistryFits
    <3>2. RunOf(d, s.run).status \in Open
      BY <1>2, <2>2 DEF MayUpdate
    <3> QED BY <3>1, <3>2, TheRun DEF Open, Ended
  <2>4. d.sources[i].state \notin Stopped
    BY <1>2 DEF MayUpdate
  <2> HIDE DEF s
  <2>5. Kept(d, [d EXCEPT !.sources[i] = s])
    BY <2>2, <2>3, <2>4, SourceChanged
  <2> QED BY <1>1, <1>2, <2>1, <2>5 DEF UpdateSourceFailure
<1> QED BY <1>1, <1>2, NothingKept DEF UpdateSourceFailure

LEMMA UpdateSourceSuccessKeeps ==
  ASSUME NEW d, RegistryFits(d), NEW id, SourceIndex(d, id) # {}
  PROVE  Kept(d, UpdateSourceSuccess(d, id))
<1>1. PICK i \in DOMAIN d.sources :
        /\ (CHOOSE k \in SourceIndex(d, id) : TRUE) = i
        /\ d.sources[i].id = id /\ d.sources[i] \in SourceRow
  BY TheSource
<1> DEFINE old == d.sources[i]
           seen == IF MayUpdate(d, old) THEN [old EXCEPT !.state = "active"] ELSE old
           begun(r) == IF r.id = old.run /\ r.status = "created" THEN [r EXCEPT !.status = "running"] ELSE r
           runs == [j \in DOMAIN d.runs |-> begun(d.runs[j])]
           mid == [d EXCEPT !.sources[i] = seen]
           e == [mid EXCEPT !.runs = runs]
<1>2. UpdateSourceSuccess(d, id) = e
  BY <1>1 DEF UpdateSourceSuccess
<1>3. Kept(d, mid)
  <2>1. CASE MayUpdate(d, old)
    <3>2. seen \in SourceRow /\ seen.id = old.id /\ seen.run = old.run
      BY <1>1, <2>1 DEF SourceRow
    <3>3. \A j \in RunIndex(d, seen.run) : d.runs[j].status \notin Ended
      <4>1. RunIndex(d, seen.run) # {}
        BY <3>2 DEF RegistryFits
      <4>2. RunOf(d, seen.run).status \in Open
        BY <2>1, <3>2 DEF MayUpdate
      <4> QED BY <4>1, <4>2, TheRun DEF Open, Ended
    <3>4. old.state \notin Stopped
      BY <2>1 DEF MayUpdate
    <3> HIDE DEF seen
    <3> QED BY <3>2, <3>3, <3>4, SourceChanged
  <2>2. CASE ~MayUpdate(d, old)
    <3>1. mid = [d EXCEPT !.sources[i] = old]
      BY <2>2
    <3> QED BY <1>1, <3>1, SourceChanged
  <2> QED BY <2>1, <2>2
<1>4. RegistryFits(mid) /\ mid.runs = d.runs
  BY <1>3 DEF Kept, RegistryFits, RegistryTables
<1>5. mid.runs \in Seq(RunRow)
  BY <1>4 DEF RegistryFits, RegistryTables
<1>6. \A j \in DOMAIN mid.runs :
         /\ begun(mid.runs[j]) \in RunRow /\ begun(mid.runs[j]).id = mid.runs[j].id
         /\ begun(mid.runs[j]).name = mid.runs[j].name
         /\ begun(mid.runs[j]).experiment = mid.runs[j].experiment
         /\ begun(mid.runs[j]).status \in Ended => mid.runs[j].status \in Ended
         /\ mid.runs[j].status \in Ended => begun(mid.runs[j]).status = mid.runs[j].status
  <2> SUFFICES ASSUME NEW r \in RunRow
               PROVE  /\ begun(r) \in RunRow /\ begun(r).id = r.id /\ begun(r).name = r.name
                      /\ begun(r).experiment = r.experiment
                      /\ begun(r).status \in Ended => r.status \in Ended
                      /\ r.status \in Ended => begun(r).status = r.status
    BY <1>5, LenProperties, ElementOfSeq
  <2> QED BY DEF RunRow, Open, Ended
<1> HIDE DEF begun
<1>7. runs \in Seq(RunRow) /\ DOMAIN runs = DOMAIN mid.runs
  BY <1>4, <1>5, <1>6, RowsAreSeq
<1>8. e \in RegistryTables /\ e.runs = runs /\ e.sources = mid.sources
  BY <1>4, <1>7 DEF RegistryFits, RegistryTables
<1>9. \A j \in DOMAIN mid.runs : e.runs[j] = begun(mid.runs[j])
  BY <1>4, <1>8
<1> HIDE DEF e, runs, mid
<1>10. Kept(mid, e)
  <2>1. \A k \in DOMAIN mid.sources : \A j \in DOMAIN mid.runs :
           mid.runs[j].id = mid.sources[k].run /\ e.runs[j].status \in Ended =>
             e.sources[k].state \notin {"active", "stale"}
    BY <1>4, <1>6, <1>8, <1>9 DEF RegistryFits, RunIndex
  <2> QED BY <1>4, <1>6, <1>7, <1>8, <1>9, <2>1, RowsRewritten
<1> QED BY <1>2, <1>3, <1>10, KeptTwice

-------------------------------------------------------------------------------
(* The callers of ensure_hierarchy.  One that began when there was a Run   *)
(* of the names it passed still has one.                                   *)
CallRow ==
  [at : {"idle", "project", "newProject", "experiment", "newExperiment", "run", "newRun"},
   names : {None} \cup (Name \X Name \X Name), existed : BOOLEAN]

AsStored(names) == \A k \in 1 .. 3 : Trim[names[k]] = names[k]

NameOf(d, names) ==
  {i \in DOMAIN d.runs : d.runs[i].experiment = <<names[1], names[2]>> /\ d.runs[i].name = names[3]}

CallsFit ==
  /\ call \in [Caller -> CallRow]
  /\ \A c \in Caller : call[c].at # "idle" =>
       /\ call[c].names \in Name \X Name \X Name
       /\ call[c].existed /\ AsStored(call[c].names) =>
            call[c].at # "newRun" /\ NameOf(db, call[c].names) # {}

(* What is left of the configuration.                                      *)
TodoFits == todo \in Seq(ConfiguredRun) /\ (pc = "sources" => todo # <<>>)

(* The process's memory: it is of Sources that are registered, and a       *)
(* listing is as old as it is, but what it saw stopped has stopped.        *)
Ids(d) == {d.sources[i].id : i \in DOMAIN d.sources}

StoppedIn(d, id) == \E i \in DOMAIN d.sources : d.sources[i].id = id /\ d.sources[i].state \in Stopped

TaskRow == [id : FreshSource, at : {"begun", "pulling", "data", "nothing", "panicked"}]

MemoryFits ==
  /\ tasks \in [Slot -> TaskRow \cup {NoTask}]
  /\ \A i \in Slot : tasks[i] # NoTask => tasks[i].id \in Ids(db)
  /\ due \in Seq(FreshSource) /\ waiting \subseteq FreshSource /\ known \subseteq Ids(db)
  /\ listed \subseteq SourceRow /\ IsFiniteSet(listed)
  /\ \A s \in listed : s.id \in Ids(db) /\ (s.state \in Stopped => StoppedIn(db, s.id))

(* Every Source has one place: what the queue, the waiting and the tasks   *)
(* hold is apart, a known Source that is not lost is among them, and one   *)
(* that is being scraped though it is no longer known has stopped, so that *)
(* no listing finds it anew.                                               *)
Apart ==
  /\ scheduled = ToSet(due) \cup waiting
  /\ \A k, l \in DOMAIN due : due[k] = due[l] => k = l
  /\ ToSet(due) \cap waiting = {}
  /\ \A i, j \in Slot : tasks[i] # NoTask /\ tasks[i].id = tasks[j].id => i = j
  /\ \A i \in Slot : tasks[i].id \notin scheduled

Placed == \A id \in known \ lost : id \in scheduled \/ \E i \in Slot : tasks[i].id = id

ForgottenHaveStopped ==
  \A i \in Slot : tasks[i] # NoTask /\ tasks[i].id \notin known =>
    StoppedIn(db, tasks[i].id) /\ (pc = "apply" => tasks[i].id \notin Live(listed))

OnSchedule == pc # "off" => Apart /\ Placed /\ ForgottenHaveStopped

SchedulerInv == RegistryFits(db) /\ CallsFit /\ TodoFits /\ MemoryFits /\ OnSchedule

-------------------------------------------------------------------------------
(* Every step keeps what the registry promised.                            *)
LEMMA LaterIds ==
  ASSUME NEW d, NEW e, Later(d, e)
  PROVE  Ids(d) \subseteq Ids(e) /\ \A id : StoppedIn(d, id) => StoppedIn(e, id)
BY DEF Later, Ids, StoppedIn

LEMMA NextRunIsFresh ==
  ASSUME NextRun # None
  PROVE  NextRun \in FreshRun /\ NextRun \in RunId /\ RunIndex(db, NextRun) = {}
<1> DEFINE used == {db.runs[i].id : i \in DOMAIN db.runs}
<1>1. ~(FreshRun \subseteq used)
  BY DEF NextRun, Minted
<1>2. NextRun = CHOOSE id \in FreshRun \ used : TRUE
  BY <1>1 DEF NextRun, Minted
<1>3. NextRun \in FreshRun \ used
  BY <1>1, <1>2
<1>4. \A i \in DOMAIN db.runs : db.runs[i].id \in used
  OBVIOUS
<1> QED BY <1>3, <1>4, SchedulerAssumption DEF RunIndex

LEMMA NextSourceIsFresh ==
  ASSUME NextSource # None
  PROVE  NextSource \in FreshSource /\ \A i \in DOMAIN db.sources : db.sources[i].id # NextSource
<1> DEFINE used == {db.sources[i].id : i \in DOMAIN db.sources}
<1>1. ~(FreshSource \subseteq used)
  BY DEF NextSource, Minted
<1>2. NextSource = CHOOSE id \in FreshSource \ used : TRUE
  BY <1>1 DEF NextSource, Minted
<1>3. NextSource \in FreshSource \ used
  BY <1>1, <1>2
<1>4. \A i \in DOMAIN db.sources : db.sources[i].id \in used
  OBVIOUS
<1> QED BY <1>3, <1>4

LEMMA RegistrationKeeps ==
  ASSUME RegistryFits(db), NEW r \in Registration, CanRegister(r)
  PROVE  Kept(db, RegisterSource(db, NextSource, r).db)
BY NextSourceIsFresh, RegisterSourceKeeps DEF CanRegister

LEMMA TaskIsRegistered ==
  ASSUME SchedulerInv, NEW i \in Slot, tasks[i].at # "none"
  PROVE  tasks[i] \in TaskRow /\ SourceIndex(db, tasks[i].id) # {}
BY DEF SchedulerInv, MemoryFits, NoTask, Ids, SourceIndex

LEMMA TodoHead ==
  ASSUME TodoFits, todo # <<>>
  PROVE  /\ Head(todo) \in ConfiguredRun /\ Tail(todo) \in Seq(ConfiguredRun)
         /\ 1 \in DOMAIN todo /\ todo[1] = Head(todo)
BY DEF TodoFits

LEMMA RegistryStep ==
  ASSUME SchedulerInv, [SchedulerNext]_schedulerVars
  PROVE  Kept(db, db')
<1> USE DEF SchedulerInv
<1>0. ASSUME UNCHANGED db PROVE Kept(db, db')
  BY <1>0, NothingKept
<1>1. CASE ApiCreateProject
  BY <1>1, CreateProjectKeeps DEF ApiCreateProject, Respond
<1>2. CASE ApiCreateExperiment
  BY <1>2, CreateExperimentKeeps DEF ApiCreateExperiment, Respond
<1>3. CASE ApiCreateRun
  <2>1. PICK p \in Name, e \in Name, n \in Name, c \in ConfigText :
          NextRun # None /\ db' = CreateRun(db, NextRun, <<p, e>>, n, c).db
    BY <1>3 DEF ApiCreateRun, Respond
  <2>2. c \in DOMAIN JsonValue
    BY SchedulerAssumption
  <2> QED BY <2>1, <2>2, NextRunIsFresh, CreateRunKeeps
<1>4. CASE ApiUpdateRun
  BY <1>4, UpdateRunStatusKeeps DEF ApiUpdateRun, Respond
<1>5. CASE ApiRegisterSource
  BY <1>5, RegistrationKeeps, SchedulerAssumption DEF ApiRegisterSource, Respond
<1>6. CASE ApiUpdateSource
  BY <1>6, UpdateSourceStateKeeps DEF ApiUpdateSource, Respond
<1>7. ASSUME NEW c \in Caller, EnsureNewProject(c) PROVE Kept(db, db')
  <2>1. call[c].names \in Name \X Name \X Name
    BY <1>7 DEF EnsureNewProject, CallsFit
  <2>2. call[c].names[1] \in Name
    BY <2>1
  <2> QED BY <1>7, <2>2, CreateProjectKeeps DEF EnsureNewProject, Creates
<1>8. ASSUME NEW c \in Caller, EnsureNewExperiment(c) PROVE Kept(db, db')
  <2>1. call[c].names \in Name \X Name \X Name
    BY <1>8 DEF EnsureNewExperiment, CallsFit
  <2>2. call[c].names[2] \in Name
    BY <2>1
  <2> QED BY <1>8, <2>2, CreateExperimentKeeps DEF EnsureNewExperiment, Creates
<1>9. ASSUME NEW c \in Caller, EnsureNewRun(c) PROVE Kept(db, db')
  <2>1. call[c].names \in Name \X Name \X Name
    BY <1>9 DEF EnsureNewRun, CallsFit
  <2>2. call[c].names[3] \in Name
    BY <2>1
  <2>3. PICK text \in ConfigText :
          NextRun # None /\ db' = CreateRun(db, NextRun, EnsuredIn(c), call[c].names[3], text).db
    BY <1>9 DEF EnsureNewRun, Creates
  <2>4. text \in DOMAIN JsonValue
    BY SchedulerAssumption
  <2> QED BY <2>2, <2>3, <2>4, NextRunIsFresh, CreateRunKeeps
<1>10. CASE ConfigureRun
  <2>1. CASE todo = <<>>
    BY <1>0, <1>10, <2>1 DEF ConfigureRun
  <2>2. CASE todo # <<>>
    <3>1. Head(todo) \in ConfiguredRun
      BY <2>2, TodoHead
    <3> DEFINE c == Head(todo)
    <3>2. c.run \in RunId /\ c.project \in Name /\ c.experiment \in Name /\ c.name \in Name
          /\ c.config \in DOMAIN JsonValue
      BY <3>1 DEF ConfiguredRun
    <3>3. db' = EnsureConfiguredRun(db, c.run, c.project, c.experiment, c.name, c.config).db
      BY <1>10, <2>2 DEF ConfigureRun
    <3> HIDE DEF c
    <3> QED BY <3>2, <3>3, EnsureConfiguredRunKeeps
  <2> QED BY <2>1, <2>2
<1>11. CASE ConfigureSource
  <2>1. Head(todo) \in ConfiguredRun
    BY <1>11, TodoHead DEF ConfigureSource, TodoFits
  <2>2. CASE Head(todo).sources = <<>>
    BY <1>0, <1>11, <2>2 DEF ConfigureSource
  <2>3. CASE Head(todo).sources # <<>>
    <3> DEFINE r == Head(Head(todo).sources)
    <3>1. r \in Registration
      <4>1. Head(todo).sources \in Seq(Registration)
        BY <2>1 DEF ConfiguredRun
      <4> QED BY <2>3, <4>1
    <3>2. CanRegister(r) /\ db' = RegisterSource(db, NextSource, r).db
      BY <1>11, <2>3 DEF ConfigureSource
    <3> HIDE DEF r
    <3> QED BY <3>1, <3>2, RegistrationKeeps
  <2> QED BY <2>2, <2>3
<1>12. ASSUME NEW i \in Slot, Succeeds(i) PROVE Kept(db, db')
  <2>1. tasks[i].at # "none" /\ db' = UpdateSourceSuccess(db, tasks[i].id)
    BY <1>12 DEF Succeeds, Ends
  <2> QED BY <2>1, TaskIsRegistered, UpdateSourceSuccessKeeps
<1>13. ASSUME NEW i \in Slot, Fails(i) PROVE Kept(db, db')
  <2>1. tasks[i].at # "none" /\ (db' = UpdateSourceFailure(db, tasks[i].id) \/ UNCHANGED db)
    BY <1>13 DEF Fails, Ends
  <2> QED BY <1>0, <2>1, TaskIsRegistered, UpdateSourceFailureKeeps
<1>14. ASSUME NEW c \in Caller, EnsureBegins(c) \/ EnsureProject(c) \/ EnsureExperiment(c) \/ EnsureRun(c)
       PROVE  Kept(db, db')
  BY <1>0, <1>14 DEF EnsureBegins, EnsureProject, EnsureExperiment, EnsureRun, Goto
<1>15. CASE Boot \/ Signal \/ Crash
  BY <1>0, <1>15 DEF Boot, Signal, Crash
<1>16. CASE Loop
  <2>1. UNCHANGED db
    BY <1>16 DEF Loop, Listing, Refresh, Reap, Join, Spawn, SelectWake, SelectDiscovery, SelectJoin, SelectShutdown
  <2> QED BY <1>0, <2>1
<1>17. ASSUME NEW i \in Slot, CheckSource(i) \/ Panics(i) PROVE Kept(db, db')
  BY <1>0, <1>17 DEF CheckSource, Panics
<1>18. ASSUME NEW id \in waiting, Tick(id) PROVE Kept(db, db')
  BY <1>0, <1>18 DEF Tick
<1>19. CASE UNCHANGED schedulerVars
  BY <1>0, <1>19 DEF schedulerVars
<1> QED
  BY <1>1, <1>2, <1>3, <1>4, <1>5, <1>6, <1>7, <1>8, <1>9, <1>10, <1>11, <1>12, <1>13, <1>14, <1>15,
     <1>16, <1>17, <1>18, <1>19
  DEF SchedulerNext, Registering, Steering, Lifetime, Scraping

-------------------------------------------------------------------------------
(* The callers.                                                            *)
LEMMA NamesStay ==
  ASSUME NEW d, NEW e, Later(d, e), NEW names, NameOf(d, names) # {}
  PROVE  NameOf(e, names) # {}
BY DEF Later, NameOf

LEMMA NamedIsFound ==
  ASSUME RegistryFits(db), NEW c, AsStored(call[c].names), NameOf(db, call[c].names) # {}
  PROVE  FirstNamed(db, ListRuns(db, EnsuredIn(c)), call[c].names[3]) # None
<1> DEFINE ns == call[c].names
           named == {i \in ListRuns(db, EnsuredIn(c)) : db.runs[i].name = ns[3]}
<1>1. EnsuredIn(c) = <<ns[1], ns[2]>>
  BY DEF EnsuredIn, AsStored
<1>2. named = NameOf(db, ns)
  BY <1>1 DEF ListRuns, NameOf
<1>3. db.runs \in Seq(RunRow) /\ DOMAIN db.runs = 1 .. Len(db.runs) /\ Len(db.runs) \in Nat
  BY LenProperties DEF RegistryFits, RegistryTables
<1>4. named \subseteq 1 .. Len(db.runs) /\ named # {}
  BY <1>2, <1>3 DEF NameOf
<1>5. PICK m \in named : \A n \in named : n <= m
  <2> HIDE DEF named
  <2>1. named \subseteq 0 .. Len(db.runs)
    BY <1>3, <1>4
  <2> QED BY <1>3, <1>4, <2>1, GreatestNatural
<1>6. Max(named) \in named
  <2> HIDE DEF named
  <2>1. \A n \in named : m >= n
    BY <1>3, <1>4, <1>5
  <2> QED BY <1>5, <2>1 DEF Max
<1>7. db.runs[Max(named)] \in RunRow
  BY <1>3, <1>4, <1>6, ElementOfSeq
<1>8. FirstNamed(db, ListRuns(db, EnsuredIn(c)), ns[3]) = db.runs[Max(named)].id
  BY <1>4 DEF FirstNamed
<1> QED BY <1>7, <1>8, SchedulerAssumption DEF RunRow

(* A caller that goes on, and one whose call is over.                      *)
LEMMA CallGoesOn ==
  ASSUME CallsFit, Later(db, db'), NEW c \in Caller, call[c].at # "idle",
         NEW at \in {"experiment", "newProject", "newExperiment", "run", "idle"},
         call' = [call EXCEPT ![c].at = at]
  PROVE  CallsFit'
<1>1. [call[c] EXCEPT !.at = at] \in CallRow
  BY DEF CallsFit, CallRow
<1>2. call' \in [Caller -> CallRow]
  BY <1>1 DEF CallsFit
<1>3. ASSUME NEW k \in Caller, call'[k].at # "idle"
      PROVE  /\ call'[k].names \in Name \X Name \X Name
             /\ call'[k].existed /\ AsStored(call'[k].names) =>
                  call'[k].at # "newRun" /\ NameOf(db', call'[k].names) # {}
  <2>1. /\ call'[k].names = call[k].names /\ call'[k].existed = call[k].existed /\ call[k].at # "idle"
        /\ call'[k].at # "newRun" \/ call'[k].at = call[k].at
    BY <1>1, <1>3 DEF CallsFit, CallRow
  <2> QED BY <2>1, NamesStay DEF CallsFit
<1> QED BY <1>2, <1>3 DEF CallsFit

LEMMA CallEnds ==
  ASSUME CallsFit, Later(db, db'), NEW c \in Caller, call' = [call EXCEPT ![c] = Waiting]
  PROVE  CallsFit'
<1>1. Waiting \in CallRow /\ Waiting.at = "idle"
  BY DEF Waiting, CallRow
<1>2. call' \in [Caller -> CallRow]
  BY <1>1 DEF CallsFit
<1>3. ASSUME NEW k \in Caller, call'[k].at # "idle" PROVE call'[k] = call[k]
  BY <1>1, <1>3 DEF CallsFit
<1> QED BY <1>2, <1>3, NamesStay DEF CallsFit

LEMMA CallsStep ==
  ASSUME SchedulerInv, [SchedulerNext]_schedulerVars
  PROVE  CallsFit'
<1> USE DEF SchedulerInv
<1>0. Later(db, db')
  BY RegistryStep DEF Kept
<1>1. ASSUME UNCHANGED call PROVE CallsFit'
  <2>1. \A c : NameOf(db, call[c].names) # {} => NameOf(db', call[c].names) # {}
    BY <1>0, NamesStay
  <2> QED BY <1>1, <2>1 DEF CallsFit
<1>2. ASSUME call' = [c \in Caller |-> Waiting] PROVE CallsFit'
  BY <1>2 DEF CallsFit, CallRow, Waiting
<1>3. ASSUME NEW c \in Caller, EnsureBegins(c) PROVE CallsFit'
  <2>1. PICK h \in Hierarchies :
          call' = [call EXCEPT ![c] = [at |-> "project", names |-> h,
                                       existed |-> NamedRuns(<<h[1], h[2]>>, h[3]) # {}]]
    BY <1>3 DEF EnsureBegins
  <2>2. h \in Name \X Name \X Name
    BY SchedulerAssumption
  <2> DEFINE row == [at |-> "project", names |-> h, existed |-> NamedRuns(<<h[1], h[2]>>, h[3]) # {}]
  <2>3. row \in CallRow
    BY <2>2 DEF CallRow
  <2>4. row.existed => NameOf(db, h) # {}
    BY DEF NamedRuns, NameOf
  <2>5. row.at = "project" /\ row.names = h
    OBVIOUS
  <2> HIDE DEF row
  <2>6. call' \in [Caller -> CallRow] /\ call'[c] = row /\ \A k \in Caller : k # c => call'[k] = call[k]
    BY <2>1, <2>3 DEF CallsFit, row
  <2>7. row.existed => NameOf(db', h) # {}
    BY <1>0, <2>4, NamesStay
  <2>8. \A k : NameOf(db, call[k].names) # {} => NameOf(db', call[k].names) # {}
    BY <1>0, NamesStay
  <2> QED BY <2>2, <2>5, <2>6, <2>7, <2>8 DEF CallsFit
<1>4. ASSUME NEW c \in Caller, EnsureProject(c) PROVE CallsFit'
  <2>1. PICK at \in {"experiment", "newProject"} : call' = [call EXCEPT ![c].at = at]
    BY <1>4 DEF EnsureProject, Goto
  <2> QED BY <1>0, <1>4, <2>1, CallGoesOn DEF EnsureProject
<1>5. ASSUME NEW c \in Caller, EnsureExperiment(c) PROVE CallsFit'
  <2>1. PICK at \in {"run", "newExperiment"} : call' = [call EXCEPT ![c].at = at]
    BY <1>5 DEF EnsureExperiment, Goto
  <2> QED BY <1>0, <1>5, <2>1, CallGoesOn DEF EnsureExperiment
<1>6. ASSUME NEW c \in Caller, NEW reply, NEW at \in {"experiment", "run", "idle"},
             call[c].at # "idle", Creates(c, reply, at)
      PROVE  CallsFit'
  <2>1. CASE reply.ok
    <3>1. call' = [call EXCEPT ![c].at = at]
      BY <1>6, <2>1 DEF Creates
    <3> QED BY <1>0, <1>6, <3>1, CallGoesOn
  <2>2. CASE ~reply.ok
    <3>1. call' = [call EXCEPT ![c] = Waiting]
      BY <1>6, <2>2 DEF Creates
    <3> QED BY <1>0, <3>1, CallEnds
  <2> QED BY <2>1, <2>2
<1>7. ASSUME NEW c \in Caller, EnsureNewProject(c) \/ EnsureNewExperiment(c) \/ EnsureNewRun(c) PROVE CallsFit'
  BY <1>6, <1>7 DEF EnsureNewProject, EnsureNewExperiment, EnsureNewRun
<1>8. ASSUME NEW c \in Caller, EnsureRun(c) PROVE CallsFit'
  <2>1. CASE FirstNamed(db, ListRuns(db, EnsuredIn(c)), call[c].names[3]) # None
    <3>1. call' = [call EXCEPT ![c] = Waiting]
      BY <1>8, <2>1 DEF EnsureRun
    <3> QED BY <1>0, <3>1, CallEnds
  <2>2. CASE ~(FirstNamed(db, ListRuns(db, EnsuredIn(c)), call[c].names[3]) # None)
    <3>1. call' = [call EXCEPT ![c].at = "newRun"] /\ db' = db /\ call[c].at = "run"
      BY <1>8, <2>2 DEF EnsureRun, Goto
    <3>2. ~(AsStored(call[c].names) /\ NameOf(db, call[c].names) # {})
      BY <2>2, NamedIsFound
    <3>3. [call[c] EXCEPT !.at = "newRun"] \in CallRow
      BY DEF CallsFit, CallRow
    <3>4. /\ call' \in [Caller -> CallRow] /\ \A k \in Caller : k # c => call'[k] = call[k]
          /\ call'[c].names = call[c].names /\ call'[c].existed = call[c].existed
      BY <3>1, <3>3 DEF CallsFit, CallRow
    <3>5. call[c].names \in Name \X Name \X Name /\ ~(call[c].existed /\ AsStored(call[c].names))
      BY <3>1, <3>2 DEF CallsFit
    <3> QED BY <3>1, <3>4, <3>5 DEF CallsFit
  <2> QED BY <2>1, <2>2
<1>9. CASE Boot \/ Crash
  BY <1>2, <1>9 DEF Boot, Crash
<1>10. CASE SelectShutdown
  BY <1>2, <1>10 DEF SelectShutdown
<1>11. CASE \/ ApiCreateProject \/ ApiCreateExperiment \/ ApiCreateRun \/ Steering
            \/ ConfigureRun \/ ConfigureSource \/ Signal
            \/ Listing \/ Refresh \/ Reap \/ Spawn \/ SelectWake \/ SelectDiscovery \/ SelectJoin
  <2>1. UNCHANGED call
    BY <1>11 DEF ApiCreateProject, ApiCreateExperiment, ApiCreateRun, Steering, ApiUpdateRun, ApiRegisterSource,
                 ApiUpdateSource, Respond, ConfigureRun, ConfigureSource, Signal, Listing, Refresh, Reap, Join,
                 Spawn, SelectWake, SelectDiscovery, SelectJoin
  <2> QED BY <1>1, <2>1
<1>12. CASE Scraping \/ \E id \in waiting : Tick(id)
  <2>1. UNCHANGED call
    BY <1>12 DEF Scraping, CheckSource, Succeeds, Fails, Panics, Ends, Tick
  <2> QED BY <1>1, <2>1
<1>13. CASE UNCHANGED schedulerVars
  BY <1>1, <1>13 DEF schedulerVars
<1> QED
  BY <1>3, <1>4, <1>5, <1>7, <1>8, <1>9, <1>10, <1>11, <1>12, <1>13
  DEF SchedulerNext, Registering, Lifetime, Loop

LEMMA TodoStep ==
  ASSUME SchedulerInv, [SchedulerNext]_schedulerVars
  PROVE  TodoFits'
<1> USE DEF SchedulerInv
<1>1. CASE Boot
  BY <1>1, SchedulerAssumption DEF Boot, TodoFits
<1>2. CASE ConfigureRun
  BY <1>2 DEF ConfigureRun, booting, TodoFits
<1>3. CASE ConfigureSource
  <2>1. todo \in Seq(ConfiguredRun) /\ todo # <<>> /\ Head(todo) \in ConfiguredRun
        /\ Tail(todo) \in Seq(ConfiguredRun) /\ 1 \in DOMAIN todo /\ todo[1] = Head(todo)
    BY <1>3, TodoHead DEF ConfigureSource, TodoFits
  <2>2. CASE Head(todo).sources = <<>>
    BY <1>3, <2>1, <2>2 DEF ConfigureSource, TodoFits
  <2>3. CASE Head(todo).sources # <<>>
    <3> DEFINE c == [todo[1] EXCEPT !.sources = Tail(@)]
    <3>1. Tail(todo[1].sources) \in Seq(Registration)
      BY <2>1, <2>3 DEF ConfiguredRun
    <3>2. c \in ConfiguredRun
      BY <2>1, <3>1 DEF ConfiguredRun
    <3>3. todo' = [todo EXCEPT ![1] = c]
      BY <1>3, <2>3 DEF ConfigureSource
    <3> HIDE DEF c
    <3>4. todo' \in Seq(ConfiguredRun) /\ DOMAIN todo' = DOMAIN todo
      BY <2>1, <3>2, <3>3, RowChanged
    <3> QED BY <2>1, <3>4 DEF TodoFits
  <2> QED BY <2>2, <2>3
<1>4. CASE UNCHANGED todo /\ (pc' = pc \/ pc' # "sources")
  BY <1>4 DEF TodoFits
<1>5. CASE Registering
  BY <1>4, <1>5 DEF Registering, ApiCreateProject, ApiCreateExperiment, ApiCreateRun, Respond, EnsureBegins,
     EnsureProject, EnsureNewProject, EnsureExperiment, EnsureNewExperiment, EnsureRun, EnsureNewRun, Goto,
     Creates, booting
<1>6. CASE Steering
  BY <1>4, <1>6 DEF Steering, ApiUpdateRun, ApiRegisterSource, ApiUpdateSource, Respond, booting
<1>7. CASE Signal \/ Crash
  BY <1>4, <1>7 DEF Signal, Crash, booting
<1>8. CASE Loop
  BY <1>4, <1>8 DEF Loop, Listing, Refresh, Reap, Join, Spawn, SelectWake, SelectDiscovery, SelectJoin,
     SelectShutdown, booting
<1>9. CASE Scraping \/ \E id \in waiting : Tick(id)
  BY <1>4, <1>9 DEF Scraping, CheckSource, Succeeds, Fails, Panics, Ends, Tick, booting
<1>10. CASE UNCHANGED schedulerVars
  BY <1>4, <1>10 DEF schedulerVars, booting
<1> QED
  BY <1>1, <1>2, <1>3, <1>5, <1>6, <1>7, <1>8, <1>9, <1>10 DEF SchedulerNext, Lifetime

-------------------------------------------------------------------------------
(* The memory.                                                             *)
LEMMA TableSources ==
  ASSUME RegistryFits(db)
  PROVE  /\ ListSources(db) \subseteq SourceRow /\ IsFiniteSet(ListSources(db))
         /\ \A s \in ListSources(db) : s.id \in Ids(db) /\ (s.state \in Stopped => StoppedIn(db, s.id))
         /\ \A id : StoppedIn(db, id) => id \notin Live(ListSources(db))
<1>1. db.sources \in Seq(SourceRow) /\ ListSources(db) = {db.sources[i] : i \in DOMAIN db.sources}
  BY DEF RegistryFits, RegistryTables, ListSources, ToSet
<1>2. \A i \in DOMAIN db.sources : db.sources[i] \in SourceRow
  BY <1>1, LenProperties, ElementOfSeq
<1>3. IsFiniteSet(ListSources(db))
  <2>1. DOMAIN db.sources = 1 .. Len(db.sources) /\ Len(db.sources) \in Nat
    BY <1>1, LenProperties
  <2>2. IsFiniteSet(DOMAIN db.sources)
    <3> DEFINE n == Len(db.sources)
    <3>1. n \in Int
      BY <2>1
    <3> HIDE DEF n
    <3>2. IsFiniteSet(1 .. n)
      BY <3>1, FS_Interval
    <3> QED BY <2>1, <3>2 DEF n
  <2> DEFINE row == [i \in DOMAIN db.sources |-> db.sources[i]]
  <2>3. row \in [DOMAIN db.sources -> ListSources(db)] /\ \A s \in ListSources(db) : \E i \in DOMAIN db.sources : row[i] = s
    BY <1>1
  <2> HIDE DEF row
  <2>4. row \in Surjection(DOMAIN db.sources, ListSources(db))
    BY <2>3 DEF Surjection
  <2> QED BY <2>2, <2>4, FS_Surjection
<1>4. ASSUME NEW id, StoppedIn(db, id) PROVE id \notin Live(ListSources(db))
  <2>1. PICK i \in DOMAIN db.sources : db.sources[i].id = id /\ db.sources[i].state \in Stopped
    BY <1>4 DEF StoppedIn
  <2> QED BY <1>1, <2>1 DEF Live, RegistryFits
<1> QED BY <1>1, <1>2, <1>3, <1>4 DEF Ids, StoppedIn

LEMMA LiveAreSources ==
  ASSUME NEW ss, ss \subseteq SourceRow, IsFiniteSet(ss)
  PROVE  Live(ss) \subseteq FreshSource /\ IsFiniteSet(Live(ss))
<1> DEFINE live == {s \in ss : s.state \notin Stopped}
<1>1. IsFiniteSet(live)
  BY FS_Subset
<1>2. [s \in live |-> s.id] \in Surjection(live, Live(ss))
  BY DEF Surjection, Live
<1> QED BY <1>1, <1>2, FS_Surjection DEF Live, SourceRow

LEMMA SetInOrder ==
  ASSUME NEW S, IsFiniteSet(S)
  PROVE  /\ SetToSeq(S) \in Seq(S) /\ ToSet(SetToSeq(S)) = S
         /\ \A k, l \in DOMAIN SetToSeq(S) : SetToSeq(S)[k] = SetToSeq(S)[l] => k = l
<1> DEFINE n == Cardinality(S)
<1>1. n \in Nat /\ Bijection(1 .. n, S) # {}
  BY FS_CardinalityType DEF ExistsBijection
<1>2. \E f \in [1 .. n -> S] : IsInjective(f)
  BY <1>1 DEF Bijection, Injection
<1>3. PICK f : f = SetToSeq(S)
  OBVIOUS
<1>4. f \in [1 .. n -> S] /\ IsInjective(f)
  BY <1>2, <1>3 DEF SetToSeq
<1>5. f \in Seq(S)
  <2>1. f \in UNION {[1 .. m -> S] : m \in Nat}
    BY <1>1, <1>4
  <2> QED BY <2>1, SeqDef
<1>6. Cardinality(1 .. n) = n /\ IsFiniteSet(1 .. n)
  BY <1>1, FS_Interval
<1>7. f \in Surjection(1 .. n, S)
  <2>1. f \in Injection(1 .. n, S)
    BY <1>4 DEF Injection
  <2> QED BY <1>6, <2>1, FS_Injection
<1>8. ToSet(f) = S
  BY <1>4, <1>7 DEF ToSet, Surjection
<1> QED BY <1>3, <1>4, <1>5, <1>8 DEF IsInjective

LEMMA TaskIsNone ==
  ASSUME MemoryFits, NEW i \in Slot
  PROVE  /\ tasks[i] # NoTask => tasks[i] \in TaskRow /\ tasks[i].id \in FreshSource /\ tasks[i].id # None
         /\ tasks[i].at # "none" <=> tasks[i] # NoTask
BY SchedulerAssumption DEF MemoryFits, NoTask, TaskRow

LEMMA IdsAreSources ==
  ASSUME RegistryFits(db)
  PROVE  Ids(db) \subseteq FreshSource
<1>1. \A i \in DOMAIN db.sources : db.sources[i] \in SourceRow
  BY LenProperties, ElementOfSeq DEF RegistryFits, RegistryTables
<1> QED BY <1>1 DEF Ids, SourceRow

LEMMA LeastFree ==
  ASSUME Free # {}
  PROVE  Min(Free) \in Free
<1>1. Free \subseteq Nat
  BY DEF Free, Slot
<1>2. \E m \in Free : \A n \in Free : m <= n
  BY <1>1, LeastNatural
<1> QED BY <1>2 DEF Min

(* Nothing moves.                                                          *)
LEMMA PlacesStay ==
  ASSUME OnSchedule, Later(db, db'), pc # "off",
         UNCHANGED <<known, due, waiting, scheduled>>, lost \subseteq lost',
         \A i \in Slot : tasks'[i].id = tasks[i].id /\ (tasks'[i] # NoTask <=> tasks[i] # NoTask),
         pc' # "apply" \/ UNCHANGED <<pc, listed>>
  PROVE  OnSchedule'
<1>1. Apart'
  BY DEF OnSchedule, Apart
<1>2. Placed'
  BY DEF OnSchedule, Placed
<1>3. ForgottenHaveStopped'
  BY LaterIds DEF OnSchedule, ForgottenHaveStopped
<1> QED BY <1>1, <1>2, <1>3 DEF OnSchedule

LEMMA TypesStay ==
  ASSUME MemoryFits, Later(db, db'), UNCHANGED <<known, due, waiting, listed>>,
         tasks' \in [Slot -> TaskRow \cup {NoTask}],
         \A i \in Slot : tasks'[i] # NoTask => tasks'[i].id \in Ids(db)
  PROVE  MemoryFits'
BY LaterIds DEF MemoryFits

LEMMA MemoryStep ==
  ASSUME SchedulerInv, [SchedulerNext]_schedulerVars
  PROVE  MemoryFits' /\ OnSchedule'
<1> USE DEF SchedulerInv
<1>0. Later(db, db')
  BY RegistryStep DEF Kept
<1>a. ASSUME UNCHANGED memory, pc # "off", pc' # "apply" \/ UNCHANGED pc PROVE MemoryFits' /\ OnSchedule'
  BY <1>0, <1>a, PlacesStay, TypesStay DEF memory, MemoryFits
<1>b. ASSUME UNCHANGED memory, pc' = "off" PROVE MemoryFits' /\ OnSchedule'
  BY <1>0, <1>b, TypesStay DEF memory, MemoryFits, OnSchedule
<1>e. ASSUME UNCHANGED <<known, due, waiting, listed>>, tasks' = Empty, pc' = "off" PROVE MemoryFits' /\ OnSchedule'
  BY <1>0, <1>e, TypesStay DEF Empty, OnSchedule
<1>c. ASSUME UNCHANGED memory, UNCHANGED pc PROVE MemoryFits' /\ OnSchedule'
  BY <1>a, <1>b, <1>c
<1>1. CASE Boot
  <2>1. MemoryFits'
    BY <1>1, FS_EmptySet DEF Boot, MemoryFits, Empty
  <2>2. DOMAIN due' = {} /\ ToSet(due') = {}
    BY <1>1 DEF Boot, ToSet
  <2>3. OnSchedule'
    BY <1>1, <2>2 DEF Boot, OnSchedule, Apart, Placed, ForgottenHaveStopped, Empty, NoTask
  <2> QED BY <2>1, <2>3
<1>2. CASE Refresh
  <2> DEFINE found == Found(listed)
             new == SetToSeq(found)
             n == Len(due)
  <2>1. /\ pc = "apply" /\ pc' = "reap" /\ due' = due \o new /\ scheduled' = scheduled \cup ToSet(new)
        /\ known' = (known \ {s.id : s \in listed}) \cup Live(listed) /\ listed' = {}
        /\ UNCHANGED <<db, waiting, tasks, lost>>
    BY <1>2 DEF Refresh
  <2>2. Live(listed) \subseteq FreshSource /\ IsFiniteSet(Live(listed))
    BY LiveAreSources DEF MemoryFits
  <2>3. found = (Live(listed) \ known) \ scheduled
    BY DEF Found
  <2>4. found \subseteq FreshSource /\ IsFiniteSet(found)
    BY <2>2, <2>3, FS_Subset
  <2> HIDE DEF found
  <2>5. new \in Seq(found) /\ ToSet(new) = found
        /\ \A k, l \in DOMAIN new : new[k] = new[l] => k = l
    BY <2>4, SetInOrder
  <2>6. Apart /\ Placed /\ ForgottenHaveStopped
    BY <2>1 DEF OnSchedule
  <2> HIDE DEF new
  <2>7. due \in Seq(FreshSource) /\ new \in Seq(FreshSource)
    BY <2>4, <2>5, SeqMonotonic DEF MemoryFits
  <2>8. due' \in Seq(FreshSource)
    BY <2>1, <2>7, ConcatProperties
  <2>9. MemoryFits'
    <3>1. Live(listed) \subseteq Ids(db)
      BY DEF MemoryFits, Live
    <3> QED BY <2>1, <2>8, <3>1, FS_EmptySet DEF MemoryFits
  <2>10. /\ n \in Nat /\ DOMAIN due = 1 .. n /\ DOMAIN due' = 1 .. n + Len(new) /\ Len(new) \in Nat
         /\ DOMAIN new = 1 .. Len(new)
         /\ \A k \in 1 .. n : due'[k] = due[k]
         /\ \A k \in n + 1 .. n + Len(new) : due'[k] = new[k - n] /\ k - n \in 1 .. Len(new)
    BY <2>1, <2>7, <2>8, LenProperties, ConcatProperties
  <2>11. \A k \in DOMAIN due' : k \in 1 .. n \/ k \in n + 1 .. n + Len(new)
    BY <2>10
  <2>12. \A k \in DOMAIN due : due[k] \in scheduled
    BY <2>6 DEF Apart, ToSet
  <2>13. \A k \in DOMAIN new : new[k] \in found
    BY <2>5 DEF ToSet
  <2>14. ToSet(due') = ToSet(due) \cup found
    <3>1. ToSet(due') \subseteq ToSet(due) \cup found
      BY <2>10, <2>11, <2>13 DEF ToSet
    <3>2. ToSet(due) \subseteq ToSet(due')
      BY <2>10 DEF ToSet
    <3>3. ASSUME NEW id \in found PROVE id \in ToSet(due')
      <4>1. PICK k \in 1 .. Len(new) : new[k] = id
        BY <2>5, <2>10 DEF ToSet
      <4>2. n + k \in n + 1 .. n + Len(new) /\ (n + k) - n = k
        BY <2>10
      <4>3. due'[n + k] = id /\ n + k \in DOMAIN due'
        BY <2>10, <4>1, <4>2
      <4> QED BY <4>3 DEF ToSet
    <3> QED BY <3>1, <3>2, <3>3
  <2>15. ASSUME NEW k \in DOMAIN due', NEW l \in DOMAIN due', due'[k] = due'[l] PROVE k = l
    <3>1. CASE k \in 1 .. n /\ l \in 1 .. n
      BY <2>6, <2>10, <2>15, <3>1 DEF Apart
    <3>2. CASE k \in n + 1 .. n + Len(new) /\ l \in n + 1 .. n + Len(new)
      <4>1. k - n = l - n
        BY <2>5, <2>10, <2>15, <3>2
      <4> QED BY <2>10, <3>2, <4>1
    <3>3. CASE \/ k \in 1 .. n /\ l \in n + 1 .. n + Len(new)
               \/ l \in 1 .. n /\ k \in n + 1 .. n + Len(new)
      BY <2>3, <2>10, <2>12, <2>13, <2>15, <3>3, SMTT(30)
    <3> QED BY <2>11, <3>1, <3>2, <3>3
  <2>16. \A i \in Slot : tasks[i].id \notin found
    <3> SUFFICES ASSUME NEW i \in Slot, tasks[i].id \in found PROVE FALSE
      OBVIOUS
    <3>1. tasks[i] # NoTask
      BY <2>4, SchedulerAssumption DEF NoTask
    <3> QED BY <2>1, <2>3, <2>6, <3>1 DEF ForgottenHaveStopped
  <2>17. Apart'
    <3>1. scheduled' = ToSet(due') \cup waiting' /\ ToSet(due') \cap waiting' = {}
      BY <2>1, <2>3, <2>5, <2>6, <2>14 DEF Apart
    <3>2. \A i \in Slot : tasks'[i].id \notin scheduled'
      BY <2>1, <2>5, <2>6, <2>16 DEF Apart
    <3> QED BY <2>1, <2>6, <2>15, <3>1, <3>2 DEF Apart
  <2>18. Placed'
    BY <2>1, <2>3, <2>5, <2>6 DEF Placed
  <2>19. ForgottenHaveStopped'
    <3> SUFFICES ASSUME NEW i \in Slot, tasks[i] # NoTask, tasks[i].id \notin known'
                 PROVE  StoppedIn(db, tasks[i].id)
      BY <2>1 DEF ForgottenHaveStopped
    <3>1. CASE tasks[i].id \notin known
      BY <2>6, <3>1 DEF ForgottenHaveStopped
    <3>2. CASE tasks[i].id \in known
      <4>1. PICK s \in listed : s.id = tasks[i].id
        BY <2>1, <3>2
      <4>2. s.state \in Stopped
        BY <2>1, <4>1 DEF Live
      <4> QED BY <4>1, <4>2 DEF MemoryFits
    <3> QED BY <3>1, <3>2
  <2> QED BY <2>1, <2>9, <2>17, <2>18, <2>19 DEF OnSchedule
<1>3. CASE Listing
  <2>1. CASE listed' = ListSources(db) /\ pc' = "apply"
    <3>1. pc = "list" /\ UNCHANGED <<db, known, due, waiting, scheduled, tasks, lost>>
      BY <1>3 DEF Listing
    <3>2. MemoryFits'
      BY <2>1, <3>1, TableSources DEF MemoryFits
    <3>3. Apart /\ Placed /\ ForgottenHaveStopped
      BY <3>1 DEF OnSchedule
    <3>4. ForgottenHaveStopped'
      BY <2>1, <3>1, <3>3, TableSources DEF ForgottenHaveStopped
    <3> QED BY <3>1, <3>2, <3>3, <3>4 DEF OnSchedule, Apart, Placed
  <2>2. CASE pc' = "reap" /\ UNCHANGED listed
    BY <1>3, <1>a, <2>2 DEF Listing, memory
  <2> QED BY <1>3, <2>1, <2>2 DEF Listing
<1>4. ASSUME NEW i \in Slot, i \in Finished, Join(i), pc # "off", pc' # "apply"
      PROVE  MemoryFits' /\ OnSchedule'
  <2>1. tasks[i] # NoTask /\ tasks[i] \in TaskRow
    BY <1>4, TaskIsNone DEF Finished, NoTask
  <2> DEFINE id == tasks[i].id
  <2>2. id \in FreshSource
    BY <2>1 DEF TaskRow
  <2>3. /\ tasks' \in [Slot -> TaskRow \cup {NoTask}] /\ tasks'[i] = NoTask
        /\ \A j \in Slot : j # i => tasks'[j] = tasks[j]
        /\ UNCHANGED <<db, listed, known, due>>
    BY <1>4 DEF Join, MemoryFits
  <2>4. Apart /\ Placed /\ ForgottenHaveStopped
    BY <1>4 DEF OnSchedule
  <2>5. NoTask.id = None /\ None \notin FreshSource
    BY SchedulerAssumption DEF NoTask
  <2>6. None \notin scheduled
    BY <2>4, <2>5, LenProperties, ElementOfSeq DEF Apart, MemoryFits, ToSet
  <2>7. \A j \in Slot : tasks'[j] # NoTask => tasks'[j] = tasks[j] /\ j # i /\ tasks[j] # NoTask
    BY <2>3
  <2>8. \A j \in Slot : tasks'[j] # NoTask => tasks'[j].id # id
    BY <2>1, <2>4, <2>7 DEF Apart
  <2>9. \A x : (\E j \in Slot : tasks[j].id = x) => x = id \/ \E j \in Slot : tasks'[j].id = x
    BY <2>3
  <2>10. ASSUME NEW j \in Slot, NEW k \in Slot, tasks'[j] # NoTask, tasks'[j].id = tasks'[k].id PROVE j = k
    <3>1. tasks'[j].id # None /\ tasks'[j] = tasks[j] /\ tasks[j] # NoTask
      BY <2>7, <2>10, TaskIsNone
    <3>2. k # i
      BY <2>3, <2>5, <2>10, <3>1
    <3> QED BY <2>3, <2>4, <2>10, <3>1, <3>2 DEF Apart
  <2>11. ForgottenHaveStopped'
    BY <1>4, <2>3, <2>4, <2>7 DEF ForgottenHaveStopped
  <2>12. CASE tasks[i].at = "panicked"
    <3>1. lost' = lost \cup {id} /\ UNCHANGED <<waiting, scheduled>>
      BY <1>4, <2>12 DEF Join
    <3>2. MemoryFits'
      BY <2>3, <2>7, <3>1 DEF MemoryFits
    <3>3. Apart'
      <4>1. \A j \in Slot : tasks'[j].id \notin scheduled'
        BY <2>3, <2>4, <2>5, <2>6, <3>1 DEF Apart
      <4> QED BY <2>3, <2>4, <2>10, <3>1, <4>1 DEF Apart
    <3>4. Placed'
      BY <2>3, <2>4, <2>9, <3>1 DEF Placed
    <3> QED BY <2>11, <3>2, <3>3, <3>4 DEF OnSchedule
  <2>13. CASE tasks[i].at # "panicked"
    <3>1. waiting' = waiting \cup {id} /\ scheduled' = scheduled \cup {id} /\ UNCHANGED lost
      BY <1>4, <2>13 DEF Join, Push
    <3>2. MemoryFits'
      BY <2>2, <2>3, <2>7, <3>1 DEF MemoryFits
    <3>3. id \notin scheduled
      BY <2>4 DEF Apart
    <3>4. Apart'
      <4>1. scheduled' = ToSet(due') \cup waiting' /\ ToSet(due') \cap waiting' = {}
        BY <2>3, <2>4, <3>1, <3>3 DEF Apart
      <4>2. \A j \in Slot : tasks'[j].id \notin scheduled'
        BY <2>2, <2>3, <2>4, <2>5, <2>6, <2>8, <3>1 DEF Apart
      <4> QED BY <2>3, <2>4, <2>10, <4>1, <4>2 DEF Apart
    <3>5. Placed'
      BY <2>3, <2>4, <2>9, <3>1 DEF Placed
    <3> QED BY <2>11, <3>2, <3>4, <3>5 DEF OnSchedule
  <2> QED BY <2>12, <2>13
<1>5. CASE Reap
  <2>1. CASE Finished # {}
    BY <1>4, <1>5, <2>1 DEF Reap, Finished
  <2>2. CASE Finished = {}
    BY <1>5, <1>a, <2>2 DEF Reap
  <2> QED BY <2>1, <2>2
<1>6. CASE SelectJoin
  BY <1>4, <1>6 DEF SelectJoin, Finished
<1>7. CASE Spawn
  <2>1. CASE ~(Free # {} /\ due # <<>>)
    BY <1>7, <1>a, <2>1 DEF Spawn, memory
  <2>2. CASE Free # {} /\ due # <<>>
    <3> DEFINE id == Head(due)
               slot == Min(Free)
    <3>1. /\ pc = "spawn" /\ due' = Tail(due) /\ scheduled' = scheduled \ {id}
          /\ tasks' = IF id \notin known THEN tasks ELSE [tasks EXCEPT ![slot] = [id |-> id, at |-> "begun"]]
          /\ UNCHANGED <<pc, db, listed, known, waiting, lost>>
      BY <1>7, <2>2 DEF Spawn
    <3>2. Apart /\ Placed /\ ForgottenHaveStopped
      BY <3>1 DEF OnSchedule
    <3>3. /\ Len(due) \in Nat /\ DOMAIN due = 1 .. Len(due) /\ Len(due) > 0 /\ id = due[1]
          /\ id \in FreshSource /\ due' \in Seq(FreshSource) /\ DOMAIN due' = 1 .. Len(due) - 1
          /\ \A k \in 1 .. Len(due) - 1 : due'[k] = due[k + 1] /\ k + 1 \in 1 .. Len(due)
      <4>1. due \in Seq(FreshSource)
        BY DEF MemoryFits
      <4>2. DOMAIN due' = 1 .. Len(due')
        BY <2>2, <3>1, <4>1, HeadTailProperties, LenProperties
      <4> QED BY <2>2, <3>1, <4>1, <4>2, HeadTailProperties, LenProperties
    <3>4. ToSet(due') = ToSet(due) \ {id}
      <4>1. \A k \in DOMAIN due : k = 1 \/ k - 1 \in DOMAIN due'
        BY <3>3
      <4>2. \A k \in DOMAIN due' : due'[k] # id
        BY <3>2, <3>3 DEF Apart
      <4>3. \A k \in DOMAIN due : due[k] = id \/ \E l \in DOMAIN due' : due'[l] = due[k]
        <5> TAKE k \in DOMAIN due
        <5>1. CASE k = 1
          BY <3>3, <5>1
        <5>2. CASE k # 1
          <6>1. k - 1 \in 1 .. Len(due) - 1 /\ (k - 1) + 1 = k
            BY <3>3, <5>2
          <6> QED BY <3>3, <6>1
        <5> QED BY <5>1, <5>2
      <4>4. \A k \in DOMAIN due' : \E l \in DOMAIN due : due'[k] = due[l]
        BY <3>3
      <4> QED BY <4>2, <4>3, <4>4 DEF ToSet
    <3>5. \A k, l \in DOMAIN due' : due'[k] = due'[l] => k = l
      BY <3>2, <3>3, SMTT(30) DEF Apart
    <3>6. id \in ToSet(due) /\ id \in scheduled /\ id \notin waiting
      BY <3>2, <3>3 DEF Apart, ToSet
    <3>7. scheduled' = ToSet(due') \cup waiting' /\ ToSet(due') \cap waiting' = {}
      BY <3>1, <3>2, <3>4, <3>6 DEF Apart
    <3> HIDE DEF id, slot
    <3>8. CASE id \notin known
      <4>1. MemoryFits'
        BY <3>1, <3>3, <3>8 DEF MemoryFits
      <4>2. Apart'
        BY <3>1, <3>2, <3>5, <3>7, <3>8 DEF Apart
      <4>3. Placed'
        BY <3>1, <3>2, <3>8 DEF Placed
      <4>4. ForgottenHaveStopped'
        BY <3>1, <3>2, <3>8 DEF ForgottenHaveStopped
      <4> QED BY <4>1, <4>2, <4>3, <4>4 DEF OnSchedule
    <3>9. CASE id \in known
      <4>1. slot \in Free
        BY <2>2, LeastFree DEF slot
      <4>2. slot \in Slot /\ tasks[slot] = NoTask
        BY <4>1 DEF Free
      <4> DEFINE row == [id |-> id, at |-> "begun"]
      <4>3. row \in TaskRow /\ row # NoTask /\ row.id = id
        BY <3>3, SchedulerAssumption DEF TaskRow, NoTask
      <4> HIDE DEF row
      <4>4. /\ tasks' \in [Slot -> TaskRow \cup {NoTask}] /\ tasks'[slot] = row
            /\ \A j \in Slot : j # slot => tasks'[j] = tasks[j]
        BY <3>1, <3>9, <4>2, <4>3 DEF MemoryFits, row
      <4>5. id \in Ids(db)
        BY <3>9 DEF MemoryFits
      <4>6. MemoryFits'
        BY <3>1, <3>3, <4>3, <4>4, <4>5 DEF MemoryFits
      <4>7. \A j \in Slot : tasks[j].id # id
        BY <3>2, <3>6 DEF Apart
      <4>8. Apart'
        <5>1. ASSUME NEW j \in Slot, NEW k \in Slot, tasks'[j] # NoTask, tasks'[j].id = tasks'[k].id PROVE j = k
          BY <3>2, <4>3, <4>4, <4>7, <5>1 DEF Apart
        <5>2. \A j \in Slot : tasks'[j].id \notin scheduled'
          BY <3>1, <3>2, <4>3, <4>4 DEF Apart
        <5> QED BY <3>5, <3>7, <5>1, <5>2 DEF Apart
      <4>9. Placed'
        <5> SUFFICES ASSUME NEW x \in known \ lost, x \notin scheduled'
                     PROVE  \E j \in Slot : tasks'[j].id = x
          BY <3>1 DEF Placed
        <5>1. CASE x = id
          BY <4>2, <4>3, <4>4, <5>1
        <5>2. CASE x # id
          <6>1. PICK j \in Slot : tasks[j].id = x
            BY <3>1, <3>2, <5>2 DEF Placed
          <6>2. x # None
            BY IdsAreSources, SchedulerAssumption DEF MemoryFits
          <6>3. j # slot
            BY <4>2, <6>1, <6>2 DEF NoTask
          <6> QED BY <4>4, <6>1, <6>3
        <5> QED BY <5>1, <5>2
      <4>10. ForgottenHaveStopped'
        BY <3>1, <3>2, <3>9, <4>3, <4>4 DEF ForgottenHaveStopped
      <4> QED BY <4>6, <4>8, <4>9, <4>10 DEF OnSchedule
    <3> QED BY <3>8, <3>9
  <2> QED BY <2>1, <2>2
<1>8. CASE SelectWake \/ SelectDiscovery
  BY <1>8, <1>a DEF SelectWake, SelectDiscovery
<1>9. CASE SelectShutdown \/ Crash
  BY <1>9, <1>e DEF SelectShutdown, Crash
<1>10. ASSUME NEW id \in waiting, Tick(id) PROVE MemoryFits' /\ OnSchedule'
  <2>1. /\ pc # "off" /\ due' = Append(due, id) /\ waiting' = waiting \ {id}
        /\ UNCHANGED <<db, pc, listed, known, scheduled, tasks, lost>>
    BY <1>10 DEF Tick, Serving
  <2>2. due \in Seq(FreshSource) /\ id \in FreshSource
    BY DEF MemoryFits
  <2>3. /\ due' \in Seq(FreshSource) /\ \A i \in DOMAIN due : i \in DOMAIN due' /\ due'[i] = due[i]
        /\ due'[Len(due) + 1] = id /\ Len(due) + 1 \in DOMAIN due'
        /\ \A i \in DOMAIN due' : i \in DOMAIN due \/ i = Len(due) + 1
    BY <2>1, <2>2, AppendIs
  <2>4. ToSet(due') = ToSet(due) \cup {id}
    BY <2>3 DEF ToSet
  <2>5. Apart /\ Placed /\ ForgottenHaveStopped
    BY <2>1 DEF OnSchedule
  <2>6. \A k \in DOMAIN due : due[k] # id
    BY <2>5 DEF Apart, ToSet
  <2>7. \A k, l \in DOMAIN due' : due'[k] = due'[l] => k = l
    BY <2>3, <2>5, <2>6 DEF Apart
  <2>8. Apart'
    BY <2>1, <2>4, <2>5, <2>7 DEF Apart
  <2>9. MemoryFits'
    BY <2>1, <2>3 DEF MemoryFits
  <2>10. Placed' /\ ForgottenHaveStopped'
    BY <2>1, <2>5 DEF Placed, ForgottenHaveStopped
  <2> QED BY <2>8, <2>9, <2>10 DEF OnSchedule
<1>11. ASSUME NEW i \in Slot, NEW at \in {"pulling", "data", "nothing", "panicked"}, tasks[i].at # "none",
              tasks' = [tasks EXCEPT ![i].at = at],
              UNCHANGED <<pc, listed, known, due, waiting, scheduled, lost>>
       PROVE  MemoryFits' /\ OnSchedule'
  <2>1. tasks[i] \in TaskRow /\ tasks[i] # NoTask
    BY <1>11, TaskIsNone
  <2> DEFINE row == [tasks[i] EXCEPT !.at = at]
  <2>2. row \in TaskRow /\ row # NoTask /\ row.id = tasks[i].id
    BY <2>1 DEF TaskRow, NoTask
  <2>3. tasks' = [tasks EXCEPT ![i] = row]
    BY <1>11
  <2> HIDE DEF row
  <2>4. /\ tasks' \in [Slot -> TaskRow \cup {NoTask}] /\ tasks'[i] = row
        /\ \A j \in Slot : j # i => tasks'[j] = tasks[j]
    BY <2>2, <2>3 DEF MemoryFits
  <2>5. \A j \in Slot : tasks'[j].id = tasks[j].id /\ (tasks'[j] # NoTask <=> tasks[j] # NoTask)
    BY <2>1, <2>2, <2>4
  <2>6. \A j \in Slot : tasks'[j] # NoTask => tasks'[j].id \in Ids(db)
    BY <2>5 DEF MemoryFits
  <2>7. MemoryFits'
    BY <1>0, <1>11, <2>4, <2>6, TypesStay
  <2>8. CASE pc = "off"
    BY <1>11, <2>7, <2>8 DEF OnSchedule
  <2>9. CASE pc # "off"
    BY <1>0, <1>11, <2>5, <2>7, <2>9, PlacesStay
  <2> QED BY <2>8, <2>9
<1>12. CASE Scraping
  <2>1. PICK i \in Slot : CheckSource(i) \/ Succeeds(i) \/ Fails(i) \/ Panics(i)
    BY <1>12 DEF Scraping
  <2>2. PICK at \in {"pulling", "data", "nothing", "panicked"} :
          tasks[i].at # "none" /\ tasks' = [tasks EXCEPT ![i].at = at]
    BY <2>1 DEF CheckSource, Succeeds, Fails, Panics, Ends
  <2>3. UNCHANGED <<pc, listed, known, due, waiting, scheduled, lost>>
    BY <2>1 DEF CheckSource, Succeeds, Fails, Panics, Ends
  <2> QED BY <1>11, <2>2, <2>3
<1>13. CASE Registering \/ Steering \/ Signal
  <2>1. UNCHANGED memory /\ UNCHANGED pc
    BY <1>13 DEF Registering, Steering, ApiCreateProject, ApiCreateExperiment, ApiCreateRun, ApiUpdateRun,
       ApiRegisterSource, ApiUpdateSource, Respond, EnsureBegins, EnsureProject, EnsureNewProject, EnsureExperiment,
       EnsureNewExperiment, EnsureRun, EnsureNewRun, Goto, Creates, Signal
  <2> QED BY <1>c, <2>1
<1>14. CASE ConfigureRun \/ ConfigureSource
  <2>1. UNCHANGED memory /\ pc # "off" /\ pc' # "apply"
    BY <1>14 DEF ConfigureRun, ConfigureSource
  <2> QED BY <1>a, <2>1
<1>15. CASE UNCHANGED schedulerVars
  BY <1>c, <1>15 DEF schedulerVars, memory
<1> QED
  BY <1>1, <1>2, <1>3, <1>5, <1>6, <1>7, <1>8, <1>9, <1>10, <1>12, <1>13, <1>14, <1>15
  DEF SchedulerNext, Lifetime, Loop

-------------------------------------------------------------------------------
LEMMA SchedulerStarts ==
  ASSUME SchedulerInit
  PROVE  SchedulerInv
<1> USE DEF SchedulerInit
<1>1. RegistryFits(db)
  <2>1. db = [projects |-> {}, experiments |-> {}, runs |-> <<>>, sources |-> <<>>]
    BY DEF EmptyRegistry
  <2>2. db \in RegistryTables
    BY <2>1 DEF RegistryTables
  <2> QED BY <2>1, <2>2 DEF RegistryFits
<1>2. CallsFit
  BY DEF CallsFit, CallRow, Waiting
<1>3. TodoFits
  BY DEF TodoFits
<1>4. MemoryFits
  BY FS_EmptySet DEF MemoryFits, Empty
<1> QED BY <1>1, <1>2, <1>3, <1>4 DEF SchedulerInv, OnSchedule

LEMMA SchedulerInvariant == SchedulerSpec => []SchedulerInv
<1>1. ASSUME SchedulerInv, [SchedulerNext]_schedulerVars PROVE SchedulerInv'
  BY <1>1, RegistryStep, CallsStep, TodoStep, MemoryStep DEF SchedulerInv, Kept
<1> QED BY <1>1, SchedulerStarts, PTL DEF SchedulerSpec

LEMMA AtMostOne ==
  ASSUME NEW S, \A x, y \in S : x = y
  PROVE  IsFiniteSet(S) /\ Cardinality(S) = IF S = {} THEN 0 ELSE 1
<1>1. CASE S = {}
  BY <1>1, FS_EmptySet
<1>2. CASE S # {}
  <2>1. PICK x : S = {x}
    BY <1>2
  <2> QED BY <1>2, <2>1, FS_Singleton
<1> QED BY <1>1, <1>2

LEMMA OnePlace ==
  ASSUME SchedulerInv, pc # "off", NEW id \in Ids(db)
  PROVE  Places(id) <= 1 /\ (id \in known \ lost => Places(id) = 1)
<1> DEFINE queue == {k \in DOMAIN due : due[k] = id}
           slots == {i \in Slot : tasks[i].id = id}
           apart == {id} \cap waiting
<1>1. Apart /\ Placed /\ RegistryFits(db) /\ MemoryFits
  BY DEF SchedulerInv, OnSchedule
<1>2. id # None
  BY <1>1, IdsAreSources, SchedulerAssumption
<1>3. \A i \in slots : tasks[i] # NoTask
  BY <1>2 DEF NoTask
<1>4. \A i, j \in slots : i = j
  BY <1>1, <1>3 DEF Apart
<1>5. \A k, l \in queue : k = l
  BY <1>1 DEF Apart
<1>6. queue # {} => id \in ToSet(due)
  BY DEF ToSet
<1>7. id \in ToSet(due) => queue # {}
  BY DEF ToSet
<1>8. \A x, y \in apart : x = y
  OBVIOUS
<1>9. slots # {} => id \notin scheduled
  BY <1>1 DEF Apart
<1>10. ~(queue # {} /\ apart # {}) /\ (slots # {} => queue = {} /\ apart = {})
  BY <1>1, <1>6, <1>9 DEF Apart
<1>11. id \in known \ lost => queue # {} \/ apart # {} \/ slots # {}
  BY <1>1, <1>7 DEF Apart, Placed
<1> HIDE DEF queue, slots, apart
<1>12. /\ Cardinality(queue) = IF queue = {} THEN 0 ELSE 1
       /\ Cardinality(slots) = IF slots = {} THEN 0 ELSE 1
       /\ Cardinality(apart) = IF apart = {} THEN 0 ELSE 1
  BY <1>4, <1>5, <1>8, AtMostOne
<1>13. Places(id) = Cardinality(queue) + Cardinality(apart) + Cardinality(slots)
  BY DEF Places, queue, slots, apart
<1> QED BY <1>10, <1>11, <1>12, <1>13

(* run_scraper (rvx-server/src/scraper.rs) neither forgets a Source nor    *)
(* scrapes it twice at once: through stale listings, stops,                *)
(* re-registrations, failed tasks and restarts, each Source it knows has   *)
(* one place, in the heap or in a task, unless its task panicked.          *)
THEOREM SourcesKeepOnePlace == SchedulerSpec => []EverySourceHasOnePlace
<1>1. ASSUME SchedulerInv PROVE EverySourceHasOnePlace
  <2> SUFFICES ASSUME pc # "off" PROVE EverySourceHasOnePlace
    BY DEF EverySourceHasOnePlace
  <2>1. scheduled = ToSet(due) \cup waiting
    BY <1>1 DEF SchedulerInv, OnSchedule, Apart
  <2>2. \A i \in DOMAIN db.sources : db.sources[i].id \in Ids(db)
    BY DEF Ids
  <2> QED BY <1>1, <2>1, <2>2, OnePlace DEF EverySourceHasOnePlace
<1> QED BY <1>1, SchedulerInvariant, PTL

(* A Run that has ended is settled (update_run_status stops its Sources in *)
(* the same transaction): no scrape in flight, registration, configuration *)
(* at start or late success shows one of its Sources as active or stale.   *)
THEOREM RunsStaySettled == SchedulerSpec => []EndedRunsAreSettled
<1>1. ASSUME SchedulerInv PROVE EndedRunsAreSettled
  <2> SUFFICES ASSUME NEW i \in DOMAIN db.sources, RunOf(db, db.sources[i].run).status \in Ended
               PROVE  db.sources[i].state \notin {"active", "stale"}
    BY DEF EndedRunsAreSettled
  <2>1. RegistryFits(db) /\ RunIndex(db, db.sources[i].run) # {}
    BY <1>1 DEF SchedulerInv, RegistryFits
  <2>2. PICK j \in DOMAIN db.runs : j \in RunIndex(db, db.sources[i].run)
                                  /\ RunOf(db, db.sources[i].run) = db.runs[j]
    BY <2>1, TheRun
  <2> QED BY <2>1, <2>2 DEF RegistryFits
<1> QED BY <1>1, SchedulerInvariant, PTL

(* ensure_hierarchy, a chain of transactions with the lock released in     *)
(* between, creates no Run when it is called with trimmed names and there  *)
(* is one of them, whatever the other callers do meanwhile.                *)
THEOREM EnsureStaysIdempotent == SchedulerSpec => []EnsureIsIdempotent
<1>1. ASSUME SchedulerInv PROVE EnsureIsIdempotent
  BY <1>1 DEF SchedulerInv, CallsFit, AsStored, EnsureIsIdempotent
<1> QED BY <1>1, SchedulerInvariant, PTL

(* No step of the process, its callers or its scrapes takes back a row, a  *)
(* Run's names, the status it ended with or the stop of a Source.          *)
THEOREM RegistryOnlyGrows == SchedulerSpec => [][Later(db, db')]_schedulerVars
<1>1. ASSUME SchedulerInv, [SchedulerNext]_schedulerVars PROVE Later(db, db')
  BY <1>1, RegistryStep DEF Kept
<1> QED BY <1>1, SchedulerInvariant, PTL DEF SchedulerSpec

===============================================================================

--------------------------------- MODULE Access -------------------------------
(***************************************************************************)
(* The access boundary in front of every route: which requests reach a     *)
(* handler under which policy, and what a cookie is worth.                 *)
(*                                                                         *)
(* A request is a record of what `protect` reads of it.  Texts are classes *)
(* of texts: an Origin header carries an origin and says whether it is     *)
(* bare (scheme, host and port only) or is Garbage; a cookie value is a    *)
(* nonce or is not canonical.  A digest keyed by the password stands for   *)
(* the pair it is computed from.                                           *)
(***************************************************************************)
EXTENDS Integers, Sequences, FiniteSets

CONSTANTS
  Password,      \* values RVX_API_TOKEN has had
  Nonce,         \* session nonces
  Garbage,       \* a header that does not parse, a cookie that is not canonical
  Nil

(* A policy: a password or Nil, and the public origin or Nil.            *)
Required(policy) == policy.token # Nil

PasswordMatches(policy, secret) == Required(policy) /\ secret = policy.token

SessionKeyDigest(policy) == policy.token

SessionDigest(policy, nonce) == <<policy.token, nonce>>

(* Exactly one rvx_session cookie, and a canonical one.                    *)
CookieDigest(policy, r) ==
  IF Required(policy) /\ Len(r.cookies) = 1 /\ r.cookies[1] \in Nonce
  THEN SessionDigest(policy, r.cookies[1]) ELSE Nil

(* Bearer, or Basic as user rvx outside a browser's fetch.                 *)
Authorized(policy, r) ==
  \/ ~Required(policy)
  \/ LET a == r.authorization IN
     /\ a # Nil /\ a.short
     /\ PasswordMatches(policy, a.secret)
     /\ a.scheme = "bearer" \/ (a.scheme = "basic" /\ a.user = "rvx" /\ r.site = Nil /\ r.page # "fetch")

Expected(policy, r) == IF policy.origin # Nil THEN policy.origin ELSE r.host.origin

MatchesOrigin(policy, r, value) == value # Garbage /\ value.origin = Expected(policy, r)

SameOrigin(policy, r) ==
  /\ r.site \in {Nil, "same-origin", "none"}
  /\ r.origins # <<>> => MatchesOrigin(policy, r, r.origins[1])
  /\ r.referer # Nil => MatchesOrigin(policy, r, r.referer)

RequiredOrigin(policy, r) ==
  /\ Len(r.origins) = 1
  /\ r.origins[1] # Garbage /\ r.origins[1].bare
  /\ SameOrigin(policy, r)

(* Either a page is asked for by its fetch destination or it is accepted.  *)
Navigation(r) == r.page \in {"fetch", "accept"}

Safe == {"GET", "HEAD", "OPTIONS"}

PublicRequest(r) ==
  \/ r.method = "GET" /\ r.path = "session"
  \/ r.method = "POST" /\ r.path \in {"login", "logout"}
  \/ r.method \in {"GET", "HEAD"} /\ r.path = "loginPage"

LoginRedirect(r) ==
  r.method \in {"GET", "HEAD"} /\ Navigation(r) /\ r.path = "console"

(* protect up to the login throttle: Nil lets the request through.        *)
Gate(policy, r) ==
  LET authWrite == r.method = "POST" /\ r.path \in {"login", "logout"}
  IN CASE r.host = Nil -> "forbidden"
       [] r.host # Nil /\ ~Required(policy) /\ ~r.host.loopback -> "forbidden"
       [] r.host # Nil /\ authWrite /\ ~RequiredOrigin(policy, r) -> "forbidden"
       [] r.host # Nil /\ authWrite /\ RequiredOrigin(policy, r) /\ r.query -> "badRequest"
       [] OTHER -> Nil

(* The rest of it: active says whether the cookie's session is.            *)
Admit(policy, r, active) ==
  CASE ~PublicRequest(r) /\ ~Authorized(policy, r) /\ ~active ->
         IF LoginRedirect(r) THEN "redirect" ELSE "unauthorized"
    [] r.path = "connection" /\ r.query -> "badRequest"
    [] r.path = "connection" /\ ~RequiredOrigin(policy, r) -> "forbidden"
    [] r.method \notin Safe /\ ~SameOrigin(policy, r) -> "forbidden"
    [] OTHER -> "next"

(* The session a handler is given: none when the header was enough.        *)
SessionOf(policy, r) ==
  IF PublicRequest(r) \/ Authorized(policy, r) THEN Nil ELSE CookieDigest(policy, r)
===============================================================================

----------------------------- MODULE AccessGate -----------------------------
(***************************************************************************)
(* The access-phase gate (ngx_http_auth_webauthn_access_handler) composed   *)
(* with the login path.  The verify endpoint signs session tokens; a gated  *)
(* location accepts a cookie by signature, audience, issuer and expiry,     *)
(* without asking Redis, so a session outlives the revocation of its        *)
(* credential.  Both read ngx_time(), which a worker refreshes only when it *)
(* returns to its event loop: the blocking Redis commands let it fall       *)
(* behind the clock.                                                        *)
(***************************************************************************)
EXTENDS Login

CONSTANTS
  Minter,       \* the verify location's secret and rp_id
  Gate,         \* configurations of the gated locations
  Foreign,      \* cookies a client may hold that Minter did not sign
  JwtTtl,       \* auth_webauthn_jwt_ttl
  MaxLag,       \* how far a worker's cached time may fall behind
  MaxTime       \* bound on the clock of the instance

ASSUME GateAssumption ==
  /\ JwtTtl \in Nat \ {0}
  /\ MaxLag \in Nat
  /\ MaxTime \in Nat
  /\ Nil \notin {Minter.secret, Minter.rp_id}
  /\ \A g \in Gate : g.auth \in BOOLEAN /\ g.signin_url \in BOOLEAN
  \* Only Minter signs for its rp_id with its secret under the module's issuer.
  /\ \A t \in Foreign :
       ~(t.key = Minter.secret /\ t.aud = Minter.rp_id
         /\ t.iss = "nginx-webauthn")

VARIABLES
  clock,        \* the time of day, in seconds
  cached,       \* ngx_time() of each worker
  sessions,     \* the session tokens handed out
  lostAt,       \* history: when each identity last stopped being enrolled
  ctx           \* the request context of the gated request a worker serves

gateVars == <<clock, cached, sessions, lostAt, ctx>>
accessVars == <<loginVars, gateVars>>

\* Who can log in: the registered credentials, each with the user its record
\* names.
Identity == CredId \X User
Enrolled ==
  {i \in Identity : i[1] \in registered /\ record[i[1]].user_id = i[2]}

\* No cookie of the configured name; one that does not decode, or that no key
\* verifies.
NoCookie == Nil
Garbage == [key |-> Nil, aud |-> Nil, iss |-> "other", sub |-> Nil,
            cid |-> Nil, exp |-> 0]

\* The gate and the verify location share secret and rp_id.
Ours(g) == g.secret = Minter.secret /\ g.rp_id = Minter.rp_id

AccessInit ==
  /\ LoginInit
  /\ clock = 0
  /\ cached = [w \in Worker |-> 0]
  /\ sessions = {}
  /\ lostAt = [i \in Identity |-> Nil]
  /\ ctx = [w \in Worker |-> Nil]

-----------------------------------------------------------------------------
(* The login path with its clock.                                          *)

\* Mutant: the time is taken anew after the blocking counter update.
Token_FreshTime(w) ==
  [key |-> Minter.secret, aud |-> Minter.rp_id, iss |-> "nginx-webauthn",
   sub |-> got[w].user_id, cid |-> pres[w].id, exp |-> clock + JwtTtl]

\* The claims verify signs.  `now' was read before the counter update, in the
\* same turn of the event loop as the whole request.
Token(w) ==
  [key |-> Minter.secret, aud |-> Minter.rp_id, iss |-> "nginx-webauthn",
   sub |-> got[w].user_id, cid |-> pres[w].id, exp |-> cached[w] + JwtTtl]

\* A step of the login path: the cookie carries a new session.
LoginStep(w) ==
  /\ ctx[w] = Nil
  /\ \/ WorkerStart(w) /\ UNCHANGED <<cached, sessions>>
     \/ /\ WorkerStep(w)
        /\ sessions' = IF minted' # minted
                       THEN sessions \cup {Token(w)} ELSE sessions
        /\ UNCHANGED cached
     \/ /\ WorkerDies(w)
        /\ cached' = [cached EXCEPT ![w] = clock]
        /\ UNCHANGED sessions
  /\ UNCHANGED <<clock, lostAt, ctx>>

OperatorStep(a) ==
  /\ CliStep(a)
  /\ lostAt' = [i \in Identity |-> IF i \in Enrolled \ Enrolled' THEN clock
                                  ELSE lostAt[i]]
  /\ UNCHANGED <<clock, cached, sessions, ctx>>

\* A second passes.  A handler does not hold its worker longer than MaxLag.
Second ==
  /\ clock < MaxTime
  /\ \A w \in Worker : clock + 1 - cached[w] <= MaxLag
  /\ clock' = clock + 1
  /\ UNCHANGED <<loginVars, cached, sessions, lostAt, ctx>>

\* ngx_time_update: the worker is back in its event loop.
TimeUpdate(w) ==
  /\ pc[w] = "idle"
  /\ cached[w] # clock
  /\ cached' = [cached EXCEPT ![w] = clock]
  /\ UNCHANGED <<loginVars, clock, sessions, lostAt, ctx>>

-----------------------------------------------------------------------------
(* The access handler.                                                     *)

\* build_jwks and jws_verify: the one key of the location signed the token.
jws_verify(g, t) == t.key = g.secret

\* Mutant: the audience is not compared.
Genuine_AnyAudience(g, t) ==
  /\ jws_verify(g, t)
  /\ t.iss = "nginx-webauthn"

\* The signature, then the claims that say for whom and by whom.
Genuine(g, t) ==
  /\ jws_verify(g, t)
  /\ t.aud = g.rp_id
  /\ t.iss = "nginx-webauthn"

\* Mutant: a token is still good in the second it expires in.
Expired_Late(t, now) == t.exp < now

Expired(t, now) == t.exp <= now

\* auth_status of a cookie at a gate whose worker's clock shows now.
auth_status(g, t, now) ==
  IF t = NoCookie THEN "unauthenticated"
  ELSE IF ~Genuine(g, t) THEN "invalid"
  ELSE IF Expired(t, now) THEN "expired"
  ELSE "authenticated"

\* unauthorized: 401, or a redirect to the sign-in page.
unauthorized(g) == IF g.signin_url THEN "302" ELSE "401"

NoCtx(g, rc) ==
  [gate |-> g, rc |-> rc, auth_status |-> "unauthenticated",
   user_id |-> Nil, credential_id |-> Nil, jwt_exp |-> Nil]

\* The context of a token that passed every check.
FullCtx(g, t, rc) ==
  [gate |-> g, rc |-> rc, auth_status |-> "authenticated",
   user_id |-> t.sub, credential_id |-> t.cid, jwt_exp |-> t.exp]

\* The worker takes a gated request and leaves context x behind.
Leave(w, x) ==
  /\ pc[w] = "idle"
  /\ ctx[w] = Nil
  /\ ctx' = [ctx EXCEPT ![w] = x]
  /\ UNCHANGED <<loginVars, clock, cached, sessions, lostAt>>

Decline(w, g) == ~g.auth /\ Leave(w, NoCtx(g, "declined"))

NoSecret(w, g) == g.auth /\ g.secret = Nil /\ Leave(w, NoCtx(g, "500"))

Deny(w, g, t) ==
  LET st == auth_status(g, t, cached[w]) IN
  /\ g.auth /\ g.secret # Nil
  /\ st # "authenticated"
  /\ Leave(w, [NoCtx(g, unauthorized(g)) EXCEPT !.auth_status = st])

Grant(w, g, t) ==
  /\ g.auth /\ g.secret # Nil
  /\ auth_status(g, t, cached[w]) = "authenticated"
  /\ Leave(w, FullCtx(g, t, "ok"))

\* apply_headers fails after the token was accepted: a value that cannot be
\* put together, or no memory for a request header.
apply_headers_fails(w, g, t) ==
  /\ "nomem" \in Faults
  /\ g.auth /\ g.secret # Nil
  /\ auth_status(g, t, cached[w]) = "authenticated"
  /\ Leave(w, FullCtx(g, t, "500"))

\* An allocation fails: for the context, the key set, the Location header,
\* within the decoding or the verification of the token, which then counts as
\* invalid, or (token accepted) for the user id or the credential id.
NoMemory(w, g, t) ==
  LET st == auth_status(g, t, cached[w])
      none == NoCtx(g, "500") IN
  /\ "nomem" \in Faults
  /\ g.auth
  /\ \/ Leave(w, none)
     \/ /\ g.secret # Nil /\ t # NoCookie
        /\ \E rc \in {unauthorized(g)} \cup (IF g.signin_url THEN {"500"} ELSE {}) :
             Leave(w, [NoCtx(g, rc) EXCEPT !.auth_status = "invalid"])
     \/ /\ g.secret # Nil /\ g.signin_url /\ st # "authenticated"
        /\ Leave(w, [none EXCEPT !.auth_status = st])
     \/ /\ g.secret # Nil /\ st = "authenticated"
        /\ \/ Leave(w, [none EXCEPT !.jwt_exp = t.exp])
           \/ Leave(w, [none EXCEPT !.jwt_exp = t.exp, !.user_id = t.sub])

\* The gated request is over.
Done(w) ==
  /\ ctx[w] # Nil
  /\ ctx' = [ctx EXCEPT ![w] = Nil]
  /\ UNCHANGED <<loginVars, clock, cached, sessions, lostAt>>

access_handler(w) ==
  \E g \in Gate :
    \/ Decline(w, g)
    \/ NoSecret(w, g)
    \/ \E t \in sessions \cup Foreign \cup {NoCookie, Garbage} :
         \/ Deny(w, g, t) \/ Grant(w, g, t)
         \/ apply_headers_fails(w, g, t) \/ NoMemory(w, g, t)

\* What $webauthn_<name> of the request in worker w evaluates to.
variable(w, name) ==
  IF ctx[w] # Nil THEN ctx[w][name]
  ELSE IF name = "auth_status" THEN "unauthenticated" ELSE Nil

AccessNext ==
  \/ \E w \in Worker :
       LoginStep(w) \/ access_handler(w) \/ Done(w) \/ TimeUpdate(w)
  \/ \E a \in Admin : OperatorStep(a)
  \/ Tick /\ UNCHANGED <<credVars, verifyVars, gateVars>>
  \/ Second

AccessSpec == AccessInit /\ [][AccessNext]_accessVars

-----------------------------------------------------------------------------
(* Properties.                                                             *)

\* The expiry of every session, and the time a login in progress will count
\* from, stay tied to the last moment its user was enrolled with its
\* credential, however a revoke or a registration for another user overlaps
\* the login and however late the worker's clock is.
Dated(i, t) ==
  \/ i \in Enrolled /\ t <= clock
  \/ lostAt[i] # Nil /\ t <= lostAt[i]

SessionsDated ==
  /\ \A s \in sessions : Dated(<<s.cid, s.sub>>, s.exp - JwtTtl)
  /\ \A w \in Worker :
       /\ cached[w] <= clock /\ clock <= cached[w] + MaxLag
       /\ pc[w] \in {"judge", "update", "mint"} =>
            Dated(<<pres[w].id, got[w].user_id>>, cached[w])

\* The inductive invariant behind them: what the gate's own state can be, and
\* that every session carries the claims verify signs.
GateState ==
  /\ clock \in Nat
  /\ cached \in [Worker -> Nat]
  /\ lostAt \in [Identity -> Nat \cup {Nil}]
  /\ \A i \in Identity : lostAt[i] # Nil => lostAt[i] <= clock
  /\ ctx = [w \in Worker |-> ctx[w]]

SessionsOurs ==
  \A s \in sessions :
    /\ s.key = Minter.secret /\ s.aud = Minter.rp_id
    /\ <<s.cid, s.sub>> \in Identity /\ s.exp \in Nat

\* A revocation takes effect, and so does passing a credential on to another
\* user: the gate that shares secret and rp_id with the verify endpoint lets
\* requests through in the name of a user with a credential only within
\* JwtTtl + MaxLag seconds of the moment the two were last enrolled together.
Promise == INSTANCE AccessPromise WITH
  Grace <- JwtTtl + MaxLag,
  now <- clock,
  enrolled <- Enrolled,
  ended <- lostAt,
  granted <- [w \in Worker |->
                IF ctx[w] # Nil /\ ctx[w].rc = "ok" /\ Ours(ctx[w].gate)
                THEN <<ctx[w].credential_id, ctx[w].user_id>> ELSE Nil]

PromiseSpec == Promise!Spec

\* $webauthn_user_id and $webauthn_credential_id (which set_header passes to
\* the backend and the access log shows) name the holder of a session of this
\* relying party, also when the request then fails; a session of one relying
\* party gives no identity at another that shares its secret.
IdentityIsOwnSession ==
  \A w \in Worker :
    variable(w, "user_id") # Nil =>
      LET from == IF Ours(ctx[w].gate) THEN sessions ELSE Foreign IN
      \E s \in from : /\ s.aud = ctx[w].gate.rp_id
                      /\ s.sub = variable(w, "user_id")
                      /\ variable(w, "credential_id") \in {s.cid, Nil}

AccessInv ==
  /\ LoginInv /\ UsableIffRegistered /\ GateState /\ SessionsOurs
  /\ SessionsDated /\ IdentityIsOwnSession
=============================================================================

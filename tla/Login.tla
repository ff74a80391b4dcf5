-------------------------------- MODULE Login --------------------------------
(***************************************************************************)
(* The whole login path: workers running the challenge handler and the      *)
(* verify handler (ngx_http_auth_webauthn_verify_done) against the shared   *)
(* Redis, with admin CLI processes registering and revoking credentials at  *)
(* the same time.  A verify request is a chain of Redis commands with local *)
(* computation between them: GETDEL of the challenge, HGETALL of the        *)
(* record, the assertion decision, HSET of the counter, the session token.  *)
(***************************************************************************)
EXTENDS CredentialStore, ChallengeHandler, Assertion

CONSTANT
  Presented     \* what clients send besides the challenge: parsed assertions

ASSUME PresentedAssumption ==
  Presented \subseteq
    [id          : CredId,
     signer      : CredId \cup {Nil},
     signCount   : Count,
     type        : {"webauthn.get", "webauthn.create"},
     origin      : {"allowed", "other"},
     crossOrigin : {"absent", "false", "true"},
     authData    : {"parsed", "malformed"},
     atOrEd      : BOOLEAN,
     rpId        : {"ours", "other"},
     up          : BOOLEAN,
     uv          : BOOLEAN]

VARIABLES
  pres,         \* the assertion of each worker's verify request
  got,          \* the record credential_get returned to it
  redeemed,     \* history: challenges whose consume returned NGX_OK
  minted,       \* history: session tokens handed out for each challenge
  top           \* history: highest counter accepted since the last register
                \* HSET of the credential, Nil if none

verifyVars == <<pres, got, redeemed, minted, top>>
loginVars == <<credVars, challengeVars, verifyVars>>

VerifyPc == {"consume", "lookup", "judge", "update", "mint", "verified"}

\* Workers between a successful consume and their answer.
Holding == {"lookup", "judge", "update", "mint"}

-----------------------------------------------------------------------------
LoginInit ==
  /\ CredInit
  /\ ChallengeInit
  /\ pres = [w \in Worker |-> Nil]
  /\ got = [w \in Worker |-> NoHash]
  /\ redeemed = {}
  /\ minted = [c \in Challenge |-> 0]
  /\ top = [c \in CredId |-> Nil]

\* Close the handle, answer the verify request and forget its locals.
VerifyAnswer(w, s) ==
  /\ Answer(w, s, "verified")
  /\ pres' = [pres EXCEPT ![w] = Nil]
  /\ got' = [got EXCEPT ![w] = NoHash]

Goto(w, to) ==
  /\ pc' = [pc EXCEPT ![w] = to]
  /\ UNCHANGED <<conn, chal, status>>

\* verify_content: not a POST (405), or a body nginx will not read (413 stands
\* for its codes).
VerifyNotRead(w) ==
  /\ pc[w] = "idle"
  /\ \E s \in {405, 413} : VerifyAnswer(w, s)
  /\ UNCHANGED <<chalVars, rateVars, credVars, redeemed, minted, top>>

\* A body, JSON document, field or challenge that does not decode.
VerifyMalformed(w) ==
  /\ pc[w] = "idle"
  /\ VerifyAnswer(w, 401)
  /\ UNCHANGED <<chalVars, rateVars, credVars, redeemed, minted, top>>

\* A well-formed request for challenge c (Nil: none this server issued, or of
\* a wrong length) and the connection to Redis.
VerifyStart(w, a, c) ==
  /\ pc[w] = "idle"
  /\ pc' = [pc EXCEPT ![w] = "consume"]
  /\ conn' = [conn EXCEPT ![w] = "open"]
  /\ chal' = [chal EXCEPT ![w] = c]
  /\ pres' = [pres EXCEPT ![w] = a]
  /\ UNCHANGED <<status, chalVars, rateVars, credVars, got,
                 redeemed, minted, top>>

VerifyNoConnect(w) ==
  /\ pc[w] = "idle"
  /\ "closed" \in redis_connect
  /\ VerifyAnswer(w, 500)
  /\ UNCHANGED <<chalVars, rateVars, credVars, redeemed, minted, top>>

\* Mutant: GET, and the key is left to its expiry.
getdel_GetOnly(c) == ttl

\* GETDEL {prefix}chal:{raw}: what is left of the challenge keys.
getdel(c) == [ttl EXCEPT ![c] = 0]

\* challenge_consume: only a key that is still there lets the request go on.
challenge_consume(w, o) ==
  LET c == chal[w]
      found == c # Nil /\ ttl[c] > 0 IN
  /\ pc[w] = "consume"
  /\ ttl' = IF Applied(o) /\ found THEN getdel(c) ELSE ttl
  /\ IF Replied(o) /\ found
     THEN /\ Goto(w, "lookup")
          /\ redeemed' = redeemed \cup {c}
          /\ UNCHANGED <<pres, got>>
     ELSE /\ VerifyAnswer(w, 401)
          /\ UNCHANGED redeemed
  /\ UNCHANGED <<issued, served, rateVars, credVars, minted, top>>

\* Mutant: a lookup that fails leaves the request unfinished.
Lookup_NoAnswer(w, o) ==
  LET h == record[pres[w].id] IN
  /\ pc[w] = "lookup"
  /\ Replied(o) /\ credential_get(h)
  /\ Goto(w, "judge")
  /\ got' = [got EXCEPT ![w] = h]
  /\ UNCHANGED <<pres, chalVars, rateVars, credVars, redeemed, minted, top>>

\* credential_get of the id the client named.
Lookup(w, o) ==
  LET h == record[pres[w].id] IN
  /\ pc[w] = "lookup"
  /\ IF Replied(o) /\ credential_get(h)
     THEN /\ Goto(w, "judge")
          /\ got' = [got EXCEPT ![w] = h]
          /\ UNCHANGED pres
     ELSE VerifyAnswer(w, 401)
  /\ UNCHANGED <<chalVars, rateVars, credVars, redeemed, minted, top>>

\* assertion_verify, on the record as it was when it was read.
Judge(w) ==
  /\ pc[w] = "judge"
  /\ IF assertion_verify(pres[w], got[w].public_key, StoredCount(got[w]))
     THEN Goto(w, "update") /\ UNCHANGED <<pres, got>>
     ELSE VerifyAnswer(w, 401)
  /\ UNCHANGED <<chalVars, rateVars, credVars, redeemed, minted, top>>

\* credential_update_counter: HSET of the presented counter, whatever the
\* record is by now.  A failure is only logged; the handle is closed.
update_counter(w, o) ==
  LET c == pres[w].id IN
  /\ pc[w] = "update"
  /\ record' = IF Applied(o)
               THEN [record EXCEPT ![c] = CounterFields(@, pres[w].signCount)]
               ELSE record
  /\ pc' = [pc EXCEPT ![w] = "mint"]
  /\ conn' = [conn EXCEPT ![w] = "closed"]
  /\ top' = [top EXCEPT ![c] = IF @ = Nil \/ pres[w].signCount > @
                               THEN pres[w].signCount ELSE @]
  /\ UNCHANGED <<chal, status, index, cliVars, chalVars, rateVars,
                 pres, got, redeemed, minted>>

\* The session token for the user of the record read, in the Set-Cookie header.
SetCookie(w) == minted' = [minted EXCEPT ![chal[w]] = @ + 1]

\* Memory can run out before the header is set or, for the body, after it: then
\* the 500 carries the cookie.
Mint(w) ==
  /\ pc[w] = "mint"
  /\ \/ VerifyAnswer(w, 200) /\ SetCookie(w)
     \/ /\ "nomem" \in Faults
        /\ VerifyAnswer(w, 500)
        /\ SetCookie(w) \/ UNCHANGED minted
  /\ UNCHANGED <<chalVars, rateVars, credVars, redeemed, top>>

VerifyCommand(w) ==
  \E o \in redis_exec(conn[w]) :
    \/ challenge_consume(w, o)
    \/ Lookup(w, o)
    \/ update_counter(w, o)

VerifyStep(w) ==
  \/ VerifyCommand(w)
  \/ Judge(w)
  \/ Mint(w)
  \/ /\ Finish(w, "verified")
     /\ UNCHANGED <<chalVars, rateVars, credVars, verifyVars>>

\* What a worker does about its request without outside help.
WorkerStep(w) ==
  \/ ChallengeStep(w) /\ UNCHANGED <<credVars, verifyVars>>
  \/ VerifyStep(w)

WorkerStart(w) ==
  \/ /\ \/ \E c \in Challenge : ChallengeStart(w, c)
        \/ ChallengeNoConnect(w)
     /\ UNCHANGED <<credVars, verifyVars>>
  \/ \E a \in Presented, c \in served \cup {Nil} : VerifyStart(w, a, c)
  \/ VerifyNoConnect(w)
  \/ VerifyNotRead(w)
  \/ VerifyMalformed(w)

WorkerDies(w) ==
  /\ Die(w)
  /\ pres' = [pres EXCEPT ![w] = Nil]
  /\ got' = [got EXCEPT ![w] = NoHash]
  /\ UNCHANGED <<chalVars, rateVars, credVars, redeemed, minted, top>>

\* A register HSET starts a new enrolment of the credential.
Enrol(a) ==
  \E o \in redis_exec(cliConn[a]) :
    /\ PutRecord(a, o)
    /\ top' = IF Applied(o) THEN [top EXCEPT ![cliArg[a].cred] = Nil] ELSE top
    /\ UNCHANGED <<challengeVars, pres, got, redeemed, minted>>

CliStep(a) ==
  \/ Enrol(a)
  \/ /\ CliStart(a) \/ CliCommand(a) \/ CliKilled(a)
     /\ UNCHANGED <<challengeVars, verifyVars>>

LoginNext ==
  \/ \E w \in Worker : WorkerStart(w) \/ WorkerStep(w) \/ WorkerDies(w)
  \/ \E a \in Admin : CliStep(a)
  \/ Tick /\ UNCHANGED <<credVars, verifyVars>>

\* redis_timeout bounds every command, so a worker that is not killed goes on;
\* Redis keeps time.  Clients and operators may stop at any moment.
LoginFairness ==
  /\ \A w \in Worker : WF_loginVars(WorkerStep(w))
  /\ WF_loginVars(Tick /\ UNCHANGED <<credVars, verifyVars>>)

LoginSpec == LoginInit /\ [][LoginNext]_loginVars

FairLoginSpec == LoginSpec /\ LoginFairness

-----------------------------------------------------------------------------
(* Properties.                                                             *)

\* The types of the workers' locals and of the keys their requests use.
WorkerTypeOK ==
  /\ pc \in [Worker -> ChallengePc \cup VerifyPc]
  /\ conn \in [Worker -> Handle]
  /\ chal \in [Worker -> Challenge \cup {Nil}]
  /\ status \in [Worker -> Status]
  /\ ttl \in [Challenge -> 0..ChallengeTtl]
  /\ issued \in SUBSET Challenge
  /\ served \in SUBSET issued
  /\ hits \in Nat
  /\ window \in 0..RateWindow \cup {Nil}
  /\ recent \in [Age -> Nat]
  /\ pres \in [Worker -> Presented \cup {Nil}]
  /\ got \in [Worker -> Hash]
  /\ redeemed \in SUBSET Challenge
  /\ minted \in [Challenge -> Nat]
  /\ top \in [CredId -> Count \cup {Nil}]

\* Every key, index and local has its type.
LoginTypeOK == CredTypeOK /\ WorkerTypeOK

\* Replaying an assertion, on any worker and however requests overlap, fail or
\* are cut off, never yields a second session for one challenge.
OneSessionPerChallenge == \A c \in Challenge : minted[c] <= 1

\* A worker that is about to mint a session owns a redeemed challenge, has a user
\* to put into the token, and holds an assertion that is a login (not a
\* registration) at an allowed origin and this relying party, in no foreign
\* frame, with the user present and, if required, verified, signed with the key
\* of the credential it names.
MintJustified ==
  \A w \in Worker :
    pc[w] = "mint" =>
      LET a == pres[w] IN
      /\ chal[w] \in redeemed
      /\ got[w].user_id \in User
      /\ a.type = "webauthn.get" /\ a.origin = "allowed"
      /\ a.crossOrigin # "true" /\ a.rpId = "ours"
      /\ a.authData = "parsed" /\ ~a.atOrEd
      /\ a.up /\ (RequireUv => a.uv)
      /\ a.signer = a.id

\* The inductive invariant behind them.  A challenge is in one place at a time:
\* drawn by one worker, or stored, or held by the one worker that consumed it;
\* what a worker holds has not been minted yet.
WorkerLocals ==
  \A w \in Worker :
    /\ pc[w] \in {"rate", "issue"} => chal[w] \in Challenge \ issued
    /\ pc[w] = "allow" => chal[w] \in issued
    /\ pc[w] = "consume" => chal[w] \in issued \cup {Nil}
    /\ pc[w] \in Holding =>
         chal[w] \in redeemed /\ minted[chal[w]] = 0
    /\ pc[w] \in Holding \cup {"consume"} => pres[w] \in Presented
    /\ pc[w] \in {"judge", "update", "mint"} =>
         got[w].user_id \in User /\ got[w].public_key = pres[w].id
    /\ pc[w] \in {"update", "mint"} =>
         assertion_verify(pres[w], got[w].public_key, StoredCount(got[w]))

Exclusive ==
  \A w, v \in Worker :
    /\ w # v
    /\ \/ pc[w] \in {"rate", "issue"} /\ pc[v] \in {"rate", "issue"}
       \/ pc[w] \in Holding /\ pc[v] \in Holding
    => chal[w] # chal[v]

ChallengeLife ==
  \A c \in Challenge :
    /\ c \notin issued => ttl[c] = 0 /\ c \notin redeemed
    /\ ttl[c] > 0 => c \notin redeemed
    /\ c \notin redeemed => minted[c] = 0

WorkerInv ==
  /\ WorkerTypeOK
  /\ WorkerLocals
  /\ Exclusive
  /\ ChallengeLife
  /\ OneSessionPerChallenge

LoginInv == CredInv /\ WorkerInv

\* The login path implements the one-shot promise of OneShotLogin.
OneShot == INSTANCE OneShotLogin WITH left <- ttl, born <- issued

OneShotSpec == OneShot!Spec

\* Under strict clone detection the counters of the assertions a credential is
\* authenticated with only grow between two registrations of it.
AcceptedAdvance ==
  [][\A w \in Worker :
       (pc[w] = "update" /\ pc'[w] = "mint") =>
         LET last == top[pres[w].id] IN
           \/ last = Nil
           \/ pres[w].signCount > last
           \/ pres[w].signCount = 0 /\ last = 0]_loginVars

\* No two workers have one credential's record in hand at the same time.
VerifiersApart ==
  \A w, v \in Worker :
    (w # v /\ {pc[w], pc[v]} \subseteq {"judge", "update"})
      => pres[w].id # pres[v].id

\* The inductive invariant behind AcceptedAdvance for verifiers apart: the
\* counter in a usable record, and in the copy a worker decides on, is not
\* behind what was accepted.
CounterInv ==
  /\ \A c \in CredId :
       credential_get(record[c]) /\ top[c] # Nil
         => StoredCount(record[c]) >= top[c]
  /\ \A w \in Worker :
       /\ pc[w] \in {"consume", "lookup", "judge", "update"} => conn[w] = "open"
       /\ pc[w] \in {"judge", "update"} /\ top[pres[w].id] # Nil
            => StoredCount(got[w]) >= top[pres[w].id]
       /\ pc[w] = "update" =>
            check_counter(pres[w].signCount, StoredCount(got[w]))

\* Every request is answered and its worker is free again, whatever fails.
EveryRequestEnds == \A w \in Worker : pc[w] # "idle" ~> pc[w] = "idle"

\* credential.h: credential_update_counter updates "an existing credential".
NoPartialRecord ==
  \A c \in CredId : record[c] # NoHash => credential_get(record[c])

=============================================================================

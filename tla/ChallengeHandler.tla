-------------------------- MODULE ChallengeHandler --------------------------
(***************************************************************************)
(* /webauthn/challenge: the content handler that counts the request against *)
(* the client's quota, stores a fresh challenge with a time to live and     *)
(* answers with it (ngx_http_auth_webauthn_challenge_content), run by       *)
(* several nginx workers that share one Redis.  Time is the remaining life  *)
(* of the keys: Redis counts the expiries down.  One client address is      *)
(* modelled, since each has a counter key of its own.                       *)
(***************************************************************************)
EXTENDS Naturals, FiniteSets, RedisClient

CONSTANTS
  Worker,         \* nginx worker processes, on one or several nodes
  Challenge,      \* the 32-byte values RAND_bytes may draw
  ChallengeTtl,   \* auth_webauthn_challenge_ttl
  RateMax,        \* auth_webauthn_challenge_rate_limit; 0 switches it off
  RateWindow,     \* its window, in the same unit as ChallengeTtl
  MaxHits         \* bound on the counter: no request starts beyond it

ASSUME ChallengeAssumption ==
  /\ ChallengeTtl \in Nat \ {0}
  /\ RateMax \in Nat
  /\ RateWindow \in Nat \ {0}
  /\ MaxHits \in Nat
  /\ Nil \notin Challenge

VARIABLES
  pc,             \* where each worker is
  conn,           \* its Redis handle
  chal,           \* the challenge its request is about
  status,         \* the HTTP status it answered with, 0 before
  ttl,            \* {prefix}chal:{raw}: remaining life of the key, 0 if absent
  issued,         \* challenges that were ever stored
  served,         \* challenges a client received
  hits,           \* {prefix}ratelimit:challenge:{ip}: the counter, 0 if absent
  window,         \* remaining life of the counter key, Nil if it has no expiry
  recent          \* history: requests within the quota, by age

workerVars == <<pc, conn, chal, status>>
chalVars == <<ttl, issued, served>>
rateVars == <<hits, window, recent>>
challengeVars == <<pc, conn, chal, status, ttl, issued, served,
                   hits, window, recent>>

ChallengePc == {"idle", "rate", "issue", "allow", "served"}

Status == {0, 200, 401, 405, 413, 429, 500}

Age == 1..RateWindow

-----------------------------------------------------------------------------
ChallengeInit ==
  /\ pc = [w \in Worker |-> "idle"]
  /\ conn = [w \in Worker |-> "closed"]
  /\ chal = [w \in Worker |-> Nil]
  /\ status = [w \in Worker |-> 0]
  /\ ttl = [c \in Challenge |-> 0]
  /\ issued = {}
  /\ served = {}
  /\ recent = [i \in Age |-> 0]
  /\ \/ hits = 0 /\ window = 0
     \* a full counter whose expiry was lost, the case incr_expire heals
     \/ RateMax > 0 /\ hits = RateMax /\ window = Nil

\* Close the handle and answer; `at' tells the two handlers' answers apart.
Answer(w, s, at) ==
  /\ pc' = [pc EXCEPT ![w] = at]
  /\ conn' = [conn EXCEPT ![w] = "closed"]
  /\ chal' = [chal EXCEPT ![w] = Nil]
  /\ status' = [status EXCEPT ![w] = s]

\* Mutant: a generator that comes back to values used earlier.
Fresh_Reused(c) == \A v \in Worker : chal[v] # c

\* RAND_bytes: a value never stored before and not drawn by another worker.
Fresh(c) == c \notin issued /\ \A v \in Worker : chal[v] # c

\* A request arrives and the handler connects.  The random value is drawn here
\* rather than in challenge_issue: nobody sees it before SET.
ChallengeStart(w, c) ==
  /\ pc[w] = "idle"
  /\ Fresh(c)
  /\ hits < MaxHits
  /\ pc' = [pc EXCEPT ![w] = IF RateMax = 0 THEN "issue" ELSE "rate"]
  /\ conn' = [conn EXCEPT ![w] = "open"]
  /\ chal' = [chal EXCEPT ![w] = c]
  /\ UNCHANGED <<status, ttl, issued, served, hits, window, recent>>

ChallengeNoConnect(w) ==
  /\ pc[w] = "idle"
  /\ "closed" \in redis_connect
  /\ Answer(w, 500, "served")
  /\ UNCHANGED <<chalVars, rateVars>>

\* Mutants: EXPIRE at every hit; at the first only; added to what is left.
incr_expire_Always == RateWindow
incr_expire_FirstOnly == IF hits = 0 THEN RateWindow ELSE window
incr_expire_Added ==
  IF hits = 0 \/ window = Nil THEN RateWindow ELSE window + RateWindow

\* redis_incr_expire: the window of the counter key after one hit.  The expiry
\* is set on the first hit and on a counter that has none.
incr_expire ==
  IF hits = 0 \/ window = Nil THEN RateWindow ELSE window

\* Mutant: off by one.
over_quota_Late(count) == count > RateMax + 1

\* The test of the returned count against the quota.
over_quota(count) == count > RateMax

\* rate_limit: count the request; a counter that cannot be evaluated lets it
\* pass, on a handle that may be broken.
RateLimit(w, o) ==
  LET count == hits + 1
      over == Replied(o) /\ over_quota(count) IN
  /\ pc[w] = "rate"
  /\ IF Applied(o)
     THEN hits' = count /\ window' = incr_expire
     ELSE UNCHANGED <<hits, window>>
  /\ recent' = IF Replied(o) /\ ~over
               THEN [recent EXCEPT ![1] = @ + 1] ELSE recent
  /\ IF over
     THEN Answer(w, 429, "served")
     ELSE /\ pc' = [pc EXCEPT ![w] = "issue"]
          /\ conn' = [conn EXCEPT ![w] = HandleAfter(@, o)]
          /\ UNCHANGED <<chal, status>>
  /\ UNCHANGED chalVars

\* The answer with the challenge in it, unless memory runs out.
Serve(w) ==
  \/ /\ Answer(w, 200, "served")
     /\ served' = served \cup {chal[w]}
  \/ /\ "nomem" \in Faults
     /\ Answer(w, 500, "served")
     /\ UNCHANGED served

\* SET {prefix}chal:{raw} 1 EX ttl: the life of the challenge keys afterwards.
set_ex(c) == [ttl EXCEPT ![c] = ChallengeTtl]

\* Mutant: a failed SET is overlooked, as a failed counter is.
challenge_issue_FailOpen(w, o) ==
  /\ pc[w] = "issue"
  /\ IF Applied(o)
     THEN /\ ttl' = set_ex(chal[w])
          /\ issued' = issued \cup {chal[w]}
     ELSE UNCHANGED <<ttl, issued>>
  /\ Serve(w)
  /\ UNCHANGED rateVars

\* challenge_issue: SET of the challenge key, then either the lookup of
\* the user_id argument or the answer.
challenge_issue(w, o) ==
  /\ pc[w] = "issue"
  /\ IF Applied(o)
     THEN /\ ttl' = set_ex(chal[w])
          /\ issued' = issued \cup {chal[w]}
     ELSE UNCHANGED <<ttl, issued>>
  /\ \/ Replied(o) /\ Serve(w)
     \/ /\ Replied(o)
        /\ pc' = [pc EXCEPT ![w] = "allow"]
        /\ UNCHANGED <<conn, chal, status, served>>
     \/ ~Replied(o) /\ Answer(w, 500, "served") /\ UNCHANGED served
  /\ UNCHANGED rateVars

\* Mutant: a failed lookup is tried again on the same handle.
AllowCredentials_Retry(w, o) ==
  /\ pc[w] = "allow"
  /\ \/ Replied(o) /\ Serve(w)
     \/ /\ ~Replied(o)
        /\ conn' = [conn EXCEPT ![w] = HandleAfter(@, o)]
        /\ UNCHANGED <<pc, chal, status, served>>
  /\ UNCHANGED <<ttl, issued, rateVars>>

\* SMEMBERS of the user's index for allowCredentials: it only reads, but its
\* failure withholds a challenge that is already stored.
AllowCredentials(w, o) ==
  /\ pc[w] = "allow"
  /\ \/ Replied(o) /\ Serve(w)
     \/ ~Replied(o) /\ Answer(w, 500, "served") /\ UNCHANGED served
  /\ UNCHANGED <<ttl, issued, rateVars>>

\* The response is sent and the worker takes another request.
Finish(w, at) ==
  /\ pc[w] = at
  /\ pc' = [pc EXCEPT ![w] = "idle"]
  /\ status' = [status EXCEPT ![w] = 0]
  /\ UNCHANGED <<conn, chal>>

\* The worker process dies in the middle of a request.
Die(w) ==
  /\ "killed" \in Faults
  /\ pc[w] # "idle"
  /\ pc' = [pc EXCEPT ![w] = "idle"]
  /\ conn' = [conn EXCEPT ![w] = "closed"]
  /\ chal' = [chal EXCEPT ![w] = Nil]
  /\ status' = [status EXCEPT ![w] = 0]

\* A second passes: Redis counts every expiry down and drops what reaches 0.
Tick ==
  /\ \/ \E c \in Challenge : ttl[c] > 0
     \/ hits > 0 /\ window # Nil
     \/ \E i \in Age : recent[i] > 0
  /\ ttl' = [c \in Challenge |-> IF ttl[c] > 0 THEN ttl[c] - 1 ELSE 0]
  /\ window' = CASE window = Nil -> Nil
                 [] window = 0 -> 0
                 [] OTHER -> window - 1
  /\ hits' = IF window = 1 THEN 0 ELSE hits
  /\ recent' = [i \in Age |-> IF i = 1 THEN 0 ELSE recent[i - 1]]
  /\ UNCHANGED <<pc, conn, chal, status, issued, served>>

\* One Redis command of a worker in the challenge handler.
ChallengeCommand(w) ==
  \E o \in redis_exec(conn[w]) :
    \/ RateLimit(w, o)
    \/ challenge_issue(w, o)
    \/ AllowCredentials(w, o)

ChallengeStep(w) ==
  \/ ChallengeCommand(w)
  \/ Finish(w, "served") /\ UNCHANGED <<chalVars, rateVars>>

ChallengeNext ==
  \/ \E w \in Worker :
       \/ \E c \in Challenge : ChallengeStart(w, c)
       \/ ChallengeNoConnect(w)
       \/ ChallengeStep(w)
       \/ Die(w) /\ UNCHANGED <<chalVars, rateVars>>
  \/ Tick

\* Every blocking command ends (redis_timeout bounds it) and Redis keeps time.
ChallengeFairness ==
  /\ \A w \in Worker : WF_challengeVars(ChallengeStep(w))
  /\ WF_challengeVars(Tick)

ChallengeSpec ==
  ChallengeInit /\ [][ChallengeNext]_challengeVars /\ ChallengeFairness

-----------------------------------------------------------------------------
(* Properties of the handler and its rate limit.                           *)

\* Every local of a worker and every Redis key has its type.
ChallengeTypeOK ==
  /\ pc \in [Worker -> ChallengePc]
  /\ conn \in [Worker -> Handle]
  /\ chal \in [Worker -> Challenge \cup {Nil}]
  /\ status \in [Worker -> Status]
  /\ ttl \in [Challenge -> 0..ChallengeTtl]
  /\ issued \in SUBSET Challenge
  /\ served \in SUBSET issued
  /\ hits \in Nat
  /\ window \in 0..RateWindow \cup {Nil}
  /\ recent \in [Age -> Nat]

\* "repeated requests never extend the lockout" (comment of rate_limit): while
\* the counter key lives, no request of any worker lengthens its life.
WindowNeverExtended ==
  [][(window # Nil /\ window > 0) => window' \in 0..window]_challengeVars

\* The requests within the quota in the last n seconds.
passed[n \in 0..RateWindow] == IF n = 0 THEN 0 ELSE passed[n - 1] + recent[n]

\* docs/DIRECTIVES.md: a fixed-window counter "may allow a burst of up to
\* 2*max across a window boundary": in no period as long as the window are
\* more requests than that let through, however the workers interleave.
BurstBound == passed[RateWindow] <= 2 * RateMax

\* The inductive invariant behind them.  The counter key lives exactly while it
\* counts something.  Of a live window, the requests let through since it began
\* are within the quota and were counted; so were those of the window before,
\* as far as they are recent.
KeyLife ==
  /\ window = 0 <=> hits = 0
  /\ window = Nil => hits = RateMax

PrefixSums ==
  {p \in [0..RateWindow -> Nat] :
     /\ p[0] = 0
     /\ \A n \in Age : p[n] = p[n - 1] + recent[n]}

QuotaKept(p) ==
  /\ window \in {0, Nil} => recent[1] = 0 /\ p[RateWindow] <= RateMax
  /\ window \in Age =>
       LET now == RateWindow - window + 1 IN
       /\ p[now] <= hits /\ p[now] <= RateMax
       /\ p[RateWindow] <= p[now] + RateMax

\* What a worker holds at each place in the challenge handler.
Drawn ==
  \A w \in Worker :
    /\ pc[w] \in {"rate", "issue"} => chal[w] \in Challenge
    /\ pc[w] = "allow" => chal[w] \in issued

ChallengeInv ==
  /\ ChallengeTypeOK /\ Drawn /\ KeyLife
  /\ \E p \in PrefixSums : QuotaKept(p)

\* A client that was told 429 is not locked out for good, even when the
\* counter it met had lost its expiry.
LockoutEnds ==
  \A w \in Worker : status[w] = 429 ~> hits = 0

\* A stored challenge disappears even if nobody received or used it: SET lost
\* its reply, SMEMBERS failed, or the worker died.
ChallengeExpires ==
  \A c \in Challenge : ttl[c] > 0 ~> ttl[c] = 0

\* Whatever Redis does, the handler answers and the worker is free again.
ChallengeAnswered ==
  \A w \in Worker : pc[w] # "idle" ~> pc[w] = "idle"

=============================================================================

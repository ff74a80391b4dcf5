-------------------------- MODULE AccessGateProofs --------------------------
(***************************************************************************)
(* Proofs about the access gate for every set of workers, credentials,      *)
(* gated locations and foreign cookies, every session lifetime and every    *)
(* lag of the workers' clocks.                                              *)
(***************************************************************************)
EXTENDS Integers, AccessGate, LoginProofs

\* The initial states satisfy the invariant.
LEMMA AccessInitInv == AccessInit => AccessInv
<1> SUFFICES ASSUME AccessInit PROVE AccessInv
  OBVIOUS
<1>1. LoginInv /\ UsableIffRegistered
  BY InitInv, HashFacts
  DEF AccessInit, LoginInit, CredInit, UsableIffRegistered, UsableIff
<1>2. GateState /\ SessionsOurs
  BY DEF AccessInit, GateState, SessionsOurs
<1>3. SessionsDated
  BY GateAssumption
  DEF AccessInit, LoginInit, ChallengeInit, SessionsDated
<1>4. IdentityIsOwnSession
  BY Zenon DEF AccessInit, IdentityIsOwnSession, variable
<1>5. QED
  BY <1>1, <1>2, <1>3, <1>4 DEF AccessInv

\* The login path is unaware of the gate: the workers' and the operators' steps
\* are steps of the login path, all others leave it alone.
LEMMA AccessLoginStep == [AccessNext]_accessVars => [LoginNext]_loginVars
<1> SUFFICES ASSUME [AccessNext]_accessVars
             PROVE  LoginNext \/ UNCHANGED loginVars
  OBVIOUS
<1>1. ASSUME NEW w \in Worker, LoginStep(w)
      PROVE  LoginNext
  BY <1>1 DEF LoginStep, LoginNext
<1>2. ASSUME NEW w \in Worker, access_handler(w) \/ Done(w) \/ TimeUpdate(w)
      PROVE  UNCHANGED loginVars
  BY <1>2 DEF access_handler, Decline, NoSecret, Deny, Grant,
              apply_headers_fails, NoMemory, Leave, Done, TimeUpdate
<1>3. ASSUME NEW a \in Admin, OperatorStep(a)
      PROVE  LoginNext
  BY <1>3 DEF OperatorStep, LoginNext
<1>4. CASE Tick /\ UNCHANGED <<credVars, verifyVars, gateVars>>
  BY <1>4 DEF LoginNext
<1>5. CASE Second \/ UNCHANGED accessVars
  BY <1>5 DEF Second, accessVars
<1>6. QED
  BY <1>1, <1>2, <1>3, <1>4, <1>5 DEF AccessNext

-----------------------------------------------------------------------------
(* Sessions and revocations.                                               *)

\* Nobody is registered or revoked, and no record gets another user.
SameUsers ==
  /\ registered' = registered
  /\ \A c \in CredId : record'[c].user_id = record[c].user_id

\* Where a login holds a record it has read.
Judging == {"judge", "update", "mint"}

\* What a step of worker w on the login path can do to what the gate relies on:
\* it enrols nobody, moves no other worker, starts to hold a record only by
\* reading a usable one, and hands out a session only from "mint".
LoginEffect(w) ==
  /\ SameUsers
  /\ \A v \in Worker \ {w} :
       pc'[v] = pc[v] /\ pres'[v] = pres[v] /\ got'[v] = got[v]
  /\ pc'[w] \in Judging =>
       /\ pres'[w] = pres[w]
       /\ \/ pc[w] \in Judging /\ got'[w] = got[w]
          \/ /\ pc[w] = "lookup" /\ credential_get(record[pres[w].id])
             /\ got'[w] = record[pres[w].id]
  /\ minted' # minted => pc[w] = "mint"

\* Then the same identities are enrolled.
LEMMA SameEnrolled ==
  ASSUME SameUsers
  PROVE  Enrolled' = Enrolled
BY DEF SameUsers, Enrolled, Identity

\* A worker that answers or goes back to idle holds no record.
LEMMA AnswerEffect ==
  ASSUME NEW w \in Worker, WorkerInv, NEW s, NEW at \in {"served", "verified"},
         Answer(w, s, at)
  PROVE  /\ \A v \in Worker \ {w} : pc'[v] = pc[v]
         /\ pc'[w] \notin Judging
BY DEF WorkerInv, WorkerTypeOK, Answer, Judging

LEMMA VerifyAnswerEffect ==
  ASSUME NEW w \in Worker, WorkerInv, NEW s, VerifyAnswer(w, s),
         SameUsers, minted' # minted => pc[w] = "mint"
  PROVE  LoginEffect(w)
<1>1. \A v \in Worker \ {w} : pres'[v] = pres[v] /\ got'[v] = got[v]
  BY DEF VerifyAnswer, WorkerInv, WorkerTypeOK
<1>2. QED
  BY <1>1, AnswerEffect DEF VerifyAnswer, LoginEffect

LEMMA ChallengeEffect ==
  ASSUME NEW w \in Worker, LoginInv, UNCHANGED <<credVars, verifyVars>>,
         \/ \E c \in Challenge : ChallengeStart(w, c)
         \/ ChallengeNoConnect(w)
         \/ ChallengeStep(w)
  PROVE  LoginEffect(w)
<1> USE DEF LoginInv, WorkerInv
<1>1. SameUsers /\ minted' = minted /\ pres' = pres /\ got' = got
  BY DEF credVars, verifyVars, SameUsers
<1>2. SUFFICES /\ \A v \in Worker \ {w} : pc'[v] = pc[v]
               /\ pc'[w] \notin Judging
  BY <1>1 DEF LoginEffect
<1>3. CASE ChallengeNoConnect(w)
  BY <1>3, AnswerEffect DEF ChallengeNoConnect
<1>4. CASE \E c \in Challenge : ChallengeStart(w, c)
  BY <1>4 DEF ChallengeStart, WorkerTypeOK, Judging
<1>5. CASE \E o : RateLimit(w, o)
  BY <1>5, AnswerEffect DEF RateLimit, WorkerTypeOK, Judging
<1>6. CASE \E o : challenge_issue(w, o) \/ AllowCredentials(w, o)
  BY <1>6, AnswerEffect
  DEF challenge_issue, AllowCredentials, Serve, WorkerTypeOK, Judging
<1>7. CASE Finish(w, "served")
  BY <1>7 DEF Finish, WorkerTypeOK, Judging
<1>8. QED
  BY <1>3, <1>4, <1>5, <1>6, <1>7 DEF ChallengeStep, ChallengeCommand

LEMMA VerifyEffect ==
  ASSUME NEW w \in Worker, LoginInv, VerifyStep(w)
  PROVE  LoginEffect(w)
<1> USE DEF LoginInv, WorkerInv
<1>1. CASE \E o : challenge_consume(w, o)
  <2> PICK o : challenge_consume(w, o)
    BY <1>1
  <2>1. SameUsers /\ minted' = minted
    BY DEF challenge_consume, credVars, SameUsers
  <2>2. CASE VerifyAnswer(w, 401)
    BY <2>1, <2>2, VerifyAnswerEffect
  <2>3. CASE Goto(w, "lookup") /\ UNCHANGED <<pres, got>>
    BY <2>1, <2>3 DEF Goto, LoginEffect, WorkerTypeOK, Judging
  <2>4. QED
    BY <2>2, <2>3 DEF challenge_consume
<1>2. CASE \E o : Lookup(w, o)
  <2> PICK o : Lookup(w, o)
    BY <1>2
  <2>1. SameUsers /\ minted' = minted
    BY DEF Lookup, credVars, SameUsers
  <2>2. CASE VerifyAnswer(w, 401)
    BY <2>1, <2>2, VerifyAnswerEffect
  <2>3. CASE /\ pc[w] = "lookup" /\ credential_get(record[pres[w].id])
             /\ Goto(w, "judge") /\ UNCHANGED pres
             /\ got' = [got EXCEPT ![w] = record[pres[w].id]]
    BY <2>1, <2>3 DEF Goto, LoginEffect, WorkerTypeOK, Judging
  <2>4. QED
    BY <2>2, <2>3 DEF Lookup
<1>3. CASE Judge(w)
  <2>1. SameUsers /\ minted' = minted
    BY <1>3 DEF Judge, credVars, SameUsers
  <2>2. CASE VerifyAnswer(w, 401)
    BY <2>1, <2>2, VerifyAnswerEffect
  <2>3. CASE pc[w] = "judge" /\ Goto(w, "update") /\ UNCHANGED <<pres, got>>
    BY <2>1, <2>3 DEF Goto, LoginEffect, WorkerTypeOK, Judging
  <2>4. QED
    BY <1>3, <2>2, <2>3 DEF Judge
<1>4. CASE \E o : update_counter(w, o)
  <2> PICK o : update_counter(w, o)
    BY <1>4
  <2>1. pres[w].id \in CredId /\ pres[w].signCount \in Count
    BY PresentedFields DEF update_counter, WorkerLocals, Holding
  <2>2. record \in [CredId -> Hash]
    BY DEF CredInv, CredTypeOK
  <2>3. SameUsers
    <3>1. CounterFields(record[pres[w].id], pres[w].signCount).user_id
            = record[pres[w].id].user_id
      BY <2>1, <2>2, HashFacts
    <3>2. QED
      BY <2>1, <2>2, <3>1 DEF update_counter, cliVars, SameUsers
  <2>4. QED
    BY <2>3 DEF update_counter, LoginEffect, WorkerTypeOK, Judging
<1>5. CASE Mint(w)
  <2>1. SameUsers /\ pc[w] = "mint"
    BY <1>5 DEF Mint, credVars, SameUsers
  <2>2. QED
    BY <1>5, <2>1, VerifyAnswerEffect DEF Mint
<1>6. CASE /\ Finish(w, "verified")
           /\ UNCHANGED <<chalVars, rateVars, credVars, verifyVars>>
  BY <1>6
  DEF Finish, credVars, verifyVars, SameUsers, LoginEffect, WorkerTypeOK,
      Judging
<1>7. QED
  BY <1>1, <1>2, <1>3, <1>4, <1>5, <1>6 DEF VerifyStep, VerifyCommand

LEMMA WorkerEffect ==
  ASSUME NEW w \in Worker, LoginInv,
         WorkerStart(w) \/ WorkerStep(w) \/ WorkerDies(w)
  PROVE  LoginEffect(w)
<1> USE DEF LoginInv, WorkerInv
<1>1. CASE WorkerStep(w)
  BY <1>1, ChallengeEffect, VerifyEffect DEF WorkerStep
<1>2. ASSUME NEW a, NEW c, VerifyStart(w, a, c)
      PROVE  LoginEffect(w)
  BY <1>2
  DEF VerifyStart, credVars, SameUsers, LoginEffect, WorkerTypeOK, Judging
<1>3. CASE VerifyNoConnect(w) \/ VerifyNotRead(w) \/ VerifyMalformed(w)
  <2>1. SameUsers /\ minted' = minted
    BY <1>3 DEF VerifyNoConnect, VerifyNotRead, VerifyMalformed, credVars,
                SameUsers
  <2>2. QED
    BY <1>3, <2>1, VerifyAnswerEffect
    DEF VerifyNoConnect, VerifyNotRead, VerifyMalformed
<1>4. CASE WorkerStart(w)
  BY <1>2, <1>3, <1>4, ChallengeEffect DEF WorkerStart
<1>5. CASE WorkerDies(w)
  BY <1>5
  DEF WorkerDies, Die, credVars, SameUsers, LoginEffect, WorkerTypeOK, Judging
<1>6. QED
  BY <1>1, <1>4, <1>5

\* Time passing, logins and revocations never lose the date of an enrolment.
LEMMA DatedKept ==
  ASSUME GateState, NEW CONSTANT i \in Identity, NEW CONSTANT t \in Int,
         Dated(i, t),
         \/ /\ Enrolled' = Enrolled /\ UNCHANGED lostAt
            /\ clock' \in {clock, clock + 1}
         \/ \E a \in Admin : OperatorStep(a)
  PROVE  Dated(i, t)'
<1> USE DEF GateState, Dated
<1>1. CASE /\ Enrolled' = Enrolled /\ UNCHANGED lostAt
           /\ clock' \in {clock, clock + 1}
  BY <1>1
<1>2. CASE \E a \in Admin : OperatorStep(a)
  <2>1. /\ clock' = clock
        /\ lostAt'[i] = IF i \in Enrolled \ Enrolled' THEN clock
                        ELSE lostAt[i]
    BY <1>2 DEF OperatorStep
  <2>2. clock # Nil
    BY NilFacts
  <2>3. CASE i \in Enrolled \ Enrolled'
    BY <2>1, <2>2, <2>3
  <2>4. CASE i \notin Enrolled \ Enrolled'
    BY <2>1, <2>4
  <2>5. QED
    BY <2>3, <2>4
<1>3. QED
  BY <1>1, <1>2

\* The workers' clocks are at most MaxLag late.
ClocksClose ==
  \A w \in Worker : cached[w] <= clock /\ clock <= cached[w] + MaxLag

LEMMA DatedClocks ==
  ASSUME SessionsDated
  PROVE  ClocksClose
BY Zenon DEF SessionsDated, ClocksClose

\* The identity a login in progress is for.
Claimed(w) == <<pres[w].id, got[w].user_id>>

LEMMA ClaimedIdentity ==
  ASSUME LoginInv
  PROVE  \A w \in Worker : pc[w] \in Judging => Claimed(w) \in Identity
<1> SUFFICES ASSUME NEW w \in Worker, pc[w] \in Judging
             PROVE  Claimed(w) \in Identity
  OBVIOUS
<1>1. pres[w].id \in CredId /\ got[w].user_id \in User
  BY PresentedFields
  DEF LoginInv, WorkerInv, WorkerLocals, Holding, Judging
<1>2. QED
  BY <1>1 DEF Claimed, Identity

\* The gate's state after a step of a worker on the login path: the session it
\* may hand out is dated by the moment the record was read.
LEMMA LoginStepGate ==
  ASSUME NEW w \in Worker, AccessInv, LoginStep(w)
  PROVE  GateState' /\ SessionsOurs' /\ SessionsDated'
<1> USE DEF AccessInv
<1>1. LoginEffect(w) /\ UNCHANGED <<clock, lostAt, ctx>>
  BY WorkerEffect DEF LoginStep
<1>2. /\ cached' \in [Worker -> Nat]
      /\ \A v \in Worker \ {w} : cached'[v] = cached[v]
      /\ \/ cached'[w] = cached[w]
         \/ cached'[w] = clock /\ pc'[w] = "idle"
  BY DEF LoginStep, WorkerDies, Die, GateState, LoginInv, WorkerInv,
         WorkerTypeOK
<1>3. GateState'
  BY <1>1, <1>2 DEF GateState
<1>13. Enrolled' = Enrolled
  BY <1>1, SameEnrolled DEF LoginEffect
<1>4. ASSUME NEW CONSTANT i \in Identity, NEW CONSTANT t \in Int, Dated(i, t)
      PROVE  Dated(i, t)'
  BY <1>1, <1>4, <1>13, DatedKept
<1>5. \A v \in Worker : pc[v] \in Judging =>
        Claimed(v) \in Identity /\ cached[v] \in Int
        /\ Dated(Claimed(v), cached[v])
  BY ClaimedIdentity DEF GateState, SessionsDated, Judging, Claimed
<1>6. \/ sessions' = sessions
      \/ pc[w] = "mint" /\ sessions' = sessions \cup {Token(w)}
  <2>1. minted' # minted => pc[w] = "mint"
    BY <1>1 DEF LoginEffect
  <2>2. \/ sessions' = sessions
        \/ minted' # minted /\ sessions' = sessions \cup {Token(w)}
    BY DEF LoginStep
  <2>3. QED
    BY <2>1, <2>2
<1>7. ASSUME pc[w] = "mint"
      PROVE  /\ Token(w).key = Minter.secret /\ Token(w).aud = Minter.rp_id
             /\ <<Token(w).cid, Token(w).sub>> \in Identity
             /\ Token(w).exp \in Nat
             /\ Dated(<<Token(w).cid, Token(w).sub>>, Token(w).exp - JwtTtl)
  <2>1. /\ Token(w).key = Minter.secret /\ Token(w).aud = Minter.rp_id
        /\ <<Token(w).cid, Token(w).sub>> = Claimed(w)
        /\ Token(w).exp = cached[w] + JwtTtl
    BY DEF Token, Claimed
  <2>2. Claimed(w) \in Identity /\ Dated(Claimed(w), cached[w])
    BY <1>5, <1>7 DEF Judging
  <2>3. Token(w).exp \in Nat /\ Token(w).exp - JwtTtl = cached[w]
    BY <2>1, GateAssumption DEF GateState
  <2>4. QED
    BY <2>1, <2>2, <2>3
<1>8. SessionsOurs'
  BY <1>6, <1>7 DEF SessionsOurs
<1>9. \A s \in sessions' : Dated(<<s.cid, s.sub>>, s.exp - JwtTtl)'
  <2> SUFFICES ASSUME NEW CONSTANT s \in sessions'
               PROVE  Dated(<<s.cid, s.sub>>, s.exp - JwtTtl)'
    OBVIOUS
  <2>1. /\ <<s.cid, s.sub>> \in Identity /\ s.exp - JwtTtl \in Int
        /\ Dated(<<s.cid, s.sub>>, s.exp - JwtTtl)
    BY <1>6, <1>7, <1>8, GateAssumption DEF SessionsDated, SessionsOurs
  <2>2. QED
    BY <2>1, <1>4
<1>10. ASSUME NEW v \in Worker
       PROVE  /\ cached'[v] <= clock' /\ clock' <= cached'[v] + MaxLag
              /\ pc'[v] \in Judging => Dated(Claimed(v), cached[v])'
  <2>1. cached'[v] <= clock' /\ clock' <= cached'[v] + MaxLag
    BY <1>1, <1>2, GateAssumption, DatedClocks DEF GateState, ClocksClose
  <2>2. ASSUME pc[v] \in Judging, pres'[v] = pres[v], got'[v] = got[v],
               cached'[v] = cached[v]
        PROVE  Dated(Claimed(v), cached[v])'
    BY <1>1, <1>5, <1>13, <2>1, <2>2 DEF Dated, Claimed
  <2>3. CASE v # w
    BY <1>1, <1>2, <2>1, <2>2, <2>3 DEF LoginEffect
  <2>4. CASE v = w /\ pc'[w] \in Judging
    <3>1. cached'[w] = cached[w] /\ pres'[w] = pres[w]
      BY <1>1, <1>2, <2>4 DEF LoginEffect, Judging
    <3>2. CASE pc[w] \in Judging /\ got'[w] = got[w]
      BY <2>1, <2>2, <2>4, <3>1, <3>2
    <3>3. CASE /\ pc[w] = "lookup" /\ credential_get(record[pres[w].id])
               /\ got'[w] = record[pres[w].id]
      <4> DEFINE c == pres[w].id
                 u == record[c].user_id
      <4>1. c \in CredId
        BY <3>3, PresentedFields
        DEF LoginInv, WorkerInv, WorkerLocals, Holding
      <4>2. c \in registered /\ u \in User
        BY <3>3, <4>1
        DEF UsableIffRegistered, UsableIff, LoginInv, CredInv, RecordsSound
      <4>3. <<c, u>> \in Enrolled
        BY <4>1, <4>2 DEF Enrolled, Identity
      <4>4. Claimed(w)' = <<c, u>>
        BY <3>1, <3>3 DEF Claimed
      <4>5. Claimed(w)' \in Enrolled'
        BY <1>13, <4>3, <4>4
      <4>6. QED
        BY <2>1, <2>4, <4>5 DEF Dated
    <3>4. QED
      BY <1>1, <2>4, <3>2, <3>3 DEF LoginEffect
  <2>5. QED
    BY <2>1, <2>3, <2>4
<1>11. SessionsDated'
  BY <1>9, <1>10 DEF SessionsDated, Judging, Claimed
<1>12. QED
  BY <1>3, <1>8, <1>11

\* A revocation dates every session and every login in progress.
LEMMA OperatorStepGate ==
  ASSUME NEW a \in Admin, AccessInv, OperatorStep(a)
  PROVE  GateState' /\ SessionsOurs' /\ SessionsDated'
<1> USE DEF AccessInv
<1>1. /\ UNCHANGED <<clock, cached, sessions, ctx, pc, pres, got>>
      /\ lostAt' = [i \in Identity |-> IF i \in Enrolled \ Enrolled' THEN clock
                                       ELSE lostAt[i]]
  BY DEF OperatorStep, CliStep, Enrol, challengeVars, verifyVars
<1>2. GateState' /\ SessionsOurs'
  BY <1>1 DEF GateState, SessionsOurs
<1>3. ASSUME NEW CONSTANT i \in Identity, NEW CONSTANT t \in Int, Dated(i, t)
      PROVE  Dated(i, t)'
  BY <1>3, DatedKept
<1>4. \A s \in sessions' : Dated(<<s.cid, s.sub>>, s.exp - JwtTtl)'
  <2> SUFFICES ASSUME NEW CONSTANT s \in sessions'
               PROVE  Dated(<<s.cid, s.sub>>, s.exp - JwtTtl)'
    OBVIOUS
  <2>1. /\ <<s.cid, s.sub>> \in Identity /\ s.exp - JwtTtl \in Int
        /\ Dated(<<s.cid, s.sub>>, s.exp - JwtTtl)
    BY <1>1, GateAssumption DEF SessionsDated, SessionsOurs
  <2>2. QED
    BY <2>1, <1>3
<1>5. \A w \in Worker : pc'[w] \in Judging => Dated(Claimed(w), cached[w])'
  <2> SUFFICES ASSUME NEW w \in Worker, pc[w] \in Judging
               PROVE  Dated(Claimed(w), cached[w])'
    BY <1>1
  <2>1. /\ Dated(Claimed(w), cached[w]) /\ Claimed(w) \in Identity
        /\ cached[w] \in Int
    BY ClaimedIdentity DEF SessionsDated, Judging, Claimed, GateState
  <2>2. Claimed(w)' = Claimed(w) /\ cached'[w] = cached[w]
    BY <1>1 DEF Claimed
  <2>3. \A i \in Identity, t \in Int : Dated(i, t) =>
          \/ i \in Enrolled' /\ t <= clock'
          \/ lostAt'[i] # Nil /\ t <= lostAt'[i]
    BY <1>3 DEF Dated
  <2>4. QED
    BY <2>1, <2>2, <2>3 DEF Dated
<1>6. SessionsDated'
  BY <1>1, <1>4, <1>5 DEF SessionsDated, Judging, Claimed
<1>7. QED
  BY <1>2, <1>6

-----------------------------------------------------------------------------
(* Requests to gated locations.                                            *)

\* A cookie that a gate accepts is a session of the verify endpoint exactly
\* when the gate shares its secret and rp_id; else somebody else signed it.
LEMMA Accepted ==
  ASSUME AccessInv, NEW g, NEW now,
         NEW t \in sessions \cup Foreign \cup {NoCookie, Garbage},
         g.secret # Nil, auth_status(g, t, now) = "authenticated"
  PROVE  /\ t \in IF Ours(g) THEN sessions ELSE Foreign
         /\ t.aud = g.rp_id
         /\ ~(t.exp <= now)
<1>1. t # NoCookie /\ Genuine(g, t) /\ ~Expired(t, now)
  BY DEF auth_status
<1>2. t # Garbage
  BY <1>1 DEF Genuine, jws_verify, Garbage
<1>3. CASE t \in sessions
  BY <1>1, <1>3 DEF AccessInv, SessionsOurs, Genuine, jws_verify, Ours, Expired
<1>4. CASE t \in Foreign
  BY <1>1, <1>4, GateAssumption DEF Genuine, jws_verify, Ours, Expired
<1>5. QED
  BY <1>1, <1>2, <1>3, <1>4

\* The contexts a gated request can leave in worker w: without an identity and
\* not let through, or with that of an accepted cookie.
Refused(x) == x.user_id = Nil /\ x.rc # "ok"

Identified(w, x) ==
  \E g \in Gate : \E t \in sessions \cup Foreign \cup {NoCookie, Garbage} :
    /\ g.secret # Nil
    /\ auth_status(g, t, cached[w]) = "authenticated"
    /\ x.gate = g
    /\ x.user_id = t.sub
    /\ x.credential_id \in {t.cid, Nil}
    /\ x.rc = "ok" => x.credential_id = t.cid

LEMMA HandlerLeaves ==
  ASSUME NEW w \in Worker, access_handler(w)
  PROVE  \E x : Leave(w, x) /\ (Refused(x) \/ Identified(w, x))
<1> PICK g \in Gate :
      \/ Decline(w, g)
      \/ NoSecret(w, g)
      \/ \E t \in sessions \cup Foreign \cup {NoCookie, Garbage} :
           \/ Deny(w, g, t) \/ Grant(w, g, t)
           \/ apply_headers_fails(w, g, t) \/ NoMemory(w, g, t)
  BY DEF access_handler
<1>1. CASE Decline(w, g)
  <2>1. Refused(NoCtx(g, "declined"))
    BY DEF Refused, NoCtx
  <2>2. QED
    BY <1>1, <2>1 DEF Decline
<1>2. CASE NoSecret(w, g)
  <2>1. Refused(NoCtx(g, "500"))
    BY DEF Refused, NoCtx
  <2>2. QED
    BY <1>2, <2>1 DEF NoSecret
<1>3. ASSUME NEW t \in sessions \cup Foreign \cup {NoCookie, Garbage},
             Deny(w, g, t)
      PROVE  \E x : Leave(w, x) /\ Refused(x)
  <2> DEFINE st == auth_status(g, t, cached[w])
  <2>1. Refused([NoCtx(g, unauthorized(g)) EXCEPT !.auth_status = st])
    BY DEF Refused, NoCtx, unauthorized
  <2>2. QED
    BY <1>3, <2>1 DEF Deny
<1>4. ASSUME NEW t \in sessions \cup Foreign \cup {NoCookie, Garbage},
             Grant(w, g, t) \/ apply_headers_fails(w, g, t)
      PROVE  \E x : Leave(w, x) /\ Identified(w, x)
  <2>1. /\ g.secret # Nil
        /\ auth_status(g, t, cached[w]) = "authenticated"
        /\ \E rc : Leave(w, FullCtx(g, t, rc))
    BY <1>4 DEF Grant, apply_headers_fails
  <2>2. PICK rc : Leave(w, FullCtx(g, t, rc))
    BY <2>1
  <2>3. Identified(w, FullCtx(g, t, rc))
    BY <2>1 DEF Identified, FullCtx
  <2>4. QED
    BY <2>2, <2>3
<1>5. ASSUME NEW t \in sessions \cup Foreign \cup {NoCookie, Garbage},
             NoMemory(w, g, t)
      PROVE  \E x : Leave(w, x) /\ (Refused(x) \/ Identified(w, x))
  <2> DEFINE st == auth_status(g, t, cached[w])
             none == NoCtx(g, "500")
             named == [none EXCEPT !.jwt_exp = t.exp, !.user_id = t.sub]
  <2>1. /\ Refused(none)
        /\ Refused([none EXCEPT !.auth_status = st])
        /\ Refused([none EXCEPT !.jwt_exp = t.exp])
        /\ \A rc \in {unauthorized(g), "500"} :
             Refused([NoCtx(g, rc) EXCEPT !.auth_status = "invalid"])
    BY DEF Refused, NoCtx, unauthorized
  <2>2. ASSUME g.secret # Nil, st = "authenticated"
        PROVE  Identified(w, named)
    BY <2>2 DEF Identified, NoCtx
  <2>3. \/ Leave(w, none)
        \/ Leave(w, [none EXCEPT !.auth_status = st])
        \/ Leave(w, [none EXCEPT !.jwt_exp = t.exp])
        \/ g.secret # Nil /\ st = "authenticated" /\ Leave(w, named)
        \/ \E rc \in {unauthorized(g), "500"} :
             Leave(w, [NoCtx(g, rc) EXCEPT !.auth_status = "invalid"])
    BY <1>5 DEF NoMemory
  <2>4. QED
    BY <2>1, <2>2, <2>3
<1>6. QED
  BY <1>1, <1>2, <1>3, <1>4, <1>5

\* What a request leaves in its worker names the holder of a session.
LEMMA LeaveIdentity ==
  ASSUME NEW w \in Worker, NEW x, AccessInv, Leave(w, x),
         Refused(x) \/ Identified(w, x)
  PROVE  IdentityIsOwnSession'
<1> USE DEF AccessInv
<1>1. /\ sessions' = sessions
      /\ \A v \in Worker : ctx'[v] = IF v = w THEN x ELSE ctx[v]
  BY DEF Leave, GateState
<1>2. ASSUME NEW v \in Worker, variable(v, "user_id")' # Nil
      PROVE  \E s \in IF Ours(ctx'[v].gate) THEN sessions' ELSE Foreign :
               /\ s.aud = ctx'[v].gate.rp_id
               /\ s.sub = variable(v, "user_id")'
               /\ variable(v, "credential_id")' \in {s.cid, Nil}
  <2>1. CASE v # w
    BY <1>1, <1>2, <2>1 DEF IdentityIsOwnSession, variable
  <2>2. CASE v = w
    <3>1. x # Nil /\ x.user_id # Nil
      BY <1>1, <1>2, <2>2 DEF variable
    <3>2. Identified(w, x)
      BY <3>1 DEF Refused
    <3>3. PICK g \in Gate,
               t \in sessions \cup Foreign \cup {NoCookie, Garbage} :
            /\ g.secret # Nil
            /\ auth_status(g, t, cached[w]) = "authenticated"
            /\ x.gate = g
            /\ x.user_id = t.sub
            /\ x.credential_id \in {t.cid, Nil}
      BY <3>2 DEF Identified
    <3>4. t \in (IF Ours(g) THEN sessions ELSE Foreign) /\ t.aud = g.rp_id
      BY <3>3, Accepted
    <3>5. /\ ctx'[v].gate = g
          /\ variable(v, "user_id")' = t.sub
          /\ variable(v, "credential_id")' \in {t.cid, Nil}
      BY <1>1, <2>2, <3>1, <3>3 DEF variable
    <3>6. QED
      BY <1>1, <3>4, <3>5
  <2>3. QED
    BY <2>1, <2>2
<1>3. QED
  BY <1>2 DEF IdentityIsOwnSession, Ours

\* Steps that hand out no context keep the identities: sessions only grow.
LEMMA IdentityKept ==
  ASSUME IdentityIsOwnSession, sessions \subseteq sessions',
         \A v \in Worker : ctx'[v] \in {ctx[v], Nil}
  PROVE  IdentityIsOwnSession'
<1> SUFFICES ASSUME NEW v \in Worker, variable(v, "user_id")' # Nil
             PROVE  \E s \in IF Ours(ctx'[v].gate) THEN sessions' ELSE Foreign :
                      /\ s.aud = ctx'[v].gate.rp_id
                      /\ s.sub = variable(v, "user_id")'
                      /\ variable(v, "credential_id")' \in {s.cid, Nil}
  BY DEF IdentityIsOwnSession, Ours
<1>1. ctx'[v] = ctx[v]
  BY DEF variable
<1>2. QED
  BY <1>1 DEF IdentityIsOwnSession, variable

\* Steps of the gate and of the clocks keep the dates.
LEMMA ClockGate ==
  ASSUME AccessInv,
         \/ UNCHANGED <<clock, cached>>
         \/ UNCHANGED cached /\ Second
         \/ \E w \in Worker : TimeUpdate(w),
         UNCHANGED <<pc, pres, got, sessions, lostAt>>, Enrolled' = Enrolled,
         ctx' = [w \in Worker |-> ctx'[w]]
  PROVE  GateState' /\ SessionsOurs' /\ SessionsDated'
<1> USE DEF AccessInv
<1>1. /\ clock' \in {clock, clock + 1}
      /\ cached' \in [Worker -> Nat]
      /\ \A w \in Worker : /\ cached'[w] <= clock'
                           /\ clock' <= cached'[w] + MaxLag
                           /\ cached'[w] = cached[w] \/ pc[w] = "idle"
  BY GateAssumption, DatedClocks DEF GateState, ClocksClose, TimeUpdate, Second
<1>2. GateState'
  BY <1>1 DEF GateState
<1>3. SessionsOurs'
  BY DEF SessionsOurs
<1>4. \A s \in sessions' : Dated(<<s.cid, s.sub>>, s.exp - JwtTtl)'
  <2> SUFFICES ASSUME NEW CONSTANT s \in sessions'
               PROVE  Dated(<<s.cid, s.sub>>, s.exp - JwtTtl)'
    OBVIOUS
  <2>1. /\ <<s.cid, s.sub>> \in Identity /\ s.exp - JwtTtl \in Int
        /\ Dated(<<s.cid, s.sub>>, s.exp - JwtTtl)
    BY GateAssumption DEF SessionsDated, SessionsOurs
  <2>2. QED
    BY <1>1, <2>1, DatedKept
<1>5. \A w \in Worker : pc'[w] \in Judging => Dated(Claimed(w), cached[w])'
  BY <1>1 DEF SessionsDated, Judging, Dated, GateState, Claimed
<1>6. QED
  BY <1>1, <1>2, <1>3, <1>4, <1>5 DEF SessionsDated, Judging, Claimed

\* AccessInv is inductive.
LEMMA AccessStepInv == AccessInv /\ [AccessNext]_accessVars => AccessInv'
<1> SUFFICES ASSUME AccessInv, [AccessNext]_accessVars PROVE AccessInv'
  OBVIOUS
<1>1. LoginInv' /\ UsableIffRegistered'
  BY AccessLoginStep, StepInv, LoginUsable
  DEF AccessInv, UsableIffRegistered, UsableKept
<1> SUFFICES GateState' /\ SessionsOurs' /\ SessionsDated'
             /\ IdentityIsOwnSession'
  BY <1>1 DEF AccessInv
<1> USE DEF AccessInv
<1>2. ASSUME NEW w \in Worker, LoginStep(w)
      PROVE  GateState' /\ SessionsOurs' /\ SessionsDated'
             /\ IdentityIsOwnSession'
  <2>1. sessions \subseteq sessions' /\ ctx' = ctx
    BY <1>2 DEF LoginStep
  <2>2. QED
    BY <1>2, <2>1, LoginStepGate, IdentityKept
<1>3. ASSUME NEW a \in Admin, OperatorStep(a)
      PROVE  GateState' /\ SessionsOurs' /\ SessionsDated'
             /\ IdentityIsOwnSession'
  <2>1. sessions' = sessions /\ ctx' = ctx
    BY <1>3 DEF OperatorStep
  <2>2. QED
    BY <1>3, <2>1, OperatorStepGate, IdentityKept
<1>4. ASSUME NEW w \in Worker, access_handler(w)
      PROVE  GateState' /\ SessionsOurs' /\ SessionsDated'
             /\ IdentityIsOwnSession'
  <2>1. PICK x : Leave(w, x) /\ (Refused(x) \/ Identified(w, x))
    BY <1>4, HandlerLeaves
  <2>2. /\ UNCHANGED <<pc, pres, got, clock, cached, sessions, lostAt>>
        /\ Enrolled' = Enrolled
        /\ ctx' = [v \in Worker |-> ctx'[v]]
    BY <2>1 DEF Leave, GateState, loginVars, credVars, challengeVars,
                verifyVars, Enrolled
  <2>3. QED
    BY <2>1, <2>2, ClockGate, LeaveIdentity
<1>5. CASE \/ \E w \in Worker : Done(w) \/ TimeUpdate(w)
           \/ Tick /\ UNCHANGED <<credVars, verifyVars, gateVars>>
           \/ Second
           \/ UNCHANGED accessVars
  <2>1. UNCHANGED <<pc, pres, got, sessions, lostAt>> /\ Enrolled' = Enrolled
    BY <1>5 DEF Done, TimeUpdate, Tick, Second, accessVars, gateVars,
                loginVars, credVars, challengeVars, verifyVars, Enrolled
  <2>2. /\ ctx' = [v \in Worker |-> ctx'[v]]
        /\ \A v \in Worker : ctx'[v] \in {ctx[v], Nil}
    BY <1>5 DEF Done, TimeUpdate, Second, accessVars, gateVars, GateState
  <2>3. \/ UNCHANGED <<clock, cached>>
        \/ UNCHANGED cached /\ Second
        \/ \E w \in Worker : TimeUpdate(w)
    BY <1>5 DEF Done, Second, accessVars, gateVars
  <2>4. QED
    BY <2>1, <2>2, <2>3, ClockGate, IdentityKept
<1>6. QED
  BY <1>2, <1>3, <1>4, <1>5 DEF AccessNext

\* The inductive invariant of the gate and the login path together.
THEOREM AccessInvariant == AccessSpec => []AccessInv
BY AccessInitInv, AccessStepInv, PTL DEF AccessSpec

\* However a revoke overlaps a login, and however late the workers' clocks are,
\* the expiry of every session is tied to the last moment at which its user
\* was enrolled with its credential.
THEOREM SessionsAreDated == AccessSpec => []SessionsDated
<1>1. AccessInv => SessionsDated
  BY DEF AccessInv
<1>2. QED
  BY <1>1, AccessInvariant, PTL

\* The identity a gated request shows to the backend and the log is that of a
\* session signed for this very relying party.
THEOREM IdentityIsGenuine == AccessSpec => []IdentityIsOwnSession
<1>1. AccessInv => IdentityIsOwnSession
  BY DEF AccessInv
<1>2. QED
  BY <1>1, AccessInvariant, PTL

-----------------------------------------------------------------------------
(* The gate implements AccessPromise.                                      *)

\* The identity in whose name worker w serves a gated request of ours.
Granted ==
  [w \in Worker |->
     IF ctx[w] # Nil /\ ctx[w].rc = "ok" /\ Ours(ctx[w].gate)
     THEN <<ctx[w].credential_id, ctx[w].user_id>> ELSE Nil]

\* What a step must leave alone to be a stuttering step of AccessPromise.
PromiseIdle == Enrolled' = Enrolled /\ UNCHANGED <<clock, lostAt, Granted>>

\* Whatever the admin CLI does is the abstract Change.
LEMMA OperatorPromise ==
  ASSUME NEW a \in Admin, OperatorStep(a)
  PROVE  Promise!Change
<1>1. UNCHANGED clock /\ UNCHANGED Granted
  BY DEF OperatorStep, Granted, Ours
<1>2. Enrolled' \in SUBSET Identity
  BY DEF Enrolled, Identity
<1>3. lostAt' = [i \in Identity |-> IF i \in Enrolled \ Enrolled' THEN clock
                                    ELSE lostAt[i]]
  BY DEF OperatorStep
<1>4. QED
  BY <1>1, <1>2, <1>3 DEF Promise!Change, Granted

\* A request let through at our gate carries a session that its worker, whose
\* clock is at most MaxLag late, does not find expired: the abstract Grant.
LEMMA HandlerPromise ==
  ASSUME NEW w \in Worker, AccessInv, access_handler(w)
  PROVE  Promise!Release(w) \/ \E i \in Identity : Promise!Grant(w, i)
<1> USE DEF AccessInv
<1>1. PICK x : Leave(w, x) /\ (Refused(x) \/ Identified(w, x))
  BY HandlerLeaves
<1> DEFINE i == IF x # Nil /\ x.rc = "ok" /\ Ours(x.gate)
                THEN <<x.credential_id, x.user_id>> ELSE Nil
<1>2. /\ UNCHANGED <<clock, lostAt>> /\ Enrolled' = Enrolled
      /\ \A v \in Worker : ctx'[v] = IF v = w THEN x ELSE ctx[v]
  BY <1>1 DEF Leave, GateState, loginVars, credVars, Enrolled
<1>3. Granted' = [Granted EXCEPT ![w] = i]
  BY <1>2 DEF Granted, Ours
<1>4. CASE ~(x # Nil /\ x.rc = "ok" /\ Ours(x.gate))
  BY <1>2, <1>3, <1>4 DEF Promise!Release, Granted
<1>5. CASE x # Nil /\ x.rc = "ok" /\ Ours(x.gate)
  <2>1. x.rc = "ok" /\ Ours(x.gate) /\ i = <<x.credential_id, x.user_id>>
    BY <1>5
  <2>2. Identified(w, x)
    BY <1>1, <2>1 DEF Refused
  <2>3. PICK g \in Gate,
             t \in sessions \cup Foreign \cup {NoCookie, Garbage} :
          /\ g.secret # Nil
          /\ auth_status(g, t, cached[w]) = "authenticated"
          /\ x.gate = g
          /\ x.user_id = t.sub
          /\ x.credential_id = t.cid
    BY <2>1, <2>2 DEF Identified
  <2>4. t \in sessions /\ ~(t.exp <= cached[w]) /\ i = <<t.cid, t.sub>>
    BY <2>1, <2>3, Accepted
  <2>5. i \in Identity /\ t.exp \in Nat /\ Dated(i, t.exp - JwtTtl)
    BY <2>4 DEF SessionsOurs, SessionsDated
  <2> HIDE DEF i
  <2>6. \/ i \in Enrolled
        \/ lostAt[i] # Nil /\ clock < lostAt[i] + (JwtTtl + MaxLag)
    <3>1. /\ cached[w] \in Nat /\ clock \in Nat
          /\ clock <= cached[w] + MaxLag
      BY DEF GateState, SessionsDated
    <3>2. lostAt[i] # Nil => lostAt[i] \in Nat
      BY <2>5 DEF GateState
    <3>3. QED
      BY <2>4, <2>5, <3>1, <3>2, GateAssumption DEF Dated
  <2>7. Promise!Grant(w, i)
    BY <1>2, <1>3, <2>6 DEF Promise!Grant, Granted
  <2>8. QED
    BY <2>5, <2>7
<1>6. QED
  BY <1>4, <1>5

\* Every step of the gate is a step of AccessPromise or invisible in it.
LEMMA PromiseStep ==
  AccessInv /\ [AccessNext]_accessVars
    => [Promise!Next]_<<clock, Enrolled, lostAt, Granted>>
<1> SUFFICES ASSUME AccessInv, [AccessNext]_accessVars
             PROVE  Promise!Next \/ PromiseIdle
  BY DEF PromiseIdle
<1>1. ASSUME NEW w \in Worker, LoginStep(w)
      PROVE  PromiseIdle
  <2>1. UNCHANGED <<clock, lostAt, ctx>> /\ Enrolled' = Enrolled
    BY <1>1, WorkerEffect, SameEnrolled DEF LoginStep, LoginEffect, AccessInv
  <2>2. QED
    BY <2>1 DEF PromiseIdle, Granted, Ours
<1>2. ASSUME NEW w \in Worker, access_handler(w)
      PROVE  Promise!Next
  BY <1>2, HandlerPromise DEF Promise!Next
<1>3. ASSUME NEW w \in Worker, Done(w)
      PROVE  Promise!Release(w)
  <2>1. /\ UNCHANGED <<clock, lostAt>> /\ Enrolled' = Enrolled
        /\ \A v \in Worker : ctx'[v] = IF v = w THEN Nil ELSE ctx[v]
    BY <1>3 DEF Done, AccessInv, GateState, loginVars, credVars, Enrolled
  <2>2. Granted' = [Granted EXCEPT ![w] = Nil]
    BY <2>1 DEF Granted, Ours
  <2>3. QED
    BY <2>1, <2>2 DEF Promise!Release, Granted
<1>4. ASSUME NEW w \in Worker, TimeUpdate(w)
      PROVE  PromiseIdle
  BY <1>4
  DEF TimeUpdate, PromiseIdle, Granted, Ours, loginVars, credVars, Enrolled
<1>5. ASSUME NEW a \in Admin, OperatorStep(a)
      PROVE  Promise!Next
  BY <1>5, OperatorPromise DEF Promise!Next
<1>6. CASE Second
  <2>1. Promise!Elapse
    BY <1>6
    DEF Second, Promise!Elapse, Granted, Ours, loginVars, credVars, Enrolled
  <2>2. QED
    BY <2>1 DEF Promise!Next
<1>7. CASE Tick /\ UNCHANGED <<credVars, verifyVars, gateVars>>
  BY <1>7 DEF PromiseIdle, Granted, Ours, credVars, gateVars, Enrolled
<1>8. CASE UNCHANGED accessVars
  BY <1>8
  DEF accessVars, gateVars, loginVars, credVars, PromiseIdle, Granted, Ours,
      Enrolled
<1>9. QED
  BY <1>1, <1>2, <1>3, <1>4, <1>5, <1>6, <1>7, <1>8 DEF AccessNext, Promise!Next

\* A revocation, or passing a credential on to another user, takes effect after
\* at most JwtTtl + MaxLag seconds at every gate that shares the secret and
\* rp_id of the verify endpoint.
THEOREM GateKeepsPromise == AccessSpec => PromiseSpec
<1>1. AccessInit => Promise!Init
  BY DEF AccessInit, LoginInit, CredInit, Promise!Init, Enrolled
<1>2. AccessInv /\ [AccessNext]_accessVars
        => [Promise!Next]_(Promise!promiseVars)
  BY PromiseStep DEF Promise!promiseVars, Granted
<1>3. QED
  BY <1>1, <1>2, AccessInvariant, PTL DEF AccessSpec, PromiseSpec, Promise!Spec
=============================================================================

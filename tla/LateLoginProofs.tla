--------------------------- MODULE LateLoginProofs ---------------------------
(***************************************************************************)
(* Proofs about the login path over a slow Redis, for any number of         *)
(* commands in flight: executing a command after its sender gave up on it   *)
(* breaks no promise about challenges and sessions, and changes what can    *)
(* authenticate only where the command is a register or a revoke itself.    *)
(***************************************************************************)
EXTENDS LateLogin, LoginProofs

\* The fields of the commands in flight, by operation.
LEMMA CommandFields ==
  ASSUME NEW m \in LateCommand
  PROVE  /\ m.op = "SET" => m.key \in Challenge
         /\ m.op = "GETDEL" => m.key \in Challenge \cup {Nil}
         /\ m.op = "HSET counter" => m.key \in CredId /\ m.count \in Count
         /\ m.op = "HSET record" =>
              m.key \in CredId /\ m.user \in User /\ m.count \in Count
         /\ m.op = "DEL" => m.key \in CredId
         /\ m.op \in {"SADD", "SREM"} => m.key \in User /\ m.cred \in CredId
BY DEF LateCommand

\* Two SETs in flight are for different challenges.
LEMMA SetKeys ==
  ASSUME NEW m \in LateCommand, NEW n \in LateCommand,
         m.op = "SET", n.op = "SET", m.key = n.key
  PROVE  m = n
<1>1. m \in [op : {"SET"}, key : Challenge]
  BY DEF LateCommand
<1>2. n \in [op : {"SET"}, key : Challenge]
  BY DEF LateCommand
<1>3. QED
  BY <1>1, <1>2

\* Every step but the late ones is a step of the login path.
LEMMA LateLoginStep ==
  [LateNext]_lateVars
    => [LoginNext]_loginVars \/ \E m \in limbo : ExecuteLate(m)
<1> SUFFICES ASSUME [LateNext]_lateVars
             PROVE  \/ LoginNext \/ UNCHANGED loginVars
                    \/ \E m \in limbo : ExecuteLate(m)
  OBVIOUS
<1>1. ASSUME NEW w \in Worker, LateWorker(w)
      PROVE  LoginNext
  <2>1. CASE \E o \in redis_exec(conn[w]) : WorkerCommand(w, o)
    BY <2>1 DEF WorkerCommand, LoginNext, WorkerStep, ChallengeStep,
                ChallengeCommand, VerifyStep, VerifyCommand
  <2>2. CASE WorkerLocal(w)
    BY <2>2 DEF WorkerLocal, LoginNext, WorkerStep, ChallengeStep, VerifyStep
  <2>3. CASE WorkerStart(w) \/ WorkerDies(w)
    BY <2>3 DEF LoginNext
  <2>4. QED
    BY <1>1, <2>1, <2>2, <2>3 DEF LateWorker
<1>2. ASSUME NEW a \in Admin, LateCli(a)
      PROVE  LoginNext
  <2>1. CASE /\ CliStart(a) \/ CliKilled(a)
             /\ UNCHANGED <<challengeVars, verifyVars>>
    BY <2>1 DEF LoginNext, CliStep
  <2>2. ASSUME NEW o \in redis_exec(cliConn[a]),
               \/ /\ PutRecord(a, o)
                  /\ top' = IF Applied(o)
                            THEN [top EXCEPT ![cliArg[a].cred] = Nil] ELSE top
               \/ CliCommandBy(a, o) /\ UNCHANGED top,
               UNCHANGED <<challengeVars, pres, got, redeemed, minted>>
        PROVE  CliStep(a)
    BY <2>2 DEF CliStep, Enrol, CliCommandBy, CliCommand, verifyVars
  <2>3. QED
    BY <1>2, <2>1, <2>2 DEF LateCli, LoginNext
<1>3. CASE Tick /\ UNCHANGED <<credVars, verifyVars, limbo, overtaken>>
  BY <1>3 DEF LoginNext
<1>4. CASE UNCHANGED lateVars
  BY <1>4 DEF lateVars
<1>5. QED
  BY <1>1, <1>2, <1>3, <1>4 DEF LateNext

-----------------------------------------------------------------------------
(* Commands executed late.                                                 *)

\* A late SET stores a challenge that is nowhere else.
LEMMA LateSetInv ==
  ASSUME NEW m \in limbo, LateInv, LateSet(m)
  PROVE  WorkerInv'
<1> DEFINE c == m.key
<1> USE DEF LateInv, LoginInv, WorkerInv
<1>1. /\ c \in Challenge \ issued
      /\ \A w \in Worker : pc[w] \in {"rate", "issue"} => chal[w] # c
  BY CommandFields DEF LateSet, SetsApart
<1>2. /\ ttl' = [ttl EXCEPT ![c] = ChallengeTtl]
      /\ issued' = issued \cup {c}
      /\ UNCHANGED <<pc, conn, chal, status, served, hits, window, recent,
                     pres, got, redeemed, minted, top>>
  BY DEF LateSet, set_ex, workerVars, rateVars, verifyVars
<1> HIDE DEF c
<1>3. WorkerTypeOK'
  BY <1>1, <1>2, ChallengeAssumption DEF WorkerTypeOK
<1>4. \A d \in Challenge \ {c} : ttl'[d] = ttl[d]
  BY <1>1, <1>2 DEF WorkerTypeOK
<1>5. WorkerLocals'
  BY <1>1, <1>2 DEF WorkerLocals
<1>6. Exclusive'
  BY <1>2 DEF Exclusive
<1>7. ChallengeLife' /\ OneSessionPerChallenge'
  BY <1>1, <1>2, <1>4 DEF ChallengeLife, OneSessionPerChallenge
<1>8. QED
  BY <1>3, <1>5, <1>6, <1>7

\* A late GETDEL only takes a challenge away.
LEMMA LateGetdelInv ==
  ASSUME NEW m \in limbo, LateInv, LateGetdel(m)
  PROVE  WorkerInv'
<1> USE DEF LateInv, LoginInv, WorkerInv
<1>1. UNCHANGED <<pc, conn, chal, status, issued, served, hits, window, recent,
                  pres, got, redeemed, minted, top>>
  BY DEF LateGetdel, workerVars, rateVars, verifyVars
<1>2. /\ ttl' \in [Challenge -> 0..ChallengeTtl]
      /\ \A c \in Challenge : ttl'[c] \in {0, ttl[c]}
  <2>1. m.key \in Challenge \cup {Nil}
    BY CommandFields DEF LateGetdel
  <2>2. CASE m.key = Nil
    <3>1. ttl' = ttl
      BY <2>2 DEF LateGetdel
    <3>2. QED
      BY <3>1 DEF WorkerTypeOK
  <2>3. CASE m.key \in Challenge
    <3>1. ttl' = [ttl EXCEPT ![m.key] = 0]
      BY <2>3, NilFacts DEF LateGetdel, getdel
    <3>2. QED
      BY <2>3, <3>1, ChallengeAssumption DEF WorkerTypeOK
  <2>4. QED
    BY <2>1, <2>2, <2>3
<1>3. WorkerTypeOK'
  BY <1>1, <1>2 DEF WorkerTypeOK
<1>4. WorkerLocals' /\ Exclusive'
  BY <1>1 DEF WorkerLocals, Exclusive
<1>5. ChallengeLife' /\ OneSessionPerChallenge'
  BY <1>1, <1>2 DEF WorkerTypeOK, ChallengeLife, OneSessionPerChallenge
<1>6. QED
  BY <1>3, <1>4, <1>5

\* A late HSET of a counter, whatever became of its credential meanwhile, makes
\* the record neither usable nor unusable.
LEMMA LateCounterInv ==
  ASSUME NEW m \in limbo, LateInv, LateCounter(m)
  PROVE  CredInv' /\ UsableKept
<1> DEFINE c == m.key
           h == CounterFields(record[c], m.count)
<1> USE DEF LateInv, LoginInv
<1>1. c \in CredId /\ m.count \in Count
  BY CommandFields DEF LateCounter
<1>2. /\ record' = [record EXCEPT ![c] = h]
      /\ UNCHANGED <<index, cliPc, cliConn, cliArg, registered, torn>>
  BY DEF LateCounter, cliVars
<1>3. record[c] \in Hash
  BY <1>1 DEF CredInv, CredTypeOK
<1>4. /\ h \in Hash
      /\ h.user_id = record[c].user_id
      /\ h.public_key = record[c].public_key
  BY <1>1, <1>3, HashFacts
<1>5. h.public_key # Nil => h.user_id \in User /\ h.public_key = c
  BY <1>1, <1>3, <1>4, HashFacts DEF CredInv, RecordsSound
<1>6. CliSound
  BY <1>2 DEF CredInv, CredTypeOK, CliSound, CliLocals
<1>7. UsableIff(c) => (c \in registered' <=> h.public_key # Nil)
  BY <1>2, <1>3, <1>4, HashFacts DEF UsableIff
<1> HIDE DEF c, h
<1>8. record' \in [CredId -> Hash] /\ RecordsSound'
  BY <1>1, <1>2, <1>4, <1>5, RecordWrite
<1>9. UsableKept
  BY <1>1, <1>2, <1>4, <1>7, UsableWrite
<1>10. QED
  BY <1>2, <1>6, <1>8, <1>9 DEF CredInv, CredTypeOK, CliSound

\* A late HSET of a record, or a late DEL, leaves the records sound and every
\* other credential alone.
LEMMA LateRecordInv ==
  ASSUME NEW m \in limbo, LateInv, LateRecord(m)
  PROVE  /\ CredInv'
         /\ \A d \in CredId \ {m.key} : UsableIff(d) => UsableIff(d)'
<1> DEFINE c == m.key
           h == PutFields(record[c], c, m.user, m.count)
<1> USE DEF LateInv, LoginInv
<1>1. c \in CredId /\ m.user \in User /\ m.count \in Count
  BY CommandFields DEF LateRecord
<1>2. /\ record' = [record EXCEPT ![c] = h]
      /\ torn' = torn \cup {c}
      /\ UNCHANGED <<index, cliPc, cliConn, cliArg, registered>>
  BY DEF LateRecord
<1>3. record[c] \in Hash
  BY <1>1 DEF CredInv, CredTypeOK
<1>4. h \in Hash /\ h.user_id \in User /\ h.public_key = c
  BY <1>1, <1>3, HashFacts
<1> HIDE DEF c, h
<1>5. torn' \in SUBSET CredId /\ CliSound
  BY <1>1, <1>2 DEF CredInv, CredTypeOK, CliSound, CliLocals
<1>6. record' \in [CredId -> Hash] /\ RecordsSound'
  BY <1>1, <1>2, <1>4, RecordWrite
<1>7. \A d \in CredId \ {c} : UsableIff(d) => UsableIff(d)'
  BY <1>2 DEF UsableIff, CredInv, CredTypeOK
<1>8. QED
  BY <1>2, <1>5, <1>6, <1>7 DEF c, CredInv, CredTypeOK, CliSound

LEMMA LateDelInv ==
  ASSUME NEW m \in limbo, LateInv, LateDel(m)
  PROVE  /\ CredInv'
         /\ \A d \in CredId \ {m.key} : UsableIff(d) => UsableIff(d)'
<1> DEFINE c == m.key
<1> USE DEF LateInv, LoginInv
<1>1. c \in CredId
  BY CommandFields DEF LateDel
<1>2. /\ record' = [record EXCEPT ![c] = NoHash]
      /\ UNCHANGED <<index, cliPc, cliConn, cliArg, registered, torn>>
  BY DEF LateDel, cliVars
<1>3. NoHash.public_key = Nil
  BY DEF NoHash
<1> HIDE DEF c
<1>4. CliSound
  BY <1>2 DEF CredInv, CredTypeOK, CliSound, CliLocals
<1>5. record' \in [CredId -> Hash] /\ RecordsSound'
  BY <1>1, <1>2, <1>3, HashFacts, RecordWrite
<1>6. \A d \in CredId \ {c} : UsableIff(d) => UsableIff(d)'
  BY <1>2 DEF UsableIff, CredInv, CredTypeOK
<1>7. QED
  BY <1>2, <1>4, <1>5, <1>6 DEF c, CredInv, CredTypeOK, CliSound

\* Late SADD and SREM touch the index only.
LEMMA LateIndexInv ==
  ASSUME NEW m \in limbo, LateInv, LateIndex(m)
  PROVE  CredInv' /\ UsableKept
<1> USE DEF LateInv, LoginInv
<1>1. m.key \in User /\ m.cred \in CredId
  BY CommandFields DEF LateIndex
<1>2. UNCHANGED <<record, cliPc, cliConn, cliArg, registered>>
  BY DEF LateIndex
<1>3. index' \in [User -> SUBSET CredId] /\ torn' \in SUBSET CredId
  BY <1>1 DEF LateIndex, CredInv, CredTypeOK
<1>4. QED
  BY <1>2, <1>3, UsableUnchanged
  DEF CredInv, CredTypeOK, CliLocals, RecordsSound

\* Whatever is executed late keeps the invariant of the login path.
LEMMA ExecuteLateInv ==
  ASSUME NEW m \in limbo, LateInv, ExecuteLate(m)
  PROVE  LoginInv'
<1> USE DEF LateInv, LoginInv
<1>1. CASE LateSet(m) \/ LateGetdel(m)
  <2>1. UNCHANGED credVars
    BY <1>1 DEF LateSet, LateGetdel
  <2>2. QED
    BY <1>1, <2>1, CredUnchanged, LateSetInv, LateGetdelInv
<1>2. CASE LateCounter(m) \/ LateDel(m) \/ LateIndex(m) \/ LateRecord(m)
  <2>1. CredInv'
    BY <1>2, LateCounterInv, LateDelInv, LateIndexInv, LateRecordInv
  <2>2. UNCHANGED challengeVars /\ UNCHANGED <<pres, got, redeemed, minted>>
    BY <1>2 DEF LateCounter, LateDel, LateIndex, LateRecord, verifyVars
  <2>3. top' \in [CredId -> Count \cup {Nil}]
    BY <1>2 DEF LateCounter, LateDel, LateIndex, LateRecord, verifyVars,
                WorkerInv, WorkerTypeOK
  <2>4. QED
    BY <2>1, <2>2, <2>3, WorkerUnchanged
<1>3. CASE LateCount(m)
  <2>1. UNCHANGED <<credVars, chalVars, workerVars, verifyVars>>
    BY <1>3 DEF LateCount
  <2>2. hits' \in Nat /\ window' \in 0..RateWindow \cup {Nil} /\ recent' = recent
    BY <1>3, ChallengeAssumption
    DEF LateCount, incr_expire, WorkerInv, WorkerTypeOK
  <2>3. WorkerInv'
    BY <2>1, <2>2
    DEF WorkerInv, WorkerTypeOK, WorkerLocals, Exclusive, ChallengeLife,
        OneSessionPerChallenge, chalVars, workerVars, verifyVars
  <2>4. QED
    BY <2>1, <2>3, CredUnchanged
<1>4. QED
  BY <1>1, <1>2, <1>3 DEF ExecuteLate

-----------------------------------------------------------------------------
(* Commands given up.                                                      *)

\* What a worker may leave in flight is well formed; a SET is of the challenge
\* it has drawn.
LEMMA WorkerSentTyped ==
  ASSUME NEW w \in Worker, LoginInv, NEW m \in WorkerSent(w)
  PROVE  /\ m \in LateCommand
         /\ m.op = "SET" => pc[w] = "issue" /\ m.key = chal[w]
<1> USE DEF LoginInv, WorkerInv
<1>1. CASE pc[w] = "issue"
  <2>1. m = [op |-> "SET", key |-> chal[w]]
    BY <1>1 DEF WorkerSent, ChallengeSent, VerifySent
  <2>2. chal[w] \in Challenge
    BY <1>1 DEF WorkerLocals
  <2>3. QED
    BY <1>1, <2>1, <2>2 DEF LateCommand
<1>2. CASE pc[w] = "consume"
  <2>1. m = [op |-> "GETDEL", key |-> chal[w]]
    BY <1>2 DEF WorkerSent, ChallengeSent, VerifySent
  <2>2. chal[w] \in Challenge \cup {Nil}
    BY DEF WorkerTypeOK
  <2>3. QED
    BY <2>1, <2>2 DEF LateCommand
<1>3. CASE pc[w] = "update"
  <2>1. m = [op |-> "HSET counter", key |-> pres[w].id,
             count |-> pres[w].signCount]
    BY <1>3 DEF WorkerSent, ChallengeSent, VerifySent
  <2>2. pres[w].id \in CredId /\ pres[w].signCount \in Count
    BY <1>3, PresentedFields DEF WorkerLocals, Holding
  <2>3. QED
    BY <2>1, <2>2 DEF LateCommand
<1>4. CASE pc[w] = "rate"
  <2>1. m = [op |-> "EVAL", key |-> chal[w]]
    BY <1>4 DEF WorkerSent, ChallengeSent, VerifySent
  <2>2. chal[w] \in Challenge
    BY <1>4 DEF WorkerLocals
  <2>3. QED
    BY <2>1, <2>2 DEF LateCommand
<1>5. QED
  BY <1>1, <1>2, <1>3, <1>4 DEF WorkerSent, ChallengeSent, VerifySent

\* What a CLI process may leave in flight is well formed and never a SET.
LEMMA CliSentTyped ==
  ASSUME NEW a \in Admin, LoginInv, NEW m \in CliSent(a)
  PROVE  m \in LateCommand /\ m.op # "SET"
<1> DEFINE arg == cliArg[a]
<1> USE DEF LoginInv, CredInv
<1>1. CASE cliPc[a] = "put_record"
  <2>1. m = [op |-> "HSET record", key |-> arg.cred, user |-> arg.user,
             count |-> arg.count]
    BY <1>1 DEF CliSent
  <2>2. arg.cred \in CredId /\ arg.user \in User /\ arg.count \in Count
    BY <1>1 DEF CliLocals
  <2>3. QED
    BY <2>1, <2>2 DEF LateCommand
<1>2. CASE cliPc[a] = "put_index"
  <2>1. m = [op |-> "SADD", key |-> arg.user, cred |-> arg.cred]
    BY <1>2 DEF CliSent
  <2>2. arg.cred \in CredId /\ arg.user \in User
    BY <1>2 DEF CliLocals
  <2>3. QED
    BY <2>1, <2>2 DEF LateCommand
<1>3. CASE cliPc[a] = "delete_record"
  <2>1. m = [op |-> "DEL", key |-> arg.cred]
    BY <1>3 DEF CliSent
  <2>2. arg.cred \in CredId
    BY <1>3 DEF CliLocals
  <2>3. QED
    BY <2>1, <2>2 DEF LateCommand
<1>4. CASE cliPc[a] = "delete_index"
  <2>1. m = [op |-> "SREM", key |-> arg.user, cred |-> arg.cred]
    BY <1>4 DEF CliSent
  <2>2. arg.cred \in CredId /\ arg.user \in User
    BY <1>4 DEF CliLocals
  <2>3. QED
    BY <2>1, <2>2 DEF LateCommand
<1>5. QED
  BY <1>1, <1>2, <1>3, <1>4 DEF CliSent

\* What a step of worker w can do to the places a challenge can be in: it
\* stores only what it has drawn.
DrawEffect(w) ==
  /\ \A v \in Worker \ {w} : pc'[v] = pc[v] /\ chal'[v] = chal[v]
  /\ issued' \subseteq issued \cup (IF pc[w] = "issue" THEN {chal[w]} ELSE {})

\* A worker that answers has drawn nothing.
LEMMA AnswerDraws ==
  ASSUME NEW w \in Worker, WorkerInv, NEW s, NEW at \in {"served", "verified"},
         Answer(w, s, at)
  PROVE  /\ \A v \in Worker \ {w} : pc'[v] = pc[v] /\ chal'[v] = chal[v]
         /\ pc'[w] \notin {"rate", "issue"}
BY DEF WorkerInv, WorkerTypeOK, Answer

\* A worker that goes on has drawn nothing new either.
LEMMA GotoDraws ==
  ASSUME NEW w \in Worker, WorkerInv, NEW to \in {"allow", "lookup", "judge",
                                                  "update", "mint", "idle"},
         pc' = [pc EXCEPT ![w] = to], UNCHANGED chal
  PROVE  /\ \A v \in Worker \ {w} : pc'[v] = pc[v] /\ chal'[v] = chal[v]
         /\ pc'[w] \notin {"rate", "issue"}
BY DEF WorkerInv, WorkerTypeOK

LEMMA CommandDraws ==
  ASSUME NEW w \in Worker, LoginInv, NEW o, WorkerCommand(w, o),
         pc[w] # "rate"
  PROVE  /\ DrawEffect(w)
         /\ pc'[w] \notin {"rate", "issue"}
         /\ ~Applied(o) => issued' = issued
<1> USE DEF LoginInv
<1>1. CASE challenge_issue(w, o)
  <2>1. /\ pc[w] = "issue"
        /\ issued' = IF Applied(o) THEN issued \cup {chal[w]} ELSE issued
    BY <1>1 DEF challenge_issue
  <2>2. QED
    BY <1>1, <2>1, AnswerDraws, GotoDraws
    DEF challenge_issue, Serve, DrawEffect
<1>2. CASE AllowCredentials(w, o)
  BY <1>2, AnswerDraws DEF AllowCredentials, Serve, DrawEffect
<1>3. CASE challenge_consume(w, o)
  BY <1>3, AnswerDraws, GotoDraws
  DEF challenge_consume, VerifyAnswer, Goto, DrawEffect
<1>4. CASE Lookup(w, o)
  BY <1>4, AnswerDraws, GotoDraws
  DEF Lookup, VerifyAnswer, Goto, DrawEffect, chalVars
<1>5. CASE update_counter(w, o)
  BY <1>5, GotoDraws DEF update_counter, DrawEffect, chalVars
<1>6. QED
  BY <1>1, <1>2, <1>3, <1>4, <1>5 DEF WorkerCommand, RateLimit

\* From the rate limit a worker takes its own challenge along, or none.
LEMMA RateDraws ==
  ASSUME NEW w \in Worker, LoginInv, NEW o, WorkerCommand(w, o), pc[w] = "rate"
  PROVE  /\ DrawEffect(w)
         /\ issued' = issued
         /\ pc'[w] \notin {"rate", "issue"} \/ chal'[w] = chal[w]
<1> USE DEF LoginInv
<1>1. RateLimit(w, o)
  BY DEF WorkerCommand, challenge_issue, AllowCredentials, challenge_consume,
         Lookup, update_counter
<1>2. UNCHANGED chalVars
  BY <1>1 DEF RateLimit
<1>3. CASE Answer(w, 429, "served")
  BY <1>2, <1>3, AnswerDraws DEF DrawEffect, chalVars
<1>4. CASE pc' = [pc EXCEPT ![w] = "issue"] /\ UNCHANGED chal
  BY <1>2, <1>4 DEF DrawEffect, chalVars, WorkerInv, WorkerTypeOK
<1>5. QED
  BY <1>1, <1>3, <1>4 DEF RateLimit

LEMMA LocalDraws ==
  ASSUME NEW w \in Worker, LoginInv, WorkerLocal(w) \/ WorkerDies(w)
  PROVE  /\ DrawEffect(w)
         /\ pc'[w] \notin {"rate", "issue"}
         /\ issued' = issued
<1> USE DEF LoginInv
<1>1. CASE Judge(w)
  BY <1>1, AnswerDraws, GotoDraws
  DEF Judge, VerifyAnswer, Goto, DrawEffect, chalVars
<1>2. CASE Mint(w)
  BY <1>2, AnswerDraws DEF Mint, VerifyAnswer, DrawEffect, chalVars
<1>3. CASE /\ \E at \in {"served", "verified"} : Finish(w, at)
           /\ UNCHANGED <<chalVars, rateVars, credVars, verifyVars>>
  BY <1>3, GotoDraws DEF Finish, DrawEffect, chalVars
<1>4. CASE WorkerDies(w)
  BY <1>4
  DEF WorkerDies, Die, DrawEffect, chalVars, WorkerInv, WorkerTypeOK
<1>5. QED
  BY <1>1, <1>2, <1>3, <1>4 DEF WorkerLocal

LEMMA StartDraws ==
  ASSUME NEW w \in Worker, LoginInv, WorkerStart(w)
  PROVE  /\ DrawEffect(w)
         /\ issued' = issued
<1> USE DEF LoginInv
<1>1. ASSUME NEW c \in Challenge, ChallengeStart(w, c)
      PROVE  /\ \A v \in Worker \ {w} : pc'[v] = pc[v] /\ chal'[v] = chal[v]
             /\ issued' = issued
  BY <1>1 DEF ChallengeStart, WorkerInv, WorkerTypeOK
<1>2. ASSUME NEW a, NEW c, VerifyStart(w, a, c)
      PROVE  /\ \A v \in Worker \ {w} : pc'[v] = pc[v] /\ chal'[v] = chal[v]
             /\ issued' = issued
  BY <1>2 DEF VerifyStart, WorkerInv, WorkerTypeOK, chalVars
<1>3. CASE \/ ChallengeNoConnect(w) \/ VerifyNoConnect(w)
           \/ VerifyNotRead(w) \/ VerifyMalformed(w)
  BY <1>3, AnswerDraws
  DEF ChallengeNoConnect, VerifyNoConnect, VerifyNotRead, VerifyMalformed,
      VerifyAnswer, DrawEffect, chalVars
<1>4. QED
  BY <1>1, <1>2, <1>3 DEF WorkerStart, DrawEffect

-----------------------------------------------------------------------------
(* The invariant.                                                          *)

\* The part of the invariant that is about the commands in flight.
LimboSound == limbo \in SUBSET LateCommand /\ SetsApart

\* A step of worker w that draws nothing, and may leave its command in flight
\* unless the command stored its challenge.
LEMMA WorkerLimbo ==
  ASSUME NEW w \in Worker, LateInv, DrawEffect(w),
         \/ limbo' = limbo
         \/ issued' = issued /\ limbo' = limbo \cup WorkerSent(w),
         \/ pc'[w] \notin {"rate", "issue"}
         \/ \A m \in limbo' : m.op = "SET" => chal'[w] # m.key
  PROVE  LimboSound'
<1> USE DEF LateInv, LoginInv, WorkerInv
<1>1. limbo' \in SUBSET LateCommand
  BY WorkerSentTyped
<1>2. ASSUME NEW m \in limbo', m.op = "SET"
      PROVE  m.key \notin issued'
  <2>1. CASE m \in limbo
    BY <1>2, <2>1 DEF SetsApart, DrawEffect
  <2>2. CASE m \notin limbo
    <3>1. m \in WorkerSent(w) /\ issued' = issued
      BY <1>2, <2>2
    <3>2. pc[w] = "issue" /\ m.key = chal[w]
      BY <1>2, <3>1, WorkerSentTyped
    <3>3. QED
      BY <3>1, <3>2 DEF WorkerLocals
  <2>3. QED
    BY <2>1, <2>2
<1>3. ASSUME NEW m \in limbo', m.op = "SET",
             NEW v \in Worker, pc'[v] \in {"rate", "issue"}
      PROVE  chal'[v] # m.key
  <2>1. CASE v = w
    BY <1>3, <2>1
  <2>2. CASE v # w /\ m \in limbo
    BY <1>3, <2>2 DEF SetsApart, DrawEffect
  <2>3. CASE v # w /\ m \notin limbo
    <3>1. m \in WorkerSent(w)
      BY <1>3, <2>3
    <3>2. pc[w] = "issue" /\ m.key = chal[w]
      BY <1>3, <3>1, WorkerSentTyped
    <3>3. pc[v] \in {"rate", "issue"} /\ chal'[v] = chal[v]
      BY <1>3, <2>3 DEF DrawEffect
    <3>4. QED
      BY <2>3, <3>2, <3>3 DEF Exclusive
  <2>4. QED
    BY <2>1, <2>2, <2>3
<1>4. QED
  BY <1>1, <1>2, <1>3 DEF LimboSound, SetsApart

LEMMA LateWorkerLimbo ==
  ASSUME NEW w \in Worker, LateInv, LateWorker(w)
  PROVE  LimboSound'
<1> USE DEF LateInv
<1>1. CASE /\ WorkerStart(w)
           /\ \A m \in limbo : m.op = "SET" => chal'[w] # m.key
           /\ UNCHANGED limbo
  BY <1>1, StartDraws, WorkerLimbo
<1>2. ASSUME NEW o \in redis_exec(conn[w]), WorkerCommand(w, o),
             AfterCommand(conn[w], o, WorkerSent(w))
      PROVE  LimboSound'
  <2>1. \/ limbo' = limbo
        \/ o = "unsent" /\ limbo' = limbo \cup WorkerSent(w)
    BY <1>2 DEF AfterCommand, GiveUp
  <2>2. o = "unsent" => ~Applied(o)
    BY DEF Applied
  <2>3. CASE pc[w] = "rate"
    <3>1. \A m \in limbo' : m.op = "SET" => m \in limbo
      BY <2>1, <2>3, WorkerSentTyped
    <3>2. \A m \in limbo : m.op = "SET" => chal[w] # m.key
      BY <2>3 DEF SetsApart
    <3>3. QED
      BY <1>2, <2>1, <2>3, <3>1, <3>2, RateDraws, WorkerLimbo
  <2>4. CASE pc[w] # "rate"
    BY <1>2, <2>1, <2>2, <2>4, CommandDraws, WorkerLimbo
  <2>5. QED
    BY <2>3, <2>4
<1>3. CASE WorkerLocal(w) /\ UNCHANGED limbo
  BY <1>3, LocalDraws, WorkerLimbo
<1>4. CASE WorkerDies(w) /\ GiveUp(WorkerSent(w))
  BY <1>4, LocalDraws, WorkerLimbo DEF GiveUp
<1>5. QED
  BY <1>1, <1>2, <1>3, <1>4 DEF LateWorker

LEMMA LateCliLimbo ==
  ASSUME NEW a \in Admin, LateInv, LateCli(a)
  PROVE  LimboSound'
<1> USE DEF LateInv
<1>1. UNCHANGED <<issued, pc, chal>>
  BY DEF LateCli, challengeVars
<1>2. limbo' = limbo \/ limbo' = limbo \cup CliSent(a)
  BY DEF LateCli, AfterCommand, GiveUp
<1>3. \A m \in limbo' : m \in LateCommand /\ (m \in limbo \/ m.op # "SET")
  BY <1>2, CliSentTyped
<1>4. QED
  BY <1>1, <1>3 DEF LimboSound, SetsApart

LEMMA ExecuteLateLimbo ==
  ASSUME NEW m \in limbo, LateInv, ExecuteLate(m)
  PROVE  LimboSound'
<1> USE DEF LateInv
<1>1. limbo' = limbo \ {m}
  BY DEF ExecuteLate
<1>2. UNCHANGED <<pc, chal>>
  BY DEF ExecuteLate, LateCount, LateSet, LateGetdel, LateCounter, LateRecord,
         LateDel, LateIndex, workerVars, challengeVars
<1>3. \/ issued' = issued
      \/ m.op = "SET" /\ issued' = issued \cup {m.key}
  BY DEF ExecuteLate, LateCount, LateSet, LateGetdel, LateCounter, LateRecord,
         LateDel, LateIndex, chalVars, challengeVars
<1>4. \A n \in limbo' : m.op = "SET" /\ n.op = "SET" => n.key # m.key
  BY <1>1, SetKeys
<1>5. QED
  BY <1>1, <1>2, <1>3, <1>4 DEF LimboSound, SetsApart

\* LateInv is inductive.
LEMMA LateStepInv == LateInv /\ [LateNext]_lateVars => LateInv'
<1> SUFFICES ASSUME LateInv, [LateNext]_lateVars PROVE LateInv'
  OBVIOUS
<1>1. LoginInv'
  BY LateLoginStep, StepInv, ExecuteLateInv DEF LateInv
<1>2. LimboSound'
  <2>1. CASE \/ UNCHANGED lateVars
             \/ Tick /\ UNCHANGED <<credVars, verifyVars, limbo, overtaken>>
    <3>1. UNCHANGED <<issued, pc, chal, limbo>>
      BY <2>1 DEF Tick, lateVars, loginVars, challengeVars
    <3>2. QED
      BY <3>1 DEF LateInv, LimboSound, SetsApart
  <2>2. CASE \E w \in Worker : LateWorker(w)
    BY <2>2, LateWorkerLimbo
  <2>3. CASE \E a \in Admin : LateCli(a)
    BY <2>3, LateCliLimbo
  <2>4. CASE \E m \in limbo : ExecuteLate(m)
    BY <2>4, ExecuteLateLimbo
  <2>5. QED
    BY <2>1, <2>2, <2>3, <2>4 DEF LateNext
<1>3. QED
  BY <1>1, <1>2 DEF LateInv, LimboSound

\* The inductive invariant of the login path over a slow Redis.
THEOREM LateInvariant == LateSpec => []LateInv
<1>1. LateInit => LateInv
  BY InitInv DEF LateInit, LateInv, SetsApart
<1>2. QED
  BY <1>1, LateStepInv, PTL DEF LateSpec

\* A challenge whose SET is still in flight has been shown to nobody: no login
\* and no session can come of it.
THEOREM LateSetIsHarmless == LateSpec => []LateSetHarmless
<1>1. LateInv => LateSetHarmless
  <2> SUFFICES ASSUME LateInv, NEW m \in limbo, m.op = "SET"
               PROVE  /\ m.key \notin served
                      /\ minted[m.key] = 0
                      /\ \A w \in Worker :
                           pc[w] \in Holding \cup {"consume"}
                             => chal[w] # m.key
    BY DEF LateSetHarmless
  <2> USE DEF LateInv, LoginInv, WorkerInv
  <2>1. m.key \in Challenge \ issued
    BY CommandFields DEF SetsApart
  <2>2. m.key \notin served /\ minted[m.key] = 0 /\ m.key \notin redeemed
    BY <2>1 DEF WorkerTypeOK, ChallengeLife
  <2>3. m.key # Nil
    BY <2>1, NilFacts
  <2>4. QED
    BY <2>1, <2>2, <2>3 DEF WorkerLocals
<1>2. QED
  BY <1>1, LateInvariant, PTL

\* A command executed late settles or unsettles nothing but the credential of a
\* register or revoke that was given up.
LEMMA ExecuteLateLastWord ==
  ASSUME NEW m \in limbo, LateInv, LastWordHolds, ExecuteLate(m)
  PROVE  LastWordHolds'
<1>1. CASE LateRecord(m) \/ LateDel(m)
  <2>1. overtaken' = overtaken \cup {m.key}
    BY <1>1 DEF ExecuteLate, LateRecord, LateDel
  <2>2. \A d \in CredId \ {m.key} : UsableIff(d) => UsableIff(d)'
    BY <1>1, LateRecordInv, LateDelInv
  <2>3. QED
    BY <2>1, <2>2 DEF LastWordHolds
<1>2. CASE \/ LateCount(m) \/ LateSet(m) \/ LateGetdel(m)
           \/ LateCounter(m) \/ LateIndex(m)
  <2>1. overtaken \subseteq overtaken'
    BY DEF ExecuteLate
  <2>2. UsableKept
    BY <1>2, LateCounterInv, LateIndexInv, UsableUnchanged
    DEF LateCount, LateSet, LateGetdel, credVars
  <2>3. QED
    BY <2>1, <2>2 DEF LastWordHolds, UsableKept
<1>3. QED
  BY <1>1, <1>2 DEF ExecuteLate

\* A command the CLI waits for settles its credential.
LEMMA CliLastWord ==
  ASSUME NEW a \in Admin, LateInv, LastWordHolds, LateCli(a), UsableKept
  PROVE  LastWordHolds'
<1>1. CASE overtaken' = overtaken
  BY <1>1 DEF LastWordHolds, UsableKept
<1>2. ASSUME NEW o, Deciding(a, o), PutRecord(a, o) \/ CliCommandBy(a, o),
             overtaken' = overtaken \ {cliArg[a].cred}
      PROVE  LastWordHolds'
  <2>1. PutRecord(a, o) \/ DeleteRecord(a, o)
    BY <1>2 DEF Deciding, CliCommandBy, PutIndex, DeleteGet, DeleteIndex
  <2>2. \A c \in CredId : c = cliArg[a].cred => UsableIff(c)'
    BY <1>2, <2>1, WriteSettles DEF Deciding, LateInv, LoginInv
  <2>3. QED
    BY <1>2, <2>2 DEF LastWordHolds, UsableKept
<1>3. QED
  BY <1>1, <1>2 DEF LateCli

\* Commands executed after their sender gave up, a counter HSET after a revoke
\* included, leave the last word of the CLI standing on every credential, except
\* one on which a register or revoke that was itself given up has landed since.
THEOREM LateLastWord == LateSpec => []LastWordHolds
<1>1. LateInit => LastWordHolds
  BY HashFacts DEF LateInit, LoginInit, CredInit, LastWordHolds, UsableIff
<1>2. ASSUME LateInv, LastWordHolds, [LateNext]_lateVars
      PROVE  LastWordHolds'
  <2>1. CASE \E m \in limbo : ExecuteLate(m)
    BY <1>2, <2>1, ExecuteLateLastWord
  <2>2. CASE ~ \E m \in limbo : ExecuteLate(m)
    <3>1. UsableKept
      BY <1>2, <2>2, LateLoginStep, LoginUsable DEF LateInv
    <3>2. CASE \E a \in Admin : LateCli(a)
      BY <1>2, <3>1, <3>2, CliLastWord
    <3>3. CASE overtaken' = overtaken
      BY <1>2, <3>1, <3>3 DEF LastWordHolds, UsableKept
    <3>4. QED
      BY <1>2, <2>2, <3>2, <3>3 DEF LateNext, lateVars
  <2>3. QED
    BY <2>1, <2>2
<1>3. QED
  BY <1>1, <1>2, LateInvariant, PTL DEF LateSpec

-----------------------------------------------------------------------------
(* The one-shot promise survives a slow Redis.                             *)

\* A late SET is the abstract Issue, a late GETDEL the abstract Burn.
LEMMA ExecuteLateStep ==
  ASSUME NEW m \in limbo, LateInv, ExecuteLate(m)
  PROVE  OneShot!Next \/ OneShotIdle
<1> USE DEF LateInv
<1>1. CASE LateSet(m)
  <2>1. m.key \in Challenge \ issued
    BY <1>1, CommandFields DEF LateSet, SetsApart
  <2>2. OneShot!Issue(m.key)
    BY <1>1, <2>1 DEF LateSet, set_ex, verifyVars, OneShot!Issue
  <2>3. QED
    BY <2>1, <2>2 DEF OneShot!Next
<1>2. CASE LateGetdel(m)
  <2>1. m.key \in Challenge \cup {Nil} /\ UNCHANGED <<issued, redeemed, minted>>
    BY <1>2, CommandFields DEF LateGetdel, verifyVars
  <2>2. CASE m.key = Nil
    BY <1>2, <2>1, <2>2 DEF LateGetdel, OneShotIdle
  <2>3. CASE m.key \in Challenge
    <3>1. ttl' = [ttl EXCEPT ![m.key] = 0]
      BY <1>2, <2>3, NilFacts DEF LateGetdel, getdel
    <3>2. ttl \in [Challenge -> 0..ChallengeTtl]
      BY DEF LoginInv, WorkerInv, WorkerTypeOK
    <3>3. CASE ttl[m.key] > 0
      <4>1. OneShot!Burn(m.key)
        BY <2>1, <3>1, <3>3 DEF OneShot!Burn
      <4>2. QED
        BY <2>3, <4>1 DEF OneShot!Next
    <3>4. CASE ~(ttl[m.key] > 0)
      <4>1. ttl' = ttl
        BY <2>3, <3>1, <3>2, <3>4, ChallengeAssumption
      <4>2. QED
        BY <2>1, <4>1 DEF OneShotIdle
    <3>5. QED
      BY <3>3, <3>4
  <2>4. QED
    BY <2>1, <2>2, <2>3
<1>3. CASE LateCounter(m) \/ LateRecord(m) \/ LateDel(m) \/ LateIndex(m)
  BY <1>3 DEF LateCounter, LateRecord, LateDel, LateIndex, challengeVars,
              verifyVars, OneShotIdle
<1>4. CASE LateCount(m)
  BY <1>4 DEF LateCount, chalVars, verifyVars, OneShotIdle
<1>5. QED
  BY <1>1, <1>2, <1>3, <1>4 DEF ExecuteLate

\* Also over a slow Redis a challenge is issued once, redeemed at most once
\* while it lives, and worth at most one session.
THEOREM LateRefinement == LateSpec => OneShotSpec
<1>1. LateInit => OneShot!Init
  BY DEF LateInit, LoginInit, ChallengeInit, OneShot!Init
<1>2. LateInv /\ [LateNext]_lateVars
        => [OneShot!Next]_<<ttl, issued, redeemed, minted>>
  BY LateLoginStep, OneShotStep, ExecuteLateStep DEF LateInv, OneShotIdle
<1>3. QED
  BY <1>1, <1>2, LateInvariant, PTL
  DEF LateSpec, OneShotSpec, OneShot!Spec, OneShot!oneShotVars
=============================================================================

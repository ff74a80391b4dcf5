----------------------------- MODULE LoginProofs -----------------------------
(***************************************************************************)
(* Proofs about the login path for every number of workers, challenges,     *)
(* credentials and CLI processes, every policy and every set of faults.     *)
(***************************************************************************)
EXTENDS Login, CredentialProofs

\* The facts about constants the steps below use.
LEMMA PresentedFields ==
  \A a \in Presented : a.id \in CredId /\ a.signCount \in Count
BY PresentedAssumption

LEMMA NilFacts ==
  /\ Nil \notin Nat
  /\ Nil \notin Challenge
  /\ Nil \notin User
  /\ Nil \notin CredId
  /\ Nil \notin Count
BY NilAssumption, StoreAssumption, ChallengeAssumption DEF Count

\* The initial states satisfy the invariant.
LEMMA InitInv == LoginInit => LoginInv
<1> SUFFICES ASSUME LoginInit PROVE LoginInv
  OBVIOUS
<1> USE DEF LoginInit, CredInit, ChallengeInit
<1>1. CredTypeOK /\ CliLocals
  BY HashFacts DEF CredTypeOK, CliLocals, CliPc, CliArg, NoArg
<1>2. WorkerTypeOK
  BY HashFacts, ChallengeAssumption
  DEF WorkerTypeOK, ChallengePc, Handle, Status
<1>3. WorkerLocals /\ Exclusive /\ ChallengeLife
  BY DEF WorkerLocals, Exclusive, ChallengeLife, Holding
<1>4. RecordsSound /\ OneSessionPerChallenge
  BY HashFacts DEF RecordsSound, OneSessionPerChallenge
<1>5. QED
  BY <1>1, <1>2, <1>3, <1>4 DEF LoginInv, CredInv, WorkerInv

-----------------------------------------------------------------------------
(* The workers: challenge handler.                                         *)

\* Drawing a fresh challenge: no other worker has drawn it.
LEMMA ChallengeStartInv ==
  ASSUME NEW w \in Worker, NEW c \in Challenge, WorkerInv,
         ChallengeStart(w, c), UNCHANGED verifyVars
  PROVE  WorkerInv'
<1> USE DEF ChallengeStart, WorkerInv, verifyVars
<1>1. WorkerTypeOK'
  BY DEF WorkerTypeOK, ChallengePc, Handle
<1>2. WorkerLocals'
  BY DEF WorkerTypeOK, WorkerLocals, Fresh, Holding
<1>3. Exclusive'
  BY DEF WorkerTypeOK, Exclusive, Fresh, Holding
<1>4. ChallengeLife' /\ OneSessionPerChallenge'
  BY DEF ChallengeLife, OneSessionPerChallenge
<1>5. QED
  BY <1>1, <1>2, <1>3, <1>4

\* The step leaves worker w, and only it, at a place where it holds nothing.
LeftAt(w, at) ==
  /\ pc' \in [Worker -> ChallengePc \cup VerifyPc]
  /\ conn' \in [Worker -> Handle]
  /\ chal' \in [Worker -> Challenge \cup {Nil}]
  /\ status' \in [Worker -> Status]
  /\ pc'[w] = at
  /\ \A v \in Worker \ {w} : pc'[v] = pc[v] /\ chal'[v] = chal[v]
  /\ Exclusive'

\* A worker that answers, whichever handler it is in, holds nothing any more.
LEMMA AnswerInv ==
  ASSUME NEW w \in Worker, NEW s \in Status, NEW at \in {"served", "verified"},
         WorkerInv, Answer(w, s, at)
  PROVE  LeftAt(w, at)
<1> USE DEF Answer, WorkerInv, WorkerTypeOK
<1>1. pc' \in [Worker -> ChallengePc \cup VerifyPc]
  BY DEF ChallengePc, VerifyPc
<1>2. conn' \in [Worker -> Handle] /\ status' \in [Worker -> Status]
  BY DEF Handle
<1>3. chal' \in [Worker -> Challenge \cup {Nil}]
  OBVIOUS
<1>4. \A v \in Worker : pc'[v] = IF v = w THEN at ELSE pc[v]
  OBVIOUS
<1>5. \A v \in Worker \ {w} : chal'[v] = chal[v]
  OBVIOUS
<1>6. Exclusive'
  BY <1>4, <1>5 DEF Exclusive, Holding
<1>7. QED
  BY <1>1, <1>2, <1>3, <1>4, <1>5, <1>6 DEF LeftAt

\* A worker leaves its request, and of the keys at most some challenge is gone
\* and some is served: whatever the reason, the invariant is kept.
LEMMA LeaveInv ==
  ASSUME NEW w \in Worker, NEW at \in {"idle", "served", "verified"},
         WorkerInv, LeftAt(w, at),
         UNCHANGED <<issued, redeemed, minted, top>>,
         hits' \in Nat,
         window' \in 0..RateWindow \cup {Nil},
         recent' \in [Age -> Nat],
         served' \in SUBSET issued,
         ttl' \in [Challenge -> 0..ChallengeTtl],
         \A c \in Challenge : ttl'[c] \in {0, ttl[c]},
         pres' \in [Worker -> Presented \cup {Nil}],
         got' \in [Worker -> Hash],
         \A v \in Worker \ {w} : pres'[v] = pres[v] /\ got'[v] = got[v]
  PROVE  WorkerInv'
<1> USE DEF WorkerInv
<1>1. WorkerTypeOK' /\ Exclusive'
  BY DEF WorkerTypeOK, LeftAt
<1>2. WorkerLocals'
  BY DEF WorkerLocals, Holding, LeftAt
<1>3. ChallengeLife' /\ OneSessionPerChallenge'
  BY DEF WorkerTypeOK, ChallengeLife, OneSessionPerChallenge
<1>4. QED
  BY <1>1, <1>2, <1>3

\* What changes neither the keys nor the verify locals satisfies LeaveInv's
\* conditions on them.
LEMMA KeysKept ==
  ASSUME WorkerInv
  PROVE  /\ UNCHANGED ttl => /\ ttl' \in [Challenge -> 0..ChallengeTtl]
                             /\ \A c \in Challenge : ttl'[c] \in {0, ttl[c]}
         /\ UNCHANGED served => served' \in SUBSET issued
         /\ UNCHANGED rateVars => /\ hits' \in Nat
                                  /\ window' \in 0..RateWindow \cup {Nil}
                                  /\ recent' \in [Age -> Nat]
         /\ UNCHANGED <<pres, got>> =>
              /\ pres' \in [Worker -> Presented \cup {Nil}]
              /\ got' \in [Worker -> Hash]
         /\ \A w \in Worker :
              /\ pres' = [pres EXCEPT ![w] = Nil]
              /\ got' = [got EXCEPT ![w] = NoHash]
              => /\ pres' \in [Worker -> Presented \cup {Nil}]
                 /\ got' \in [Worker -> Hash]
                 /\ \A v \in Worker \ {w} :
                      pres'[v] = pres[v] /\ got'[v] = got[v]
<1> USE DEF WorkerInv, WorkerTypeOK
<1>1. ASSUME UNCHANGED ttl
      PROVE  /\ ttl' \in [Challenge -> 0..ChallengeTtl]
             /\ \A c \in Challenge : ttl'[c] \in {0, ttl[c]}
  BY <1>1
<1>2. ASSUME UNCHANGED rateVars
      PROVE  /\ hits' \in Nat
             /\ window' \in 0..RateWindow \cup {Nil}
             /\ recent' \in [Age -> Nat]
  BY <1>2 DEF rateVars
<1>3. ASSUME NEW w \in Worker,
             pres' = [pres EXCEPT ![w] = Nil],
             got' = [got EXCEPT ![w] = NoHash]
      PROVE  /\ pres' \in [Worker -> Presented \cup {Nil}]
             /\ got' \in [Worker -> Hash]
             /\ \A v \in Worker \ {w} : pres'[v] = pres[v] /\ got'[v] = got[v]
  BY <1>3, HashFacts
<1>4. UNCHANGED served => served' \in SUBSET issued
  OBVIOUS
<1>5. UNCHANGED <<pres, got>> =>
        /\ pres' \in [Worker -> Presented \cup {Nil}]
        /\ got' \in [Worker -> Hash]
  OBVIOUS
<1>6. QED
  BY <1>1, <1>2, <1>3, <1>4, <1>5 DEF rateVars

\* No connection: the worker answers 500 and nothing else changes.
LEMMA ChallengeNoConnectInv ==
  ASSUME NEW w \in Worker, WorkerInv, ChallengeNoConnect(w),
         UNCHANGED verifyVars
  PROVE  WorkerInv'
<1>1. LeftAt(w, "served")
  BY AnswerInv DEF ChallengeNoConnect, Status
<1>2. QED
  BY <1>1, LeaveInv, KeysKept DEF ChallengeNoConnect, chalVars, verifyVars

\* The rate limit touches the counter and the worker's place only.
LEMMA RateLimitInv ==
  ASSUME NEW w \in Worker, NEW o, WorkerInv, RateLimit(w, o),
         UNCHANGED verifyVars
  PROVE  WorkerInv'
<1>1. UNCHANGED <<chalVars, verifyVars>> /\ pc[w] = "rate"
  BY DEF RateLimit
<1>2. /\ hits' \in Nat
      /\ window' \in 0..RateWindow \cup {Nil}
      /\ recent' \in [Age -> Nat]
  BY ChallengeAssumption
  DEF RateLimit, WorkerInv, WorkerTypeOK, incr_expire, Age
<1>3. CASE Answer(w, 429, "served")
  <2>1. LeftAt(w, "served")
    BY <1>3, AnswerInv DEF Status
  <2>2. QED
    BY <1>1, <1>2, <2>1, LeaveInv, KeysKept DEF chalVars, verifyVars
<1>4. CASE ~Answer(w, 429, "served")
  <2> USE DEF WorkerInv, chalVars, verifyVars
  <2>1. /\ pc' = [pc EXCEPT ![w] = "issue"]
        /\ conn' = [conn EXCEPT ![w] = HandleAfter(@, o)]
        /\ UNCHANGED <<chal, status>>
    BY <1>4 DEF RateLimit
  <2>2. WorkerTypeOK'
    BY <1>1, <1>2, <2>1 DEF WorkerTypeOK, ChallengePc, Handle, HandleAfter
  <2>3. WorkerLocals'
    BY <1>1, <2>1 DEF WorkerTypeOK, WorkerLocals, Holding
  <2>4. Exclusive'
    BY <1>1, <2>1 DEF WorkerTypeOK, Exclusive, Holding
  <2>5. ChallengeLife' /\ OneSessionPerChallenge'
    BY <1>1 DEF ChallengeLife, OneSessionPerChallenge
  <2>6. QED
    BY <2>2, <2>3, <2>4, <2>5
<1>5. QED
  BY <1>3, <1>4

\* SET of a challenge: it was nowhere before and nobody else has drawn it.
LEMMA challenge_issueInv ==
  ASSUME NEW w \in Worker, NEW o, WorkerInv, challenge_issue(w, o),
         UNCHANGED verifyVars
  PROVE  WorkerInv'
<1> DEFINE c == chal[w]
<1>1. pc[w] = "issue" /\ c \in Challenge \ issued
  BY DEF challenge_issue, WorkerInv, WorkerLocals
<1>2. UNCHANGED <<rateVars, verifyVars>>
  BY DEF challenge_issue
<1>3. \/ LeftAt(w, "served")
      \/ /\ pc' = [pc EXCEPT ![w] = "allow"]
         /\ UNCHANGED <<conn, chal, status>>
         /\ Replied(o)
  BY AnswerInv DEF challenge_issue, Serve, Status
<1>4. CASE Applied(o)
  <2> USE DEF WorkerInv, verifyVars, rateVars
  <2>1. /\ ttl' = [ttl EXCEPT ![c] = ChallengeTtl]
        /\ issued' = issued \cup {c}
        /\ served' \in SUBSET issued'
    BY <1>1, <1>4 DEF challenge_issue, set_ex, Serve, WorkerTypeOK
  <2>2. /\ ttl' \in [Challenge -> 0..ChallengeTtl]
        /\ \A d \in Challenge \ {c} : ttl'[d] = ttl[d]
    BY <1>1, <2>1, ChallengeAssumption DEF WorkerTypeOK
  <2>3. /\ pc' \in [Worker -> ChallengePc \cup VerifyPc]
        /\ conn' \in [Worker -> Handle]
        /\ chal' \in [Worker -> Challenge \cup {Nil}]
        /\ status' \in [Worker -> Status]
        /\ pc'[w] \in {"served", "allow"}
        /\ pc'[w] = "allow" => chal'[w] = c
        /\ \A v \in Worker \ {w} : pc'[v] = pc[v] /\ chal'[v] = chal[v]
        /\ Exclusive'
    <3>1. CASE LeftAt(w, "served")
      BY <3>1 DEF LeftAt
    <3>2. CASE ~LeftAt(w, "served")
      <4>1. /\ pc' = [pc EXCEPT ![w] = "allow"]
            /\ UNCHANGED <<conn, chal, status>>
        BY <1>3, <3>2
      <4>2. \A v \in Worker : pc'[v] = IF v = w THEN "allow" ELSE pc[v]
        BY <4>1 DEF WorkerTypeOK
      <4>3. Exclusive'
        BY <4>1, <4>2 DEF Exclusive, Holding
      <4>4. QED
        BY <4>1, <4>2, <4>3 DEF WorkerTypeOK, ChallengePc
    <3>3. QED
      BY <3>1, <3>2
  <2>4. \A v \in Worker \ {w} : pc[v] \in {"rate", "issue"} => chal[v] # c
    BY <1>1 DEF Exclusive
  <2>5. \A v \in Worker \ {w} : pc[v] \in Holding => chal[v] # c
    BY <1>1 DEF WorkerLocals, ChallengeLife
  <2>6. c \notin redeemed /\ minted[c] = 0
    BY <1>1 DEF ChallengeLife
  <2>7. WorkerTypeOK'
    BY <1>1, <1>2, <2>1, <2>2, <2>3 DEF WorkerTypeOK
  <2> HIDE DEF c
  <2>8. WorkerLocals'
    BY <1>1, <1>2, <2>1, <2>3, <2>4, <2>5 DEF WorkerLocals, Holding
  <2>9. ChallengeLife' /\ OneSessionPerChallenge'
    BY <1>1, <1>2, <2>1, <2>2, <2>6 DEF ChallengeLife, OneSessionPerChallenge
  <2>10. QED
    BY <2>3, <2>7, <2>8, <2>9
<1>5. CASE ~Applied(o)
  <2>1. UNCHANGED <<ttl, issued, served>> /\ LeftAt(w, "served")
    BY <1>3, <1>5 DEF challenge_issue, Applied, Replied
  <2>2. QED
    BY <1>2, <2>1, LeaveInv, KeysKept DEF verifyVars
<1>6. QED
  BY <1>4, <1>5

\* SMEMBERS only decides whether the stored challenge is served.
LEMMA AllowCredentialsInv ==
  ASSUME NEW w \in Worker, NEW o, WorkerInv, AllowCredentials(w, o),
         UNCHANGED verifyVars
  PROVE  WorkerInv'
<1>1. LeftAt(w, "served")
  BY AnswerInv DEF AllowCredentials, Serve, Status
<1>2. chal[w] \in issued
  BY DEF AllowCredentials, WorkerInv, WorkerLocals
<1>3. served' \in SUBSET issued
  BY <1>2 DEF AllowCredentials, Serve, WorkerInv, WorkerTypeOK
<1>4. QED
  BY <1>1, <1>3, LeaveInv, KeysKept DEF AllowCredentials, verifyVars

\* Between two requests a worker holds nothing.
LEMMA FinishInv ==
  ASSUME NEW w \in Worker, NEW at \in {"served", "verified"}, WorkerInv,
         Finish(w, at), UNCHANGED <<chalVars, rateVars, verifyVars>>
  PROVE  WorkerInv'
<1>1. LeftAt(w, "idle")
  BY DEF Finish, LeftAt, WorkerInv, WorkerTypeOK, ChallengePc, Status,
         Exclusive, Holding
<1>2. QED
  BY <1>1, LeaveInv, KeysKept DEF chalVars, verifyVars

\* A worker that dies drops what it held.
LEMMA WorkerDiesInv ==
  ASSUME NEW w \in Worker, WorkerInv, WorkerDies(w)
  PROVE  WorkerInv'
<1>1. LeftAt(w, "idle")
  BY DEF WorkerDies, Die, LeftAt, WorkerInv, WorkerTypeOK, ChallengePc, Handle,
         Status, Exclusive, Holding
<1>2. QED
  BY <1>1, LeaveInv, KeysKept DEF WorkerDies, chalVars

\* Expiries only ever shorten the life of a challenge.
LEMMA TickInv ==
  ASSUME WorkerInv, Tick, UNCHANGED verifyVars
  PROVE  WorkerInv'
<1> USE DEF WorkerInv, verifyVars
<1>1. /\ ttl' \in [Challenge -> 0..ChallengeTtl]
      /\ \A c \in Challenge : ttl'[c] <= ttl[c]
  BY ChallengeAssumption DEF Tick, WorkerTypeOK
<1>2. hits' \in Nat /\ window' \in 0..RateWindow \cup {Nil}
  BY ChallengeAssumption, NilAssumption DEF Tick, WorkerTypeOK
<1>3. recent' \in [Age -> Nat]
  BY ChallengeAssumption DEF Tick, WorkerTypeOK, Age
<1>4. UNCHANGED <<pc, conn, chal, status, issued, served>>
  BY DEF Tick
<1>5. WorkerTypeOK'
  BY <1>1, <1>2, <1>3, <1>4 DEF WorkerTypeOK
<1>6. WorkerLocals' /\ Exclusive'
  BY <1>4 DEF WorkerLocals, Exclusive
<1>7. ChallengeLife' /\ OneSessionPerChallenge'
  BY <1>1, <1>4 DEF WorkerTypeOK, ChallengeLife, OneSessionPerChallenge
<1>8. QED
  BY <1>5, <1>6, <1>7

-----------------------------------------------------------------------------
(* The workers: verify handler.                                            *)

\* A request that is answered before it touches a key.
LEMMA VerifyRefusedInv ==
  ASSUME NEW w \in Worker, WorkerInv,
         VerifyNotRead(w) \/ VerifyMalformed(w) \/ VerifyNoConnect(w)
  PROVE  WorkerInv'
<1>1. LeftAt(w, "verified")
  BY AnswerInv
  DEF VerifyNotRead, VerifyMalformed, VerifyNoConnect, VerifyAnswer, Status
<1>2. UNCHANGED <<chalVars, rateVars, redeemed, minted, top>>
  BY DEF VerifyNotRead, VerifyMalformed, VerifyNoConnect
<1>3. /\ pres' = [pres EXCEPT ![w] = Nil]
      /\ got' = [got EXCEPT ![w] = NoHash]
  BY DEF VerifyNotRead, VerifyMalformed, VerifyNoConnect, VerifyAnswer
<1>4. QED
  BY <1>1, <1>2, <1>3, LeaveInv, KeysKept DEF chalVars

\* A request arrives naming a challenge that was served, or none of ours.
LEMMA VerifyStartInv ==
  ASSUME NEW w \in Worker, NEW a \in Presented, NEW c \in served \cup {Nil},
         WorkerInv, VerifyStart(w, a, c)
  PROVE  WorkerInv'
<1> USE DEF WorkerInv, VerifyStart, chalVars, rateVars
<1>1. c \in issued \cup {Nil}
  BY DEF WorkerTypeOK
<1>2. \A v \in Worker : pc'[v] = IF v = w THEN "consume" ELSE pc[v]
  BY DEF WorkerTypeOK
<1>3. \A v \in Worker : chal'[v] = IF v = w THEN c ELSE chal[v]
  BY DEF WorkerTypeOK
<1>4. \A v \in Worker : pres'[v] = IF v = w THEN a ELSE pres[v]
  BY DEF WorkerTypeOK
<1>5. WorkerTypeOK'
  BY <1>1 DEF WorkerTypeOK, VerifyPc, Handle
<1>6. WorkerLocals'
  BY <1>1, <1>2, <1>3, <1>4 DEF WorkerLocals, Holding
<1>7. Exclusive'
  BY <1>2, <1>3 DEF Exclusive, Holding
<1>8. ChallengeLife' /\ OneSessionPerChallenge'
  BY DEF ChallengeLife, OneSessionPerChallenge
<1>9. QED
  BY <1>5, <1>6, <1>7, <1>8

\* GETDEL: the challenge leaves the store with the one worker that got it.
LEMMA challenge_consumeInv ==
  ASSUME NEW w \in Worker, NEW o, WorkerInv, challenge_consume(w, o)
  PROVE  WorkerInv'
<1> DEFINE c == chal[w]
           found == c # Nil /\ ttl[c] > 0
<1>1. /\ pc[w] = "consume"
      /\ c \in issued \cup {Nil}
      /\ pres[w] \in Presented
  BY DEF challenge_consume, WorkerInv, WorkerLocals
<1>2. UNCHANGED <<issued, served, rateVars, minted, top>>
  BY DEF challenge_consume
<1>3. found => c \in Challenge
  BY <1>1 DEF WorkerInv, WorkerTypeOK
<1>4. /\ ttl' \in [Challenge -> 0..ChallengeTtl]
      /\ \A d \in Challenge : ttl'[d] \in {0, ttl[d]}
      /\ Applied(o) /\ found => ttl'[c] = 0
  BY <1>3, ChallengeAssumption
  DEF challenge_consume, getdel, WorkerInv, WorkerTypeOK
<1>5. CASE Replied(o) /\ found
  <2> USE DEF WorkerInv, rateVars
  <2>1. /\ pc' = [pc EXCEPT ![w] = "lookup"]
        /\ UNCHANGED <<conn, chal, status, pres, got>>
        /\ redeemed' = redeemed \cup {c}
    BY <1>5 DEF challenge_consume, Goto
  <2>2. ttl'[c] = 0
    BY <1>4, <1>5 DEF Applied, Replied
  <2>3. c \in issued /\ c \in Challenge /\ c \notin redeemed /\ minted[c] = 0
    BY <1>1, <1>3, <1>5 DEF ChallengeLife
  <2> HIDE DEF c, found
  <2>4. \A v \in Worker : pc'[v] = IF v = w THEN "lookup" ELSE pc[v]
    BY <2>1 DEF WorkerTypeOK
  <2>5. WorkerTypeOK'
    BY <1>2, <1>4, <2>1, <2>3 DEF WorkerTypeOK, VerifyPc
  <2>6. c = chal[w] /\ chal' = chal
    BY <2>1 DEF c
  <2>7. WorkerLocals'
    BY <1>1, <1>2, <2>1, <2>3, <2>4, <2>6 DEF WorkerLocals, Holding
  <2>8. \A v \in Worker : pc[v] \in Holding => chal[v] # c
    BY <2>3 DEF WorkerLocals
  <2>9. Exclusive'
    BY <1>1, <2>1, <2>4, <2>6, <2>8 DEF Exclusive, Holding
  <2>10. ChallengeLife' /\ OneSessionPerChallenge'
    BY <1>2, <1>4, <2>1, <2>2, <2>3
    DEF WorkerTypeOK, ChallengeLife, OneSessionPerChallenge
  <2>11. QED
    BY <2>5, <2>7, <2>9, <2>10
<1>6. CASE ~(Replied(o) /\ found)
  <2>1. VerifyAnswer(w, 401) /\ UNCHANGED redeemed
    BY <1>6 DEF challenge_consume
  <2>2. LeftAt(w, "verified")
    BY <2>1, AnswerInv DEF VerifyAnswer, Status
  <2> HIDE DEF c, found
  <2>3. QED
    BY <1>2, <1>4, <2>1, <2>2, LeaveInv, KeysKept DEF VerifyAnswer
<1>7. QED
  BY <1>5, <1>6

\* The answer of a verify request that changes no key.
LEMMA VerifyAnswerInv ==
  ASSUME NEW w \in Worker, NEW s \in Status, WorkerInv, VerifyAnswer(w, s),
         UNCHANGED <<chalVars, rateVars, redeemed, minted, top>>
  PROVE  WorkerInv'
<1>1. LeftAt(w, "verified")
  BY AnswerInv DEF VerifyAnswer
<1>2. QED
  BY <1>1, LeaveInv, KeysKept DEF VerifyAnswer, chalVars

\* HGETALL: a record that is found is sound, so the worker learns a user and
\* the key of the credential the client named.
LEMMA LookupInv ==
  ASSUME NEW w \in Worker, NEW o, CredInv, WorkerInv, Lookup(w, o)
  PROVE  WorkerInv'
<1> DEFINE h == record[pres[w].id]
<1>1. /\ pc[w] = "lookup"
      /\ pres[w] \in Presented
      /\ UNCHANGED <<chalVars, rateVars, redeemed, minted, top>>
  BY DEF Lookup, WorkerInv, WorkerLocals, Holding
<1>2. CASE Replied(o) /\ credential_get(h)
  <2> USE DEF WorkerInv, chalVars, rateVars
  <2>1. /\ pc' = [pc EXCEPT ![w] = "judge"]
        /\ got' = [got EXCEPT ![w] = h]
        /\ UNCHANGED <<conn, chal, status, pres>>
    BY <1>2 DEF Lookup, Goto
  <2>2. pres[w].id \in CredId
    BY <1>1, PresentedFields
  <2>3. h \in Hash /\ h.user_id \in User /\ h.public_key = pres[w].id
    BY <1>2, <2>2 DEF CredInv, CredTypeOK, RecordsSound
  <2> HIDE DEF h
  <2>4. \A v \in Worker : pc'[v] = IF v = w THEN "judge" ELSE pc[v]
    BY <2>1 DEF WorkerTypeOK
  <2>5. \A v \in Worker : got'[v] = IF v = w THEN h ELSE got[v]
    BY <2>1 DEF WorkerTypeOK
  <2>6. WorkerTypeOK'
    BY <1>1, <2>1, <2>3 DEF WorkerTypeOK, VerifyPc
  <2>7. WorkerLocals'
    BY <1>1, <2>1, <2>3, <2>4, <2>5 DEF WorkerLocals, Holding
  <2>8. Exclusive'
    BY <1>1, <2>1, <2>4 DEF Exclusive, Holding
  <2>9. ChallengeLife' /\ OneSessionPerChallenge'
    BY <1>1 DEF ChallengeLife, OneSessionPerChallenge
  <2>10. QED
    BY <2>6, <2>7, <2>8, <2>9
<1>3. CASE ~(Replied(o) /\ credential_get(h))
  BY <1>1, <1>3, VerifyAnswerInv DEF Lookup, Status
<1>4. QED
  BY <1>2, <1>3

\* The decision: the worker goes on with an assertion it has accepted.
LEMMA JudgeInv ==
  ASSUME NEW w \in Worker, WorkerInv, Judge(w)
  PROVE  WorkerInv'
<1> DEFINE ok == assertion_verify(pres[w], got[w].public_key,
                                  StoredCount(got[w]))
<1>1. /\ pc[w] = "judge"
      /\ UNCHANGED <<chalVars, rateVars, redeemed, minted, top>>
  BY DEF Judge
<1>2. CASE ok
  <2> USE DEF WorkerInv, chalVars, rateVars
  <2>1. /\ pc' = [pc EXCEPT ![w] = "update"]
        /\ UNCHANGED <<conn, chal, status, pres, got>>
    BY <1>2 DEF Judge, Goto
  <2>2. assertion_verify(pres[w], got[w].public_key, StoredCount(got[w]))
    BY <1>2
  <2> HIDE DEF ok
  <2>3. \A v \in Worker : pc'[v] = IF v = w THEN "update" ELSE pc[v]
    BY <2>1 DEF WorkerTypeOK
  <2>4. WorkerTypeOK'
    BY <1>1, <2>1 DEF WorkerTypeOK, VerifyPc
  <2>5. WorkerLocals'
    BY <1>1, <2>1, <2>2, <2>3 DEF WorkerLocals, Holding
  <2>6. Exclusive'
    BY <1>1, <2>1, <2>3 DEF Exclusive, Holding
  <2>7. ChallengeLife' /\ OneSessionPerChallenge'
    BY <1>1 DEF ChallengeLife, OneSessionPerChallenge
  <2>8. QED
    BY <2>4, <2>5, <2>6, <2>7
<1>3. CASE ~ok
  BY <1>1, <1>3, VerifyAnswerInv DEF Judge, Status
<1>4. QED
  BY <1>2, <1>3

\* HSET of the counter, the worker's side.
LEMMA update_counterInv ==
  ASSUME NEW w \in Worker, NEW o, WorkerInv, update_counter(w, o)
  PROVE  WorkerInv'
<1> USE DEF WorkerInv, chalVars, rateVars
<1>1. /\ pc[w] = "update"
      /\ pres[w] \in Presented
      /\ pc' = [pc EXCEPT ![w] = "mint"]
      /\ conn' = [conn EXCEPT ![w] = "closed"]
      /\ UNCHANGED <<chal, status, chalVars, rateVars, pres, got,
                     redeemed, minted>>
  BY DEF update_counter, WorkerLocals, Holding
<1>2. pres[w].id \in CredId /\ pres[w].signCount \in Count
  BY <1>1, PresentedFields
<1>3. top' \in [CredId -> Count \cup {Nil}]
  BY <1>2 DEF update_counter, WorkerTypeOK
<1>4. \A v \in Worker : pc'[v] = IF v = w THEN "mint" ELSE pc[v]
  BY <1>1 DEF WorkerTypeOK
<1>5. WorkerTypeOK'
  BY <1>1, <1>3 DEF WorkerTypeOK, VerifyPc, Handle
<1>6. WorkerLocals'
  BY <1>1, <1>4 DEF WorkerLocals, Holding
<1>7. Exclusive'
  BY <1>1, <1>4 DEF Exclusive, Holding
<1>8. ChallengeLife' /\ OneSessionPerChallenge'
  BY <1>1 DEF ChallengeLife, OneSessionPerChallenge
<1>9. QED
  BY <1>5, <1>6, <1>7, <1>8

\* HSET of the counter, the store's side: whatever happened to the record since
\* it was read, writing the counter makes it neither usable nor unusable.
LEMMA CounterWriteInv ==
  ASSUME NEW w \in Worker, NEW o, CredInv, WorkerInv, update_counter(w, o)
  PROVE  CredInv'
<1> DEFINE c == pres[w].id
           h == CounterFields(record[c], pres[w].signCount)
<1>1. c \in CredId /\ pres[w].signCount \in Count
  BY PresentedFields DEF update_counter, WorkerInv, WorkerLocals, Holding
<1>2. UNCHANGED <<index, cliPc, cliConn, cliArg, registered, torn>>
  BY DEF update_counter, cliVars
<1>3. CliSound
  BY <1>2 DEF CliSound, CredInv, CredTypeOK, CliLocals
<1>4. CASE Applied(o)
  <2>1. record' = [record EXCEPT ![c] = h]
    BY <1>4 DEF update_counter
  <2>2. record[c] \in Hash
    BY <1>1 DEF CredInv, CredTypeOK
  <2>3. /\ h \in Hash
        /\ h.user_id = record[c].user_id
        /\ h.public_key = record[c].public_key
    BY <1>1, <2>2, HashFacts
  <2>4. h.public_key # Nil => h.user_id \in User /\ h.public_key = c
    BY <1>1, <2>2, <2>3, HashFacts DEF CredInv, RecordsSound
  <2> HIDE DEF c, h
  <2>5. record' \in [CredId -> Hash] /\ RecordsSound'
    BY <1>1, <2>1, <2>3, <2>4, RecordWrite
  <2>6. QED
    BY <1>2, <1>3, <2>5 DEF CliSound, CredInv, CredTypeOK
<1>5. CASE ~Applied(o)
  <2>1. UNCHANGED credVars
    BY <1>2, <1>5 DEF update_counter, credVars
  <2>2. QED
    BY <2>1, CredUnchanged
<1>6. QED
  BY <1>4, <1>5

\* It makes no credential usable or unusable.
LEMMA CounterWriteUsable ==
  ASSUME NEW w \in Worker, NEW o, CredInv, WorkerInv, update_counter(w, o)
  PROVE  UsableKept
<1> DEFINE c == pres[w].id
           h == CounterFields(record[c], pres[w].signCount)
<1>1. c \in CredId /\ pres[w].signCount \in Count
  BY PresentedFields DEF update_counter, WorkerInv, WorkerLocals, Holding
<1>2. registered' = registered
  BY DEF update_counter, cliVars
<1>3. CASE Applied(o)
  <2>1. record' = [record EXCEPT ![c] = h]
    BY <1>3 DEF update_counter
  <2>2. record[c] \in Hash
    BY <1>1 DEF CredInv, CredTypeOK
  <2>3. h \in Hash /\ h.public_key = record[c].public_key
    BY <1>1, <2>2, HashFacts
  <2>4. UsableIff(c) => (c \in registered' <=> h.public_key # Nil)
    BY <1>2, <2>2, <2>3, HashFacts DEF UsableIff
  <2> HIDE DEF c, h
  <2>5. QED
    BY <1>1, <1>2, <2>1, <2>3, <2>4, UsableWrite
<1>4. CASE ~Applied(o)
  BY <1>2, <1>4, UsableUnchanged DEF update_counter
<1>5. QED
  BY <1>3, <1>4

\* The session: the challenge the worker holds has not been minted for, and
\* nobody else holds it.
LEMMA MintInv ==
  ASSUME NEW w \in Worker, WorkerInv, Mint(w)
  PROVE  WorkerInv'
<1> DEFINE c == chal[w]
<1>1. /\ pc[w] = "mint"
      /\ c \in redeemed
      /\ minted[c] = 0
      /\ UNCHANGED <<chalVars, rateVars, redeemed, top>>
  BY DEF Mint, WorkerInv, WorkerLocals, Holding
<1>2. CASE VerifyAnswer(w, 500) /\ UNCHANGED minted
  BY <1>1, <1>2, VerifyAnswerInv DEF Status
<1>3. CASE /\ VerifyAnswer(w, 200) \/ VerifyAnswer(w, 500)
           /\ minted' = [minted EXCEPT ![c] = @ + 1]
  <2> USE DEF WorkerInv, chalVars, rateVars
  <2>1. LeftAt(w, "verified")
    BY <1>3, AnswerInv DEF VerifyAnswer, Status
  <2>2. /\ pres' \in [Worker -> Presented \cup {Nil}]
        /\ got' \in [Worker -> Hash]
        /\ \A v \in Worker \ {w} : pres'[v] = pres[v] /\ got'[v] = got[v]
    BY <1>3, KeysKept DEF VerifyAnswer
  <2>3. /\ minted' \in [Challenge -> Nat]
        /\ minted'[c] = 1
        /\ \A d \in Challenge \ {c} : minted'[d] = minted[d]
    BY <1>1, <1>3 DEF WorkerTypeOK
  <2>4. \A v \in Worker \ {w} : pc[v] \in Holding => chal[v] # c
    BY <1>1 DEF Exclusive, Holding
  <2> HIDE DEF c
  <2>5. WorkerTypeOK' /\ Exclusive'
    BY <1>1, <2>1, <2>2, <2>3 DEF WorkerTypeOK, LeftAt
  <2>6. WorkerLocals'
    BY <1>1, <2>1, <2>2, <2>3, <2>4
    DEF WorkerTypeOK, WorkerLocals, Holding, LeftAt
  <2>7. ChallengeLife' /\ OneSessionPerChallenge'
    BY <1>1, <2>3 DEF ChallengeLife, OneSessionPerChallenge
  <2>8. QED
    BY <2>5, <2>6, <2>7
<1>4. QED
  BY <1>2, <1>3 DEF Mint, SetCookie

-----------------------------------------------------------------------------
(* The whole system.                                                       *)

\* A step that leaves the workers and their keys alone, except for the history
\* of accepted counters, keeps their invariant.
LEMMA WorkerUnchanged ==
  ASSUME WorkerInv, UNCHANGED challengeVars,
         UNCHANGED <<pres, got, redeemed, minted>>,
         top' \in [CredId -> Count \cup {Nil}]
  PROVE  WorkerInv'
<1> USE DEF WorkerInv, challengeVars
<1>1. WorkerTypeOK'
  BY DEF WorkerTypeOK
<1>2. WorkerLocals' /\ Exclusive'
  BY DEF WorkerLocals, Exclusive
<1>3. ChallengeLife' /\ OneSessionPerChallenge'
  BY DEF ChallengeLife, OneSessionPerChallenge
<1>4. QED
  BY <1>1, <1>2, <1>3

\* Every step of a CLI process, whatever the workers are in the middle of.
LEMMA CliStepInv ==
  ASSUME NEW a \in Admin, LoginInv, CliStep(a)
  PROVE  LoginInv'
<1> USE DEF LoginInv
<1>1. CASE Enrol(a)
  <2> PICK o \in redis_exec(cliConn[a]) :
        /\ PutRecord(a, o)
        /\ top' = IF Applied(o) THEN [top EXCEPT ![cliArg[a].cred] = Nil]
                  ELSE top
        /\ UNCHANGED <<challengeVars, pres, got, redeemed, minted>>
    BY <1>1 DEF Enrol
  <2>1. CredInv'
    BY PutRecordInv
  <2>2. top' \in [CredId -> Count \cup {Nil}]
    BY DEF WorkerInv, WorkerTypeOK
  <2>3. WorkerInv'
    BY <2>2, WorkerUnchanged
  <2>4. QED
    BY <2>1, <2>3
<1>2. CASE /\ CliStart(a) \/ CliCommand(a) \/ CliKilled(a)
           /\ UNCHANGED <<challengeVars, verifyVars>>
  <2>1. CredInv'
    BY <1>2, CliStartInv, CliKilledInv, PutIndexInv, DeleteGetInv,
       DeleteRecordInv, DeleteIndexInv DEF CliCommand
  <2>2. top' \in [CredId -> Count \cup {Nil}]
    BY <1>2 DEF verifyVars, WorkerInv, WorkerTypeOK
  <2>3. WorkerInv'
    BY <1>2, <2>2, WorkerUnchanged DEF verifyVars
  <2>4. QED
    BY <2>1, <2>3
<1>3. QED
  BY <1>1, <1>2 DEF CliStep

\* Every step of a worker, whatever the others are in the middle of.
LEMMA WorkerStepInv ==
  ASSUME NEW w \in Worker, LoginInv,
         WorkerStart(w) \/ WorkerStep(w) \/ WorkerDies(w)
  PROVE  LoginInv'
<1> USE DEF LoginInv
<1>1. CASE ChallengeStep(w) /\ UNCHANGED <<credVars, verifyVars>>
  <2>1. CredInv'
    BY <1>1, CredUnchanged
  <2>2. WorkerInv'
    BY <1>1, RateLimitInv, challenge_issueInv, AllowCredentialsInv, FinishInv
    DEF ChallengeStep, ChallengeCommand
  <2>3. QED
    BY <2>1, <2>2
<1>2. CASE VerifyStep(w)
  <2>1. CASE \E o \in redis_exec(conn[w]) : update_counter(w, o)
    BY <2>1, update_counterInv, CounterWriteInv
  <2>2. CASE \E o \in redis_exec(conn[w]) :
               challenge_consume(w, o) \/ Lookup(w, o)
    <3>1. UNCHANGED credVars
      BY <2>2 DEF challenge_consume, Lookup
    <3>2. WorkerInv'
      BY <2>2, challenge_consumeInv, LookupInv
    <3>3. QED
      BY <3>1, <3>2, CredUnchanged
  <2>3. CASE Judge(w) \/ Mint(w)
    <3>1. UNCHANGED credVars
      BY <2>3 DEF Judge, Mint
    <3>2. QED
      BY <2>3, <3>1, CredUnchanged, JudgeInv, MintInv
  <2>4. CASE /\ Finish(w, "verified")
             /\ UNCHANGED <<chalVars, rateVars, credVars, verifyVars>>
    BY <2>4, FinishInv, CredUnchanged
  <2>5. QED
    BY <1>2, <2>1, <2>2, <2>3, <2>4 DEF VerifyStep, VerifyCommand
<1>3. CASE WorkerStart(w)
  <2>1. UNCHANGED credVars
    BY <1>3 DEF WorkerStart, VerifyStart, VerifyNoConnect, VerifyNotRead,
                VerifyMalformed
  <2>2. WorkerInv'
    BY <1>3, ChallengeStartInv, ChallengeNoConnectInv, VerifyStartInv,
       VerifyRefusedInv DEF WorkerStart
  <2>3. QED
    BY <2>1, <2>2, CredUnchanged
<1>4. CASE WorkerDies(w)
  <2>1. UNCHANGED credVars
    BY <1>4 DEF WorkerDies
  <2>2. QED
    BY <1>4, <2>1, CredUnchanged, WorkerDiesInv
<1>5. QED
  BY <1>1, <1>2, <1>3, <1>4 DEF WorkerStep

\* LoginInv is inductive.
LEMMA StepInv == LoginInv /\ [LoginNext]_loginVars => LoginInv'
<1> SUFFICES ASSUME LoginInv, [LoginNext]_loginVars PROVE LoginInv'
  OBVIOUS
<1>1. CASE \E w \in Worker : WorkerStart(w) \/ WorkerStep(w) \/ WorkerDies(w)
  BY <1>1, WorkerStepInv
<1>2. CASE \E a \in Admin : CliStep(a)
  BY <1>2, CliStepInv
<1>3. CASE Tick /\ UNCHANGED <<credVars, verifyVars>>
  BY <1>3, TickInv, CredUnchanged DEF LoginInv
<1>4. CASE UNCHANGED loginVars
  <2>1. UNCHANGED <<credVars, challengeVars, verifyVars>>
    BY <1>4 DEF loginVars
  <2>2. top' \in [CredId -> Count \cup {Nil}]
    BY <2>1 DEF verifyVars, LoginInv, WorkerInv, WorkerTypeOK
  <2>3. QED
    BY <2>1, <2>2, CredUnchanged, WorkerUnchanged DEF LoginInv, verifyVars
<1>5. QED
  BY <1>1, <1>2, <1>3, <1>4 DEF LoginNext

\* The inductive invariant holds in every reachable state of every instance.
THEOREM Invariant == LoginSpec => []LoginInv
BY InitInv, StepInv, PTL DEF LoginSpec

\* Every key and every local of the handlers and the CLI keeps its type.
THEOREM TypeCorrect == LoginSpec => []LoginTypeOK
<1>1. LoginInv => LoginTypeOK
  BY DEF LoginInv, CredInv, WorkerInv, LoginTypeOK
<1>2. QED
  BY <1>1, Invariant, PTL

\* GETDEL makes a challenge worth at most one session, for any number of
\* workers, requests and failures.
THEOREM Replay == LoginSpec => []OneSessionPerChallenge
<1>1. LoginInv => OneSessionPerChallenge
  BY DEF LoginInv, WorkerInv
<1>2. QED
  BY <1>1, Invariant, PTL

\* No step of the login path makes a credential usable, or unusable, against the
\* last word of the CLI on it.
LEMMA LoginUsable == LoginInv /\ [LoginNext]_loginVars => UsableKept
<1> SUFFICES ASSUME LoginInv, [LoginNext]_loginVars PROVE UsableKept
  OBVIOUS
<1> USE DEF LoginInv
<1>1. ASSUME NEW a \in Admin, CliStep(a)
      PROVE  UsableKept
  BY <1>1, PutRecordUsable, CliUsable DEF CliStep, Enrol
<1>2. ASSUME NEW w \in Worker, NEW o, update_counter(w, o)
      PROVE  UsableKept
  BY <1>2, CounterWriteUsable
<1>3. ASSUME NEW w \in Worker, VerifyStep(w)
      PROVE  UsableKept
  <2>1. CASE \E o : challenge_consume(w, o) \/ Lookup(w, o)
    BY <2>1, UsableUnchanged DEF challenge_consume, Lookup, credVars
  <2>2. CASE Judge(w) \/ Mint(w)
    BY <2>2, UsableUnchanged DEF Judge, Mint, credVars
  <2>3. CASE UNCHANGED credVars
    BY <2>3, UsableUnchanged DEF credVars
  <2>4. QED
    BY <1>2, <1>3, <2>1, <2>2, <2>3 DEF VerifyStep, VerifyCommand
<1>4. ASSUME NEW w \in Worker, WorkerStart(w) \/ WorkerDies(w)
      PROVE  UsableKept
  <2>1. UNCHANGED credVars
    BY <1>4 DEF WorkerStart, VerifyStart, VerifyNoConnect, VerifyNotRead,
                VerifyMalformed, WorkerDies
  <2>2. QED
    BY <2>1, UsableUnchanged DEF credVars
<1>5. CASE UNCHANGED credVars
  BY <1>5, UsableUnchanged DEF credVars
<1>6. CASE UNCHANGED loginVars
  BY <1>5, <1>6 DEF loginVars
<1>7. QED
  BY <1>1, <1>3, <1>4, <1>5, <1>6 DEF LoginNext, WorkerStep

\* The counter HSET of a verify that overlaps a revoke or a register never
\* changes which credentials can authenticate.
THEOREM RevokeHolds == LoginSpec => []UsableIffRegistered
<1>1. LoginInit => UsableIffRegistered
  BY HashFacts DEF LoginInit, CredInit, UsableIffRegistered, UsableIff
<1>2. UsableIffRegistered /\ UsableKept => UsableIffRegistered'
  BY DEF UsableIffRegistered, UsableKept
<1>3. QED
  BY <1>1, <1>2, Invariant, LoginUsable, PTL DEF LoginSpec

\* A session is minted only by the worker that redeemed the challenge, for a
\* user, and for an assertion with none of the flaws the decision looks for.
THEOREM MintIsJustified == LoginSpec => []MintJustified
<1>1. LoginInv => MintJustified
  BY DEF LoginInv, WorkerInv, WorkerLocals, Holding, MintJustified,
         assertion_verify, clientdata_verify, authdata_parse, check_signature
<1>2. QED
  BY <1>1, Invariant, PTL

-----------------------------------------------------------------------------
(* The login path implements OneShotLogin.                                 *)

\* What a step must leave alone to be a stuttering step of OneShotLogin.
OneShotIdle == UNCHANGED <<ttl, issued, redeemed, minted>>

\* SET is the abstract Issue.
LEMMA IssueStep ==
  ASSUME NEW w \in Worker, NEW o, LoginInv, challenge_issue(w, o),
         UNCHANGED verifyVars
  PROVE  OneShotIdle \/ \E c \in Challenge : OneShot!Issue(c)
<1>1. chal[w] \in Challenge \ issued
  BY DEF challenge_issue, LoginInv, WorkerInv, WorkerLocals
<1>2. CASE Applied(o)
  <2>1. OneShot!Issue(chal[w])
    BY <1>1, <1>2 DEF challenge_issue, set_ex, verifyVars, OneShot!Issue
  <2>2. QED
    BY <1>1, <2>1
<1>3. CASE ~Applied(o)
  BY <1>3 DEF challenge_issue, verifyVars, OneShotIdle
<1>4. QED
  BY <1>2, <1>3

\* GETDEL is the abstract Redeem, or Burn when its reply is lost.
LEMMA ConsumeStep ==
  ASSUME NEW w \in Worker, NEW o, LoginInv, challenge_consume(w, o)
  PROVE  \/ OneShotIdle
         \/ \E c \in Challenge : OneShot!Redeem(c) \/ OneShot!Burn(c)
<1> DEFINE c == chal[w]
           found == c # Nil /\ ttl[c] > 0
<1>1. c \in Challenge \cup {Nil}
  BY DEF LoginInv, WorkerInv, WorkerTypeOK
<1>2. UNCHANGED <<issued, minted>>
  BY DEF challenge_consume
<1>3. CASE Applied(o) /\ found
  <2>1. ttl' = [ttl EXCEPT ![c] = 0]
    BY <1>3 DEF challenge_consume, getdel
  <2>2. redeemed' = redeemed \cup {c} \/ UNCHANGED redeemed
    BY DEF challenge_consume
  <2>3. OneShot!Redeem(c) \/ OneShot!Burn(c)
    BY <1>2, <1>3, <2>1, <2>2 DEF OneShot!Redeem, OneShot!Burn
  <2>4. QED
    BY <1>1, <1>3, <2>3
<1>4. CASE ~(Applied(o) /\ found)
  <2>1. UNCHANGED ttl
    BY <1>4 DEF challenge_consume
  <2>2. UNCHANGED redeemed
    BY <1>4 DEF challenge_consume, Applied, Replied
  <2>3. QED
    BY <1>2, <2>1, <2>2 DEF OneShotIdle
<1>5. QED
  BY <1>3, <1>4

\* Handing out the token is the abstract Mint.
LEMMA MintStep ==
  ASSUME NEW w \in Worker, LoginInv, Mint(w)
  PROVE  OneShotIdle \/ \E c \in Challenge : OneShot!Mint(c)
<1> DEFINE c == chal[w]
<1>1. /\ c \in redeemed
      /\ c \in Challenge
      /\ minted[c] = 0
  BY DEF Mint, LoginInv, WorkerInv, WorkerTypeOK, WorkerLocals, Holding
<1>2. UNCHANGED <<ttl, issued, redeemed>>
  BY DEF Mint, chalVars
<1>3. CASE minted' = [minted EXCEPT ![c] = @ + 1]
  <2>1. minted' = [minted EXCEPT ![c] = 1]
    BY <1>1, <1>3 DEF LoginInv, WorkerInv, WorkerTypeOK
  <2>2. OneShot!Mint(c)
    BY <1>1, <1>2, <2>1 DEF OneShot!Mint
  <2>3. QED
    BY <1>1, <2>2
<1>4. CASE UNCHANGED minted
  BY <1>2, <1>4 DEF OneShotIdle
<1>5. QED
  BY <1>3, <1>4 DEF Mint, SetCookie

\* Every other step is invisible.
LEMMA InvisibleSteps ==
  ASSUME NEW w \in Worker,
         \/ WorkerStart(w) \/ WorkerDies(w) \/ Judge(w)
         \/ \E o : Lookup(w, o) \/ update_counter(w, o)
         \/ \E o : RateLimit(w, o) /\ UNCHANGED verifyVars
         \/ \E o : AllowCredentials(w, o) /\ UNCHANGED verifyVars
         \/ UNCHANGED <<chalVars, verifyVars>>
  PROVE  OneShotIdle
<1> USE DEF OneShotIdle, chalVars, verifyVars
<1>1. CASE WorkerStart(w)
  BY <1>1 DEF WorkerStart, ChallengeStart, ChallengeNoConnect, VerifyStart,
              VerifyNoConnect, VerifyNotRead, VerifyMalformed
<1>2. CASE WorkerDies(w) \/ Judge(w) \/ UNCHANGED <<chalVars, verifyVars>>
  BY <1>2 DEF WorkerDies, Judge
<1>3. CASE \E o : Lookup(w, o) \/ update_counter(w, o)
  BY <1>3 DEF Lookup, update_counter
<1>4. CASE \/ \E o : RateLimit(w, o) /\ UNCHANGED verifyVars
           \/ \E o : AllowCredentials(w, o) /\ UNCHANGED verifyVars
  BY <1>4 DEF RateLimit, AllowCredentials
<1>5. QED
  BY <1>1, <1>2, <1>3, <1>4

\* Every step of the login path is a step of OneShotLogin or invisible in it.
LEMMA OneShotStep ==
  LoginInv /\ [LoginNext]_loginVars
    => [OneShot!Next]_<<ttl, issued, redeemed, minted>>
<1> SUFFICES ASSUME LoginInv, [LoginNext]_loginVars
             PROVE  OneShot!Next \/ OneShotIdle
  BY DEF OneShotIdle
<1>1. ASSUME NEW w \in Worker, WorkerStep(w)
      PROVE  OneShot!Next \/ OneShotIdle
  <2>1. CASE ChallengeStep(w) /\ UNCHANGED <<credVars, verifyVars>>
    BY <2>1, IssueStep, InvisibleSteps
    DEF ChallengeStep, ChallengeCommand, OneShot!Next
  <2>2. CASE VerifyStep(w)
    BY <2>2, ConsumeStep, MintStep, InvisibleSteps
    DEF VerifyStep, VerifyCommand, OneShot!Next
  <2>3. QED
    BY <1>1, <2>1, <2>2 DEF WorkerStep
<1>2. ASSUME NEW w \in Worker, WorkerStart(w) \/ WorkerDies(w)
      PROVE  OneShotIdle
  BY <1>2, InvisibleSteps
<1>3. ASSUME NEW a \in Admin, CliStep(a)
      PROVE  OneShotIdle
  BY <1>3 DEF CliStep, Enrol, challengeVars, verifyVars, OneShotIdle
<1>4. CASE Tick /\ UNCHANGED <<credVars, verifyVars>>
  <2>1. OneShot!Elapse
    BY <1>4 DEF Tick, verifyVars, OneShot!Elapse
  <2>2. QED
    BY <2>1 DEF OneShot!Next
<1>5. CASE UNCHANGED loginVars
  BY <1>5 DEF loginVars, challengeVars, verifyVars, OneShotIdle
<1>6. QED
  BY <1>1, <1>2, <1>3, <1>4, <1>5 DEF LoginNext

\* The handlers, on any number of workers sharing one Redis and with any of the
\* failures, implement the one-shot promise: a challenge is stored once,
\* redeemed at most once while it lives, and worth at most one session.
THEOREM Refinement == LoginSpec => OneShotSpec
<1>1. LoginInit => OneShot!Init
  BY DEF LoginInit, ChallengeInit, OneShot!Init
<1>2. QED
  BY <1>1, OneShotStep, Invariant, PTL
  DEF LoginSpec, OneShotSpec, OneShot!Spec, OneShot!oneShotVars

-----------------------------------------------------------------------------
(* The counters of the assertions accepted, for verifiers apart.           *)

\* A step of worker w leaves the locals of the others alone.
Elsewhere(w) ==
  \A v \in Worker \ {w} :
    /\ pc'[v] = pc[v] /\ conn'[v] = conn[v]
    /\ pres'[v] = pres[v] /\ got'[v] = got[v]

Verifying == {"consume", "lookup", "judge", "update"}

\* w's part of CounterInv.
CounterLocal(w) ==
  /\ pc[w] \in Verifying => conn[w] = "open"
  /\ pc[w] \in {"judge", "update"} /\ top[pres[w].id] # Nil
       => StoredCount(got[w]) >= top[pres[w].id]
  /\ pc[w] = "update" => check_counter(pres[w].signCount, StoredCount(got[w]))

CounterStored ==
  \A c \in CredId :
    credential_get(record[c]) /\ top[c] # Nil => StoredCount(record[c]) >= top[c]

LEMMA CounterParts ==
  CounterInv <=> CounterStored /\ \A w \in Worker : CounterLocal(w)
BY DEF CounterInv, CounterStored, CounterLocal, Verifying

\* A step of a worker that writes no counter keeps CounterInv when it keeps the
\* worker's own part.
LEMMA CounterKept ==
  ASSUME NEW w \in Worker, CounterInv, Elsewhere(w), UNCHANGED <<record, top>>,
         CounterLocal(w)'
  PROVE  CounterInv'
<1>1. CounterStored'
  BY CounterParts DEF CounterStored
<1>2. ASSUME NEW v \in Worker \ {w}
      PROVE  CounterLocal(v)'
  BY <1>2, CounterParts DEF CounterLocal, Elsewhere
<1>3. \A v \in Worker : CounterLocal(v)'
  BY <1>2
<1>4. QED
  BY <1>1, <1>3 DEF CounterInv, CounterStored, CounterLocal, Verifying

\* It does so when the worker is not verifying afterwards.
LEMMA CounterLeft ==
  ASSUME NEW w \in Worker, CounterInv, Elsewhere(w), UNCHANGED <<record, top>>,
         pc'[w] \notin Verifying
  PROVE  CounterInv'
<1>1. CounterLocal(w)'
  BY DEF CounterLocal, Verifying
<1>2. QED
  BY <1>1, CounterKept

LEMMA AnswerElsewhere ==
  ASSUME NEW w \in Worker, NEW s, NEW at, WorkerTypeOK, Answer(w, s, at),
         \/ UNCHANGED <<pres, got>>
         \/ /\ pres' = [pres EXCEPT ![w] = Nil]
            /\ got' = [got EXCEPT ![w] = NoHash]
  PROVE  Elsewhere(w) /\ pc'[w] = at
BY DEF Answer, WorkerTypeOK, Elsewhere

LEMMA VerifyAnswerElsewhere ==
  ASSUME NEW w \in Worker, NEW s, WorkerTypeOK, VerifyAnswer(w, s)
  PROVE  Elsewhere(w) /\ pc'[w] = "verified"
BY AnswerElsewhere DEF VerifyAnswer

LEMMA CounterAnswered ==
  ASSUME NEW w \in Worker, NEW s, WorkerTypeOK, CounterInv, VerifyAnswer(w, s),
         UNCHANGED <<record, top>>
  PROVE  CounterInv'
<1>1. Elsewhere(w) /\ pc'[w] \notin Verifying
  BY VerifyAnswerElsewhere DEF Verifying
<1>2. QED
  BY <1>1, CounterLeft

\* The challenge handler.
LEMMA CounterChallenge ==
  ASSUME NEW w \in Worker, WorkerTypeOK, CounterInv,
         UNCHANGED <<credVars, verifyVars>>,
         \/ \E c \in Challenge : ChallengeStart(w, c)
         \/ ChallengeNoConnect(w)
         \/ ChallengeStep(w)
  PROVE  CounterInv'
<1>1. UNCHANGED <<record, top, pres, got>>
  BY DEF credVars, verifyVars
<1>2. SUFFICES Elsewhere(w) /\ pc'[w] \notin Verifying
  BY <1>1, CounterLeft
<1>3. ASSUME NEW s, Answer(w, s, "served")
      PROVE  Elsewhere(w) /\ pc'[w] \notin Verifying
  BY <1>1, <1>3, AnswerElsewhere DEF Verifying
<1>4. ASSUME NEW to \in {"issue", "rate", "allow", "idle"},
             pc' = [pc EXCEPT ![w] = to],
             \A v \in Worker \ {w} : conn'[v] = conn[v]
      PROVE  Elsewhere(w) /\ pc'[w] \notin Verifying
  <2>1. pc'[w] = to /\ \A v \in Worker \ {w} : pc'[v] = pc[v]
    BY <1>4 DEF WorkerTypeOK
  <2>2. QED
    BY <1>1, <1>4, <2>1 DEF Elsewhere, Verifying
<1>5. CASE \E c \in Challenge : ChallengeStart(w, c)
  <2>1. /\ \E to \in {"issue", "rate"} : pc' = [pc EXCEPT ![w] = to]
        /\ \A v \in Worker \ {w} : conn'[v] = conn[v]
    BY <1>5 DEF ChallengeStart, WorkerTypeOK
  <2>2. QED
    BY <1>4, <2>1
<1>6. CASE ChallengeNoConnect(w)
  BY <1>3, <1>6 DEF ChallengeNoConnect
<1>7. ASSUME NEW o, RateLimit(w, o)
      PROVE  Elsewhere(w) /\ pc'[w] \notin Verifying
  <2>1. CASE Answer(w, 429, "served")
    BY <1>3, <2>1
  <2>2. CASE /\ pc' = [pc EXCEPT ![w] = "issue"]
             /\ conn' = [conn EXCEPT ![w] = HandleAfter(@, o)]
    <3>1. \A v \in Worker \ {w} : conn'[v] = conn[v]
      BY <2>2 DEF WorkerTypeOK
    <3>2. QED
      BY <1>4, <2>2, <3>1
  <2>3. QED
    BY <1>7, <2>1, <2>2 DEF RateLimit
<1>8. ASSUME NEW o, challenge_issue(w, o)
      PROVE  Elsewhere(w) /\ pc'[w] \notin Verifying
  <2>1. CASE pc' = [pc EXCEPT ![w] = "allow"] /\ conn' = conn
    BY <1>4, <2>1
  <2>2. QED
    BY <1>3, <1>8, <2>1 DEF challenge_issue, Serve
<1>9. ASSUME NEW o, AllowCredentials(w, o)
      PROVE  Elsewhere(w) /\ pc'[w] \notin Verifying
  BY <1>3, <1>9 DEF AllowCredentials, Serve
<1>10. CASE Finish(w, "served")
  <2>1. pc' = [pc EXCEPT ![w] = "idle"] /\ conn' = conn
    BY <1>10 DEF Finish
  <2>2. QED
    BY <1>4, <2>1
<1>11. QED
  BY <1>5, <1>6, <1>7, <1>8, <1>9, <1>10 DEF ChallengeStep, ChallengeCommand

\* The verify handler up to the counter HSET.
LEMMA CounterVerify ==
  ASSUME NEW w \in Worker, LoginInv, CounterInv,
         \/ WorkerStart(w) \/ WorkerDies(w) \/ Judge(w) \/ Mint(w)
         \/ \E o \in redis_exec(conn[w]) :
              challenge_consume(w, o) \/ Lookup(w, o)
         \/ /\ Finish(w, "verified")
            /\ UNCHANGED <<chalVars, rateVars, credVars, verifyVars>>
  PROVE  CounterInv'
<1>1. WorkerTypeOK /\ WorkerLocals /\ CounterLocal(w) /\ CounterStored
  BY CounterParts DEF LoginInv, WorkerInv
<1>2. ASSUME NEW s, VerifyAnswer(w, s), UNCHANGED credVars, UNCHANGED top
      PROVE  CounterInv'
  BY <1>1, <1>2, CounterAnswered DEF credVars
<1>3. ASSUME NEW to \in {"lookup", "judge", "update"}, Goto(w, to),
             \A v \in Worker \ {w} : pres'[v] = pres[v] /\ got'[v] = got[v]
      PROVE  Elsewhere(w) /\ pc'[w] = to /\ conn'[w] = conn[w]
  BY <1>1, <1>3 DEF Goto, WorkerTypeOK, Elsewhere
<1>4. CASE WorkerStart(w)
  <2>1. CASE \E a \in Presented, c \in served \cup {Nil} : VerifyStart(w, a, c)
    <3>1. /\ Elsewhere(w) /\ pc'[w] = "consume" /\ conn'[w] = "open"
          /\ UNCHANGED <<record, top>>
      BY <1>1, <2>1 DEF VerifyStart, Elsewhere, WorkerTypeOK, credVars
    <3>2. CounterLocal(w)'
      BY <3>1 DEF CounterLocal
    <3>3. QED
      BY <3>1, <3>2, CounterKept
  <2>2. CASE VerifyNoConnect(w) \/ VerifyNotRead(w) \/ VerifyMalformed(w)
    BY <1>2, <2>2 DEF VerifyNoConnect, VerifyNotRead, VerifyMalformed
  <2>3. QED
    BY <1>1, <1>4, <2>1, <2>2, CounterChallenge DEF WorkerStart
<1>5. CASE WorkerDies(w)
  <2>1. /\ Elsewhere(w) /\ pc'[w] = "idle" /\ UNCHANGED <<record, top>>
    BY <1>1, <1>5 DEF WorkerDies, Die, Elsewhere, WorkerTypeOK, credVars
  <2>2. QED
    BY <2>1, CounterLeft DEF Verifying
<1>6. CASE Judge(w)
  <2>1. CASE VerifyAnswer(w, 401)
    BY <1>2, <1>6, <2>1 DEF Judge
  <2>2. CASE /\ assertion_verify(pres[w], got[w].public_key, StoredCount(got[w]))
             /\ Goto(w, "update") /\ UNCHANGED <<pres, got>>
    <3>1. /\ Elsewhere(w) /\ pc'[w] = "update" /\ conn'[w] = conn[w]
          /\ UNCHANGED <<record, top, pres, got>> /\ pc[w] = "judge"
      BY <1>3, <1>6, <2>2 DEF Judge, credVars
    <3>2. check_counter(pres[w].signCount, StoredCount(got[w]))
      BY <2>2 DEF assertion_verify
    <3>3. CounterLocal(w)'
      BY <1>1, <3>1, <3>2 DEF CounterLocal, Verifying
    <3>4. QED
      BY <3>1, <3>3, CounterKept
  <2>3. QED
    BY <1>6, <2>1, <2>2 DEF Judge
<1>7. CASE Mint(w)
  BY <1>2, <1>7 DEF Mint
<1>8. ASSUME NEW o, challenge_consume(w, o)
      PROVE  CounterInv'
  <2>1. CASE VerifyAnswer(w, 401)
    BY <1>2, <1>8, <2>1 DEF challenge_consume
  <2>2. CASE Goto(w, "lookup") /\ UNCHANGED <<pres, got>>
    <3>1. /\ Elsewhere(w) /\ pc'[w] = "lookup" /\ conn'[w] = conn[w]
          /\ UNCHANGED <<record, top>> /\ pc[w] = "consume"
      BY <1>3, <1>8, <2>2 DEF challenge_consume, credVars
    <3>2. CounterLocal(w)'
      BY <1>1, <3>1 DEF CounterLocal, Verifying
    <3>3. QED
      BY <3>1, <3>2, CounterKept
  <2>3. QED
    BY <1>8, <2>1, <2>2 DEF challenge_consume
<1>9. ASSUME NEW o, Lookup(w, o)
      PROVE  CounterInv'
  <2> DEFINE c == pres[w].id
             h == record[c]
  <2>1. CASE VerifyAnswer(w, 401)
    BY <1>2, <1>9, <2>1 DEF Lookup
  <2>2. CASE /\ credential_get(h) /\ Goto(w, "judge")
             /\ got' = [got EXCEPT ![w] = h] /\ UNCHANGED pres
    <3>1. got'[w] = h /\ \A v \in Worker \ {w} : got'[v] = got[v]
      BY <1>1, <2>2 DEF WorkerTypeOK
    <3>2. /\ Elsewhere(w) /\ pc'[w] = "judge" /\ conn'[w] = conn[w]
          /\ UNCHANGED <<record, top, pres>> /\ pc[w] = "lookup"
      BY <1>3, <1>9, <2>2, <3>1 DEF Lookup, credVars
    <3>3. c \in CredId
      BY <1>1, <3>2, PresentedFields DEF WorkerLocals, Holding
    <3>4. top[c] # Nil => StoredCount(h) >= top[c]
      BY <1>1, <2>2, <3>3 DEF CounterStored
    <3>5. CounterLocal(w)'
      BY <1>1, <3>1, <3>2, <3>4 DEF CounterLocal, Verifying
    <3>6. QED
      BY <3>2, <3>5, CounterKept
  <2>3. QED
    BY <1>9, <2>1, <2>2 DEF Lookup
<1>10. CASE /\ Finish(w, "verified")
            /\ UNCHANGED <<chalVars, rateVars, credVars, verifyVars>>
  <2>1. /\ Elsewhere(w) /\ pc'[w] = "idle" /\ UNCHANGED <<record, top>>
    BY <1>1, <1>10 DEF Finish, Elsewhere, WorkerTypeOK, credVars, verifyVars
  <2>2. QED
    BY <2>1, CounterLeft DEF Verifying
<1>11. QED
  BY <1>4, <1>5, <1>6, <1>7, <1>8, <1>9, <1>10

\* What HSET writes is what is accepted: with verifiers apart nothing was
\* accepted since the record was read, so the counter is not behind.
LEMMA CounterAccepted ==
  ASSUME NEW w \in Worker, NEW o \in redis_exec(conn[w]), LoginInv, CounterInv,
         CloneDetection = "strict", Faults \cap {"refused", "unsent"} = {},
         update_counter(w, o)
  PROVE  LET last == top[pres[w].id]
             n == pres[w].signCount IN
         /\ Applied(o)
         /\ last = Nil \/ n > last \/ (n = 0 /\ last = 0)
         /\ top' = [top EXCEPT ![pres[w].id] = n]
<1> DEFINE c == pres[w].id
           n == pres[w].signCount
           last == top[c]
           g == StoredCount(got[w])
<1>1. WorkerTypeOK /\ WorkerLocals /\ CounterLocal(w) /\ pc[w] = "update"
  BY CounterParts DEF LoginInv, WorkerInv, update_counter
<1>2. c \in CredId /\ n \in Count
  BY <1>1, PresentedFields DEF WorkerLocals, Holding
<1>3. conn[w] = "open"
  BY <1>1 DEF CounterLocal, Verifying
<1>4. Applied(o)
  BY <1>3 DEF redis_exec, Applied
<1>5. n \in Nat /\ g \in Nat /\ last \in Nat \cup {Nil} /\ Nil \notin Nat
  <2>1. got[w] \in Hash /\ top[c] \in Count \cup {Nil}
    BY <1>1, <1>2 DEF WorkerTypeOK
  <2>2. got[w].sign_count \in Count \cup {Nil}
    BY <2>1 DEF Hash
  <2>3. QED
    BY <1>2, <2>1, <2>2, NilFacts DEF Count, StoredCount
<1>6. /\ last # Nil => g >= last
      /\ (n = 0 /\ g = 0) \/ n > g
  BY <1>1 DEF CounterLocal, check_counter
<1>7. top' = [top EXCEPT ![c] = IF @ = Nil \/ n > @ THEN n ELSE @]
  BY DEF update_counter
<1> HIDE DEF c, n, g, last
<1>8. last = Nil \/ n > last \/ (n = 0 /\ last = 0)
  BY <1>5, <1>6
<1>9. (IF last = Nil \/ n > last THEN n ELSE last) = n
  BY <1>8
<1>10. top' = [top EXCEPT ![c] = n]
  BY <1>7, <1>9 DEF last
<1>11. QED
  BY <1>4, <1>8, <1>10 DEF c, n, last

LEMMA CounterWritten ==
  ASSUME NEW w \in Worker, NEW o \in redis_exec(conn[w]), LoginInv, CounterInv,
         CloneDetection = "strict", Faults \cap {"refused", "unsent"} = {},
         VerifiersApart, update_counter(w, o)
  PROVE  CounterInv'
<1> DEFINE c == pres[w].id
           n == pres[w].signCount
<1>1. /\ WorkerTypeOK /\ WorkerLocals /\ CounterStored /\ pc[w] = "update"
      /\ record \in [CredId -> Hash] /\ \A v \in Worker : CounterLocal(v)
  BY CounterParts DEF LoginInv, CredInv, CredTypeOK, WorkerInv, update_counter
<1>2. c \in CredId /\ n \in Count
  BY <1>1, PresentedFields DEF WorkerLocals, Holding
<1>3. /\ record' = [record EXCEPT ![c] = CounterFields(record[c], n)]
      /\ top' = [top EXCEPT ![c] = n]
  BY CounterAccepted DEF update_counter
<1>4. /\ pc' = [pc EXCEPT ![w] = "mint"] /\ conn' = [conn EXCEPT ![w] = "closed"]
      /\ UNCHANGED <<pres, got>>
  BY DEF update_counter
<1>5. /\ record'[c].sign_count = n /\ top'[c] = n
      /\ \A d \in CredId \ {c} : record'[d] = record[d] /\ top'[d] = top[d]
  BY <1>1, <1>2, <1>3 DEF CounterFields, Hash, WorkerTypeOK
<1>6. n \in Nat /\ n # Nil
  BY <1>2, NilFacts DEF Count
<1>7. CounterStored'
  <2> SUFFICES ASSUME NEW d \in CredId
               PROVE  credential_get(record'[d]) /\ top'[d] # Nil
                        => StoredCount(record'[d]) >= top'[d]
    BY DEF CounterStored
  <2>1. CASE d = c
    <3>1. StoredCount(record'[d]) = n
      BY <1>5, <1>6, <2>1 DEF StoredCount
    <3>2. QED
      BY <1>5, <1>6, <2>1, <3>1
  <2>2. CASE d # c
    BY <1>1, <1>5, <2>2 DEF CounterStored
  <2>3. QED
    BY <2>1, <2>2
<1>8. ASSUME NEW v \in Worker
      PROVE  CounterLocal(v)'
  <2>1. CASE v = w
    <3>1. pc'[v] = "mint"
      BY <1>1, <1>4, <2>1 DEF WorkerTypeOK
    <3>2. QED
      BY <3>1 DEF CounterLocal, Verifying
  <2>2. CASE v # w
    <3>1. pc'[v] = pc[v] /\ conn'[v] = conn[v] /\ pres' = pres /\ got' = got
      BY <1>1, <1>4, <2>2 DEF WorkerTypeOK
    <3>2. pc[v] \in {"judge", "update"} => top'[pres[v].id] = top[pres[v].id]
      <4> SUFFICES ASSUME pc[v] \in {"judge", "update"}
                   PROVE  top'[pres[v].id] = top[pres[v].id]
        OBVIOUS
      <4>1. pres[v].id # c
        BY <1>1, <2>2 DEF VerifiersApart
      <4>2. pres[v].id \in CredId
        BY <1>1, PresentedFields DEF WorkerLocals, Holding
      <4>3. QED
        BY <1>5, <4>1, <4>2
    <3>3. QED
      BY <1>1, <3>1, <3>2 DEF CounterLocal
  <2>3. QED
    BY <2>1, <2>2
<1>9. QED
  BY <1>7, <1>8 DEF CounterInv, CounterStored, CounterLocal, Verifying

\* A register starts over, and a record that is gone cannot be used.
LEMMA CounterCli ==
  ASSUME NEW a \in Admin, LoginInv, CounterInv, CliStep(a)
  PROVE  CounterInv'
<1> DEFINE c == cliArg[a].cred
<1>1. /\ CounterStored /\ \A w \in Worker : CounterLocal(w)
      /\ record \in [CredId -> Hash] /\ top \in [CredId -> Count \cup {Nil}]
      /\ WorkerLocals /\ CliLocals
  BY CounterParts DEF LoginInv, CredInv, CredTypeOK, WorkerInv, WorkerTypeOK
<1>2. UNCHANGED <<pc, conn, pres, got>>
  BY DEF CliStep, Enrol, challengeVars, verifyVars
<1>3. ASSUME \A d \in CredId :
               \/ top'[d] = Nil
               \/ /\ top'[d] = top[d]
                  /\ record'[d] = record[d] \/ ~credential_get(record'[d])
      PROVE  CounterInv'
  <2>1. CounterStored'
    BY <1>1, <1>3 DEF CounterStored
  <2>2. ASSUME NEW w \in Worker
        PROVE  CounterLocal(w)'
    <3>1. pc[w] \in {"judge", "update"} => pres[w].id \in CredId
      BY <1>1, PresentedFields DEF WorkerLocals, Holding
    <3>2. CounterLocal(w)
      BY <1>1
    <3>3. QED
      BY <1>2, <1>3, <3>1, <3>2 DEF CounterLocal
  <2>3. QED
    BY <2>1, <2>2 DEF CounterInv, CounterStored, CounterLocal, Verifying
<1>4. CASE UNCHANGED <<record, top>>
  BY <1>3, <1>4
<1>5. CASE Enrol(a)
  <2>1. PICK o \in redis_exec(cliConn[a]) :
          /\ PutRecord(a, o)
          /\ top' = IF Applied(o) THEN [top EXCEPT ![c] = Nil] ELSE top
    BY <1>5 DEF Enrol
  <2>2. CASE Applied(o)
    <3>1. \A d \in CredId : d = c \/ record'[d] = record[d]
      BY <1>1, <2>1, <2>2 DEF PutRecord
    <3>2. \A d \in CredId : top'[d] = IF d = c THEN Nil ELSE top[d]
      BY <1>1, <2>1, <2>2
    <3>3. QED
      BY <1>3, <3>1, <3>2
  <2>3. CASE ~Applied(o)
    BY <1>4, <2>1, <2>3 DEF PutRecord
  <2>4. QED
    BY <2>2, <2>3
<1>6. ASSUME NEW o, DeleteRecord(a, o), UNCHANGED verifyVars
      PROVE  CounterInv'
  <2>1. CASE ~Applied(o)
    BY <1>4, <1>6, <2>1 DEF DeleteRecord, verifyVars
  <2>2. CASE Applied(o)
    <3>1. \A d \in CredId :
            record'[d] = record[d] \/ ~credential_get(record'[d])
      BY <1>1, <1>6, <2>2 DEF DeleteRecord, credential_get
    <3>2. QED
      BY <1>3, <1>6, <3>1 DEF verifyVars
  <2>3. QED
    BY <2>1, <2>2
<1>7. CASE /\ CliStart(a) \/ CliCommand(a) \/ CliKilled(a)
           /\ UNCHANGED <<challengeVars, verifyVars>>
  <2>1. CASE \E o \in redis_exec(cliConn[a]) : DeleteRecord(a, o)
    BY <1>6, <1>7, <2>1
  <2>2. CASE CliStart(a) \/ CliKilled(a)
    BY <1>4, <1>7, <2>2
    DEF CliStart, Register, Revoke, CliConnect, CliKilled, verifyVars
  <2>3. CASE \E o \in redis_exec(cliConn[a]) :
               PutIndex(a, o) \/ DeleteGet(a, o) \/ DeleteIndex(a, o)
    BY <1>4, <1>7, <2>3 DEF PutIndex, DeleteGet, DeleteIndex, verifyVars
  <2>4. QED
    BY <1>7, <2>1, <2>2, <2>3 DEF CliCommand
<1>8. QED
  BY <1>5, <1>7 DEF CliStep

LEMMA CounterStep ==
  ASSUME CloneDetection = "strict", Faults \cap {"refused", "unsent"} = {},
         LoginInv, CounterInv, VerifiersApart, [LoginNext]_loginVars
  PROVE  CounterInv'
<1>1. ASSUME NEW w \in Worker, WorkerStep(w)
      PROVE  CounterInv'
  <2>1. CASE ChallengeStep(w) /\ UNCHANGED <<credVars, verifyVars>>
    BY <2>1, CounterChallenge DEF LoginInv, WorkerInv
  <2>2. CASE \E o \in redis_exec(conn[w]) : update_counter(w, o)
    BY <2>2, CounterWritten
  <2>3. QED
    BY <1>1, <2>1, <2>2, CounterVerify DEF WorkerStep, VerifyStep, VerifyCommand
<1>2. CASE UNCHANGED loginVars \/ (Tick /\ UNCHANGED <<credVars, verifyVars>>)
  <2>1. UNCHANGED <<record, top, pc, conn, pres, got>>
    BY <1>2 DEF Tick, loginVars, credVars, verifyVars, challengeVars
  <2>2. QED
    BY <2>1 DEF CounterInv
<1>3. QED
  BY <1>1, <1>2, CounterVerify, CounterCli DEF LoginNext

\* A worker comes from update to mint only by the counter HSET.
LEMMA OnlyByUpdate ==
  ASSUME NEW w \in Worker, LoginInv, [LoginNext]_loginVars,
         pc[w] = "update", pc'[w] = "mint"
  PROVE  \E o \in redis_exec(conn[w]) : update_counter(w, o)
<1>1. WorkerTypeOK
  BY DEF LoginInv, WorkerInv
<1>2. ASSUME NEW v \in Worker, WorkerStart(v) \/ WorkerStep(v) \/ WorkerDies(v)
      PROVE  v = w
  <2> SUFFICES ASSUME v # w PROVE FALSE
    OBVIOUS
  <2>1. \A at : pc' = [pc EXCEPT ![v] = at] => pc'[w] = pc[w]
    BY <1>1 DEF WorkerTypeOK
  <2>2. \E at : pc' = [pc EXCEPT ![v] = at]
    BY <1>2 DEF WorkerStart, WorkerStep, WorkerDies, Die, ChallengeStart,
      ChallengeNoConnect, Answer, VerifyAnswer, VerifyStart, VerifyNoConnect,
      VerifyNotRead, VerifyMalformed, ChallengeStep, ChallengeCommand, Finish,
      RateLimit, challenge_issue, Serve, AllowCredentials, VerifyStep,
      VerifyCommand, challenge_consume, Lookup, update_counter, Judge, Mint, Goto
  <2>3. QED
    BY <2>1, <2>2
<1>3. pc' # pc
  OBVIOUS
<1>4. ~(\E a \in Admin : CliStep(a)) /\ ~Tick /\ ~UNCHANGED loginVars
  BY <1>3 DEF CliStep, Enrol, challengeVars, Tick, loginVars
<1>5. WorkerStart(w) \/ WorkerStep(w) \/ WorkerDies(w)
  BY <1>2, <1>4 DEF LoginNext
<1>6. ~WorkerStart(w)
  BY DEF WorkerStart, ChallengeStart, ChallengeNoConnect, VerifyStart,
    VerifyNoConnect, VerifyNotRead, VerifyMalformed
<1>7. ~WorkerDies(w)
  BY <1>1 DEF WorkerDies, Die, WorkerTypeOK
<1>8. /\ ~ChallengeStep(w) /\ ~Judge(w) /\ ~Mint(w) /\ ~Finish(w, "verified")
      /\ \A o : ~challenge_consume(w, o) /\ ~Lookup(w, o)
  BY DEF ChallengeStep, ChallengeCommand, Finish, RateLimit, challenge_issue,
    AllowCredentials, challenge_consume, Lookup, Judge, Mint
<1>9. QED
  BY <1>5, <1>6, <1>7, <1>8 DEF WorkerStep, VerifyStep, VerifyCommand

\* With strict clone detection the counters accepted for a credential only
\* grow, for any number of workers, credentials and CLI processes, as long as
\* no counter write is lost and no two workers have one credential's record in
\* hand at the same time.  Lookup, decision and HSET are not atomic, and each
\* of the two conditions is needed.
THEOREM CountersAdvance ==
  ASSUME CloneDetection = "strict", Faults \cap {"refused", "unsent"} = {}
  PROVE  LoginSpec /\ []VerifiersApart => AcceptedAdvance
<1>1. LoginInit => CounterInv
  BY HashFacts DEF LoginInit, CredInit, ChallengeInit, CounterInv
<1>2. LoginInv /\ CounterInv /\ VerifiersApart /\ [LoginNext]_loginVars
        => CounterInv'
  BY CounterStep
<1>3. ASSUME LoginInv, CounterInv, [LoginNext]_loginVars, NEW w \in Worker,
             pc[w] = "update", pc'[w] = "mint"
      PROVE  LET last == top[pres[w].id] IN
             \/ last = Nil
             \/ pres[w].signCount > last
             \/ pres[w].signCount = 0 /\ last = 0
  <2>1. PICK o \in redis_exec(conn[w]) : update_counter(w, o)
    BY <1>3, OnlyByUpdate
  <2>2. QED
    BY <1>3, <2>1, CounterAccepted
<1>4. LoginInv /\ CounterInv /\ [LoginNext]_loginVars =>
        [\A w \in Worker :
           (pc[w] = "update" /\ pc'[w] = "mint") =>
             LET last == top[pres[w].id] IN
               \/ last = Nil
               \/ pres[w].signCount > last
               \/ pres[w].signCount = 0 /\ last = 0]_loginVars
  BY <1>3
<1>5. QED
  BY <1>1, <1>2, <1>4, Invariant, PTL DEF LoginSpec, AcceptedAdvance
=============================================================================

-------------------------- MODULE ChallengeProofs ---------------------------
(***************************************************************************)
(* Proofs about the challenge handler and its rate limit for any number of  *)
(* workers, any quota and any window.                                       *)
(***************************************************************************)
EXTENDS ChallengeHandler, LeastNatural

\* The sums of the requests within the quota, whoever computes them.
LEMMA PassedIsSum ==
  ASSUME NEW p \in PrefixSums, RateWindow \in Nat
  PROVE  passed[RateWindow] = p[RateWindow]
<1> DEFINE Eq(h) == h = [n \in 0..RateWindow |->
                           IF n = 0 THEN 0 ELSE h[n - 1] + recent[n]]
<1>1. p \in [0..RateWindow -> Nat] /\ Eq(p)
  <2>1. \A n \in 0..RateWindow :
          p[n] = IF n = 0 THEN 0 ELSE p[n - 1] + recent[n]
    BY DEF PrefixSums, Age
  <2>2. QED
    BY <2>1 DEF PrefixSums
<1>2. Eq(passed)
  <2>1. passed = CHOOSE h : Eq(h)
    BY DEF passed
  <2>2. QED
    BY <1>1, <2>1
<1>3. \A n \in 0..RateWindow :
        passed[n] = IF n = 0 THEN 0 ELSE passed[n - 1] + recent[n]
  BY <1>2
<1> DEFINE T == {n \in 0..RateWindow : passed[n] # p[n]}
<1>4. ASSUME T # {} PROVE FALSE
  <2>1. T \in SUBSET Nat
    OBVIOUS
  <2>2. PICK m \in T : \A n \in T : m <= n
    BY <1>4, <2>1, LeastElement
  <2>3. m \in 1..RateWindow
    BY <1>3, <2>2 DEF PrefixSums
  <2>4. m - 1 \in 0..RateWindow /\ m - 1 \notin T
    BY <2>2, <2>3
  <2>5. passed[m - 1] = p[m - 1]
    BY <2>4
  <2>6. p[m] = p[m - 1] + recent[m]
    BY <2>3 DEF PrefixSums, Age
  <2>7. QED
    BY <1>3, <2>2, <2>3, <2>5, <2>6
<1>5. QED
  BY <1>4

\* The initial states satisfy the invariant.
LEMMA ChallengeInitInv == ChallengeInit => ChallengeInv
<1> SUFFICES ASSUME ChallengeInit PROVE ChallengeInv
  OBVIOUS
<1>1. ChallengeTypeOK
  BY ChallengeAssumption
  DEF ChallengeInit, ChallengeTypeOK, ChallengePc, Handle, Status
<1>2. Drawn
  BY DEF ChallengeInit, Drawn
<1>3. KeyLife
  BY ChallengeAssumption, NilAssumption DEF ChallengeInit, KeyLife
<1>4. \E p \in PrefixSums : QuotaKept(p)
  <2> DEFINE p == [n \in 0..RateWindow |-> 0]
  <2>1. p \in PrefixSums
    BY ChallengeAssumption DEF ChallengeInit, PrefixSums, Age
  <2>2. QuotaKept(p)
    BY ChallengeAssumption, NilAssumption DEF ChallengeInit, QuotaKept, Age
  <2>3. QED
    BY <2>1, <2>2
<1>5. QED
  BY <1>1, <1>2, <1>3, <1>4 DEF ChallengeInv

-----------------------------------------------------------------------------
(* The rate limit.                                                         *)

\* A request: counted on every outcome that reached the server, let through
\* only within the quota.
LEMMA RateLimitQuota ==
  ASSUME NEW w \in Worker, NEW o, ChallengeInv, RateLimit(w, o)
  PROVE  KeyLife' /\ \E p \in PrefixSums' : QuotaKept(p)'
<1> PICK p \in PrefixSums : QuotaKept(p)
  BY DEF ChallengeInv
<1>1. /\ RateMax \in Nat /\ RateWindow \in Nat /\ RateWindow >= 1
      /\ Nil \notin Nat
      /\ 1 \in Age
  BY ChallengeAssumption, NilAssumption DEF Age
<1>2. /\ hits \in Nat /\ window \in 0..RateWindow \cup {Nil}
      /\ recent \in [Age -> Nat]
      /\ window = 0 <=> hits = 0
      /\ window = Nil => hits = RateMax
  BY DEF ChallengeInv, ChallengeTypeOK, KeyLife
<1>3. /\ p \in [0..RateWindow -> Nat] /\ p[0] = 0
      /\ \A n \in Age : p[n] = p[n - 1] + recent[n]
  BY DEF PrefixSums
<1>4. CASE ~Applied(o)
  <2>1. UNCHANGED <<hits, window, recent>>
    BY <1>4 DEF RateLimit, Applied, Replied
  <2>2. p \in PrefixSums' /\ QuotaKept(p)'
    BY <1>3, <2>1 DEF PrefixSums, QuotaKept
  <2>3. QED
    BY <1>2, <2>1, <2>2 DEF KeyLife
<1>5. CASE Applied(o)
  <2>1. /\ hits' = hits + 1
        /\ window' = IF hits = 0 \/ window = Nil THEN RateWindow ELSE window
    BY <1>5 DEF RateLimit, incr_expire
  <2>2. window' \in Age /\ KeyLife'
    BY <1>1, <1>2, <2>1 DEF KeyLife, Age
  <2> DEFINE now == RateWindow - window' + 1
  <2>3. /\ now \in 1..RateWindow
        /\ p[now] <= hits /\ p[now] <= RateMax
        /\ p[RateWindow] <= p[now] + RateMax
    <3>1. CASE window \in {0, Nil}
      <4>0. window' = RateWindow
        BY <1>2, <2>1, <3>1
      <4>1. now = 1
        BY <1>1, <4>0
      <4>2. p[1] = p[0] + recent[1]
        BY <1>1, <1>3
      <4>3. recent[1] = 0 /\ p[RateWindow] <= RateMax
        BY <3>1 DEF QuotaKept
      <4>4. p[1] = 0 /\ p[RateWindow] \in Nat
        BY <1>1, <1>3, <4>2, <4>3
      <4> HIDE DEF now
      <4>5. QED
        BY <1>1, <1>2, <4>1, <4>3, <4>4
    <3>2. CASE window \in Age
      <4>1. window' = window
        BY <1>1, <1>2, <2>1, <3>2 DEF Age
      <4>2. QED
        BY <1>1, <1>2, <1>3, <3>2, <4>1 DEF QuotaKept, Age
    <3>3. QED
      BY <1>2, <3>1, <3>2 DEF Age
  <2>4. CASE Replied(o) /\ ~over_quota(hits + 1)
    <3> DEFINE q == [n \in 0..RateWindow |-> IF n = 0 THEN 0 ELSE p[n] + 1]
    <3>1. recent' = [recent EXCEPT ![1] = @ + 1] /\ hits + 1 <= RateMax
      BY <1>1, <1>2, <2>4 DEF RateLimit, over_quota
    <3>2. q \in [0..RateWindow -> Nat] /\ q[0] = 0
      BY <1>1, <1>3
    <3>3. ASSUME NEW n \in Age
          PROVE  q[n] = q[n - 1] + recent'[n]
      <4>1. n \in 1..RateWindow /\ n - 1 \in 0..RateWindow
        BY <1>1 DEF Age
      <4>2. recent'[n] = IF n = 1 THEN recent[1] + 1 ELSE recent[n]
        BY <1>2, <3>1
      <4>3. p[n] = p[n - 1] + recent[n] /\ recent[n] \in Nat
        BY <1>2, <1>3
      <4>4. q[n] = p[n] + 1 /\ q[n - 1] = IF n = 1 THEN 0 ELSE p[n - 1] + 1
        BY <4>1
      <4>5. QED
        BY <1>3, <4>1, <4>2, <4>3, <4>4
    <3>4. q \in PrefixSums'
      BY <3>2, <3>3 DEF PrefixSums
    <3>5. \A n \in 1..RateWindow : q[n] = p[n] + 1
      OBVIOUS
    <3>6. p[now] \in Nat /\ p[RateWindow] \in Nat
      BY <1>1, <1>3, <2>3
    <3> HIDE DEF q
    <3>7. /\ q[now] <= hits' /\ q[now] <= RateMax
          /\ q[RateWindow] <= q[now] + RateMax
      <4>1. q[now] = p[now] + 1 /\ q[RateWindow] = p[RateWindow] + 1
        BY <1>1, <2>3, <3>5
      <4> HIDE DEF now
      <4>2. p[now] <= hits /\ p[RateWindow] <= p[now] + RateMax
        BY <2>3
      <4>3. QED
        BY <1>1, <1>2, <2>1, <3>1, <3>6, <4>1, <4>2
    <3>8. QuotaKept(q)'
      <4>1. window' \notin {0, Nil}
        BY <1>1, <2>2 DEF Age
      <4>2. QED
        BY <3>7, <4>1 DEF QuotaKept
    <3>9. QED
      BY <2>2, <3>4, <3>8
  <2>5. CASE ~(Replied(o) /\ ~over_quota(hits + 1))
    <3>1. recent' = recent
      BY <2>5 DEF RateLimit
    <3>2. p \in PrefixSums'
      BY <3>1 DEF PrefixSums
    <3>3. p[now] \in Nat
      BY <1>1, <1>3, <2>3
    <3>4. QuotaKept(p)'
      BY <1>1, <1>2, <2>1, <2>2, <2>3, <3>3 DEF QuotaKept, Age
    <3>5. QED
      BY <2>2, <3>2, <3>4
  <2>6. QED
    BY <2>4, <2>5
<1>6. QED
  BY <1>4, <1>5

\* A second: the requests age by one, and so does the window.
LEMMA TickQuota ==
  ASSUME ChallengeInv, Tick
  PROVE  KeyLife' /\ \E p \in PrefixSums' : QuotaKept(p)'
<1> PICK p \in PrefixSums : QuotaKept(p)
  BY DEF ChallengeInv
<1>1. /\ RateMax \in Nat /\ RateWindow \in Nat /\ RateWindow >= 1
      /\ Nil \notin Nat
      /\ 1 \in Age
  BY ChallengeAssumption, NilAssumption DEF Age
<1>2. /\ hits \in Nat /\ window \in 0..RateWindow \cup {Nil}
      /\ recent \in [Age -> Nat]
      /\ window = 0 <=> hits = 0
      /\ window = Nil => hits = RateMax
  BY DEF ChallengeInv, ChallengeTypeOK, KeyLife
<1>3. /\ p \in [0..RateWindow -> Nat] /\ p[0] = 0
      /\ \A n \in Age : p[n] = p[n - 1] + recent[n]
  BY DEF PrefixSums
<1>4. /\ window = Nil => window' = Nil
      /\ window = 0 => window' = 0
      /\ window \in Age => window' = window - 1
      /\ hits' = IF window = 1 THEN 0 ELSE hits
  BY <1>1 DEF Tick, Age
<1>5. recent' = [i \in Age |-> IF i = 1 THEN 0 ELSE recent[i - 1]]
  BY DEF Tick
<1>6. KeyLife'
  BY <1>1, <1>2, <1>4 DEF KeyLife, Age
<1> DEFINE q == [n \in 0..RateWindow |-> IF n = 0 THEN 0 ELSE p[n - 1]]
<1>7. q \in PrefixSums'
  <2>1. q \in [0..RateWindow -> Nat] /\ q[0] = 0
    BY <1>1, <1>3
  <2>2. ASSUME NEW n \in Age
        PROVE  q[n] = q[n - 1] + recent'[n]
    <3>1. n \in 1..RateWindow /\ n - 1 \in 0..RateWindow
      BY <1>1 DEF Age
    <3>2. q[n] = p[n - 1] /\ q[n - 1] = IF n = 1 THEN 0 ELSE p[n - 2]
      BY <3>1
    <3>3. CASE n = 1
      BY <1>3, <1>5, <3>2, <3>3
    <3>4. CASE n # 1
      <4>1. n - 1 \in Age /\ (n - 1) - 1 = n - 2
        BY <1>1, <3>1, <3>4 DEF Age
      <4>2. p[n - 1] = p[n - 2] + recent[n - 1]
        BY <1>3, <4>1
      <4>3. recent'[n] = recent[n - 1]
        BY <1>5, <3>4
      <4>4. QED
        BY <3>2, <3>4, <4>2, <4>3
    <3>5. QED
      BY <3>3, <3>4
  <2>3. QED
    BY <2>1, <2>2 DEF PrefixSums
<1>8. /\ q[RateWindow] = p[RateWindow - 1]
      /\ p[RateWindow - 1] \in Nat /\ p[RateWindow] \in Nat
      /\ p[RateWindow - 1] <= p[RateWindow]
  <2>1. RateWindow \in Age /\ RateWindow - 1 \in 0..RateWindow
    BY <1>1 DEF Age
  <2>2. /\ p[RateWindow] = p[RateWindow - 1] + recent[RateWindow]
        /\ recent[RateWindow] \in Nat
    BY <1>2, <1>3, <2>1
  <2>3. QED
    BY <1>1, <1>3, <2>1, <2>2
<1>9. recent'[1] = 0
  BY <1>1, <1>5
<1>10. QuotaKept(q)'
  <2>1. CASE window \in {0, Nil}
    <3>1. window' \in {0, Nil} /\ window' \notin Age
      BY <1>1, <1>4, <2>1 DEF Age
    <3>2. p[RateWindow] <= RateMax
      BY <2>1 DEF QuotaKept
    <3>3. q[RateWindow] <= RateMax
      BY <1>1, <1>8, <3>2
    <3>4. QED
      BY <1>9, <3>1, <3>3 DEF QuotaKept
  <2>2. CASE window = 1
    <3>1. window' = 0 /\ window' \notin Age
      BY <1>1, <1>4, <2>2 DEF Age
    <3>2. RateWindow - window + 1 = RateWindow
      BY <1>1, <2>2
    <3>3. p[RateWindow] <= RateMax
      BY <1>1, <2>2, <3>2 DEF QuotaKept
    <3>4. q[RateWindow] <= RateMax
      BY <1>1, <1>8, <3>3
    <3>5. QED
      BY <1>9, <3>1, <3>4 DEF QuotaKept
  <2>3. CASE window \in Age \ {1}
    <3> DEFINE now == RateWindow - window + 1
    <3>1. /\ window' = window - 1 /\ window' \notin {0, Nil}
          /\ hits' = hits
      BY <1>1, <1>4, <2>3 DEF Age
    <3>2. /\ RateWindow - window' + 1 = now + 1
          /\ now + 1 \in 1..RateWindow /\ (now + 1) - 1 = now
          /\ now \in 0..RateWindow
      BY <1>1, <2>3, <3>1 DEF Age
    <3>3. /\ p[now] <= hits /\ p[now] <= RateMax
          /\ p[RateWindow] <= p[now] + RateMax
      BY <2>3 DEF QuotaKept
    <3> HIDE DEF now
    <3>4. q[now + 1] = p[now] /\ p[now] \in Nat
      BY <1>3, <3>2
    <3>5. q[RateWindow] <= q[now + 1] + RateMax
      BY <1>1, <1>8, <3>3, <3>4
    <3> HIDE DEF q
    <3>6. QED
      BY <3>1, <3>2, <3>3, <3>4, <3>5 DEF QuotaKept
  <2>4. QED
    BY <1>2, <2>1, <2>2, <2>3 DEF Age
<1>11. QED
  BY <1>6, <1>7, <1>10

\* A step that leaves the counter alone.
LEMMA RateUnchanged ==
  ASSUME ChallengeInv, UNCHANGED rateVars
  PROVE  KeyLife' /\ \E p \in PrefixSums' : QuotaKept(p)'
BY DEF ChallengeInv, KeyLife, PrefixSums, QuotaKept, rateVars

-----------------------------------------------------------------------------
(* The steps of a worker.                                                  *)

\* An answer releases the worker's locals, whatever was stored before.
LEMMA AnswerSound ==
  ASSUME NEW w \in Worker, NEW s \in Status, ChallengeInv,
         Answer(w, s, "served"), issued \subseteq issued'
  PROVE  /\ pc' \in [Worker -> ChallengePc] /\ conn' \in [Worker -> Handle]
         /\ chal' \in [Worker -> Challenge \cup {Nil}]
         /\ status' \in [Worker -> Status]
         /\ Drawn'
<1>1. /\ pc' = [pc EXCEPT ![w] = "served"]
      /\ conn' = [conn EXCEPT ![w] = "closed"]
      /\ chal' = [chal EXCEPT ![w] = Nil]
      /\ status' = [status EXCEPT ![w] = s]
  BY DEF Answer
<1>2. QED
  BY <1>1 DEF ChallengeInv, ChallengeTypeOK, Drawn, ChallengePc, Handle

\* The answer with the challenge in it shows only what is stored.
LEMMA ServeSound ==
  ASSUME NEW w \in Worker, ChallengeInv, Serve(w),
         issued \subseteq issued', chal[w] \in issued'
  PROVE  /\ pc' \in [Worker -> ChallengePc] /\ conn' \in [Worker -> Handle]
         /\ chal' \in [Worker -> Challenge \cup {Nil}]
         /\ status' \in [Worker -> Status]
         /\ served' \subseteq issued'
         /\ Drawn'
<1>1. PICK s \in {200, 500} : /\ Answer(w, s, "served")
                             /\ served' \subseteq served \cup {chal[w]}
  BY DEF Serve
<1>2. s \in Status
  BY DEF Status
<1>3. served' \subseteq issued'
  BY <1>1 DEF ChallengeInv, ChallengeTypeOK
<1>4. QED
  BY <1>1, <1>2, <1>3, AnswerSound

LEMMA StartSound ==
  ASSUME NEW w \in Worker, NEW c \in Challenge, ChallengeInv,
         ChallengeStart(w, c)
  PROVE  ChallengeInv'
<1>1. UNCHANGED rateVars
  BY DEF ChallengeStart, rateVars
<1>2. ChallengeTypeOK' /\ Drawn'
  BY DEF ChallengeStart, ChallengeInv, ChallengeTypeOK, Drawn, ChallengePc,
         Handle
<1>3. QED
  BY <1>1, <1>2, RateUnchanged DEF ChallengeInv

LEMMA NoConnectSound ==
  ASSUME NEW w \in Worker, ChallengeInv, ChallengeNoConnect(w)
  PROVE  ChallengeInv'
<1>1. /\ Answer(w, 500, "served") /\ 500 \in Status
      /\ UNCHANGED chalVars /\ UNCHANGED rateVars
  BY DEF ChallengeNoConnect, Status
<1>2. ChallengeTypeOK' /\ Drawn'
  BY <1>1, AnswerSound DEF ChallengeInv, ChallengeTypeOK, chalVars, rateVars
<1>3. QED
  BY <1>1, <1>2, RateUnchanged DEF ChallengeInv

LEMMA RateLimitSound ==
  ASSUME NEW w \in Worker, NEW o, ChallengeInv, RateLimit(w, o)
  PROVE  ChallengeInv'
<1>1. UNCHANGED <<ttl, issued, served>>
  BY DEF RateLimit, chalVars
<1>2. /\ hits' \in Nat
      /\ window' \in 0..RateWindow \cup {Nil}
      /\ recent' \in [Age -> Nat]
  <2>1. hits' \in Nat /\ window' \in 0..RateWindow \cup {Nil}
    BY ChallengeAssumption
    DEF RateLimit, ChallengeInv, ChallengeTypeOK, incr_expire
  <2>2. recent' \in [Age -> Nat]
    <3>1. \/ recent' = recent
          \/ recent' = [recent EXCEPT ![1] = @ + 1]
      BY DEF RateLimit
    <3>2. QED
      BY <3>1, ChallengeAssumption DEF ChallengeInv, ChallengeTypeOK, Age
  <2>3. QED
    BY <2>1, <2>2
<1>3. /\ pc' \in [Worker -> ChallengePc] /\ conn' \in [Worker -> Handle]
      /\ chal' \in [Worker -> Challenge \cup {Nil}]
      /\ status' \in [Worker -> Status]
      /\ Drawn'
  <2>1. CASE Answer(w, 429, "served")
    <3>1. 429 \in Status /\ issued \subseteq issued'
      BY <1>1 DEF Status
    <3>2. QED
      BY <2>1, <3>1, AnswerSound
  <2>2. CASE /\ pc' = [pc EXCEPT ![w] = "issue"]
             /\ conn' = [conn EXCEPT ![w] = HandleAfter(@, o)]
             /\ UNCHANGED <<chal, status>>
    <3>1. pc[w] = "rate" /\ conn[w] \in Handle
      BY DEF RateLimit, ChallengeInv, ChallengeTypeOK
    <3>2. HandleAfter(conn[w], o) \in Handle
      BY <3>1 DEF HandleAfter, Handle
    <3>3. QED
      BY <1>1, <2>2, <3>1, <3>2
      DEF ChallengeInv, ChallengeTypeOK, Drawn, ChallengePc
  <2>3. QED
    BY <2>1, <2>2 DEF RateLimit
<1>4. ChallengeTypeOK'
  BY <1>1, <1>2, <1>3 DEF ChallengeInv, ChallengeTypeOK
<1>5. QED
  BY <1>3, <1>4, RateLimitQuota DEF ChallengeInv

LEMMA IssueSound ==
  ASSUME NEW w \in Worker, NEW o, ChallengeInv, challenge_issue(w, o)
  PROVE  ChallengeInv'
<1>1. UNCHANGED rateVars
  BY DEF challenge_issue
<1>2. pc[w] = "issue" /\ chal[w] \in Challenge
  BY DEF challenge_issue, ChallengeInv, Drawn
<1>3. /\ ttl' \in [Challenge -> 0..ChallengeTtl]
      /\ issued' \in SUBSET Challenge /\ issued \subseteq issued'
      /\ Replied(o) => chal[w] \in issued'
  <2>1. CASE Applied(o)
    BY <1>2, <2>1, ChallengeAssumption
    DEF challenge_issue, set_ex, ChallengeInv, ChallengeTypeOK
  <2>2. CASE ~Applied(o)
    BY <2>2
    DEF challenge_issue, ChallengeInv, ChallengeTypeOK, Applied, Replied
  <2>3. QED
    BY <2>1, <2>2
<1>4. /\ pc' \in [Worker -> ChallengePc] /\ conn' \in [Worker -> Handle]
      /\ chal' \in [Worker -> Challenge \cup {Nil}]
      /\ status' \in [Worker -> Status]
      /\ served' \subseteq issued'
      /\ Drawn'
  <2>1. CASE Replied(o) /\ Serve(w)
    BY <1>3, <2>1, ServeSound
  <2>2. CASE /\ Replied(o)
             /\ pc' = [pc EXCEPT ![w] = "allow"]
             /\ UNCHANGED <<conn, chal, status, served>>
    BY <1>3, <2>2 DEF ChallengeInv, ChallengeTypeOK, Drawn, ChallengePc
  <2>3. CASE Answer(w, 500, "served") /\ UNCHANGED served
    <3>1. 500 \in Status
      BY DEF Status
    <3>2. served' \subseteq issued'
      BY <1>3, <2>3 DEF ChallengeInv, ChallengeTypeOK
    <3>3. QED
      BY <1>3, <2>3, <3>1, <3>2, AnswerSound
  <2>4. QED
    BY <2>1, <2>2, <2>3 DEF challenge_issue
<1>5. ChallengeTypeOK'
  BY <1>1, <1>3, <1>4 DEF ChallengeInv, ChallengeTypeOK, rateVars
<1>6. QED
  BY <1>1, <1>4, <1>5, RateUnchanged DEF ChallengeInv

LEMMA AllowSound ==
  ASSUME NEW w \in Worker, NEW o, ChallengeInv, AllowCredentials(w, o)
  PROVE  ChallengeInv'
<1>1. UNCHANGED <<ttl, issued, rateVars>>
  BY DEF AllowCredentials
<1>2. issued \subseteq issued' /\ chal[w] \in issued'
  BY <1>1 DEF AllowCredentials, ChallengeInv, Drawn
<1>3. /\ pc' \in [Worker -> ChallengePc] /\ conn' \in [Worker -> Handle]
      /\ chal' \in [Worker -> Challenge \cup {Nil}]
      /\ status' \in [Worker -> Status]
      /\ served' \subseteq issued'
      /\ Drawn'
  <2>1. CASE Serve(w)
    BY <1>2, <2>1, ServeSound
  <2>2. CASE Answer(w, 500, "served") /\ UNCHANGED served
    <3>1. 500 \in Status
      BY DEF Status
    <3>2. served' \subseteq issued'
      BY <1>1, <2>2 DEF ChallengeInv, ChallengeTypeOK
    <3>3. QED
      BY <1>2, <2>2, <3>1, <3>2, AnswerSound
  <2>3. QED
    BY <2>1, <2>2 DEF AllowCredentials
<1>4. ChallengeTypeOK'
  BY <1>1, <1>3 DEF ChallengeInv, ChallengeTypeOK, rateVars
<1>5. QED
  BY <1>1, <1>3, <1>4, RateUnchanged DEF ChallengeInv

\* The end of a request, by the answer or by the death of the worker.
LEMMA FreeSound ==
  ASSUME NEW w \in Worker, ChallengeInv, Finish(w, "served") \/ Die(w),
         UNCHANGED <<chalVars, rateVars>>
  PROVE  ChallengeInv'
<1>1. /\ pc' = [pc EXCEPT ![w] = "idle"]
      /\ status' = [status EXCEPT ![w] = 0]
      /\ conn' \in {conn, [conn EXCEPT ![w] = "closed"]}
      /\ chal' \in {chal, [chal EXCEPT ![w] = Nil]}
  BY DEF Finish, Die
<1>2. ChallengeTypeOK' /\ Drawn'
  <2>1. UNCHANGED <<ttl, issued, served, hits, window, recent>>
    BY DEF chalVars, rateVars
  <2>2. QED
    BY <1>1, <2>1
    DEF ChallengeInv, ChallengeTypeOK, Drawn, ChallengePc, Handle, Status
<1>3. QED
  BY <1>2, RateUnchanged DEF ChallengeInv

LEMMA TickSound ==
  ASSUME ChallengeInv, Tick
  PROVE  ChallengeInv'
<1>1. /\ RateWindow \in Nat /\ Nil \notin Nat /\ ChallengeTtl \in Nat
      /\ window \in 0..RateWindow \cup {Nil} /\ hits \in Nat
  BY ChallengeAssumption, NilAssumption DEF ChallengeInv, ChallengeTypeOK
<1>2. window' \in 0..RateWindow \cup {Nil} /\ hits' \in Nat
  <2>1. CASE window \in {0, Nil}
    BY <1>1, <2>1 DEF Tick
  <2>2. CASE window \in Age
    <3>1. window' = window - 1
      BY <1>1, <2>2 DEF Tick, Age
    <3>2. QED
      BY <1>1, <2>2, <3>1 DEF Tick, Age
  <2>3. QED
    BY <1>1, <2>1, <2>2 DEF Age
<1>3. recent' \in [Age -> Nat]
  BY <1>1 DEF Tick, ChallengeInv, ChallengeTypeOK, Age
<1>4. ttl' \in [Challenge -> 0..ChallengeTtl]
  BY <1>1 DEF Tick, ChallengeInv, ChallengeTypeOK
<1>5. ChallengeTypeOK' /\ Drawn'
  BY <1>2, <1>3, <1>4 DEF Tick, ChallengeInv, ChallengeTypeOK, Drawn
<1>6. QED
  BY <1>5, TickQuota DEF ChallengeInv

\* Every step preserves the invariant.
LEMMA ChallengeStepInv ==
  ChallengeInv /\ [ChallengeNext]_challengeVars => ChallengeInv'
<1> SUFFICES ASSUME ChallengeInv, [ChallengeNext]_challengeVars
             PROVE  ChallengeInv'
  OBVIOUS
<1>1. CASE UNCHANGED challengeVars
  <2>1. UNCHANGED rateVars
    BY <1>1 DEF challengeVars, rateVars
  <2>2. ChallengeTypeOK' /\ Drawn'
    BY <1>1 DEF challengeVars, ChallengeInv, ChallengeTypeOK, Drawn
  <2>3. QED
    BY <2>1, <2>2, RateUnchanged DEF ChallengeInv
<1>2. ASSUME NEW w \in Worker, ChallengeCommand(w)
      PROVE  ChallengeInv'
  BY <1>2, RateLimitSound, IssueSound, AllowSound DEF ChallengeCommand
<1>3. ASSUME NEW w \in Worker,
             \/ Finish(w, "served") /\ UNCHANGED <<chalVars, rateVars>>
             \/ Die(w) /\ UNCHANGED <<chalVars, rateVars>>
      PROVE  ChallengeInv'
  BY <1>3, FreeSound
<1>4. QED
  BY <1>1, <1>2, <1>3, StartSound, NoConnectSound, TickSound
  DEF ChallengeNext, ChallengeStep

-----------------------------------------------------------------------------
(* The theorems.                                                           *)

\* Every reachable state of the challenge endpoint satisfies the inductive
\* invariant.
THEOREM ChallengeInvariant == ChallengeSpec => []ChallengeInv
BY ChallengeInitInv, ChallengeStepInv, PTL DEF ChallengeSpec

\* Every local and every key keeps its type, and a client only ever received
\* challenges that were stored.
THEOREM ChallengeTypes == ChallengeSpec => []ChallengeTypeOK
<1>1. ChallengeInv => ChallengeTypeOK
  BY DEF ChallengeInv
<1>2. QED
  BY <1>1, ChallengeInvariant, PTL

\* "may allow a burst of up to 2*max across a window boundary"
\* (docs/DIRECTIVES.md) and never more, however many workers count at once,
\* commands fail, replies get lost and workers die.
THEOREM BurstIsBounded == ChallengeSpec => []BurstBound
<1>1. ChallengeInv => BurstBound
  <2> SUFFICES ASSUME ChallengeInv PROVE BurstBound
    OBVIOUS
  <2>1. PICK p \in PrefixSums : QuotaKept(p)
    BY DEF ChallengeInv
  <2>2. /\ RateWindow \in Nat /\ RateWindow >= 1 /\ RateMax \in Nat
        /\ window \in 0..RateWindow \cup {Nil}
        /\ p \in [0..RateWindow -> Nat]
    BY ChallengeAssumption DEF ChallengeInv, ChallengeTypeOK, PrefixSums
  <2>3. CASE window \in {0, Nil}
    <3>1. p[RateWindow] <= RateMax /\ p[RateWindow] \in Nat
      BY <2>1, <2>2, <2>3 DEF QuotaKept
    <3>2. QED
      BY <2>2, <3>1, PassedIsSum DEF BurstBound
  <2>4. CASE window \in Age
    <3> DEFINE now == RateWindow - window + 1
    <3>1. p[now] <= RateMax /\ p[RateWindow] <= p[now] + RateMax
      BY <2>1, <2>4 DEF QuotaKept
    <3>2. p[now] \in Nat /\ p[RateWindow] \in Nat
      BY <2>2, <2>4 DEF Age
    <3> HIDE DEF now
    <3>3. p[RateWindow] <= 2 * RateMax
      BY <2>2, <3>1, <3>2
    <3>4. QED
      BY <2>2, <3>3, PassedIsSum DEF BurstBound
  <2>5. QED
    BY <2>2, <2>3, <2>4 DEF Age
<1>2. QED
  BY <1>1, ChallengeInvariant, PTL

\* "repeated requests never extend the lockout" (comment of rate_limit): no
\* step of any worker lengthens the life of a live counter key.
THEOREM LockoutIsFixed == ChallengeSpec => WindowNeverExtended
<1>1. ASSUME ChallengeInv, [ChallengeNext]_challengeVars,
             window # Nil, window > 0
      PROVE  window' \in 0..window
  <2>1. /\ window \in Age /\ RateWindow \in Nat /\ Nil \notin Nat
        /\ hits # 0
    BY <1>1, ChallengeAssumption, NilAssumption
    DEF ChallengeInv, ChallengeTypeOK, KeyLife, Age
  <2>2. \/ window' = window
        \/ Tick
        \/ \E w \in Worker, o \in Outcome : RateLimit(w, o)
    BY <1>1 DEF ChallengeNext, ChallengeStep, ChallengeCommand, challengeVars,
      rateVars, ChallengeStart, ChallengeNoConnect, challenge_issue,
      AllowCredentials, redis_exec, Outcome
  <2>3. CASE window' = window
    BY <2>1, <2>3 DEF Age
  <2>4. CASE Tick
    BY <2>1, <2>4 DEF Tick, Age
  <2>5. ASSUME NEW w \in Worker, NEW o, RateLimit(w, o)
        PROVE  window' = window
    BY <1>1, <2>1, <2>5 DEF RateLimit, incr_expire
  <2>6. QED
    BY <2>2, <2>3, <2>4, <2>5
<1>2. ChallengeInv /\ [ChallengeNext]_challengeVars
        => [(window # Nil /\ window > 0) => window' \in 0..window]_challengeVars
  BY <1>1
<1>3. QED
  BY <1>2, ChallengeInvariant, PTL DEF ChallengeSpec, WindowNeverExtended
=============================================================================

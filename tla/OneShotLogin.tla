---------------------------- MODULE OneShotLogin ----------------------------
(***************************************************************************)
(* What the login endpoints promise about a challenge, with no workers, no  *)
(* Redis and no requests in sight: it is issued once, lives for at most     *)
(* ChallengeTtl seconds, is redeemed at most once while it lives, and a     *)
(* redeemed challenge is worth at most one session.                         *)
(***************************************************************************)
EXTENDS Naturals

CONSTANTS
  Challenge,
  ChallengeTtl

VARIABLES
  left,         \* seconds a challenge has to live, 0 before and after
  born,         \* challenges that have been issued
  redeemed,     \* challenges a verification got hold of
  minted        \* sessions minted for each challenge

oneShotVars == <<left, born, redeemed, minted>>

Init ==
  /\ left = [c \in Challenge |-> 0]
  /\ born = {}
  /\ redeemed = {}
  /\ minted = [c \in Challenge |-> 0]

Issue(c) ==
  /\ c \notin born
  /\ left' = [left EXCEPT ![c] = ChallengeTtl]
  /\ born' = born \cup {c}
  /\ UNCHANGED <<redeemed, minted>>

Redeem(c) ==
  /\ left[c] > 0
  /\ left' = [left EXCEPT ![c] = 0]
  /\ redeemed' = redeemed \cup {c}
  /\ UNCHANGED <<born, minted>>

\* Taken out of the store without anybody learning that it was there.
Burn(c) ==
  /\ left[c] > 0
  /\ left' = [left EXCEPT ![c] = 0]
  /\ UNCHANGED <<born, redeemed, minted>>

Mint(c) ==
  /\ c \in redeemed
  /\ minted[c] = 0
  /\ minted' = [minted EXCEPT ![c] = 1]
  /\ UNCHANGED <<left, born, redeemed>>

Elapse ==
  /\ left' = [c \in Challenge |-> IF left[c] > 0 THEN left[c] - 1 ELSE 0]
  /\ UNCHANGED <<born, redeemed, minted>>

Next ==
  \/ \E c \in Challenge : Issue(c) \/ Redeem(c) \/ Burn(c) \/ Mint(c)
  \/ Elapse

Spec == Init /\ [][Next]_oneShotVars
=============================================================================

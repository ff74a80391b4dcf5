----------------------------- MODULE MCChallenge -----------------------------
(* The challenge handler with its rate limit, on a small instance.         *)
EXTENDS ChallengeHandler, TLC

ChallengeSymmetry == Permutations(Challenge) \cup Permutations(Worker)
=============================================================================

------------------------------- MODULE MCLogin -------------------------------
(* The login path on small instances.                                      *)
EXTENDS Login, TLC

\* An assertion nothing is wrong with, for credential c and counter n.
Sound(c, n) ==
  [id |-> c, signer |-> c, signCount |-> n, type |-> "webauthn.get",
   origin |-> "allowed", crossOrigin |-> "absent", authData |-> "parsed",
   atOrEd |-> FALSE, rpId |-> "ours", up |-> TRUE, uv |-> TRUE]

\* One for every counter value.
SoundOnly == {Sound(c, n) : c \in CredId, n \in Count}

\* Also those signed with another credential's key or with none of them.
SoundAndForged ==
  {[s EXCEPT !.signer = k] : s \in SoundOnly, k \in CredId \cup {Nil}}

\* s with one thing wrong that the decision looks at.
Flaws(s) ==
  {[s EXCEPT !.type = "webauthn.create"], [s EXCEPT !.origin = "other"],
   [s EXCEPT !.crossOrigin = "true"], [s EXCEPT !.authData = "malformed"],
   [s EXCEPT !.atOrEd = TRUE], [s EXCEPT !.rpId = "other"],
   [s EXCEPT !.up = FALSE], [s EXCEPT !.uv = FALSE]}

\* Every counter value, and at counter 0 everything that can be wrong.
SoundAndFlawed ==
  LET zero == {Sound(c, 0) : c \in CredId} IN
  SoundOnly
  \cup {[s EXCEPT !.signer = k] : s \in zero, k \in CredId \cup {Nil}}
  \cup UNION {Flaws(s) : s \in zero}

LoginSymmetry ==
  Permutations(Challenge) \cup Permutations(Worker) \cup Permutations(User)
=============================================================================

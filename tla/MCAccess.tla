------------------------------ MODULE MCAccess ------------------------------
(* The gate and the login path on a small instance.                        *)
EXTENDS AccessGate, MCLogin

OurMinter == [secret |-> "shared", rp_id |-> "a.example"]

\* Our gate; one without the secret; one that is off; another relying party
\* with the same secret; one with a secret of its own and no sign-in page.
Gates ==
  {[auth |-> TRUE, secret |-> "shared", rp_id |-> "a.example",
    signin_url |-> TRUE],
   [auth |-> TRUE, secret |-> Nil, rp_id |-> "a.example",
    signin_url |-> FALSE],
   [auth |-> FALSE, secret |-> "shared", rp_id |-> "a.example",
    signin_url |-> FALSE],
   [auth |-> TRUE, secret |-> "shared", rp_id |-> "b.example",
    signin_url |-> FALSE]}

\* Tokens of the other relying party, of another issuer and of another key,
\* in the name of the same credential and never expiring.
ForeignTokens ==
  {[key |-> o[1], aud |-> o[2], iss |-> o[3], sub |-> "stranger", cid |-> c,
    exp |-> MaxTime + 1] :
     c \in CredId, o \in {<<"shared", "b.example", "nginx-webauthn">>,
                          <<"shared", "a.example", "other">>,
                          <<"other", "a.example", "nginx-webauthn">>}}

UserSymmetry == Permutations(User)
=============================================================================

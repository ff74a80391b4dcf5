---------------------------- MODULE MCEnrollment ----------------------------
(* Responses built from small menus of CBOR items; "k" and "l" are keys.    *)
EXTENDS Enrollment

U(n) == Item("uint", n, Absent)
N(n) == Item("negint", -1 - n, Absent)
B(n, of) == Item("bytes", n, of)

Optional(label, vs) == {<<Pair(label, v)>> : v \in vs} \cup {<<>>}

\* One pair per label, in every mix of key types, and one more pair before or
\* after them: a repeated label, one that only reads as -1, an unknown one.
Plain ==
  {<<Pair(U(1), U(kty)), Pair(U(3), N(alg)), Pair(N(-1), m1), Pair(N(-2), m2)>>
     \o m3 :
     kty \in 1..3, alg \in {ES256, EdDSA, RS256},
     m1 \in {U(1), U(6), B(256, "k")}, m2 \in {B(32, "k"), B(31, "k"), U(1)},
     m3 \in Optional(N(-3), {B(32, "k"), B(32, "l")})}

Extra ==
  {Pair(U(1), U(3)), Pair(U(1), B(1, "k")), Pair(U(3), N(RS256)),
   Pair(U(3), U(Int64 - 7)), Pair(N(-1), U(6)), Pair(U(Int64 - 1), U(6)),
   Pair(N(-2), B(32, "l")), Pair(B(1, "k"), U(1)), Pair(U(2), U(2))}

Maps ==
  Plain \cup UNION {{<<x>> \o m, m \o <<x>>} : m \in Plain, x \in Extra}

Ec == <<Pair(U(1), U(2)), Pair(U(3), N(ES256)), Pair(N(-1), U(1)),
        Pair(N(-2), B(32, "k")), Pair(N(-3), B(32, "k"))>>
Okp == <<Pair(U(1), U(1)), Pair(U(3), N(EdDSA)), Pair(N(-1), U(6)),
         Pair(N(-2), B(32, "k"))>>
Rsa == <<Pair(U(1), U(3)), Pair(U(3), N(RS256)), Pair(N(-1), B(256, "k")),
         Pair(N(-2), B(3, "k"))>>

\* The same map with its EC point replaced by a later pair.
Twice == Ec \o <<Pair(N(-2), B(32, "l")), Pair(N(-3), B(32, "l"))>>

PKeys == {PKey("EC", "k"), PKey("EC", "l"), PKey("RSA", "k"),
          PKey("ED25519", "k")}

Sig(p, digest, data) == [pkey |-> p, md |-> digest, data |-> data]
Sigs(data) == {Sig(p, d, data) : p \in PKeys, d \in {"sha256", "none"}}

MCAssertions == Sigs("assertion") \cup {Sig(PKey("EC", "k"), "sha256", "old")}

Stmts ==
  {<<Pair("alg", alg)>> \o sig \o x5c :
     alg \in {N(ES256), N(EdDSA), N(RS256), U(Int32 + ES256), B(1, "k")},
     sig \in {<<Pair("sig", B(64, s))>> : s \in Sigs("this") \cup Sigs("old")}
             \cup {<<>>, <<Pair("sig", B(0, Absent))>>, <<Pair("sig", U(1))>>,
                   <<Pair("sig", B(9, Absent)),
                     Pair("sig", B(64, Sig(PKey("EC", "k"),
                                           "sha256", "this")))>>},
     x5c \in Optional("x5c", {Item("array", 0, Absent), Item("array", 1, Absent)})}

AD(cose) ==
  [parses |-> TRUE, at |-> TRUE, idLen |-> 16, keyLen |-> 77, rpId |-> "ours",
   cose |-> cose]

Response(fmt, ad, stmt) ==
  [wellFormed |-> TRUE, fmt |-> fmt, authData |-> ad, attStmt |-> "map",
   stmt |-> stmt, signed |-> "this"]

Unattested == Response("none", AD(Ec), <<>>)
Attested ==
  Response("packed", AD(Ec),
           <<Pair("alg", N(ES256)),
             Pair("sig", B(64, Sig(PKey("EC", "k"), "sha256", "this")))>>)

MCResponses ==
  {Response("none", AD(m), <<>>) : m \in Maps}
  \cup {Response(f, AD(m), s) :
          f \in {"none", "packed", "tpm"}, m \in {Ec, Okp, Rsa, Twice},
          s \in Stmts}
  \cup UNION {{[r EXCEPT !.wellFormed = FALSE], [r EXCEPT !.fmt = Absent],
               [r EXCEPT !.authData = Absent], [r EXCEPT !.attStmt = "absent"],
               [r EXCEPT !.attStmt = "not a map"],
               [r EXCEPT !.authData.parses = FALSE],
               [r EXCEPT !.authData.at = FALSE],
               [r EXCEPT !.authData.idLen = 0],
               [r EXCEPT !.authData.keyLen = 0],
               [r EXCEPT !.authData.rpId = "other"]} :
                r \in {Unattested, Attested}}
=============================================================================

----------------------------- MODULE Enrollment ------------------------------
(***************************************************************************)
(* What `register' makes of an attestation response before it writes        *)
(* anything: attestation_parse and attestation_verify, the COSE key decoder *)
(* and the conversion to the stored key, followed by the check_signature a  *)
(* later login makes with the stored algorithm and key.  CBOR maps are      *)
(* sequences of pairs in which a key may be repeated; integers keep their   *)
(* width.                                                                   *)
(***************************************************************************)
EXTENDS Integers, Sequences, FiniteSetsExt

CONSTANTS
  Responses,    \* attestation responses
  Assertions,   \* signatures presented at login
  Require,      \* values of --require-attestation
  Int32, Int64, \* the number of values of an int and of an int64_t
  Absent        \* a null pointer or a value that is not there

ASSUME EnrollAssumption ==
  /\ Int32 \in Nat /\ Int64 \in Nat
  /\ Int32 > 514 /\ Int64 >= Int32 /\ Int32 % 2 = 0 /\ Int64 % 2 = 0
  /\ Require \subseteq {"none", "packed"}
  /\ \A s \in Assertions : s = [pkey |-> s.pkey, md |-> s.md, data |-> s.data]
  /\ Absent \notin {"EC", "RSA", "ED25519"}

VARIABLES
  resp, require,    \* the command's input
  pc,               \* the next stage, or "fail" or "registered"
  att,              \* what attestation_parse read from the statement
  cred,             \* the algorithm and key handed to credential_put
  login             \* the last login: the signature and its outcome

enrVars == <<resp, require, pc, att, cred, login>>

\* A CBOR item: its type, its number (the value of an integer, the length of
\* a byte string, text or array) and what a byte string holds.
Item(t, n, of) == [t |-> t, n |-> n, of |-> of]
Pair(k, v) == [k |-> k, v |-> v]

ES256 == -7
EdDSA == -8
RS256 == -257

-----------------------------------------------------------------------------
(* CBOR and COSE.                                                          *)

Signed(n, w) == IF n % w >= w \div 2 THEN (n % w) - w ELSE n % w

\* cose_int and attestation_int: the int64_t of an integer item, else Absent.
cose_int(v) ==
  IF v = Absent THEN Absent
  ELSE CASE v.t = "uint"   -> Signed(v.n, Int64)
         [] v.t = "negint" -> -1 - Signed(v.n, Int64)
         [] OTHER          -> Absent

\* cose_bytes: is this a definite byte string?
cose_bytes(v) == v # Absent /\ v.t = "bytes"

\* What a loop over the pairs of a map ends up with: the value of the last one
\* among those it takes.
LastOf(m, taken) == IF taken = {} THEN Absent ELSE m[Max(taken)].v

\* The value of a label: a key counts when it reads as the label.
Collect(m, label) == LastOf(m, {j \in DOMAIN m : cose_int(m[j].k) = label})

\* A public key as OpenSSL holds it.
PKey(type, of) == [type |-> type, of |-> of]

\* OpenSSL refuses two coordinates that are not a point of the curve.
OnCurve(x, y) == x.of = y.of

ec2_pkey(crv, x, y) ==
  IF /\ cose_int(crv) = 1
     /\ cose_bytes(x) /\ cose_bytes(y) /\ x.n = 32 /\ y.n = 32
     /\ OnCurve(x, y)
  THEN PKey("EC", x.of) ELSE Absent

okp_pkey(crv, x) ==
  IF cose_int(crv) = 6 /\ cose_bytes(x) /\ x.n = 32
  THEN PKey("ED25519", x.of) ELSE Absent

rsa_pkey(n, e) ==
  IF cose_bytes(n) /\ cose_bytes(e) THEN PKey("RSA", n.of) ELSE Absent

\* Mutant: the algorithm is not compared with the key type.
cose_to_pkey_AnyAlg(m) ==
  LET kty == cose_int(Collect(m, 1))
      alg == cose_int(Collect(m, 3))
      m1 == Collect(m, -1)
      m2 == Collect(m, -2)
      key == CASE kty = 2 -> ec2_pkey(m1, m2, Collect(m, -3))
               [] kty = 1 -> okp_pkey(m1, m2)
               [] kty = 3 -> rsa_pkey(m1, m2)
               [] OTHER -> Absent
  IN  IF key = Absent \/ alg = Absent THEN Absent ELSE [alg |-> alg, pkey |-> key]

\* The key of a COSE map and its algorithm; Absent for NGX_DECLINED, NGX_ERROR.
cose_to_pkey(m) ==
  LET kty == cose_int(Collect(m, 1))
      alg == cose_int(Collect(m, 3))
      m1 == Collect(m, -1)
      m2 == Collect(m, -2)
      key == CASE kty = 2 /\ alg = ES256 -> ec2_pkey(m1, m2, Collect(m, -3))
               [] kty = 1 /\ alg = EdDSA -> okp_pkey(m1, m2)
               [] kty = 3 /\ alg = RS256 -> rsa_pkey(m1, m2)
               [] OTHER -> Absent
  IN  IF key = Absent THEN Absent ELSE [alg |-> alg, pkey |-> key]

\* The digest that goes with an algorithm.
md(alg) == IF alg = EdDSA THEN "none" ELSE "sha256"

\* EVP_DigestVerify: made by the key's owner with this digest over this data.
DigestVerify(pkey, digest, sig, data) ==
  sig = [pkey |-> pkey, md |-> digest, data |-> data]

-----------------------------------------------------------------------------
(* The attestation statement.                                              *)

\* The pairs of a map with text keys that have this name.
Named(m, name) == {j \in DOMAIN m : m[j].k = name}

IsInt(v) == cose_int(v) # Absent
IsChain(v) == v.t = "array" /\ v.n > 0

\* parse_stmt: an alg that is no integer is skipped, a sig that is no byte
\* string spoils the statement, x5c counts when it is a non-empty array.
parse_stmt(m) ==
  LET alg == LastOf(m, {j \in Named(m, "alg") : IsInt(m[j].v)})
      sig == LastOf(m, Named(m, "sig"))
      x5c == {j \in Named(m, "x5c") : IsChain(m[j].v)}
  IN  IF \E j \in Named(m, "sig") : ~cose_bytes(m[j].v)
      THEN Absent
      ELSE [att_alg |-> IF alg = Absent THEN 0 ELSE Signed(cose_int(alg), Int32),
            att_sig |-> sig,
            has_x5c |-> x5c # {}]

\* attestation_parse: the object is one map with fmt and authData, and its
\* attStmt, when there is one, is a map.
attestation_parse(r) ==
  IF ~r.wellFormed \/ r.fmt = Absent \/ r.authData = Absent \/ r.attStmt = "not a map"
  THEN Absent
  ELSE parse_stmt(IF r.attStmt = "absent" THEN <<>> ELSE r.stmt)

\* Mutant: the signature is not checked.
verify_packed_Unsigned(a, ad, data) ==
  LET key == cose_to_pkey(ad.cose) IN
  /\ a.att_sig # Absent /\ a.att_sig.n > 0
  /\ ad.at /\ ad.keyLen > 0
  /\ key # Absent
  /\ a.att_alg = key.alg

verify_packed(a, ad, data) ==
  LET key == cose_to_pkey(ad.cose) IN
  /\ a.att_sig # Absent /\ a.att_sig.n > 0
  /\ ad.at /\ ad.keyLen > 0
  /\ key # Absent
  /\ a.att_alg = key.alg
  /\ DigestVerify(key.pkey, md(key.alg), a.att_sig.of, data)

attestation_verify(r, a, req) ==
  /\ r.authData.rpId = "ours"
  /\ \/ r.fmt = "none"
     \/ /\ req = "packed"
        /\ r.fmt = "packed"
        /\ ~a.has_x5c
        /\ verify_packed(a, r.authData, r.signed)

-----------------------------------------------------------------------------
(* The register command up to credential_put, and a later login.           *)

EnrInit ==
  /\ resp \in Responses /\ require \in Require
  /\ pc = "parse" /\ att = Absent /\ cred = Absent /\ login = Absent

Fail ==
  /\ pc' = "fail"
  /\ UNCHANGED <<resp, require, att, cred, login>>

\* A pool or OpenSSL allocation fails in the stage.
NoMemory == pc \in {"parse", "verify", "convert"} /\ Fail

Parse ==
  /\ pc = "parse"
  /\ IF attestation_parse(resp) = Absent THEN Fail
     ELSE /\ att' = attestation_parse(resp)
          /\ pc' = "authdata"
          /\ UNCHANGED <<resp, require, cred, login>>

\* authdata_parse, and an id and a key must be attested.
CheckAuthData ==
  LET ad == resp.authData IN
  /\ pc = "authdata"
  /\ IF ad.parses /\ ad.at /\ ad.idLen > 0 /\ ad.keyLen > 0
     THEN /\ pc' = "verify"
          /\ UNCHANGED <<resp, require, att, cred, login>>
     ELSE Fail

Verify ==
  /\ pc = "verify"
  /\ IF attestation_verify(resp, att, require)
     THEN /\ pc' = "convert"
          /\ UNCHANGED <<resp, require, att, cred, login>>
     ELSE Fail

\* cose_to_der, then the record is handed to credential_put.
Convert ==
  /\ pc = "convert"
  /\ IF cose_to_pkey(resp.authData.cose) = Absent THEN Fail
     ELSE /\ cred' = cose_to_pkey(resp.authData.cose)
          /\ pc' = "registered"
          /\ UNCHANGED <<resp, require, att, login>>

want_type(alg) ==
  CASE alg = ES256 -> "EC"
    [] alg = RS256 -> "RSA"
    [] alg = EdDSA -> "ED25519"
    [] OTHER -> Absent

\* assertion_check_signature with the stored algorithm and key.
check_signature(c, sig, data) ==
  /\ want_type(c.alg) # Absent
  /\ c.pkey.type = want_type(c.alg)
  /\ DigestVerify(c.pkey, md(c.alg), sig, data)

LogIn(sig) ==
  /\ pc = "registered" /\ login = Absent
  /\ login' = [sig |-> sig, ok |-> check_signature(cred, sig, "assertion")]
  /\ UNCHANGED <<resp, require, pc, att, cred>>

EnrNext ==
  \/ NoMemory \/ Parse \/ CheckAuthData \/ Verify \/ Convert
  \/ \E sig \in Assertions : LogIn(sig)

EnrSpec == EnrInit /\ [][EnrNext]_enrVars

-----------------------------------------------------------------------------
(* Properties.                                                             *)

\* The digest an authenticator signs with, by the type of its key.
NativeDigest == [EC |-> "sha256", RSA |-> "sha256", ED25519 |-> "none"]

\* Whatever map register accepted, with repeated labels and values of the
\* wrong type in it, the owner of the stored key can log in with it, and
\* nobody else: the decoder's pairing of key type and algorithm is the one
\* check_signature asks for.
RegisteredCanLogIn ==
  login # Absent =>
    (login.ok <=> /\ login.sig.pkey = cred.pkey
                  /\ login.sig.md = NativeDigest[cred.pkey.type]
                  /\ login.sig.data = "assertion")

\* A registration is for this relying party, and one in the packed format was
\* asked for and is signed by the very key that is stored, over this
\* response, without a certificate chain anywhere in the statement. Format
\* none is taken whatever was asked for: see RequireIsMet.
RegistrationJustified ==
  pc = "registered" =>
    /\ resp.authData.rpId = "ours"
    /\ resp.fmt \in {"none", "packed"}
    /\ resp.fmt = "packed" =>
         /\ require = "packed"
         /\ att.att_sig.of.pkey = cred.pkey
         /\ att.att_sig.of.data = resp.signed
         /\ \A j \in DOMAIN resp.stmt :
              resp.stmt[j].k = "x5c" => ~IsChain(resp.stmt[j].v)

\* docs/ADMIN_TOOL.md of --require-attestation=packed: "A `fmt` other than
\* `packed`, or one with an x5c certificate, is rejected".
RequireIsMet == pc = "registered" /\ require = "packed" => resp.fmt = "packed"
=============================================================================

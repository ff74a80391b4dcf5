------------------------------ MODULE AuthData -------------------------------
(***************************************************************************)
(* ngx_auth_webauthn_authdata_parse, one field per step, over a buffer of   *)
(* `adLen' bytes of which only the flags and the credential id length decide  *)
(* anything.  touched records every byte the parser reads or hands out, so  *)
(* that reading past the buffer shows.                                      *)
(***************************************************************************)
EXTENDS Integers

CONSTANTS
  BufLens,      \* lengths of the buffer
  IdLens,       \* values of the credential id length
  IdMax,        \* the largest that its two bytes can hold
  HashLen,      \* NGX_AUTH_WEBAUTHN_SHA256_LEN
  AaguidLen,    \* NGX_AUTH_WEBAUTHN_AAGUID_LEN
  SizeWord      \* the number of values of a size_t

ASSUME AuthDataAssumption ==
  /\ HashLen \in Nat /\ AaguidLen \in Nat /\ SizeWord \in Nat /\ IdMax \in Nat
  /\ BufLens \subseteq 0..(SizeWord - 1)
  /\ IdLens \subseteq 0..IdMax
  /\ HashLen + AaguidLen + 7 + IdMax < SizeWord

VARIABLES
  adLen, at, idLen, \* the buffer: its length, its AT flag, its id length field
  adPc,             \* the next field, or "NGX_OK" or "NGX_DECLINED"
  offset,           \* where the next field starts
  touched,          \* bytes read or handed out
  id, key           \* the slices handed out, as sets of byte positions

adVars == <<adLen, at, idLen, adPc, offset, touched, id, key>>

\* NGX_AUTH_WEBAUTHN_AUTHDATA_MIN_LEN: hash, flags and a 4-byte counter.
MinLen == HashLen + 5

Bytes(from, n) == from..(from + n - 1)

\* a - b in size_t.
SizeMinus(a, b) == IF a >= b THEN a - b ELSE a - b + SizeWord

AuthInit ==
  /\ adLen \in BufLens /\ at \in BOOLEAN /\ idLen \in IdLens
  /\ adPc = "prefix" /\ offset = 0
  /\ touched = {} /\ id = {} /\ key = {}

\* rpIdHash, flags and signCount; without the AT flag that is all.
Prefix ==
  /\ adPc = "prefix"
  /\ IF adLen < MinLen
     THEN adPc' = "NGX_DECLINED" /\ UNCHANGED <<offset, touched>>
     ELSE /\ adPc' = IF at THEN "aaguid" ELSE "NGX_OK"
          /\ offset' = MinLen
          /\ touched' = Bytes(0, MinLen)
  /\ UNCHANGED <<adLen, at, idLen, id, key>>

\* Mutant: the two bytes of the id length are forgotten in the test.
ShortOfLength_NoLength == adLen < offset + AaguidLen

\* Is the buffer too short for the aaguid and the credential id length?
ShortOfLength == adLen < offset + AaguidLen + 2

Aaguid ==
  /\ adPc = "aaguid"
  /\ IF ShortOfLength
     THEN adPc' = "NGX_DECLINED" /\ UNCHANGED <<offset, touched>>
     ELSE /\ adPc' = "id"
          /\ offset' = offset + AaguidLen + 2
          /\ touched' = touched \cup Bytes(offset, AaguidLen + 2)
  /\ UNCHANGED <<adLen, at, idLen, id, key>>

\* Mutant: an id that takes all the rest is refused.
IdTooLong_OrEqual == idLen >= SizeMinus(adLen, offset)

\* cred_id_len > len - offset, in size_t.
IdTooLong == idLen > SizeMinus(adLen, offset)

\* The credential id, and the public key in everything after it.
CredentialId ==
  /\ adPc = "id"
  /\ IF IdTooLong
     THEN adPc' = "NGX_DECLINED" /\ UNCHANGED <<offset, touched, id, key>>
     ELSE /\ adPc' = "NGX_OK"
          /\ id' = Bytes(offset, idLen)
          /\ offset' = offset + idLen
          /\ key' = Bytes(offset', SizeMinus(adLen, offset'))
          /\ touched' = touched \cup id' \cup key'
  /\ UNCHANGED <<adLen, at, idLen>>

AuthNext == Prefix \/ Aaguid \/ CredentialId

AuthSpec == AuthInit /\ [][AuthNext]_adVars

-----------------------------------------------------------------------------
\* The parser neither reads nor hands out a byte outside the buffer, for any
\* length and any id length an authenticator can claim.
InBounds == touched \subseteq Bytes(0, adLen)

\* A buffer is accepted exactly when its fields fit, and then they account
\* for every byte: the id is followed at once by the key, which runs to the
\* end of the buffer.
FieldsTile ==
  /\ adPc = "NGX_OK" =>
       /\ adLen >= MinLen
       /\ at => /\ touched = Bytes(0, adLen)
                /\ id \cup key = Bytes(MinLen + AaguidLen + 2,
                                       adLen - (MinLen + AaguidLen + 2))
                /\ id \cap key = {}
                /\ id = Bytes(MinLen + AaguidLen + 2, idLen)
       /\ ~at => id = {} /\ key = {}
  /\ adPc = "NGX_DECLINED" =>
       adLen < MinLen + (IF at THEN AaguidLen + 2 + idLen ELSE 0)
=============================================================================

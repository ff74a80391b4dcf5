------------------------------ MODULE Assertion ------------------------------
(***************************************************************************)
(* The decision ngx_auth_webauthn_assertion_verify takes on a parsed        *)
(* assertion, a stored record and the location's policy.  Byte strings are  *)
(* abstracted to what the checks tell apart; NGX_DECLINED and NGX_ERROR are *)
(* one outcome, since the only caller treats them alike.                    *)
(***************************************************************************)
EXTENDS Naturals

CONSTANTS
  RequireUv,        \* auth_webauthn_user_verification required
  CloneDetection    \* auth_webauthn_clone_detection

ASSUME PolicyAssumption ==
  /\ RequireUv \in BOOLEAN
  /\ CloneDetection \in {"strict", "lax", "off"}

\* clientdata_verify.  The challenge it compares with was read from the same
\* clientDataJSON, so that comparison cannot fail here.
clientdata_verify(a) ==
  /\ a.type = "webauthn.get"
  /\ a.origin = "allowed"
  /\ a.crossOrigin # "true"

\* authdata_parse: the 37-byte prefix is there and, when the AT flag is set,
\* the attested data is within bounds.
authdata_parse(a) == a.authData = "parsed"

\* Mutant: an equal counter passes.
check_counter_NotLower(auth, stored) ==
  CloneDetection # "strict" \/ auth >= stored

\* The presented counter against the stored one, by clone detection mode.
check_counter(auth, stored) ==
  \/ CloneDetection = "off"
  \/ auth = 0 /\ stored = 0
  \/ auth > stored
  \/ CloneDetection = "lax"

\* Mutant: the verdict of the signature check is ignored.
check_signature_Ignored(a, public_key) == TRUE

\* check_signature: made by the private key of the stored public key.
check_signature(a, public_key) == a.signer = public_key

assertion_verify(a, public_key, stored) ==
  /\ clientdata_verify(a)
  /\ authdata_parse(a)
  /\ ~a.atOrEd
  /\ a.rpId = "ours"
  /\ a.up
  /\ RequireUv => a.uv
  /\ check_counter(a.signCount, stored)
  /\ check_signature(a, public_key)
=============================================================================

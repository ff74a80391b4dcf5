------------------------------- MODULE MCParts -------------------------------
(***************************************************************************)
(* The parts of the system apart from the login path and the gate: the      *)
(* sequential code, each call of which runs to its end without anybody      *)
(* looking on, and the admin CLI against its store.  No two of them share a *)
(* variable.  A behaviour is one call of one sequential part, on any input  *)
(* of its instance, or one of the CLI, with the others idle, so that one    *)
(* run answers for all.                                                     *)
(***************************************************************************)
EXTENDS Decimal, Base64Url, AuthData, ReadFile, Replies, Pool, MCConf,
        MCEnrollment, AdminView

CONSTANTS
  MaxText,      \* bound on the length of a decimal field of other origin
  MaxBytes,     \* bound on the bytes given to the encoder
  MaxChars,     \* bound on the characters of a text of other origin
  MaxBuf,       \* bound on the length of authenticator data
  MaxCreds,     \* bound on a user's credentials
  MaxUserId     \* bound on the bytes of a user id

Strings(S, n) == UNION {[1..k -> S] : k \in 0..n}

\* The sign, digits at the ends of the range, and the bytes next to them.
MCFieldTexts == Strings({45, 47, 48, 49, 50, 55, 56, 57, 58}, MaxText)

\* Bytes and characters with every bit both set and clear, padding, garbage.
MCInputs == Strings({0, 91, 164, 255}, MaxBytes)
MCOtherTexts == Strings({0, 42, 63, Pad, Bad}, MaxChars)

\* Every id length that fits, the first ones that do not, and the largest.
MCBufLens == 0..MaxBuf
MCIdLens == 0..MaxBuf \cup {256, IdMax}

MCCredLists == Strings(Length, MaxCreds)

\* All that json_escape tells apart, with the bytes next to the limits.
MCUserIds ==
  Strings({0, 9, 10, 13, 31, 34, 92, 117, 128, 194, 224, 255}, MaxUserId)

-----------------------------------------------------------------------------
Part == {"decimal", "base64", "authdata", "file", "reply", "pool", "conf",
         "enroll", "admin"}

VARIABLE part   \* the one that runs

AdminSymmetry == Permutations(CredId) \cup Permutations(User)

DecIdle ==
  /\ field = "alg" /\ wrote = NoNumber /\ value = <<>> /\ readPos = 0
  /\ neg = FALSE /\ acc = 0 /\ exact = 0 /\ rc = "idle" /\ member = NoNumber

B64Idle ==
  /\ codec = "idle" /\ src = <<>> /\ chars = <<>> /\ s = 0 /\ decoded = 0
  /\ bits = 0 /\ buf = 0 /\ dst = <<>>

AuthIdle ==
  /\ adLen = 0 /\ at = FALSE /\ idLen = 0 /\ adPc = "idle" /\ offset = 0
  /\ touched = {} /\ id = {} /\ key = {}

FileIdle ==
  /\ fileSize = 0 /\ ends = <<>> /\ filePc = "idle" /\ cap = 0 /\ filled = 0
  /\ ferror = FALSE /\ top = 0 /\ result = 0

RepIdle ==
  /\ repPc = "idle" /\ creds = <<>> /\ user_id = <<>> /\ textLen = <<>>
  /\ idx = 0 /\ sum = 0 /\ bufSize = 0 /\ used = 0 /\ esc = <<>>

PoolIdle ==
  /\ stage = "idle" /\ live = {} /\ large = <<>> /\ cleanup = <<>>
  /\ order = 0 /\ ran = <<>> /\ kept = {} /\ bad = FALSE

ConfIdle ==
  /\ own = [b \in Block |-> create_loc_conf]
  /\ eff = [b \in Block |-> Unset]
  /\ phase = "idle" /\ count = 0

EnrIdle ==
  /\ resp = Absent /\ require = "none" /\ pc = "idle"
  /\ att = Absent /\ cred = Absent /\ login = Absent

PartsInit ==
  /\ part \in Part
  /\ AdminInit
  /\ IF part = "decimal"  THEN DecInit  ELSE DecIdle
  /\ IF part = "base64"   THEN B64Init  ELSE B64Idle
  /\ IF part = "authdata" THEN AuthInit ELSE AuthIdle
  /\ IF part = "file"     THEN FileInit ELSE FileIdle
  /\ IF part = "reply"    THEN RepInit  ELSE RepIdle
  /\ IF part = "pool"     THEN PoolInit ELSE PoolIdle
  /\ IF part = "conf"     THEN ConfInit ELSE ConfIdle
  /\ IF part = "enroll"   THEN EnrInit  ELSE EnrIdle

textVars == <<decVars, b64Vars, adVars>>
bufferVars == <<fileVars, repVars, poolVars>>
setupVars == <<confVars, enrVars>>
partsVars == <<textVars, bufferVars, setupVars, adminVars, part>>

PartsNext ==
  \/ /\ \/ DecNext  /\ UNCHANGED <<b64Vars, adVars, bufferVars, setupVars>>
        \/ B64Next  /\ UNCHANGED <<decVars, adVars, bufferVars, setupVars>>
        \/ AuthNext /\ UNCHANGED <<decVars, b64Vars, bufferVars, setupVars>>
        \/ FileNext /\ UNCHANGED <<textVars, repVars, poolVars, setupVars>>
        \/ RepNext  /\ UNCHANGED <<textVars, fileVars, poolVars, setupVars>>
        \/ PoolNext /\ UNCHANGED <<textVars, fileVars, repVars, setupVars>>
        \/ ConfNext /\ UNCHANGED <<textVars, bufferVars, enrVars>>
        \/ EnrNext  /\ UNCHANGED <<textVars, bufferVars, confVars>>
     /\ UNCHANGED <<adminVars, part>>
  \/ /\ part = "admin" /\ AdminNext
     /\ UNCHANGED <<textVars, bufferVars, setupVars, part>>

PartsSpec == PartsInit /\ [][PartsNext]_partsVars
=============================================================================

---------------------------- MODULE PartsProofs -----------------------------
(***************************************************************************)
(* Proofs about the sequential parts of the system, each for every input    *)
(* and every value of its constants.                                        *)
(***************************************************************************)
EXTENDS Decimal, Base64Url, AuthData, ReadFile, Replies, Pool, ConfMerge,
        Enrollment, LeastNatural

-----------------------------------------------------------------------------
(* authdata_parse: within its buffer, and without gaps.                    *)

\* Where the credential id starts.
IdStart == MinLen + AaguidLen + 2

AuthTypeOK ==
  /\ adLen \in 0..(SizeWord - 1)
  /\ at \in BOOLEAN
  /\ idLen \in 0..IdMax
  /\ adPc \in {"prefix", "aaguid", "id", "NGX_OK", "NGX_DECLINED"}
  /\ offset \in Nat

\* What the parser has established when it comes to each field.
AuthProgress ==
  /\ adPc = "prefix" => offset = 0 /\ touched = {}
  /\ adPc = "aaguid" => /\ at /\ offset = MinLen /\ adLen >= MinLen
                      /\ touched = Bytes(0, MinLen)
  /\ adPc = "id" => /\ at /\ offset = IdStart /\ adLen >= IdStart
                  /\ touched = Bytes(0, IdStart)
  /\ adPc \in {"prefix", "aaguid", "id"} => id = {} /\ key = {}

AuthInv == AuthTypeOK /\ AuthProgress /\ InBounds /\ FieldsTile

LEMMA Lengths ==
  /\ MinLen \in Nat /\ AaguidLen \in Nat /\ SizeWord \in Nat
  /\ IdStart \in Nat /\ IdStart = MinLen + AaguidLen + 2
  BY AuthDataAssumption DEF MinLen, IdStart

LEMMA AuthInitInv == AuthInit => AuthInv
  <1> SUFFICES ASSUME AuthInit PROVE AuthInv
    OBVIOUS
  <1>1. AuthTypeOK
    BY AuthDataAssumption DEF AuthInit, AuthTypeOK
  <1>2. AuthProgress
    BY DEF AuthInit, AuthProgress
  <1>3. InBounds /\ FieldsTile
    BY DEF AuthInit, InBounds, FieldsTile
  <1> QED
    BY <1>1, <1>2, <1>3 DEF AuthInv

LEMMA PrefixInv == AuthInv /\ Prefix => AuthInv'
  <1> SUFFICES ASSUME AuthInv, Prefix PROVE AuthInv'
    OBVIOUS
  <1> USE Lengths DEF AuthInv, AuthTypeOK, AuthProgress, Prefix
  <1>1. AuthTypeOK'
    OBVIOUS
  <1>2. AuthProgress'
    OBVIOUS
  <1>3. InBounds'
    <2>1. CASE adLen < MinLen
      <3>1. touched' = {}
        BY <2>1
      <3> QED
        BY <3>1 DEF InBounds
    <2>2. CASE adLen >= MinLen
      <3>1. touched' = Bytes(0, MinLen) /\ adLen' = adLen
        BY <2>2
      <3>2. Bytes(0, MinLen) \subseteq Bytes(0, adLen)
        BY <2>2 DEF Bytes
      <3> QED
        BY <3>1, <3>2 DEF InBounds, Bytes
    <2> QED
      BY <2>1, <2>2
  <1>4. FieldsTile'
    BY DEF FieldsTile
  <1> QED
    BY <1>1, <1>2, <1>3, <1>4

LEMMA AaguidInv == AuthInv /\ Aaguid => AuthInv'
  <1> SUFFICES ASSUME AuthInv, Aaguid PROVE AuthInv'
    OBVIOUS
  <1> USE Lengths DEF AuthInv, AuthTypeOK, AuthProgress, Aaguid, ShortOfLength
  <1>1. AuthTypeOK'
    OBVIOUS
  <1>2. Bytes(0, MinLen) \cup Bytes(MinLen, AaguidLen + 2) = Bytes(0, IdStart)
    BY DEF Bytes, IdStart
  <1>3. AuthProgress'
    BY <1>2 DEF IdStart
  <1>4. InBounds'
    BY <1>2 DEF InBounds, Bytes, IdStart
  <1>5. FieldsTile'
    BY DEF FieldsTile
  <1> QED
    BY <1>1, <1>3, <1>4, <1>5

\* The id and the key take the rest of the buffer between them.
LEMMA CredentialIdInv == AuthInv /\ CredentialId => AuthInv'
  <1> SUFFICES ASSUME AuthInv, CredentialId PROVE AuthInv'
    OBVIOUS
  <1> USE Lengths DEF AuthInv, AuthTypeOK, AuthProgress
  <1>1. /\ offset = IdStart /\ at
        /\ adLen - offset \in Nat /\ adLen - offset < SizeWord
    BY DEF CredentialId
  <1>2. SizeMinus(adLen, offset) = adLen - offset
    BY <1>1 DEF SizeMinus
  <1>3. CASE IdTooLong
    <2>1. /\ adPc' = "NGX_DECLINED"
          /\ UNCHANGED <<adLen, at, idLen, offset, touched, id, key>>
      BY <1>3 DEF CredentialId
    <2>2. adLen < MinLen + (AaguidLen + 2 + idLen)
      BY <1>1, <1>2, <1>3 DEF IdTooLong, IdStart
    <2>3. FieldsTile'
      BY <1>1, <2>1, <2>2 DEF FieldsTile, MinLen
    <2> QED
      BY <2>1, <2>3 DEF InBounds, Bytes
  <1>4. CASE ~IdTooLong
    <2> DEFINE end == IdStart + idLen
    <2>1. idLen <= adLen - offset /\ end <= adLen
      BY <1>1, <1>2, <1>4 DEF IdTooLong
    <2>2. SizeMinus(adLen, end) = adLen - end
      BY <1>1, <2>1 DEF SizeMinus
    <2>3. /\ adPc' = "NGX_OK"
          /\ id' = Bytes(IdStart, idLen)
          /\ offset' = end
          /\ key' = Bytes(end, adLen - end)
          /\ touched' = Bytes(0, IdStart) \cup id' \cup key'
          /\ UNCHANGED <<adLen, at, idLen>>
      BY <1>1, <1>4, <2>2 DEF CredentialId
    <2>4. /\ id' \cup key' = Bytes(IdStart, adLen - IdStart)
          /\ id' \cap key' = {}
          /\ touched' = Bytes(0, adLen)
      BY <2>1, <2>3 DEF Bytes
    <2>5. AuthTypeOK' /\ AuthProgress'
      BY <1>1, <2>1, <2>3
    <2>6. InBounds'
      BY <2>3, <2>4 DEF InBounds
    <2>7. FieldsTile'
      <3>1. MinLen' = MinLen /\ IdStart = MinLen + AaguidLen + 2
        BY DEF MinLen, IdStart
      <3>2. adLen >= MinLen
        BY <1>1, <3>1
      <3> QED
        BY <1>1, <2>3, <2>4, <3>1, <3>2 DEF FieldsTile
    <2> QED
      BY <2>5, <2>6, <2>7
  <1> QED
    BY <1>3, <1>4

LEMMA AuthInvariant == AuthSpec => []AuthInv
  <1>1. AuthInv /\ [AuthNext]_adVars => AuthInv'
    <2>1. AuthInv /\ UNCHANGED adVars => AuthInv'
      BY DEF AuthInv, AuthTypeOK, AuthProgress, InBounds, FieldsTile, adVars, MinLen,
             IdStart, Bytes
    <2> QED
      BY <2>1, PrefixInv, AaguidInv, CredentialIdInv DEF AuthNext
  <1> QED
    BY <1>1, AuthInitInv, PTL DEF AuthSpec

\* authdata_parse neither reads nor hands out a byte outside its input.
THEOREM ParserInBounds == AuthSpec => []InBounds
  <1>1. AuthInv => InBounds
    BY DEF AuthInv
  <1> QED
    BY <1>1, AuthInvariant, PTL

\* A buffer authdata_parse accepts is split into prefix, id and key with
\* nothing left over, and one it declines does not hold the fields it claims.
THEOREM ParserTiles == AuthSpec => []FieldsTile
  <1>1. AuthInv => FieldsTile
    BY DEF AuthInv
  <1> QED
    BY <1>1, AuthInvariant, PTL

-----------------------------------------------------------------------------
(* credential_atoi64.                                                      *)

DecInv ==
  /\ acc \in Nat
  /\ neg \in BOOLEAN
  /\ AccExact

\* A number below the word size is left alone by the conversion to a word.
LEMMA NoWrap ==
  ASSUME NEW a \in Nat, NEW w \in Nat, a < w
  PROVE  a % w = a
  OBVIOUS

\* What the overflow test is worth.
LEMMA DivBound ==
  ASSUME NEW a \in Nat, NEW b \in Nat, a <= b \div 10
  PROVE  a * 10 <= b
  OBVIOUS

LEMMA LimitFacts ==
  ASSUME neg \in BOOLEAN
  PROVE  limit \in Nat /\ limit >= 9 /\ limit < Word /\ Word \in Nat
  BY WidthAssumption DEF limit, Word

\* The sign raises the limit and reads no digit.
LEMMA SignInv == DecInv /\ Sign => DecInv'
  <1> SUFFICES ASSUME DecInv, Sign PROVE DecInv'
    OBVIOUS
  <1>1. acc' = acc /\ exact' = exact /\ neg' \in BOOLEAN
    BY DEF DecInv, Sign
  <1>2. limit <= limit'
    BY <1>1, WidthAssumption DEF DecInv, Sign, limit
  <1>3. limit \in Nat /\ limit' \in Nat
    BY <1>1, WidthAssumption DEF DecInv, limit
  <1> QED
    BY <1>1, <1>2, <1>3 DEF DecInv, AccExact

LEMMA DigitInv == DecInv /\ Digit => DecInv'
  <1> SUFFICES ASSUME DecInv, Digit PROVE DecInv'
    OBVIOUS
  <1> DEFINE d == value[readPos + 1] - Zero
  <1>1. neg' = neg /\ limit' = limit
    BY DEF Digit, limit
  <1>2. CASE acc' = acc /\ exact' = exact
    BY <1>1, <1>2 DEF DecInv, AccExact
  <1>3. CASE /\ IsDigit(value[readPos + 1]) /\ Fits(d)
             /\ acc' = (acc * 10 + d) % Word
             /\ exact' = exact * 10 + d
    <2>1. d \in 0..9
      BY <1>3 DEF IsDigit, Zero
    <2>2. limit \in Nat /\ limit - d \in Nat /\ limit < Word /\ Word \in Nat
      BY <2>1, LimitFacts DEF DecInv
    <2>3. acc \in Nat /\ acc <= (limit - d) \div 10
      BY <1>3 DEF DecInv, Fits
    <2> HIDE DEF d
    <2>4. acc * 10 <= limit - d
      BY <2>2, <2>3, DivBound
    <2>5. /\ acc * 10 + d \in Nat
          /\ acc * 10 + d <= limit
          /\ acc * 10 + d < Word
      BY <2>1, <2>2, <2>3, <2>4
    <2>6. (acc * 10 + d) % Word = acc * 10 + d
      BY <2>2, <2>5, NoWrap
    <2>7. exact = acc
      BY DEF DecInv, AccExact
    <2> QED
      BY <1>1, <1>3, <2>5, <2>6, <2>7 DEF DecInv, AccExact
  <1> QED
    BY <1>2, <1>3 DEF Digit

\* credential_atoi64 computes in exact arithmetic: the accumulator is the
\* number read so far and within the limit of its sign, whatever the text and
\* whatever the width, so the overflow test leaves no overflow.
THEOREM AccumulatorExact == DecSpec => []AccExact
  <1>1. DecInit => DecInv
    <2> SUFFICES ASSUME DecInit PROVE DecInv
      OBVIOUS
    <2>1. acc = 0 /\ exact = 0 /\ neg = FALSE
      BY Zenon DEF DecInit
    <2>2. limit = IntMax
      BY <2>1 DEF limit
    <2>3. AccExact
      BY <2>1, <2>2, WidthAssumption DEF AccExact
    <2> QED
      BY <2>1, <2>3 DEF DecInv
  <1>2. DecInv /\ [DecNext]_decVars => DecInv'
    <2> SUFFICES ASSUME DecInv, [DecNext]_decVars PROVE DecInv'
      OBVIOUS
    <2>1. CASE Sign
      BY <2>1, SignInv
    <2>2. CASE Digit
      BY <2>2, DigitInv
    <2>3. CASE UNCHANGED <<acc, exact, neg>>
      BY <2>3 DEF DecInv, AccExact, limit
    <2> QED
      BY <2>1, <2>2, <2>3 DEF DecNext, End, Use, decVars
  <1>3. DecInv => AccExact
    BY DEF DecInv
  <1> QED
    BY <1>1, <1>2, <1>3, PTL DEF DecSpec

-----------------------------------------------------------------------------
(* The merge of the configuration, for every nesting of blocks.            *)

\* What the directives of one block leave: values that belong together are set
\* together, by the last directive.
AlgPair(x) ==
  \/ x.jwt_alg = Unset /\ x.jwt_alg_family = Unset
  \/ /\ x.jwt_alg \in {"HS256", "RS256", "ES256"}
     /\ x.jwt_alg_family = IF x.jwt_alg = "HS256" THEN "HMAC" ELSE "ASYM"

HostPair(x) == x.redis_host = Unset <=> x.redis_port = Unset

OwnFields(x) ==
  /\ x = [f \in Field |-> x[f]]
  /\ AlgPair(x) /\ HostPair(x)

ConfInv ==
  /\ own = [b \in Block |-> own[b]] /\ \A b \in Block : OwnFields(own[b])
  /\ eff = [b \in Block |-> eff[b]]
  /\ phase = "parse" => \A b \in Block : eff[b] = Unset
  /\ eff[Http] # Unset => eff[Http] = own[Http]
  /\ \A b \in Merged : eff[b].jwt_alg # Unset
  /\ InnermostWins /\ PairsTogether /\ KeyIsLoaded

\* The chain of a block is the block and the chain of the one around it.
LEMMA ChainOfHttp == Chain[Http] = {Http}
<1>1. Outwards({Http}) /\ Http \in Block
  BY ConfAssumption DEF Outwards
<1>2. QED
  BY <1>1 DEF Chain

LEMMA ChainOf ==
  ASSUME NEW b \in Block \ {Http}
  PROVE  Chain[b] = {b} \cup Chain[Around[b]]
<1> DEFINE a == Around[b]
<1>1. a \in Block
  BY ConfAssumption
<1>2. ASSUME NEW S \in SUBSET Block, b \in S, Outwards(S)
      PROVE  a \in S
  BY <1>2 DEF Outwards
<1>3. {b} \cup Chain[a] \subseteq Chain[b]
  BY <1>1, <1>2 DEF Chain
<1>4. Outwards({b} \cup Chain[a])
  <2>1. a \in Chain[a]
    BY <1>1 DEF Chain
  <2>2. ASSUME NEW x \in Chain[a] \ {Http}
        PROVE  Around[x] \in Chain[a]
    <3>1. Around[x] \in Block /\ x \in Block
      BY <1>1, ConfAssumption DEF Chain
    <3>2. ASSUME NEW S \in SUBSET Block, a \in S, Outwards(S)
          PROVE  Around[x] \in S
      <4>1. x \in S
        BY <1>1, <3>2 DEF Chain
      <4>2. QED
        BY <3>2, <4>1 DEF Outwards
    <3>3. QED
      BY <1>1, <3>1, <3>2 DEF Chain
  <2>3. QED
    BY <2>1, <2>2 DEF Outwards
<1>5. {b} \cup Chain[a] \in SUBSET Block
  BY <1>1 DEF Chain
<1>6. Chain[b] \subseteq {b} \cup Chain[a]
  BY <1>4, <1>5 DEF Chain
<1>7. QED
  BY <1>3, <1>6

\* A directive changes nothing that is merged already.
LEMMA SetFieldsInv ==
  ASSUME ConfInv, NEW b \in Block, NEW ok, NEW x, SetFields(b, ok, x),
         ok => OwnFields(x)
  PROVE  ConfInv'
<1>1. phase = "parse" /\ eff' = eff /\ phase' \in {"parse", "rejected"}
  BY DEF SetFields
<1>2. \A c \in Block : eff[c] = Unset /\ eff'[c] = Unset
  BY <1>1 DEF ConfInv
<1>3. \/ own' = own
      \/ own' = [own EXCEPT ![b] = x] /\ OwnFields(x)
  BY DEF SetFields
<1>4. own' = [c \in Block |-> own'[c]] /\ \A c \in Block : OwnFields(own'[c])
  <2>1. CASE own' = own
    BY <2>1 DEF ConfInv, OwnFields, AlgPair, HostPair
  <2>2. CASE own' = [own EXCEPT ![b] = x] /\ OwnFields(x)
    <3>1. \A c \in Block : own'[c] = IF c = b THEN x ELSE own[c]
      BY <2>2 DEF ConfInv
    <3>2. own' = [c \in Block |-> own'[c]]
      BY <2>2 DEF ConfInv
    <3>3. QED
      BY <2>2, <3>1, <3>2 DEF ConfInv, OwnFields, AlgPair, HostPair
  <2>3. QED
    BY <1>3, <2>1, <2>2
<1>5. Merged' = {}
  BY <1>2 DEF Merged
<1>6. Http \in Block
  BY ConfAssumption
<1>7. QED
  BY <1>1, <1>2, <1>4, <1>5, <1>6
  DEF ConfInv, InnermostWins, PairsTogether, KeyIsLoaded

\* The setters keep together what belongs together.
LEMMA SlotFields ==
  ASSUME NEW x, OwnFields(x), NEW v,
         NEW f \in {"rp_id", "origins", "jwt_secret_file", "auth",
                    "verify_handler", "redis_password"}
  PROVE  OwnFields([x EXCEPT ![f] = v])
<1>1. f \in Field
  BY DEF Field
<1>2. \A g \in Field \ {f} : [x EXCEPT ![f] = v][g] = x[g]
  BY DEF OwnFields
<1>3. [x EXCEPT ![f] = v] = [g \in Field |-> [x EXCEPT ![f] = v][g]]
  BY <1>1 DEF OwnFields
<1>4. QED
  BY <1>2, <1>3 DEF OwnFields, AlgPair, HostPair, Field

LEMMA AlgFields ==
  ASSUME NEW x, OwnFields(x), NEW a \in {"HS256", "RS256", "ES256"}
  PROVE  OwnFields([x EXCEPT !.jwt_alg = a,
                     !.jwt_alg_family = IF a = "HS256" THEN "HMAC" ELSE "ASYM"])
<1> DEFINE fam == IF a = "HS256" THEN "HMAC" ELSE "ASYM"
<1> DEFINE y == [x EXCEPT !.jwt_alg = a, !.jwt_alg_family = fam]
<1>1. y = [g \in Field |-> IF g = "jwt_alg_family" THEN fam
                           ELSE IF g = "jwt_alg" THEN a ELSE x[g]]
  BY DEF OwnFields, Field
<1>2. QED
  BY <1>1 DEF OwnFields, AlgPair, HostPair, Field

LEMMA RedisFields ==
  ASSUME NEW x, OwnFields(x), NEW h, h # Unset, NEW p \in Nat
  PROVE  OwnFields([x EXCEPT !.redis_host = h, !.redis_port = p])
<1> DEFINE y == [x EXCEPT !.redis_host = h, !.redis_port = p]
<1>1. y = [g \in Field |-> IF g = "redis_port" THEN p
                           ELSE IF g = "redis_host" THEN h ELSE x[g]]
  BY DEF OwnFields, Field
<1>2. h # Unset /\ p # Unset
  BY ConfAssumption
<1>3. QED
  BY <1>1, <1>2 DEF OwnFields, AlgPair, HostPair, Field

LEMMA RateFields ==
  ASSUME NEW x, OwnFields(x), NEW m, NEW w
  PROVE  OwnFields([x EXCEPT !.rate_max = m, !.rate_window = w])
<1> DEFINE y == [x EXCEPT !.rate_max = m, !.rate_window = w]
<1>1. y = [g \in Field |-> IF g = "rate_window" THEN w
                           ELSE IF g = "rate_max" THEN m ELSE x[g]]
  BY DEF OwnFields, Field
<1>2. QED
  BY <1>1 DEF OwnFields, AlgPair, HostPair, Field

LEMMA DirectiveInv ==
  ASSUME ConfInv, Directive
  PROVE  ConfInv'
<1> PICK b \in Block :
      \/ \E v : set_slot(b, "rp_id", v)
      \/ \E v : set_origin(b, v)
      \/ \E p \in 0..2 : set_redis(b, IF p = 1 THEN "h1" ELSE "h2", p)
      \/ \E a : set_jwt_alg(b, a)
      \/ \E m, w : set_rate_limit(b, m, w)
      \/ \E f : set_redis_password(b, f)
      \/ \E f : set_slot(b, "jwt_secret_file", f)
      \/ \E v : set_slot(b, "auth", v)
      \/ \E v : set_slot(b, "verify_handler", v)
  BY Zenon DEF Directive, set_verify_handler
<1>1. OwnFields(own[b])
  BY DEF ConfInv
<1>2. ASSUME NEW f \in {"rp_id", "jwt_secret_file", "auth", "verify_handler"},
             NEW v, set_slot(b, f, v)
      PROVE  ConfInv'
  BY <1>1, <1>2, SetFieldsInv, SlotFields DEF set_slot
<1>3. ASSUME NEW v, set_origin(b, v)
      PROVE  ConfInv'
  <2>1. PICK u : SetFields(b, TRUE, [own[b] EXCEPT !.origins = u])
    BY <1>3 DEF set_origin
  <2>2. OwnFields([own[b] EXCEPT !.origins = u])
    BY <1>1, SlotFields
  <2>3. QED
    BY <2>1, <2>2, SetFieldsInv
<1>4. ASSUME NEW p \in 0..2,
             set_redis(b, IF p = 1 THEN "h1" ELSE "h2", p)
      PROVE  ConfInv'
  <2> DEFINE h == IF p = 1 THEN "h1" ELSE "h2"
  <2>0. h # Unset /\ p \in Nat
    BY ConfAssumption
  <2>1. OwnFields([own[b] EXCEPT !.redis_host = h, !.redis_port = p])
    BY <1>1, <2>0, RedisFields
  <2>2. PICK ok : SetFields(b, ok, [own[b] EXCEPT !.redis_host = h,
                                                  !.redis_port = p])
    BY <1>4 DEF set_redis
  <2>3. QED
    BY <2>1, <2>2, SetFieldsInv
<1>5. ASSUME NEW a, set_jwt_alg(b, a)
      PROVE  ConfInv'
  <2> DEFINE x == [own[b] EXCEPT !.jwt_alg = a,
                     !.jwt_alg_family = IF a = "HS256" THEN "HMAC" ELSE "ASYM"]
  <2>1. CASE a \in {"HS256", "RS256", "ES256"}
    <3>1. OwnFields(x)
      BY <1>1, <2>1, AlgFields
    <3>2. PICK ok : SetFields(b, ok, x)
      BY <1>5 DEF set_jwt_alg
    <3>3. QED
      BY <3>1, <3>2, SetFieldsInv
  <2>2. CASE a \notin {"HS256", "RS256", "ES256"}
    <3>1. SetFields(b, FALSE, x)
      BY <1>5, <2>2 DEF set_jwt_alg, SetFields
    <3>2. QED
      BY <3>1, SetFieldsInv
  <2>3. QED
    BY <2>1, <2>2
<1>6. ASSUME NEW m, NEW w, set_rate_limit(b, m, w)
      PROVE  ConfInv'
  <2>1. PICK n, v, ok :
          SetFields(b, ok, [own[b] EXCEPT !.rate_max = n, !.rate_window = v])
    BY <1>6 DEF set_rate_limit
  <2>2. OwnFields([own[b] EXCEPT !.rate_max = n, !.rate_window = v])
    BY <1>1, RateFields
  <2>3. QED
    BY <2>1, <2>2, SetFieldsInv
<1>7. ASSUME NEW f, set_redis_password(b, f)
      PROVE  ConfInv'
  <2>1. OwnFields([own[b] EXCEPT !.redis_password = f])
    BY <1>1, SlotFields
  <2>2. QED
    BY <1>7, <2>1, SetFieldsInv DEF set_redis_password
<1>8. QED
  BY <1>2, <1>3, <1>4, <1>5, <1>6, <1>7, Zenon

LEMMA EndOfHttpInv ==
  ASSUME ConfInv, EndOfHttp
  PROVE  ConfInv'
<1>1. /\ phase = "parse" /\ phase' = "merge" /\ own' = own
      /\ eff' = [eff EXCEPT ![Http] = own[Http]]
  BY DEF EndOfHttp
<1>2. /\ Http \in Block /\ eff' = [b \in Block |-> eff'[b]]
      /\ eff'[Http] = own[Http]
      /\ \A b \in Block \ {Http} : eff'[b] = Unset
  BY <1>1, ConfAssumption DEF ConfInv
<1>3. Merged' = {}
  BY <1>2 DEF Merged
<1>4. own' = [b \in Block |-> own'[b]] /\ \A b \in Block : OwnFields(own'[b])
  BY <1>1 DEF ConfInv, OwnFields, AlgPair, HostPair
<1>5. QED
  BY <1>1, <1>2, <1>3, <1>4
  DEF ConfInv, InnermostWins, PairsTogether, KeyIsLoaded

\* What the block around has in effect: its own directives for http, and the
\* merge for the others.
LEMMA OuterSettled ==
  ASSUME ConfInv, NEW a \in Block, eff[a] # Unset,
         NEW f \in Field \ {"jwt_secret", "jwt_pub_pem"}
  PROVE  \/ \E x \in Block : Innermost(a, x, f) /\ eff[a][f] = own[x][f]
         \/ /\ eff[a][f] \in {Unset, Default[f]}
            /\ \A x \in Chain[a] : own[x][f] = Unset
<1>1. CASE a = Http
  <2>1. eff[a][f] = own[a][f] /\ Chain[a] = {a}
    BY <1>1, ChainOfHttp DEF ConfInv
  <2>2. QED
    BY <2>1 DEF Innermost
<1>2. CASE a # Http
  BY <1>2 DEF ConfInv, InnermostWins, Merged
<1>3. QED
  BY <1>1, <1>2

\* The merge of one field takes the innermost value.
LEMMA InheritInnermost ==
  ASSUME ConfInv, NEW b \in Block \ {Http}, eff[Around[b]] # Unset,
         NEW f \in Field \ {"jwt_secret", "jwt_pub_pem"}
  PROVE  LET v == Inherit(own[b], eff[Around[b]], f) IN
         \/ \E x \in Block : Innermost(b, x, f) /\ v = own[x][f]
         \/ v = Default[f] /\ \A x \in Chain[b] : own[x][f] = Unset
<1> DEFINE a == Around[b]
<1>1. a \in Block /\ Chain[b] = {b} \cup Chain[a]
  BY ChainOf, ConfAssumption
<1>2. CASE own[b][f] # Unset
  <2>1. Innermost(b, b, f)
    BY <1>1, <1>2 DEF Innermost
  <2>2. QED
    BY <1>2, <2>1 DEF Inherit
<1>3. CASE own[b][f] = Unset
  <2>1. CASE \E x \in Block : Innermost(a, x, f) /\ eff[a][f] = own[x][f]
    <3> PICK x \in Block : Innermost(a, x, f) /\ eff[a][f] = own[x][f]
      BY <2>1
    <3>1. Innermost(b, x, f)
      BY <1>1, <1>3 DEF Innermost
    <3>2. QED
      BY <1>3, <3>1 DEF Inherit, Innermost
  <2>2. CASE /\ eff[a][f] \in {Unset, Default[f]}
             /\ \A x \in Chain[a] : own[x][f] = Unset
    BY <1>1, <1>3, <2>2 DEF Inherit
  <2>3. QED
    BY <1>1, <2>1, <2>2, OuterSettled
<1>4. QED
  BY <1>2, <1>3

\* The algorithm and its family come from one place, and so do host and port.
LEMMA InheritPairs ==
  ASSUME ConfInv, NEW b \in Block \ {Http}, eff[Around[b]] # Unset
  PROVE  LET v(f) == Inherit(own[b], eff[Around[b]], f) IN
         /\ v("jwt_alg") # Unset
         /\ v("jwt_alg_family") =
              (IF v("jwt_alg") = "HS256" THEN "HMAC" ELSE "ASYM")
         /\ \/ v("redis_host") = Unset /\ v("redis_port") = 0
            \/ \E x \in Chain[b] : /\ own[x].redis_host = v("redis_host")
                                   /\ own[x].redis_port = v("redis_port")
<1> DEFINE a == Around[b]
<1>1. a \in Block /\ Chain[b] = {b} \cup Chain[a]
  BY ChainOf, ConfAssumption
<1>2. OwnFields(own[b]) /\ OwnFields(own[a])
  BY <1>1 DEF ConfInv
<1>3. /\ Default["jwt_alg"] = "HS256" /\ Default["jwt_alg_family"] = "HMAC"
      /\ Default["redis_host"] = Unset /\ Default["redis_port"] = 0
  BY DEF Default, create_loc_conf, Field
<1>4. /\ Unset \notin {"HS256", "RS256", "ES256"} /\ Unset # 0
  BY ConfAssumption
<1>5. \/ AlgPair(eff[a])
      \/ /\ eff[a].jwt_alg # Unset
         /\ eff[a].jwt_alg_family =
              IF eff[a].jwt_alg = "HS256" THEN "HMAC" ELSE "ASYM"
  <2>1. CASE a = Http
    BY <1>2, <2>1 DEF ConfInv, OwnFields
  <2>2. CASE a # Http
    BY <1>1, <2>2 DEF ConfInv, PairsTogether, Merged
  <2>3. QED
    BY <2>1, <2>2
<1>6. \/ eff[a].redis_host = Unset /\ eff[a].redis_port \in {0, Unset}
      \/ \E x \in Chain[a] : /\ own[x].redis_host = eff[a].redis_host
                             /\ own[x].redis_port = eff[a].redis_port
  <2>1. CASE a = Http
    BY <2>1, ChainOfHttp DEF ConfInv
  <2>2. CASE a # Http
    BY <1>1, <2>2 DEF ConfInv, PairsTogether, Merged
  <2>3. QED
    BY <2>1, <2>2
<1> DEFINE v(f) == Inherit(own[b], eff[a], f)
<1>7. v("jwt_alg") # Unset
  BY <1>3, <1>4 DEF Inherit
<1>8. v("jwt_alg_family") =
        (IF v("jwt_alg") = "HS256" THEN "HMAC" ELSE "ASYM")
  BY <1>2, <1>3, <1>4, <1>5, ConfAssumption
  DEF Inherit, OwnFields, AlgPair
<1>9. \/ v("redis_host") = Unset /\ v("redis_port") = 0
      \/ \E x \in Chain[b] : /\ own[x].redis_host = v("redis_host")
                             /\ own[x].redis_port = v("redis_port")
  <2>1. CASE own[b].redis_host # Unset
    <3>1. v("redis_host") = own[b].redis_host
      BY <2>1 DEF Inherit
    <3>2. v("redis_port") = own[b].redis_port
      BY <1>2, <2>1 DEF Inherit, OwnFields, HostPair
    <3>3. QED
      BY <1>1, <3>1, <3>2
  <2>2. CASE own[b].redis_host = Unset /\ eff[a].redis_host = Unset
    <3>1. own[b].redis_port = Unset
      BY <1>2, <2>2 DEF OwnFields, HostPair
    <3>2. eff[a].redis_port \in {0, Unset}
      <4>1. \A x \in Chain[a] : x \in Block
        BY <1>1 DEF Chain
      <4>2. QED
        BY <1>6, <2>2, <4>1 DEF ConfInv, OwnFields, HostPair
    <3>3. QED
      BY <1>3, <2>2, <3>1, <3>2 DEF Inherit
  <2>3. CASE own[b].redis_host = Unset /\ eff[a].redis_host # Unset
    <3>1. own[b].redis_port = Unset
      BY <1>2, <2>3 DEF OwnFields, HostPair
    <3>2. PICK x \in Chain[a] : /\ own[x].redis_host = eff[a].redis_host
                                /\ own[x].redis_port = eff[a].redis_port
      BY <1>6, <2>3
    <3>3. x \in Block
      BY <1>1 DEF Chain
    <3>4. own[x].redis_port # Unset
      BY <2>3, <3>2, <3>3 DEF ConfInv, OwnFields, HostPair
    <3>5. /\ v("redis_host") = eff[a].redis_host
          /\ v("redis_port") = eff[a].redis_port
      BY <2>3, <3>1, <3>2, <3>4 DEF Inherit
    <3>6. QED
      BY <1>1, <3>2, <3>5
  <2>4. QED
    BY <2>1, <2>2, <2>3
<1>10. QED
  BY <1>7, <1>8, <1>9

LEMMA ConfUnchanged ==
  ASSUME ConfInv, UNCHANGED <<own, eff>>, phase' = "parse" => phase = "parse"
  PROVE  ConfInv'
<1>1. Merged' = Merged
  BY DEF Merged
<1>2. \A b \in Block : OwnFields(own'[b])
  BY DEF ConfInv, OwnFields, AlgPair, HostPair
<1>3. InnermostWins'
  <2>1. \A b, x, f : Innermost(b, x, f)' <=> Innermost(b, x, f)
    BY DEF Innermost
  <2>2. InnermostWins
    BY DEF ConfInv
  <2>3. QED
    BY <1>1, <2>1, <2>2 DEF InnermostWins
<1>4. PairsTogether'
  BY <1>1 DEF ConfInv, PairsTogether
<1>5. KeyIsLoaded'
  BY <1>1 DEF ConfInv, KeyIsLoaded
<1>6. QED
  BY <1>1, <1>2, <1>3, <1>4, <1>5 DEF ConfInv

LEMMA MergeInv ==
  ASSUME ConfInv, NEW b \in Block \ {Http}, merge_loc_conf(b)
  PROVE  ConfInv'
<1> DEFINE m == [f \in Field |-> Inherit(own[b], eff[Around[b]], f)]
<1>1. /\ phase = "merge" /\ phase' \in {"merge", "rejected"} /\ own' = own
      /\ eff[Around[b]] # Unset
  BY DEF merge_loc_conf
<1>2. own' = [c \in Block |-> own'[c]] /\ \A c \in Block : OwnFields(own'[c])
  BY <1>1 DEF ConfInv, OwnFields, AlgPair, HostPair
<1>3. CASE eff' = eff
  BY <1>1, <1>3, ConfUnchanged
<1>4. CASE eff' = [eff EXCEPT ![b] = IF NeedsKey(m) THEN LoadKey(m) ELSE m]
  <2> DEFINE e == IF NeedsKey(m) THEN LoadKey(m) ELSE m
  <2>1. \A f \in Field \ {"jwt_secret", "jwt_pub_pem"} :
          e[f] = Inherit(own[b], eff[Around[b]], f)
    BY DEF LoadKey, Field
  <2>2. (e.auth \/ e.verify_handler) /\ e.jwt_secret_file # Unset
          => e.jwt_secret # Unset
    BY DEF LoadKey, NeedsKey, Field
  <2>3. eff' = [c \in Block |-> IF c = b THEN e ELSE eff[c]]
    BY <1>4 DEF ConfInv
  <2> HIDE DEF e
  <2>4. /\ eff'[b] = e /\ eff' = [c \in Block |-> eff'[c]]
        /\ eff'[Http] = eff[Http]
        /\ \A c \in Block \ {b} : eff'[c] = eff[c]
        /\ Merged' \ {b} = Merged \ {b}
    BY <2>3, ConfAssumption DEF Merged
  <2>5. /\ e["jwt_alg"] = Inherit(own[b], eff[Around[b]], "jwt_alg")
        /\ e["jwt_alg_family"] =
             Inherit(own[b], eff[Around[b]], "jwt_alg_family")
        /\ e["redis_host"] = Inherit(own[b], eff[Around[b]], "redis_host")
        /\ e["redis_port"] = Inherit(own[b], eff[Around[b]], "redis_port")
    BY <2>1 DEF Field
  <2>6. InnermostWins'
    <3>1. ASSUME NEW c \in Merged',
                 NEW f \in Field \ {"jwt_secret", "jwt_pub_pem"}
          PROVE  \/ \E x \in Block : /\ Innermost(c, x, f)
                                     /\ eff'[c][f] = own[x][f]
                 \/ /\ eff'[c][f] = Default[f]
                    /\ \A x \in Chain[c] : own[x][f] = Unset
      <4>1. CASE c = b
        BY <1>1, <2>1, <2>4, <4>1, InheritInnermost
      <4>2. CASE c # b
        BY <2>4, <4>2 DEF ConfInv, InnermostWins, Merged
      <4>3. QED
        BY <4>1, <4>2
    <3>2. QED
      BY <1>1, <3>1 DEF InnermostWins, Innermost
  <2>7. PairsTogether' /\ \A c \in Merged' : eff'[c].jwt_alg # Unset
    <3>1. ASSUME NEW c \in Merged'
          PROVE  /\ eff'[c].jwt_alg # Unset
                 /\ eff'[c].jwt_alg_family =
                      (IF eff'[c].jwt_alg = "HS256" THEN "HMAC" ELSE "ASYM")
                 /\ \/ eff'[c].redis_host = Unset /\ eff'[c].redis_port = 0
                    \/ \E x \in Chain[c] :
                         /\ own[x].redis_host = eff'[c].redis_host
                         /\ own[x].redis_port = eff'[c].redis_port
      <4>1. CASE c = b
        BY <1>1, <2>4, <2>5, <4>1, InheritPairs
      <4>2. CASE c # b
        BY <2>4, <4>2 DEF ConfInv, PairsTogether, Merged
      <4>3. QED
        BY <4>1, <4>2
    <3>2. QED
      BY <1>1, <3>1 DEF PairsTogether
  <2>8. KeyIsLoaded'
    BY <2>2, <2>4 DEF ConfInv, KeyIsLoaded, Merged
  <2>9. QED
    BY <1>1, <1>2, <2>4, <2>6, <2>7, <2>8 DEF ConfInv
<1>5. QED
  BY <1>3, <1>4 DEF merge_loc_conf

\* ConfInv is inductive.
LEMMA ConfInvariant == ConfSpec => []ConfInv
<1>1. ConfInit => ConfInv
  <2> SUFFICES ASSUME ConfInit PROVE ConfInv
    OBVIOUS
  <2>1. OwnFields(create_loc_conf)
    BY DEF OwnFields, AlgPair, HostPair, create_loc_conf, Field
  <2>2. \A b \in Block : own[b] = create_loc_conf /\ eff[b] = Unset
    BY DEF ConfInit
  <2>3. Merged = {} /\ Http \in Block
    BY <2>2, ConfAssumption DEF Merged
  <2>4. QED
    BY <2>1, <2>2, <2>3
    DEF ConfInit, ConfInv, InnermostWins, PairsTogether, KeyIsLoaded
<1>2. ConfInv /\ [ConfNext]_confVars => ConfInv'
  <2> SUFFICES ASSUME ConfInv, [ConfNext]_confVars PROVE ConfInv'
    OBVIOUS
  <2>1. CASE UNCHANGED confVars
    BY <2>1, ConfUnchanged DEF confVars
  <2>2. QED
    BY <2>1, DirectiveInv, EndOfHttpInv, MergeInv DEF ConfNext
<1>3. QED
  BY <1>1, <1>2, PTL DEF ConfSpec

\* "redefining them in a lower block overrides the inherited value"
\* (docs/DIRECTIVES.md), for every tree of blocks, every order of directives
\* and of merges, and every field the merge inherits.
THEOREM InnermostPrevails == ConfSpec => []InnermostWins
<1>1. ConfInv => InnermostWins
  BY DEF ConfInv
<1>2. QED
  BY <1>1, ConfInvariant, PTL

\* A block checks tokens with the family of its own algorithm and contacts a
\* host on the port of the same directive, although each field is inherited
\* for itself.
THEOREM PairsStayTogether == ConfSpec => []PairsTogether
<1>1. ConfInv => PairsTogether
  BY DEF ConfInv
<1>2. QED
  BY <1>1, ConfInvariant, PTL

\* An accepted configuration leaves no block that mints or checks sessions, and
\* has a key file in effect, without a key; it need not be the key of that file.
THEOREM KeysAreLoaded == ConfSpec => []KeyIsLoaded
<1>1. ConfInv => KeyIsLoaded
  BY DEF ConfInv
<1>2. QED
  BY <1>1, ConfInvariant, PTL

-----------------------------------------------------------------------------
(* register up to credential_put, and the login that follows.              *)

\* What the stages have established.
EnrInv ==
  /\ pc \in {"parse", "authdata", "verify", "convert", "registered", "fail"}
  /\ pc \in {"authdata", "verify", "convert", "registered"} =>
       att = attestation_parse(resp) /\ att # Absent
  /\ pc \in {"convert", "registered"} => attestation_verify(resp, att, require)
  /\ pc = "registered" =>
       cred = cose_to_pkey(resp.authData.cose) /\ cred # Absent
  /\ pc # "registered" => login = Absent
  /\ login # Absent =>
       /\ login.sig \in Assertions
       /\ login.ok <=> check_signature(cred, login.sig, "assertion")

\* The decoder pairs each type of key with one algorithm.
LEMMA KeyTyped ==
  ASSUME NEW m, cose_to_pkey(m) # Absent
  PROVE  LET k == cose_to_pkey(m) IN
         \/ k.alg = ES256 /\ k.pkey.type = "EC"
         \/ k.alg = EdDSA /\ k.pkey.type = "ED25519"
         \/ k.alg = RS256 /\ k.pkey.type = "RSA"
<1> DEFINE kty == cose_int(Collect(m, 1))
<1> DEFINE alg == cose_int(Collect(m, 3))
<1> DEFINE ec == ec2_pkey(Collect(m, -1), Collect(m, -2), Collect(m, -3))
<1> DEFINE okp == okp_pkey(Collect(m, -1), Collect(m, -2))
<1> DEFINE rsa == rsa_pkey(Collect(m, -1), Collect(m, -2))
<1> DEFINE pub == CASE kty = 2 /\ alg = ES256 -> ec
                    [] kty = 1 /\ alg = EdDSA -> okp
                    [] kty = 3 /\ alg = RS256 -> rsa
                    [] OTHER -> Absent
<1>1. cose_to_pkey(m) = IF pub = Absent THEN Absent ELSE [alg |-> alg, pkey |-> pub]
  BY DEF cose_to_pkey
<1>2. /\ ec # Absent => ec.type = "EC"
      /\ okp # Absent => okp.type = "ED25519"
      /\ rsa # Absent => rsa.type = "RSA"
  BY DEF ec2_pkey, okp_pkey, rsa_pkey, PKey
<1> HIDE DEF kty, alg, ec, okp, rsa
<1>3. pub # Absent
  BY <1>1
<1>4. \/ alg = ES256 /\ pub = ec
      \/ alg = EdDSA /\ pub = okp
      \/ alg = RS256 /\ pub = rsa
  BY <1>3
<1> HIDE DEF pub
<1>5. cose_to_pkey(m).alg = alg /\ cose_to_pkey(m).pkey = pub
  BY <1>1, <1>3
<1>6. QED
  BY <1>2, <1>3, <1>4, <1>5

\* check_signature asks for that pairing.
LEMMA SignatureOfOwner ==
  ASSUME NEW m, cose_to_pkey(m) # Absent, NEW sig \in Assertions
  PROVE  LET c == cose_to_pkey(m) IN
         check_signature(c, sig, "assertion") <=>
           /\ sig.pkey = c.pkey
           /\ sig.md = NativeDigest[c.pkey.type]
           /\ sig.data = "assertion"
<1> DEFINE c == cose_to_pkey(m)
<1>1. \/ c.alg = ES256 /\ c.pkey.type = "EC"
      \/ c.alg = EdDSA /\ c.pkey.type = "ED25519"
      \/ c.alg = RS256 /\ c.pkey.type = "RSA"
  BY KeyTyped
<1> HIDE DEF c
<1>2. ES256 # EdDSA /\ ES256 # RS256 /\ RS256 # EdDSA
  BY DEF ES256, EdDSA, RS256
<1>3. /\ want_type(ES256) = "EC" /\ want_type(EdDSA) = "ED25519"
      /\ want_type(RS256) = "RSA"
  BY <1>2 DEF want_type
<1>4. md(c.alg) = NativeDigest[c.pkey.type]
  BY <1>1, <1>2 DEF md, NativeDigest
<1>5. want_type(c.alg) # Absent /\ c.pkey.type = want_type(c.alg)
  BY <1>1, <1>3, EnrollAssumption
<1>6. sig = [pkey |-> sig.pkey, md |-> sig.md, data |-> sig.data]
  BY EnrollAssumption
<1>7. DigestVerify(c.pkey, md(c.alg), sig, "assertion") <=>
        sig.pkey = c.pkey /\ sig.md = md(c.alg) /\ sig.data = "assertion"
  BY <1>6 DEF DigestVerify
<1>8. QED
  BY <1>4, <1>5, <1>7 DEF check_signature, c

\* What a statement that passed as packed says.
LEMMA PackedSays ==
  ASSUME NEW r, NEW a, NEW req, r.fmt = "packed",
         a = attestation_parse(r), a # Absent, attestation_verify(r, a, req)
  PROVE  LET k == cose_to_pkey(r.authData.cose) IN
         /\ req = "packed"
         /\ a.att_sig.of.pkey = k.pkey /\ a.att_sig.of.data = r.signed
         /\ \A j \in DOMAIN r.stmt :
              r.stmt[j].k = "x5c" => ~IsChain(r.stmt[j].v)
<1>1. /\ req = "packed" /\ ~a.has_x5c
      /\ verify_packed(a, r.authData, r.signed)
  BY DEF attestation_verify
<1>2. /\ a.att_sig # Absent
      /\ a.att_sig.of.pkey = cose_to_pkey(r.authData.cose).pkey
      /\ a.att_sig.of.data = r.signed
  BY <1>1 DEF verify_packed, DigestVerify
<1> DEFINE m == IF r.attStmt = "absent" THEN <<>> ELSE r.stmt
<1> DEFINE chains == {j \in Named(m, "x5c") : IsChain(m[j].v)}
<1>3. a = parse_stmt(m)
  BY DEF attestation_parse
<1>4. a.att_sig = LastOf(m, Named(m, "sig")) /\ (a.has_x5c <=> chains # {})
  <2> HIDE DEF m
  <2> DEFINE last == LastOf(m, {j \in Named(m, "alg") : IsInt(m[j].v)})
  <2> DEFINE flag == chains # {}
  <2> DEFINE n == IF last = Absent THEN 0 ELSE Signed(cose_int(last), Int32)
  <2>1. a = [att_alg |-> n, att_sig |-> LastOf(m, Named(m, "sig")),
             has_x5c |-> flag]
    BY <1>3, Zenon DEF parse_stmt
  <2> HIDE DEF n, flag, chains
  <2>2. a.att_sig = LastOf(m, Named(m, "sig")) /\ a.has_x5c = flag
    BY <2>1
  <2>3. QED
    BY <2>2 DEF flag
<1>5. Named(m, "sig") # {}
  BY <1>2, <1>4 DEF LastOf
<1>6. m = r.stmt
  <2>1. CASE r.attStmt = "absent"
    <3>1. DOMAIN m = {}
      BY <2>1
    <3>2. QED
      BY <1>5, <3>1 DEF Named
  <2>2. CASE r.attStmt # "absent"
    BY <2>2
  <2>3. QED
    BY <2>1, <2>2
<1> HIDE DEF m
<1>7. \A j \in DOMAIN m : m[j].k = "x5c" => ~IsChain(m[j].v)
  BY <1>1, <1>4 DEF Named
<1>8. QED
  BY <1>1, <1>2, <1>6, <1>7

LEMMA EnrStepInv == EnrInv /\ [EnrNext]_enrVars => EnrInv'
<1> SUFFICES ASSUME EnrInv, [EnrNext]_enrVars PROVE EnrInv'
  OBVIOUS
<1>1. CASE UNCHANGED enrVars
  BY <1>1 DEF EnrInv, enrVars
<1>2. CASE Fail /\ pc # "registered"
  BY <1>2 DEF EnrInv, Fail
<1>3. CASE Parse
  BY <1>2, <1>3 DEF EnrInv, Parse
<1>4. CASE CheckAuthData
  BY <1>2, <1>4 DEF EnrInv, CheckAuthData
<1>5. CASE Verify
  BY <1>2, <1>5 DEF EnrInv, Verify
<1>6. CASE Convert
  BY <1>2, <1>6 DEF EnrInv, Convert
<1>7. ASSUME NEW sig \in Assertions, LogIn(sig)
      PROVE  EnrInv'
  <2>1. /\ login' = [sig |-> sig,
                     ok |-> check_signature(cred, sig, "assertion")]
        /\ pc = "registered" /\ UNCHANGED <<resp, require, pc, att, cred>>
    BY <1>7 DEF LogIn
  <2>2. /\ login'.sig = sig
        /\ login'.ok <=> check_signature(cred, sig, "assertion")
    BY <2>1
  <2>3. QED
    BY <2>1, <2>2 DEF EnrInv
<1>8. CASE NoMemory
  BY <1>2, <1>8 DEF NoMemory
<1>9. QED
  BY <1>1, <1>3, <1>4, <1>5, <1>6, <1>7, <1>8 DEF EnrNext

LEMMA EnrInvariant == EnrSpec => []EnrInv
<1>1. EnrInit => EnrInv
  BY DEF EnrInit, EnrInv
<1>2. QED
  BY <1>1, EnrStepInv, PTL DEF EnrSpec

\* Whatever attestation response register accepted, with any CBOR in it, the
\* owner of the stored key can log in with it, and nobody else.
THEOREM OwnerCanLogIn == EnrSpec => []RegisteredCanLogIn
<1>1. EnrInv => RegisteredCanLogIn
  <2> SUFFICES ASSUME EnrInv, login # Absent
               PROVE  login.ok <=> /\ login.sig.pkey = cred.pkey
                                   /\ login.sig.md = NativeDigest[cred.pkey.type]
                                   /\ login.sig.data = "assertion"
    BY DEF RegisteredCanLogIn
  <2>1. /\ pc = "registered" /\ login.sig \in Assertions
        /\ cred = cose_to_pkey(resp.authData.cose) /\ cred # Absent
        /\ login.ok <=> check_signature(cred, login.sig, "assertion")
    BY DEF EnrInv
  <2>2. QED
    BY <2>1, SignatureOfOwner
<1>2. QED
  BY <1>1, EnrInvariant, PTL

\* A registration is for this relying party, and a packed one was asked for,
\* is signed by the stored key over this response and has no certificate
\* chain anywhere in its statement.
THEOREM RegistrationIsJustified == EnrSpec => []RegistrationJustified
<1>1. EnrInv => RegistrationJustified
  <2> SUFFICES ASSUME EnrInv, pc = "registered" PROVE RegistrationJustified
    BY DEF RegistrationJustified
  <2>1. /\ att = attestation_parse(resp) /\ att # Absent
        /\ attestation_verify(resp, att, require)
        /\ cred = cose_to_pkey(resp.authData.cose)
    BY DEF EnrInv
  <2>2. resp.authData.rpId = "ours" /\ resp.fmt \in {"none", "packed"}
    BY <2>1 DEF attestation_verify
  <2>3. QED
    BY <2>1, <2>2, PackedSays DEF RegistrationJustified
<1>2. QED
  BY <1>1, EnrInvariant, PTL

-----------------------------------------------------------------------------
(* auth_webauthn_admin_read_file: the whole file, within the buffer.       *)

\* What has been read is a part of the file and fits the buffer; the loop is
\* left for good only at the end of the file, with no error seen.
FileInv ==
  /\ fileSize \in Nat /\ cap \in Nat /\ filled \in Nat /\ top \in Nat
  /\ ends \in [1..Len(ends) -> {"n", "r"}] /\ Len(ends) \in 0..fileSize
  /\ ferror \in BOOLEAN
  /\ filePc \in {"read", "end", "chomp", "NGX_OK", "NGX_ERROR"}
  /\ filled <= fileSize /\ filled <= cap /\ top <= cap
  /\ filePc \in {"end", "chomp", "NGX_OK"} => filled = fileSize /\ ~ferror
  /\ filePc \in {"chomp", "NGX_OK"} =>
       result \in (fileSize - Len(ends))..fileSize
  /\ filePc = "NGX_OK" => result = fileSize - Len(ends)

\* The smaller and the larger of two numbers.
LEMMA MinOfTwo ==
  ASSUME NEW a \in Nat, NEW b \in Nat
  PROVE  Min({a, b}) = IF a <= b THEN a ELSE b
  <1> DEFINE m == IF a <= b THEN a ELSE b
  <1>1. m \in {a, b} /\ \A y \in {a, b} : m <= y
    OBVIOUS
  <1>2. Min({a, b}) \in {a, b} /\ \A y \in {a, b} : Min({a, b}) <= y
    BY <1>1 DEF Min
  <1> QED
    BY <1>1, <1>2

LEMMA MaxOfTwo ==
  ASSUME NEW a \in Nat, NEW b \in Nat
  PROVE  Max({a, b}) = IF a >= b THEN a ELSE b
  <1> DEFINE m == IF a >= b THEN a ELSE b
  <1>1. m \in {a, b} /\ \A y \in {a, b} : m >= y
    OBVIOUS
  <1>2. Max({a, b}) \in {a, b} /\ \A y \in {a, b} : Max({a, b}) >= y
    BY <1>1 DEF Max
  <1> QED
    BY <1>1, <1>2

\* What one fread can return.
LEMMA ReadBounds ==
  ASSUME FileInv, filled < cap, NEW n \in Nat, NEW err \in BOOLEAN,
         fread(n, err)
  PROVE  /\ filled + n <= cap /\ filled + n <= fileSize
         /\ ~err /\ n = 0 => filled = fileSize
  <1>1. cap - filled \in Nat /\ fileSize - filled \in Nat
    BY DEF FileInv
  <1>2. Min({cap - filled, fileSize - filled})
          = IF cap - filled <= fileSize - filled
            THEN cap - filled ELSE fileSize - filled
    BY <1>1, MinOfTwo
  <1> QED
    BY <1>1, <1>2 DEF fread, FileInv

LEMMA FileInitInv == FileInit => FileInv
  <1> SUFFICES ASSUME FileInit PROVE FileInv
    OBVIOUS
  <1>1. ends \in [1..Len(ends) -> {"n", "r"}] /\ Len(ends) \in 0..fileSize
    <2>1. PICK n \in 0..MaxEnds : ends \in [1..n -> {"n", "r"}]
      BY DEF FileInit, LineEnds
    <2>2. n \in Nat
      BY <2>1, ReadAssumption
    <2>3. Len(ends) = n
      BY <2>1, <2>2
    <2> QED
      BY <2>1, <2>2, <2>3 DEF FileInit
  <1>2. ferror = FALSE /\ ferror \in BOOLEAN /\ filePc = "read"
    BY DEF FileInit
  <1>3. /\ fileSize \in Nat /\ cap \in Nat
        /\ filled = 0 /\ top = 0
    BY ReadAssumption DEF FileInit
  <1> QED
    BY <1>1, <1>2, <1>3 DEF FileInv

\* The characters behind the body of the file end lines, those of it do not.
LEMMA LineEndAt ==
  ASSUME FileInv, NEW k \in 1..fileSize
  PROVE  CharAt(k) \in {"n", "r"} <=> k > fileSize - Len(ends)
  <1>1. CASE k > fileSize - Len(ends)
    <2>1. k - (fileSize - Len(ends)) \in 1..Len(ends)
      BY <1>1 DEF FileInv
    <2> QED
      BY <1>1, <2>1 DEF CharAt, FileInv
  <1>2. CASE ~(k > fileSize - Len(ends))
    BY <1>2 DEF CharAt
  <1> QED
    BY <1>1, <1>2

LEMMA FileStep == FileInv /\ [FileNext]_fileVars => FileInv'
  <1> SUFFICES ASSUME FileInv, [FileNext]_fileVars PROVE FileInv'
    OBVIOUS
  <1>1. CASE Grow
    BY <1>1 DEF Grow, FileInv
  <1>2. CASE Terminate
    BY <1>2 DEF Terminate, FileInv
  <1>3. CASE ReadNoMemory
    BY <1>3 DEF ReadNoMemory, FileInv
  <1>4. CASE Chomp
    <2>1. /\ filePc = "chomp"
          /\ UNCHANGED <<fileSize, ends, cap, filled, ferror, top>>
      BY <1>4 DEF Chomp
    <2>2. CASE result > 0 /\ CharAt(result) \in {"n", "r"}
      <3>1. result' = result - 1 /\ filePc' = "chomp"
        BY <1>4, <2>2 DEF Chomp
      <3>2. result > fileSize - Len(ends)
        BY <2>2 DEF CharAt
      <3> QED
        BY <2>1, <3>1, <3>2 DEF FileInv
    <2>3. CASE ~(result > 0 /\ CharAt(result) \in {"n", "r"})
      <3>1. result' = result /\ filePc' = "NGX_OK"
        BY <1>4, <2>3 DEF Chomp
      <3>2. result \in (fileSize - Len(ends))..fileSize
        BY <2>1 DEF FileInv
      <3>3. result = fileSize - Len(ends)
        BY <2>3, <3>2, LineEndAt DEF FileInv
      <3> QED
        BY <2>1, <3>1, <3>2, <3>3 DEF FileInv
    <2> QED
      BY <2>2, <2>3
  <1>5. ASSUME NEW n \in 0..MaxSize, NEW err \in BOOLEAN, Read(n, err)
        PROVE  FileInv'
    <2>1. n \in Nat
      BY ReadAssumption
    <2>2. /\ filled + n <= cap /\ filled + n <= fileSize
          /\ ~err /\ n = 0 => filled = fileSize
      BY <1>5, <2>1, ReadBounds DEF Read
    <2>3. Max({top, filled + n}) = IF top >= filled + n THEN top ELSE filled + n
      BY <2>1, MaxOfTwo DEF FileInv
    <2>4. ferror' = (ferror \/ err) /\ ferror' \in BOOLEAN
      BY <1>5 DEF Read
    <2>5. /\ filled' = filled + n /\ top' \in Nat /\ top' <= cap
          /\ cap' = cap /\ fileSize' = fileSize /\ ends' = ends
          /\ result' = result
      BY <1>5, <2>1, <2>2, <2>3 DEF Read, FileInv
    <2>6. filePc' \in {"read", "end", "NGX_ERROR"}
      BY <1>5 DEF Read
    <2>7. filePc' = "end" => n = 0 /\ ~ferror'
      BY <1>5, <2>4 DEF Read, AtEnd
    <2>8. ~ferror' => ~err
      BY <2>4
    <2>9. filePc' = "end" => filled' = fileSize' /\ ~ferror'
      BY <2>1, <2>2, <2>5, <2>7, <2>8 DEF FileInv
    <2> QED
      BY <2>1, <2>2, <2>4, <2>5, <2>6, <2>9 DEF FileInv
  <1>6. CASE UNCHANGED fileVars
    BY <1>6 DEF fileVars, FileInv
  <1> QED
    BY <1>1, <1>2, <1>3, <1>4, <1>5, <1>6 DEF FileNext

\* A file of any size is used as a whole or not at all, for every chunk size
\* and every limit, no byte is written outside the buffer, and chomp takes off
\* the line ends at its end and nothing else, however many they are.
THEOREM FileIsWhole == FileSpec => []WholeFile
  <1>1. ASSUME FileInv, filePc = "NGX_OK"
        PROVE  /\ \A k \in (result + 1)..fileSize : CharAt(k) \in {"n", "r"}
               /\ result > 0 => CharAt(result) = "x"
    <2>1. result = fileSize - Len(ends) /\ result \in 0..fileSize
      BY <1>1 DEF FileInv
    <2>2. \A k \in (result + 1)..fileSize : k \in 1..fileSize /\ k > result
      BY <1>1, <2>1 DEF FileInv
    <2>3. ~(result > fileSize - Len(ends))
      BY <2>1
    <2> QED
      BY <1>1, <2>1, <2>2, <2>3, LineEndAt DEF CharAt
  <1>2. FileInv => WholeFile
    BY <1>1 DEF FileInv, WholeFile
  <1> QED
    BY <1>2, FileInitInv, FileStep, PTL DEF FileSpec

-----------------------------------------------------------------------------
(* base64url: within the buffers, and the identity on every byte string.   *)

\* Byte j of the input, zero behind its end.
ByteOf(j) == IF j <= Len(src) THEN src[j] ELSE 0

\* The characters of group g, the input's bytes 3g + 1 to 3g + 3.
Character(g, r) ==
  CASE r = 0 -> High(ByteOf(3 * g + 1))
    [] r = 1 -> Middle(ByteOf(3 * g + 1), ByteOf(3 * g + 2))
    [] r = 2 -> Low(ByteOf(3 * g + 2), ByteOf(3 * g + 3))
    [] r = 3 -> ByteOf(3 * g + 3) % 64

\* Every character written so far is the one its place calls for.
EncodedSoFar ==
  \A g \in Nat : \A r \in 0..3 :
    4 * g + r < Len(chars) => chars[4 * g + r + 1] = Character(g, r)

B64Types ==
  /\ codec \in {"encode", "decode", "NGX_OK", "NGX_ERROR"}
  /\ src \in Seq(Byte) /\ chars \in Seq(0..Bad) /\ dst \in Seq(Byte)
  /\ s \in 0..Len(src) /\ decoded \in 0..Len(chars)
  /\ bits \in {0, 2, 4, 6} /\ buf \in Nat

\* The encoder has done k whole groups; at its end it adds a part of one.
Encoding ==
  /\ codec = "encode" =>
       /\ EncodedSoFar
       /\ \E k \in Nat : s = 3 * k /\ Len(chars) = 4 * k
       /\ decoded = 0 /\ bits = 0 /\ dst = <<>>
  /\ codec # "encode" /\ src # <<>> =>
       /\ EncodedSoFar
       /\ \E k \in Nat, n \in 0..2 :
            /\ Len(src) = 3 * k + n
            /\ Len(chars) = 4 * k + (IF n = 0 THEN 0 ELSE n + 1)

\* After r characters of group g the bit buffer's low bits are the first bits
\* of the byte that comes next.
Decoding(g, r) ==
  /\ decoded = 4 * g + r
  /\ r = 0 => Len(dst) = 3 * g /\ bits = 0
  /\ r = 1 => /\ Len(dst) = 3 * g /\ bits = 6
              /\ buf % 64 = ByteOf(3 * g + 1) \div 4
  /\ r = 2 => /\ Len(dst) = 3 * g + 1 /\ bits = 4
              /\ buf % 16 = ByteOf(3 * g + 2) \div 16
  /\ r = 3 => /\ Len(dst) = 3 * g + 2 /\ bits = 2
              /\ buf % 4 = ByteOf(3 * g + 3) \div 64

Restored ==
  codec \in {"decode", "NGX_OK"} /\ src # <<>> =>
    /\ \E g \in Nat, r \in 0..3 : Decoding(g, r)
    /\ \A k \in 1..Len(dst) : dst[k] = ByteOf(k)

B64Inv ==
  /\ B64Types /\ Encoding /\ Restored
  /\ 8 * Len(dst) + bits <= 6 * decoded
  /\ codec = "NGX_OK" => decoded = Len(chars)

\* The remainder by a multiple of 16384 keeps the remainder by 16384.
LowKept(x) == x % BufWord \in Nat /\ (x % BufWord) % 16384 = x % 16384

LEMMA LowBits ==
  ASSUME NEW x \in Nat
  PROVE  LowKept(x)
  <1>1. BufWord \in Nat /\ BufWord > 0 /\ BufWord % 16384 = 0
    BY CodecAssumption
  <1>2. PICK q \in Int : BufWord = 16384 * q
    BY <1>1
  <1>3. /\ x \div BufWord \in Int /\ x % BufWord \in Nat
        /\ x % BufWord = x - BufWord * (x \div BufWord)
    BY <1>1
  <1>4. PICK m \in Int : x % BufWord = x - BufWord * m /\ m = x \div BufWord
    BY <1>3
  <1>5. BufWord * m = 16384 * (q * m) /\ q * m \in Int
    BY <1>2
  <1>6. PICK t \in Int : BufWord * m = 16384 * t
    BY <1>5
  <1>7. x % BufWord = x - 16384 * t
    BY <1>4, <1>6
  <1>8. (x - 16384 * t) % 16384 = x % 16384
    OBVIOUS
  <1> QED
    BY <1>3, <1>7, <1>8 DEF LowKept

\* Three bytes from four characters.
LEMMA Regroup ==
  ASSUME NEW b \in Byte, NEW c \in Byte, NEW e \in Byte
  PROVE  /\ High(b) \in Sextet /\ Middle(b, c) \in Sextet
         /\ Low(c, e) \in Sextet /\ e % 64 \in Sextet
         /\ (b \div 4) * 4 + Middle(b, c) \div 16 = b
         /\ Middle(b, c) % 16 = c \div 16
         /\ (c \div 16) * 16 + Low(c, e) \div 4 = c
         /\ Low(c, e) % 4 = e \div 64
         /\ (e \div 64) * 64 + (e % 64) = e
  <1> USE DEF Byte, Sextet, High, Middle, Low
  <1>1. High(b) \in Sextet /\ e % 64 \in Sextet
    OBVIOUS
  <1>2. Middle(b, c) \in Sextet
    OBVIOUS
  <1>3. Low(c, e) \in Sextet
    OBVIOUS
  <1>4. (b \div 4) * 4 + Middle(b, c) \div 16 = b
    OBVIOUS
  <1>5. Middle(b, c) % 16 = c \div 16
    OBVIOUS
  <1>6. (c \div 16) * 16 + Low(c, e) \div 4 = c
    OBVIOUS
  <1>7. Low(c, e) % 4 = e \div 64
    OBVIOUS
  <1>8. (e \div 64) * 64 + (e % 64) = e
    OBVIOUS
  <1> HIDE DEF Byte, Sextet, High, Middle, Low
  <1> QED
    BY <1>1, <1>2, <1>3, <1>4, <1>5, <1>6, <1>7, <1>8

LEMMA BytesOf ==
  ASSUME B64Types, NEW j \in Nat \ {0}
  PROVE  ByteOf(j) \in Byte
  <1>1. CASE j <= Len(src)
    <2>1. src \in Seq(Byte) /\ j \in 1..Len(src)
      BY <1>1 DEF B64Types
    <2>2. src[j] \in Byte
      BY <2>1
    <2> QED
      BY <1>1, <2>2 DEF ByteOf
  <1>2. CASE ~(j <= Len(src))
    BY <1>2 DEF ByteOf, Byte
  <1> QED
    BY <1>1, <1>2

LEMMA B64InitInv == B64Init => B64Inv
  <1> SUFFICES ASSUME B64Init PROVE B64Inv
    OBVIOUS
  <1>1. B64Types
    <2>1. src \in Seq(Byte) /\ chars \in Seq(0..Bad)
      <3>1. CASE src \in Inputs /\ chars = <<>>
        BY <3>1, CodecAssumption
      <3>2. CASE src = <<>> /\ chars \in OtherTexts
        BY <3>2, CodecAssumption
      <3> QED
        BY <3>1, <3>2 DEF B64Init
    <2>2. Len(src) \in Nat /\ Len(chars) \in Nat /\ <<>> \in Seq(Byte)
      BY <2>1
    <2>3. 0 \in 0..Len(src) /\ 0 \in 0..Len(chars)
      BY <2>2
    <2> QED
      BY <2>1, <2>2, <2>3 DEF B64Init, B64Types
  <1>2. codec = "encode" => EncodedSoFar /\ s = 3 * 0 /\ Len(chars) = 4 * 0
    BY DEF B64Init, EncodedSoFar
  <1>3. codec # "encode" => src = <<>>
    BY DEF B64Init
  <1>4. Encoding
    BY <1>2, <1>3 DEF B64Init, Encoding
  <1>5. Restored
    BY <1>3 DEF B64Init, Restored
  <1> QED
    BY <1>1, <1>4, <1>5 DEF B64Init, B64Inv

\* Characters appended to k groups are the characters of group k.
LEMMA AppendGroup ==
  ASSUME B64Types, EncodedSoFar, NEW k \in Nat, Len(chars) = 4 * k,
         NEW t \in Seq(Sextet), Len(t) <= 4,
         \A r \in 0..3 : r < Len(t) => t[r + 1] = Character(k, r),
         chars' = chars \o t, src' = src
  PROVE  /\ chars' \in Seq(0..Bad) /\ Len(chars') = 4 * k + Len(t)
         /\ EncodedSoFar'
  <1>1. t \in Seq(0..Bad) /\ chars \in Seq(0..Bad)
    BY DEF Sextet, Bad, B64Types
  <1>2. /\ chars' \in Seq(0..Bad) /\ Len(chars') = 4 * k + Len(t)
        /\ \A j \in 1..(4 * k) : chars'[j] = chars[j]
        /\ \A j \in 1..Len(t) : chars'[4 * k + j] = t[j]
    <2> DEFINE S == 0..Bad
               u == chars \o t
    <2> HIDE DEF S
    <2>1. t \in Seq(S) /\ chars \in Seq(S)
      BY <1>1 DEF S
    <2>2. /\ u \in Seq(S) /\ Len(u) = Len(chars) + Len(t)
          /\ \A j \in 1..Len(chars) : u[j] = chars[j]
          /\ \A j \in 1..Len(t) : u[Len(chars) + j] = t[j]
      <3>1. u \in Seq(S)
        BY <2>1
      <3>2. Len(u) = Len(chars) + Len(t)
        BY <2>1
      <3>3. \A j \in 1..Len(chars) : u[j] = chars[j]
        BY <2>1
      <3>4. \A j \in 1..Len(t) : u[Len(chars) + j] = t[j]
        BY <2>1
      <3> QED
        BY <3>1, <3>2, <3>3, <3>4
    <2>3. chars' = u
      OBVIOUS
    <2> HIDE DEF u
    <2>4. /\ chars' \in Seq(S) /\ Len(chars') = 4 * k + Len(t)
          /\ \A j \in 1..(4 * k) : chars'[j] = chars[j]
          /\ \A j \in 1..Len(t) : chars'[4 * k + j] = t[j]
      BY <2>2, <2>3
    <2> QED
      BY <2>4 DEF S
  <1>3. \A g, r : Character(g, r)' = Character(g, r)
    BY DEF Character, ByteOf
  <1>4. ASSUME NEW g \in Nat, NEW r \in 0..3, 4 * g + r < Len(chars')
        PROVE  chars'[4 * g + r + 1] = Character(g, r)
    <2>1. Len(t) \in Nat
      OBVIOUS
    <2>2. CASE g < k
      <3>1. 4 * g + r < Len(chars) /\ 4 * g + r + 1 \in 1..(4 * k)
        BY <2>2
      <3> QED
        BY <3>1, <1>2 DEF EncodedSoFar
    <2>3. CASE ~(g < k)
      <3>1. g = k /\ r < Len(t) /\ r + 1 \in 1..Len(t)
        BY <2>1, <2>3, <1>2, <1>4
      <3>2. chars'[4 * k + (r + 1)] = t[r + 1]
        BY <3>1, <1>2
      <3>3. t[r + 1] = Character(k, r) /\ 4 * g + r + 1 = 4 * k + (r + 1)
        BY <3>1
      <3> QED
        BY <3>1, <3>2, <3>3
    <2> QED
      BY <2>2, <2>3
  <1>5. EncodedSoFar'
    BY <1>3, <1>4 DEF EncodedSoFar
  <1> QED
    BY <1>2, <1>5

LEMMA TripleInv == B64Inv /\ Triple => B64Inv'
  <1> SUFFICES ASSUME B64Inv, Triple PROVE B64Inv'
    OBVIOUS
  <1>1. PICK k \in Nat : s = 3 * k /\ Len(chars) = 4 * k
    BY DEF B64Inv, Triple, Encoding
  <1> DEFINE b == src[s + 1]
             c == src[s + 2]
             e == src[s + 3]
             t == <<High(b), Middle(b, c), Low(c, e), e % 64>>
  <1>2. B64Types /\ EncodedSoFar /\ codec = "encode"
    BY DEF B64Inv, Triple, Encoding
  <1>3. /\ b = ByteOf(3 * k + 1) /\ c = ByteOf(3 * k + 2)
        /\ e = ByteOf(3 * k + 3)
    <2>1. s + 3 <= Len(src) /\ s \in Nat /\ Len(src) \in Nat
      <3>1. Len(src) - s > 2
        BY DEF Triple
      <3>2. s \in Nat /\ Len(src) \in Nat
        BY <1>2 DEF B64Types
      <3> QED
        BY <3>1, <3>2
    <2>2. \A j \in Nat : j <= Len(src) => ByteOf(j) = src[j]
      BY DEF ByteOf
    <2>3. /\ s + 1 = 3 * k + 1 /\ s + 2 = 3 * k + 2 /\ s + 3 = 3 * k + 3
          /\ s + 1 <= Len(src) /\ s + 2 <= Len(src)
      BY <1>1, <2>1
    <2>4. ByteOf(s + 1) = b /\ ByteOf(s + 2) = c /\ ByteOf(s + 3) = e
      BY <2>1, <2>2, <2>3
    <2> QED
      BY <2>3, <2>4
  <1>4. b \in Byte /\ c \in Byte /\ e \in Byte
    BY <1>2, <1>3, BytesOf
  <1>5. t \in Seq(Sextet) /\ Len(t) = 4
    BY <1>4, Regroup
  <1>6. \A r \in 0..3 : t[r + 1] = Character(k, r)
    BY <1>3 DEF Character
  <1>7. chars' = chars \o t /\ src' = src /\ s' = s + 3
        /\ UNCHANGED <<codec, decoded, bits, buf, dst>>
    BY DEF Triple
  <1> HIDE DEF b, c, e, t
  <1>8. /\ chars' \in Seq(0..Bad) /\ Len(chars') = 4 * (k + 1)
        /\ EncodedSoFar'
    <2>1. Len(t) <= 4
      BY <1>5
    <2>2. /\ chars' \in Seq(0..Bad) /\ Len(chars') = 4 * k + Len(t)
          /\ EncodedSoFar'
      BY <1>1, <1>2, <1>5, <1>6, <1>7, <2>1, AppendGroup, Zenon
    <2> QED
      BY <1>5, <2>2
  <1>9. s' = 3 * (k + 1) /\ s' \in 0..Len(src)
    BY <1>1, <1>2, <1>7 DEF Triple, B64Types
  <1>10. decoded = 0 /\ bits = 0 /\ dst = <<>>
    BY <1>2 DEF B64Inv, Encoding
  <1>11. B64Types'
    BY <1>2, <1>7, <1>8, <1>9, <1>10 DEF B64Types
  <1>12. Encoding'
    <2>1. \E m \in Nat : s' = 3 * m /\ Len(chars') = 4 * m
      BY <1>8, <1>9
    <2> QED
      BY <1>2, <1>7, <1>8, <1>10, <2>1 DEF Encoding
  <1>13. Restored'
    BY <1>2, <1>7 DEF Restored
  <1> QED
    BY <1>2, <1>7, <1>10, <1>11, <1>12, <1>13 DEF B64Inv

LEMMA EncodeEndInv == B64Inv /\ EncodeEnd => B64Inv'
  <1> SUFFICES ASSUME B64Inv, EncodeEnd PROVE B64Inv'
    OBVIOUS
  <1>1. PICK k \in Nat : s = 3 * k /\ Len(chars) = 4 * k
    BY DEF B64Inv, EncodeEnd, Encoding
  <1> DEFINE n == Len(src) - s
             t == Rest(n)
  <1>2. B64Types /\ EncodedSoFar /\ codec = "encode"
    BY DEF B64Inv, EncodeEnd, Encoding
  <1>3. n \in 0..2 /\ Len(src) = 3 * k + n /\ Len(src) \in Nat
    BY <1>1, <1>2 DEF EncodeEnd, B64Types
  <1>4. chars' = chars \o t /\ src' = src /\ s' = Len(src)
        /\ codec' = "decode" /\ UNCHANGED <<decoded, bits, buf, dst>>
    BY DEF EncodeEnd
  <1> HIDE DEF n
  <1>5. /\ t \in Seq(Sextet) /\ Len(t) = (IF n = 0 THEN 0 ELSE n + 1)
        /\ \A r \in 0..3 : r < Len(t) => t[r + 1] = Character(k, r)
    <2>1. CASE n = 0
      BY <2>1 DEF Rest
    <2>2. CASE n = 1
      <3> DEFINE b == src[s + 1]
      <3>1. b = ByteOf(3 * k + 1) /\ 0 = ByteOf(3 * k + 2)
        BY <1>1, <1>3, <2>2 DEF ByteOf
      <3>2. b \in Byte /\ 0 \in Byte
        BY <1>2, <3>1, BytesOf
      <3>3. t = <<High(b), Middle(b, 0)>>
        BY <2>2 DEF Rest
      <3> HIDE DEF b, t
      <3>4. t \in Seq(Sextet) /\ Len(t) = 2
        BY <3>2, <3>3, Regroup
      <3>5. t[1] = Character(k, 0) /\ t[2] = Character(k, 1)
        BY <3>1, <3>3 DEF Character
      <3> QED
        BY <2>2, <3>4, <3>5
    <2>3. CASE n = 2
      <3> DEFINE b == src[s + 1]
                 c == src[s + 2]
      <3>1. b = ByteOf(3 * k + 1) /\ c = ByteOf(3 * k + 2)
            /\ 0 = ByteOf(3 * k + 3)
        BY <1>1, <1>3, <2>3 DEF ByteOf
      <3>2. b \in Byte /\ c \in Byte /\ 0 \in Byte
        BY <1>2, <3>1, BytesOf
      <3>3. t = <<High(b), Middle(b, c), Low(c, 0)>>
        BY <2>3 DEF Rest
      <3> HIDE DEF b, c, t
      <3>4. t \in Seq(Sextet) /\ Len(t) = 3
        BY <3>2, <3>3, Regroup
      <3>5. /\ t[1] = Character(k, 0) /\ t[2] = Character(k, 1)
            /\ t[3] = Character(k, 2)
        BY <3>1, <3>3 DEF Character
      <3> QED
        BY <2>3, <3>4, <3>5
    <2> QED
      BY <1>3, <2>1, <2>2, <2>3
  <1> HIDE DEF t
  <1>6. /\ chars' \in Seq(0..Bad) /\ Len(chars') = 4 * k + Len(t)
        /\ EncodedSoFar'
    <2>1. Len(t) <= 4
      BY <1>3, <1>5
    <2> QED
      BY <1>1, <1>2, <1>4, <1>5, <2>1, AppendGroup, Zenon
  <1>7. decoded = 0 /\ bits = 0 /\ dst = <<>>
    BY <1>2 DEF B64Inv, Encoding
  <1>8. B64Types'
    BY <1>2, <1>3, <1>4, <1>6, <1>7 DEF B64Types
  <1>9. Encoding'
    BY <1>3, <1>4, <1>5, <1>6 DEF Encoding
  <1>10. Restored'
    <2>1. Decoding(0, 0)' /\ Len(dst') = 0
      BY <1>4, <1>7 DEF Decoding
    <2> QED
      BY <2>1 DEF Restored
  <1> QED
    BY <1>4, <1>7, <1>8, <1>9, <1>10 DEF B64Inv

\* A character v comes in below the low bits of the buffer n; higher ones may
\* be lost.
ShiftedIn(b, n, v) ==
  /\ b \in Nat /\ b % 64 = v
  /\ b % 256 = (n % 4) * 64 + v
  /\ (b \div 4) % 256 = (n % 16) * 16 + v \div 4
  /\ (b \div 16) % 256 = (n % 64) * 4 + v \div 16
  /\ b % 16 = v % 16 /\ b % 4 = v % 4

LEMMA ShiftIn ==
  ASSUME NEW n \in Nat, NEW v \in 0..63
  PROVE  ShiftedIn((n * 64 + v) % BufWord, n, v)
  <1> DEFINE x == n * 64 + v
             b == x % BufWord
  <1>1. x \in Nat
    OBVIOUS
  <1>2. b \in Nat /\ b % 16384 = x % 16384
    <2> HIDE DEF x
    <2>1. LowKept(x)
      BY <1>1, LowBits
    <2> QED
      BY <2>1 DEF LowKept
  <1> HIDE DEF b
  <1>3. b % 64 = v /\ b % 16 = v % 16 /\ b % 4 = v % 4
    BY <1>2
  <1>4. b % 256 = (n % 4) * 64 + v
    BY <1>2
  <1>5. (b \div 4) % 256 = (n % 16) * 16 + v \div 4
    BY <1>2
  <1>6. (b \div 16) % 256 = (n % 64) * 4 + v \div 16
    <2>1. b % 4096 = (n % 64) * 64 + v
      BY <1>2
    <2>2. (b \div 16) % 256 = (b % 4096) \div 16
      BY <1>2
    <2>3. ((n % 64) * 64 + v) \div 16 = (n % 64) * 4 + v \div 16
      OBVIOUS
    <2> QED
      BY <2>1, <2>2, <2>3
  <1>7. ShiftedIn(b, n, v)
    BY <1>2, <1>3, <1>4, <1>5, <1>6 DEF ShiftedIn
  <1> QED
    BY <1>7 DEF b, x

\* Every character of an encoded text is a sextet, with its place in the text.
LEMMA NextCharacter ==
  ASSUME B64Types, EncodedSoFar, NEW g \in Nat, NEW r \in 0..3,
         decoded = 4 * g + r, decoded < Len(chars)
  PROVE  /\ chars[decoded + 1] = Character(g, r)
         /\ Character(g, r) \in Sextet
  <1>1. /\ ByteOf(3 * g + 1) \in Byte /\ ByteOf(3 * g + 2) \in Byte
        /\ ByteOf(3 * g + 3) \in Byte
    BY BytesOf
  <1>2. Character(g, r) \in Sextet
    BY <1>1, Regroup DEF Character
  <1>3. chars[4 * g + r + 1] = Character(g, r)
    BY DEF EncodedSoFar
  <1> QED
    BY <1>2, <1>3

\* One character of an encoded text: the bit buffer goes on to the next
\* phase, and the byte that is complete is the input's.
LEMMA DecodePhase ==
  ASSUME B64Types, EncodedSoFar, NEW g \in Nat, NEW r \in 0..3,
         Decoding(g, r), decoded < Len(chars), DecodeChar
  PROVE  /\ Decoding(IF r = 3 THEN g + 1 ELSE g, IF r = 3 THEN 0 ELSE r + 1)'
         /\ \/ dst' = dst
            \/ /\ dst' = Append(dst, ByteOf(Len(dst) + 1))
  <1> DEFINE v == Character(g, r)
             b == (buf * 64 + v) % BufWord
             x == ByteOf(3 * g + 1)
             y == ByteOf(3 * g + 2)
             z == ByteOf(3 * g + 3)
  <1>1. chars[decoded + 1] = v /\ v \in Sextet
    BY NextCharacter DEF Decoding
  <1>2. x \in Byte /\ y \in Byte /\ z \in Byte
    BY BytesOf
  <1>3. buf \in Nat /\ v \in 0..63 /\ v # Bad /\ v # Pad
    <2>1. v \in 0..63
      BY <1>1 DEF Sextet
    <2> HIDE DEF v
    <2>2. v # Bad /\ v # Pad
      BY <2>1 DEF Bad, Pad
    <2> QED
      BY <2>1, <2>2 DEF B64Types
  <1>4. ShiftedIn(b, buf, v)
    BY <1>3, ShiftIn
  <1>5. /\ decoded' = decoded + 1 /\ buf' = b /\ src' = src
        /\ bits + 6 >= 8 => /\ bits' = bits + 6 - 8
                            /\ dst' = Append(dst, Extract(b, bits'))
        /\ ~(bits + 6 >= 8) => bits' = bits + 6 /\ dst' = dst
    BY <1>1, <1>3 DEF DecodeChar
  <1>6. \A j : ByteOf(j)' = ByteOf(j)
    BY <1>5 DEF ByteOf
  <1>7. dst \in Seq(Byte) /\ Len(dst) \in Nat
    BY DEF B64Types
  <1>8. r = 0 => v = High(x)
    BY DEF Character
  <1>9. r = 1 => v = Middle(x, y)
    BY DEF Character
  <1>10. r = 2 => v = Low(y, z)
    BY DEF Character
  <1>11. r = 3 => v = z % 64
    BY DEF Character
  <1> HIDE DEF v, b, x, y, z
  <1>12. CASE r = 0
    <2>1. bits' = 6 /\ dst' = dst /\ Len(dst) = 3 * g /\ decoded' = 4 * g + 1
      BY <1>5, <1>12 DEF Decoding
    <2>2. buf' % 64 = x \div 4
      BY <1>4, <1>5, <1>8, <1>12 DEF High, ShiftedIn
    <2>3. Decoding(g, 1)'
      BY <2>1, <2>2, <1>6 DEF Decoding, x
    <2> QED
      BY <2>1, <2>3, <1>12
  <1>13. CASE r = 1
    <2>1. /\ bits' = 4 /\ Len(dst) = 3 * g /\ decoded' = 4 * g + 2
          /\ dst' = Append(dst, Extract(b, 4)) /\ buf % 64 = x \div 4
      BY <1>5, <1>13 DEF Decoding, x
    <2>2. Extract(b, 4) = (b \div 16) % 256
      BY DEF Extract
    <2>3. (x \div 4) * 4 + v \div 16 = x /\ v % 16 = y \div 16
      BY <1>2, <1>9, <1>13, Regroup
    <2>4. Extract(b, 4) = x
      BY <1>4, <2>1, <2>2, <2>3 DEF ShiftedIn
    <2>5. buf' % 16 = y \div 16
      BY <1>4, <1>5, <2>3 DEF ShiftedIn
    <2>6. Len(dst') = 3 * g + 1
      BY <1>2, <1>7, <2>1, <2>4
    <2>7. Decoding(g, 2)'
      BY <2>1, <2>5, <2>6, <1>6 DEF Decoding, y
    <2>8. dst' = Append(dst, ByteOf(Len(dst) + 1))
      BY <2>1, <2>4 DEF x
    <2> QED
      BY <2>7, <2>8, <1>13
  <1>14. CASE r = 2
    <2>1. /\ bits' = 2 /\ Len(dst) = 3 * g + 1 /\ decoded' = 4 * g + 3
          /\ dst' = Append(dst, Extract(b, 2)) /\ buf % 16 = y \div 16
      BY <1>5, <1>14 DEF Decoding, y
    <2>2. Extract(b, 2) = (b \div 4) % 256
      BY DEF Extract
    <2>3. (y \div 16) * 16 + v \div 4 = y /\ v % 4 = z \div 64
      BY <1>2, <1>10, <1>14, Regroup
    <2>4. Extract(b, 2) = y
      BY <1>4, <2>1, <2>2, <2>3 DEF ShiftedIn
    <2>5. buf' % 4 = z \div 64
      BY <1>4, <1>5, <2>3 DEF ShiftedIn
    <2>6. Len(dst') = 3 * g + 2
      BY <1>2, <1>7, <2>1, <2>4
    <2>7. Decoding(g, 3)'
      BY <2>1, <2>5, <2>6, <1>6 DEF Decoding, z
    <2>8. dst' = Append(dst, ByteOf(Len(dst) + 1))
      BY <2>1, <2>4 DEF y
    <2> QED
      BY <2>7, <2>8, <1>14
  <1>15. CASE r = 3
    <2>1. /\ bits' = 0 /\ Len(dst) = 3 * g + 2 /\ decoded' = 4 * (g + 1)
          /\ dst' = Append(dst, Extract(b, 0)) /\ buf % 4 = z \div 64
      BY <1>5, <1>15 DEF Decoding, z
    <2>2. Extract(b, 0) = b % 256
      BY <1>4 DEF Extract, ShiftedIn
    <2>3. (z \div 64) * 64 + v = z
      BY <1>2, <1>11, <1>15, Regroup
    <2>4. Extract(b, 0) = z
      BY <1>4, <2>1, <2>2, <2>3 DEF ShiftedIn
    <2>6. Len(dst') = 3 * (g + 1)
      <3>1. Extract(b, 0) \in Byte
        BY <1>2, <2>4
      <3>2. dst' = Append(dst, Extract(b, 0))
        BY <2>1
      <3> HIDE DEF b, z
      <3>3. Len(dst') = Len(dst) + 1
        BY <1>7, <3>1, <3>2
      <3> QED
        BY <2>1, <3>3
    <2>7. Decoding(g + 1, 0)'
      BY <2>1, <2>6 DEF Decoding
    <2>8. dst' = Append(dst, ByteOf(Len(dst) + 1))
      BY <2>1, <2>4 DEF z
    <2> QED
      BY <2>7, <2>8, <1>15
  <1> QED
    BY <1>12, <1>13, <1>14, <1>15

LEMMA ExtractByte ==
  ASSUME NEW b \in Nat, NEW k \in {0, 2, 4}
  PROVE  Extract(b, k) \in Byte
  <1>1. b \div 2^0 \in Nat /\ b \div 2^2 \in Nat /\ b \div 2^4 \in Nat
    OBVIOUS
  <1>2. \A m \in Nat : m % 256 \in Byte
    BY DEF Byte
  <1>3. /\ (b \div 2^0) % 256 \in Byte /\ (b \div 2^2) % 256 \in Byte
        /\ (b \div 2^4) % 256 \in Byte
    BY <1>1, <1>2, Zenon
  <1> QED
    BY <1>3, Zenon DEF Extract

\* Whatever the text, a character adds at most six bits.
LEMMA DecodeCharTypes ==
  ASSUME B64Inv, DecodeChar
  PROVE  B64Types' /\ 8 * Len(dst') + bits' <= 6 * decoded'
  <1> DEFINE v == chars[decoded + 1]
             b == (buf * 64 + v) % BufWord
  <1>1. /\ B64Types /\ 8 * Len(dst) + bits <= 6 * decoded
        /\ codec = "decode" /\ decoded < Len(chars)
        /\ UNCHANGED <<src, s, chars>>
    BY DEF B64Inv, DecodeChar
  <1>2. v \in 0..Bad /\ Len(dst) \in Nat /\ Len(chars) \in Nat
    <2>1. chars \in Seq(0..Bad) /\ decoded + 1 \in 1..Len(chars)
      BY <1>1 DEF B64Types
    <2>2. chars[decoded + 1] \in 0..Bad
      <3> DEFINE S == 0..Bad
      <3>1. chars \in Seq(S)
        BY <2>1
      <3> HIDE DEF S
      <3>2. chars[decoded + 1] \in S
        BY <2>1, <3>1
      <3> QED
        BY <3>2 DEF S
    <2>3. Len(dst) \in Nat /\ Len(chars) \in Nat
      BY <1>1 DEF B64Types
    <2> QED
      BY <2>2, <2>3
  <1>3. b \in Nat
    <2>1. buf * 64 + v \in Nat
      <3> HIDE DEF v
      <3> QED
        BY <1>1, <1>2 DEF B64Types, Bad
    <2> QED
      BY <2>1, LowBits DEF LowKept
  <1>4. \A k \in {0, 2, 4} : Extract(b, k) \in Byte
    BY <1>3, ExtractByte
  <1>5. CASE v = Bad
    BY <1>1, <1>5 DEF DecodeChar, B64Types
  <1>6. CASE v = Pad
    BY <1>1, <1>2, <1>6 DEF DecodeChar, B64Types, Pad, Bad
  <1>7. CASE v # Bad /\ v # Pad
    <2>1. /\ decoded' = decoded + 1 /\ buf' = b /\ codec' = codec
          /\ bits + 6 >= 8 => /\ bits' = bits + 6 - 8
                              /\ dst' = Append(dst, Extract(b, bits'))
          /\ ~(bits + 6 >= 8) => bits' = bits + 6 /\ dst' = dst
      BY <1>7 DEF DecodeChar
    <2> HIDE DEF b, v
    <2>2. CASE bits + 6 >= 8
      <3>1. bits' = bits - 2 /\ bits' \in {0, 2, 4}
        BY <1>1, <2>1, <2>2 DEF B64Types
      <3>2. Extract(b, bits') \in Byte
        BY <1>4, <3>1
      <3>3. dst \in Seq(Byte)
        BY <1>1 DEF B64Types
      <3>4. dst' \in Seq(Byte) /\ Len(dst') = Len(dst) + 1
        BY <2>1, <2>2, <3>2, <3>3
      <3> QED
        BY <1>1, <1>2, <1>3, <2>1, <3>1, <3>4 DEF B64Types
    <2>3. CASE ~(bits + 6 >= 8)
      <3>1. bits' = 6 /\ dst' = dst /\ bits = 0
        BY <1>1, <2>1, <2>3 DEF B64Types
      <3> QED
        BY <1>1, <1>2, <1>3, <2>1, <3>1 DEF B64Types
    <2> QED
      BY <2>2, <2>3
  <1> QED
    BY <1>5, <1>6, <1>7

LEMMA DecodeCharInv == B64Inv /\ DecodeChar => B64Inv'
  <1> SUFFICES ASSUME B64Inv, DecodeChar PROVE B64Inv'
    OBVIOUS
  <1>1. B64Types' /\ 8 * Len(dst') + bits' <= 6 * decoded'
    BY DecodeCharTypes
  <1>2. /\ B64Types /\ Encoding /\ Restored
        /\ codec = "decode" /\ decoded < Len(chars)
        /\ UNCHANGED <<src, s, chars>> /\ codec' \in {"decode", "NGX_ERROR"}
    BY DEF B64Inv, DecodeChar
  <1>3. EncodedSoFar' <=> EncodedSoFar
    BY <1>2 DEF EncodedSoFar, Character, ByteOf
  <1>4. Encoding'
    BY <1>2, <1>3 DEF Encoding
  <1>5. Restored'
    <2>1. SUFFICES ASSUME src # <<>>, codec' = "decode"
          PROVE  /\ (\E g \in Nat, r \in 0..3 : Decoding(g, r))'
                 /\ (\A k \in 1..Len(dst) : dst[k] = ByteOf(k))'
      BY <1>2 DEF Restored
    <2>2. EncodedSoFar
      BY <1>2, <2>1 DEF Encoding
    <2>3. PICK g \in Nat, r \in 0..3 : Decoding(g, r)
      BY <1>2, <2>1 DEF Restored
    <2>4. /\ Decoding(IF r = 3 THEN g + 1 ELSE g,
                      IF r = 3 THEN 0 ELSE r + 1)'
          /\ \/ dst' = dst
             \/ dst' = Append(dst, ByteOf(Len(dst) + 1))
      BY <1>2, <2>2, <2>3, DecodePhase
    <2>5. (\E h \in Nat, q \in 0..3 : Decoding(h, q))'
      <3> DEFINE h == IF r = 3 THEN g + 1 ELSE g
                 q == IF r = 3 THEN 0 ELSE r + 1
      <3>1. h \in Nat /\ q \in 0..3
        OBVIOUS
      <3>2. Decoding(h, q)'
        BY <2>4
      <3> HIDE DEF h, q
      <3> QED
        BY <3>1, <3>2
    <2>6. \A j : ByteOf(j)' = ByteOf(j)
      BY <1>2 DEF ByteOf
    <2>7. \A k \in 1..Len(dst) : dst[k] = ByteOf(k)
      BY <1>2, <2>1 DEF Restored
    <2>8. \A k \in 1..Len(dst') : dst'[k] = ByteOf(k)
      <3>1. CASE dst' = dst
        BY <2>7, <3>1
      <3>2. CASE dst' = Append(dst, ByteOf(Len(dst) + 1))
        <4>1. dst \in Seq(Byte) /\ Len(dst) \in Nat
          BY <1>2 DEF B64Types
        <4>2. /\ Len(dst') = Len(dst) + 1
              /\ dst'[Len(dst) + 1] = ByteOf(Len(dst) + 1)
              /\ \A k \in 1..Len(dst) : dst'[k] = dst[k]
          BY <3>2, <4>1
        <4> QED
          BY <2>7, <4>1, <4>2
      <3> QED
        BY <2>4, <3>1, <3>2
    <2> QED
      BY <2>5, <2>6, <2>8
  <1> QED
    BY <1>1, <1>2, <1>4, <1>5 DEF B64Inv

LEMMA B64Step == B64Inv /\ [B64Next]_b64Vars => B64Inv'
  <1> SUFFICES ASSUME B64Inv, [B64Next]_b64Vars PROVE B64Inv'
    OBVIOUS
  <1>1. CASE Triple
    BY <1>1, TripleInv
  <1>2. CASE EncodeEnd
    BY <1>2, EncodeEndInv
  <1>3. CASE DecodeChar
    BY <1>3, DecodeCharInv
  <1>4. ASSUME DecodeEnd \/ UNCHANGED b64Vars
        PROVE  B64Inv'
    <2>1. /\ UNCHANGED <<src, s, chars, decoded, bits, buf, dst>>
          /\ \/ codec' = codec
             \/ codec = "decode" /\ codec' = "NGX_OK" /\ decoded = Len(chars)
      BY <1>4 DEF DecodeEnd, b64Vars
    <2>2. B64Types'
      BY <2>1 DEF B64Inv, B64Types
    <2>3. EncodedSoFar' <=> EncodedSoFar
      BY <2>1 DEF EncodedSoFar, Character, ByteOf
    <2>4. Encoding'
      BY <2>1, <2>3 DEF B64Inv, Encoding
    <2>5. Restored'
      <3>1. \A g, r : Decoding(g, r)' <=> Decoding(g, r)
        BY <2>1 DEF Decoding, ByteOf
      <3>2. \A k : ByteOf(k)' = ByteOf(k)
        BY <2>1 DEF ByteOf
      <3> QED
        BY <2>1, <3>1, <3>2 DEF B64Inv, Restored
    <2> QED
      BY <2>1, <2>2, <2>4, <2>5 DEF B64Inv
  <1> QED
    BY <1>1, <1>2, <1>3, <1>4 DEF B64Next

LEMMA B64Invariant == B64Spec => []B64Inv
  BY B64InitInv, B64Step, PTL DEF B64Spec

\* Neither loop writes past its caller's buffer, for texts of any length.
THEOREM CodecWithinBuffers == B64Spec => []WithinBuffers
  <1>1. B64Inv => WithinBuffers
    <2> SUFFICES ASSUME B64Inv PROVE WithinBuffers
      OBVIOUS
    <2>1. /\ Len(dst) \in Nat /\ Len(chars) \in Nat /\ Len(src) \in Nat
          /\ 8 * Len(dst) + bits <= 6 * decoded /\ bits \in Nat
          /\ decoded \in Nat /\ decoded <= Len(chars) /\ s <= Len(src)
      BY DEF B64Inv, B64Types
    <2>2. Len(dst) <= decoded_length(Len(chars))
      BY <2>1 DEF decoded_length
    <2>3. ASSUME src # <<>>
          PROVE  Len(chars) <= encoded_length(Len(src))
      <3>1. CASE codec = "encode"
        <4>1. PICK k \in Nat : s = 3 * k /\ Len(chars) = 4 * k
          BY <3>1 DEF B64Inv, Encoding
        <4> QED
          BY <2>1, <4>1 DEF encoded_length
      <3>2. CASE codec # "encode"
        <4>1. PICK k \in Nat, n \in 0..2 :
                /\ Len(src) = 3 * k + n
                /\ Len(chars) = 4 * k + (IF n = 0 THEN 0 ELSE n + 1)
          BY <2>3, <3>2 DEF B64Inv, Encoding
        <4> QED
          BY <2>1, <4>1 DEF encoded_length
      <3> QED
        BY <3>1, <3>2
    <2> QED
      BY <2>2, <2>3 DEF WithinBuffers
  <1> QED
    BY <1>1, B64Invariant, PTL

\* Decoding what the encoder wrote gives every byte string back, of whatever
\* length: the bits the int buffer loses are never needed again.
THEOREM EncodingIsLossless == B64Spec => []RoundTrip
  <1>1. B64Inv => RoundTrip
    <2> SUFFICES ASSUME B64Inv, codec = "NGX_OK", src # <<>>
                 PROVE  dst = src
      BY DEF RoundTrip
    <2>1. PICK k \in Nat, n \in 0..2 :
            /\ Len(src) = 3 * k + n
            /\ Len(chars) = 4 * k + (IF n = 0 THEN 0 ELSE n + 1)
      BY DEF B64Inv, Encoding
    <2>2. PICK g \in Nat, r \in 0..3 : Decoding(g, r)
      BY DEF B64Inv, Restored
    <2>3. decoded = Len(chars) /\ decoded = 4 * g + r
      BY <2>2 DEF B64Inv, Decoding
    <2>4. g = k /\ r = (IF n = 0 THEN 0 ELSE n + 1)
      BY <2>1, <2>3
    <2>5. Len(dst) = Len(src)
      BY <2>1, <2>2, <2>4 DEF Decoding
    <2>6. \A j \in 1..Len(dst) : dst[j] = src[j]
      <3>1. \A j \in 1..Len(dst) : dst[j] = ByteOf(j)
        BY DEF B64Inv, Restored
      <3> QED
        BY <2>5, <3>1 DEF ByteOf, B64Inv, B64Types
    <2>7. src \in Seq(Byte) /\ dst \in Seq(Byte)
      BY DEF B64Inv, B64Types
    <2> QED
      BY <2>5, <2>6, <2>7
  <1> QED
    BY <1>1, B64Invariant, PTL

\* The decoder's alphabet is the encoder's: every value comes back from its
\* character, and no other character has a value.
THEOREM AlphabetsAgree ==
  /\ \A v \in Sextet : basis[v] \in Byte /\ b64url_char(basis[v]) = v
  /\ \A c \in Byte : b64url_char(c) # -1 =>
       b64url_char(c) \in Sextet /\ basis[b64url_char(c)] = c
  <1>1. ASSUME NEW v \in Sextet
        PROVE  basis[v] \in Byte /\ b64url_char(basis[v]) = v
    BY DEF basis, b64url_char, Sextet, Byte
  <1>2. ASSUME NEW c \in Byte, b64url_char(c) # -1
        PROVE  b64url_char(c) \in Sextet /\ basis[b64url_char(c)] = c
    BY <1>2 DEF basis, b64url_char, Sextet, Byte
  <1> QED
    BY <1>1, <1>2

-----------------------------------------------------------------------------
(* The replies: each fits its buffer, and the subject survives.            *)

\* The parser's state before the first character.
Start == [text |-> [esc |-> <<>>, out |-> <<>>], more |-> <<>>]

\* The recursion that defines the parser's states.
ParserRun(text, f) ==
  f = [n \in 0..Len(text) |->
         IF n = 0 THEN Start
         ELSE Reader(f[n - 1], text[n])]

Parsable(text) == \E f : ParserRun(text, f)

LEMMA StatesRun ==
  ASSUME NEW text, Parsable(text)
  PROVE  ParserRun(text, ReaderStates(text))
  <1> DEFINE Run(f) == ParserRun(text, f)
  <1>1. ReaderStates(text) = CHOOSE f : Run(f)
    BY DEF ReaderStates, ParserRun, Start
  <1>2. \E f : Run(f)
    BY DEF Parsable
  <1> HIDE DEF Run
  <1>3. Run(ReaderStates(text))
    BY <1>1, <1>2, Zenon
  <1> QED
    BY <1>3 DEF Run

LEMMA ParseEmpty ==
  Parsable(<<>>) /\ ReadBack(<<>>) = Start
  <1> DEFINE f == [n \in 0..0 |-> Start]
  <1>1. ParserRun(<<>>, f)
    BY DEF ParserRun
  <1>2. Parsable(<<>>)
    BY <1>1 DEF Parsable
  <1>3. ParserRun(<<>>, ReaderStates(<<>>))
    BY <1>2, StatesRun
  <1>4. ReaderStates(<<>>)[0] = Start
    BY <1>3 DEF ParserRun
  <1> QED
    BY <1>2, <1>4 DEF ReadBack

\* The parser takes a text character by character.
LEMMA ParseAppend ==
  ASSUME NEW S, NEW text \in Seq(S), NEW c \in S, Parsable(text)
  PROVE  /\ Parsable(Append(text, c))
         /\ ReadBack(Append(text, c)) = Reader(ReadBack(text), c)
  <1> DEFINE k == Len(text)
             t == Append(text, c)
             f == ReaderStates(text)
             g == ReaderStates(t)
             h == [n \in 0..(k + 1) |->
                     IF n = k + 1 THEN Reader(f[k], c) ELSE f[n]]
  <1>1. /\ k \in Nat /\ Len(t) = k + 1 /\ t[k + 1] = c
        /\ \A n \in 1..k : t[n] = text[n]
    OBVIOUS
  <1>2. ParserRun(text, f)
    BY StatesRun
  <1> HIDE DEF k, t, f, g
  <1>3. /\ f[0] = Start
        /\ \A n \in 1..k : f[n] = Reader(f[n - 1], text[n])
    BY <1>1, <1>2 DEF ParserRun, k
  <1>4. /\ h[0] = Start
        /\ \A n \in 1..(k + 1) : h[n] = Reader(h[n - 1], t[n])
    <2>1. h[0] = Start
      BY <1>1, <1>3
    <2>2. ASSUME NEW n \in 1..(k + 1)
          PROVE  h[n] = Reader(h[n - 1], t[n])
      <3>1. CASE n = k + 1
        <4>1. h[n] = Reader(f[k], c) /\ h[n - 1] = f[k] /\ t[n] = c
          BY <1>1, <3>1
        <4> QED
          BY <4>1
      <3>2. CASE n # k + 1
        <4>1. n \in 1..k /\ h[n] = f[n] /\ h[n - 1] = f[n - 1]
          BY <1>1, <2>2, <3>2
        <4>2. f[n] = Reader(f[n - 1], text[n]) /\ t[n] = text[n]
          BY <1>1, <1>3, <4>1
        <4> QED
          BY <4>1, <4>2
      <3> QED
        BY <3>1, <3>2
    <2> QED
      BY <2>1, <2>2
  <1>5. ParserRun(t, h)
    <2> DEFINE u == [n \in 0..Len(t) |->
                       IF n = 0 THEN Start
                       ELSE Reader(h[n - 1], t[n])]
    <2>1. \A n \in 0..(k + 1) : h[n] = u[n]
      <3>1. \A n \in 0..(k + 1) : n = 0 \/ n \in 1..(k + 1)
        BY <1>1
      <3>2. u[0] = Start
        BY <1>1
      <3>3. \A n \in 1..(k + 1) : u[n] = Reader(h[n - 1], t[n])
        BY <1>1
      <3> HIDE DEF u, h
      <3> QED
        BY <1>4, <3>1, <3>2, <3>3
    <2>2. DOMAIN h = 0..(k + 1) /\ DOMAIN u = 0..(k + 1)
      BY <1>1
    <2>3. h = [n \in DOMAIN h |-> h[n]] /\ u = [n \in DOMAIN u |-> u[n]]
      OBVIOUS
    <2>4. h = u
      <3> HIDE DEF h, u
      <3> QED
        BY <2>1, <2>2, <2>3
    <2> QED
      BY <2>4 DEF ParserRun
  <1>6. Parsable(t)
    BY <1>5 DEF Parsable
  <1>7. ParserRun(t, g)
    BY <1>6, StatesRun DEF g
  <1>8. /\ g[0] = Start
        /\ \A n \in 1..(k + 1) : g[n] = Reader(g[n - 1], t[n])
    BY <1>1, <1>7 DEF ParserRun
  <1>9. \A n \in 0..k : f[n] = g[n]
    <2> DEFINE T == {n \in 0..k : f[n] # g[n]}
    <2>1. T \in SUBSET Nat
      BY <1>1
    <2>2. ASSUME T # {} PROVE FALSE
      <3>1. PICK m \in T : \A y \in T : m <= y
        BY <2>1, <2>2, LeastElement
      <3>2. m \in 0..k /\ f[m] # g[m] /\ m # 0
        BY <1>3, <1>8
      <3>3. m - 1 \in 0..k /\ m \in 1..k /\ m \in 1..(k + 1)
        BY <1>1, <3>2
      <3>4. f[m - 1] = g[m - 1]
        BY <3>1, <3>3
      <3>5. f[m] = g[m]
        BY <1>1, <1>3, <1>8, <3>3, <3>4
      <3> QED
        BY <3>2, <3>5
    <2> QED
      BY <2>2
  <1>10. g[k + 1] = Reader(f[k], c)
    <2>1. k + 1 \in 1..(k + 1) /\ k \in 0..k /\ (k + 1) - 1 = k
      BY <1>1
    <2> QED
      BY <1>1, <1>8, <1>9, <2>1
  <1> QED
    BY <1>1, <1>6, <1>10 DEF ReadBack, k, t, f, g

LetterU == 117

Ascii == 0..127

\* What the parser has read between two escape sequences, and within one.
Plain(o) == [esc |-> <<>>, out |-> o]
Within(e, o) == [esc |-> e, out |-> o]

LEMMA UnescapePlain ==
  ASSUME NEW o, NEW c \in 32..255, c # Quote, c # Backslash
  PROVE  Unescape(Plain(o), c) = Plain(Append(o, c))
  <1>1. ~(c < 32)
    OBVIOUS
  <1>2. Unescape(Plain(o), c) = [Plain(o) EXCEPT !.out = Append(@, c)]
    BY <1>1 DEF Unescape, Plain
  <1> QED
    BY <1>2 DEF Plain

LEMMA UnescapeBegin ==
  ASSUME NEW o
  PROVE  Unescape(Plain(o), Backslash) = Within(<<Backslash>>, o)
  BY DEF Unescape, Plain, Within

LEMMA UnescapeShort ==
  ASSUME NEW o, NEW c \in Byte, c # LetterU
  PROVE  Unescape(Within(<<Backslash>>, o), c) = Plain(Append(o, Short[c]))
  BY DEF Unescape, Plain, Within, LetterU, Byte

LEMMA UnescapeMore ==
  ASSUME NEW o, NEW e \in Seq(Byte), NEW c \in Byte, Len(e) < 5, e # <<>>,
         Len(e) = 1 => c = LetterU
  PROVE  Unescape(Within(e, o), c) = Within(Append(e, c), o)
  <1>1. ~(Len(e) = 1 /\ c # LetterU) /\ Len(e) # 5
    <2>1. Len(e) \in Nat
      OBVIOUS
    <2>2. \A m \in Nat : m < 5 => m # 5
      OBVIOUS
    <2>3. ~(Len(e) = 1 /\ c # LetterU)
      BY Zenon
    <2> QED
      BY <2>1, <2>2, <2>3, Zenon
  <1>2. Within(e, o).esc = e
    BY DEF Within
  <1>3. Unescape(Within(e, o), c) = [Within(e, o) EXCEPT !.esc = Append(@, c)]
    BY <1>1, <1>2 DEF Unescape, LetterU
  <1> QED
    BY <1>3 DEF Within

LEMMA UnescapeLast ==
  ASSUME NEW o, NEW e \in Seq(Byte), NEW c \in Byte, Len(e) = 5
  PROVE  Unescape(Within(e, o), c)
           = Plain(Append(o, HexValue(e[5]) * 16 + HexValue(c)))
  BY DEF Unescape, Plain, Within

\* The parser's state: what it has read, and what its check of UTF-8 expects.
At(t, u) == [text |-> t, more |-> u]
Expected == Seq(SUBSET Continuation)

LEMMA ReaderStep ==
  ASSUME NEW t, NEW u, NEW c
  PROVE  Reader(At(t, u), c) = At(Unescape(t, c), Utf8(u, c))
  BY DEF Reader, At

LEMMA LeadTyped ==
  ASSUME NEW c \in Byte
  PROVE  Lead(c) \in Expected
  <1>1. Second(c) \in SUBSET Continuation
    BY DEF Second, Continuation, Byte
  <1>2. Continuation \in SUBSET Continuation /\ {} \in SUBSET Continuation
    OBVIOUS
  <1> DEFINE S == SUBSET Continuation
  <1>3. \A x, y, z \in S : /\ <<>> \in Seq(S) /\ <<x>> \in Seq(S)
                           /\ <<x, y>> \in Seq(S) /\ <<x, y, z>> \in Seq(S)
    <2> HIDE DEF S
    <2> QED
      OBVIOUS
  <1>4. \/ Lead(c) = <<>> \/ Lead(c) = <<Continuation>>
        \/ Lead(c) = <<Second(c), Continuation>>
        \/ Lead(c) = <<Second(c), Continuation, Continuation>>
        \/ Lead(c) = <<{}>>
    <2>1. CASE c < 128
      BY <2>1 DEF Lead
    <2>2. CASE c \in 194..223
      BY <2>2 DEF Lead
    <2>3. CASE c \in 224..239
      BY <2>3 DEF Lead
    <2>4. CASE c \in 240..244
      BY <2>4 DEF Lead
    <2>5. CASE /\ ~(c < 128) /\ c \notin 194..223 /\ c \notin 224..239
               /\ c \notin 240..244
      BY <2>5 DEF Lead, Malformed
    <2> QED
      BY <2>1, <2>2, <2>3, <2>4, <2>5
  <1> QED
    BY <1>1, <1>2, <1>3, <1>4, Zenon DEF Expected

LEMMA Utf8Typed ==
  ASSUME NEW u \in Expected, NEW c \in Byte
  PROVE  Utf8(u, c) \in Expected
  <1>1. CASE u = <<>>
    BY <1>1, LeadTyped DEF Utf8
  <1>2. CASE u # <<>>
    <2>1. Tail(u) \in Expected
      BY <1>2 DEF Expected
    <2>2. Malformed \in Expected
      BY DEF Malformed, Expected
    <2> QED
      BY <1>2, <2>1, <2>2 DEF Utf8
  <1> QED
    BY <1>1, <1>2

\* An ASCII character is a text of its own: it ends no other character.
LEMMA Utf8Ascii ==
  ASSUME NEW u \in Expected, NEW c \in Ascii
  PROVE  Utf8(u, c) = IF u = <<>> THEN <<>> ELSE Malformed
  <1>1. CASE u = <<>>
    <2>1. Lead(c) = <<>>
      BY DEF Lead, Ascii
    <2> QED
      BY <1>1, <2>1 DEF Utf8
  <1>2. CASE u # <<>>
    <2>1. Head(u) \in SUBSET Continuation
      BY <1>2 DEF Expected
    <2>2. c \notin Head(u)
      BY <2>1 DEF Continuation, Ascii
    <2> QED
      BY <1>2, <2>2 DEF Utf8
  <1> QED
    BY <1>1, <1>2

\* Several ASCII characters are to the check what one is.
LEMMA Utf8AsciiTwice ==
  ASSUME NEW u \in Expected, NEW c \in Ascii, NEW d \in Ascii, NEW e \in Ascii
  PROVE  Utf8(Utf8(u, c), d) = Utf8(u, e)
  <1>1. Utf8(u, c) \in Expected
    BY Utf8Typed DEF Ascii, Byte
  <1>2. Malformed # <<>>
    BY DEF Malformed
  <1> QED
    BY <1>1, <1>2, Utf8Ascii

LEMMA HexDigits ==
  ASSUME NEW n \in 0..15
  PROVE  hex[n + 1] \in Ascii /\ HexValue(hex[n + 1]) = n
  <1>1. \/ n = 0 \/ n = 1 \/ n = 2 \/ n = 3 \/ n = 4 \/ n = 5 \/ n = 6 \/ n = 7
        \/ n = 8 \/ n = 9 \/ n = 10 \/ n = 11 \/ n = 12 \/ n = 13 \/ n = 14
        \/ n = 15
    OBVIOUS
  <1> QED
    BY <1>1 DEF hex, HexValue, Ascii

\* What escape writes, by the kind of the byte.
LEMMA EscapeKinds ==
  ASSUME NEW c \in Byte
  PROVE  \/ /\ c \in 32..255 /\ c # Quote /\ c # Backslash
            /\ escape(c) = <<c>>
         \/ \E d \in Ascii : /\ d # LetterU /\ Short[d] = c /\ c \in Ascii
                              /\ escape(c) = <<Backslash, d>>
         \/ \E h, l \in Ascii :
              /\ c \in Ascii /\ HexValue(h) * 16 + HexValue(l) = c
              /\ escape(c) = <<Backslash, LetterU, Zero, Zero, h, l>>
  <1>1. CASE c = Quote
    <2>1. escape(c) = <<Backslash, Quote>> /\ Short[Quote] = c
          /\ Quote \in Ascii /\ c \in Ascii /\ Quote # LetterU
      BY <1>1 DEF escape, Short, Quote, Backslash, LetterU, Ascii
    <2> QED
      BY <2>1, Zenon
  <1>2. CASE c = Backslash
    <2>1. escape(c) = <<Backslash, Backslash>> /\ Short[Backslash] = c
          /\ Backslash \in Ascii /\ c \in Ascii /\ Backslash # LetterU
      BY <1>2 DEF escape, Short, Quote, Backslash, LetterU, Ascii
    <2> QED
      BY <2>1, Zenon
  <1>3. CASE c = 10
    <2>1. escape(c) = <<Backslash, 110>> /\ Short[110] = c
          /\ 110 \in Ascii /\ c \in Ascii /\ 110 # LetterU
      BY <1>3 DEF escape, Short, Quote, Backslash, LetterU, Ascii
    <2> QED
      BY <2>1, Zenon
  <1>4. CASE c = 13
    <2>1. escape(c) = <<Backslash, 114>> /\ Short[114] = c
          /\ 114 \in Ascii /\ c \in Ascii /\ 114 # LetterU
      BY <1>4 DEF escape, Short, Quote, Backslash, LetterU, Ascii
    <2> QED
      BY <2>1, Zenon
  <1>5. CASE c = 9
    <2>1. escape(c) = <<Backslash, 116>> /\ Short[116] = c
          /\ 116 \in Ascii /\ c \in Ascii /\ 116 # LetterU
      BY <1>5 DEF escape, Short, Quote, Backslash, LetterU, Ascii
    <2> QED
      BY <2>1, Zenon
  <1>6. CASE /\ c # Quote /\ c # Backslash /\ c # 10 /\ c # 13 /\ c # 9
             /\ c >= 32
    <2>1. escape(c) = <<c>>
      BY <1>6 DEF escape, Byte
    <2>2. c \in 32..255
      BY <1>6 DEF Byte
    <2> QED
      BY <1>6, <2>1, <2>2
  <1>7. CASE /\ c # Quote /\ c # Backslash /\ c # 10 /\ c # 13 /\ c # 9
             /\ c < 32
    <2> DEFINE h == hex[(c \div 16) + 1]
               l == hex[(c % 16) + 1]
    <2>1. escape(c) = <<Backslash, LetterU, Zero, Zero, h, l>>
      BY <1>7 DEF escape, LetterU, Zero
    <2>2. c \div 16 \in 0..15 /\ c % 16 \in 0..15
      BY <1>7 DEF Byte
    <2>3. /\ h \in Ascii /\ HexValue(h) = c \div 16
          /\ l \in Ascii /\ HexValue(l) = c % 16
      BY <2>2, HexDigits
    <2> HIDE DEF h, l
    <2>4. (c \div 16) * 16 + (c % 16) = c
      BY DEF Byte
    <2>5. HexValue(h) * 16 + HexValue(l) = c
      BY <2>3, <2>4
    <2>6. c \in Ascii
      BY <1>7 DEF Byte, Ascii
    <2> QED
      BY <2>1, <2>3, <2>5, <2>6
  <1>8. c >= 32 \/ c < 32
    BY DEF Byte
  <1> QED
    BY <1>1, <1>2, <1>3, <1>4, <1>5, <1>6, <1>7, <1>8, Zenon

LEMMA AsciiByte ==
  ASSUME NEW c \in Ascii
  PROVE  c \in Byte
  BY DEF Ascii, Byte

LEMMA AsciiChars == Backslash \in Ascii /\ LetterU \in Ascii /\ Zero \in Ascii
  BY DEF Backslash, LetterU, Zero, Ascii

LEMMA ByteChars == Backslash \in Byte /\ LetterU \in Byte /\ Zero \in Byte
  BY DEF Backslash, LetterU, Zero, Byte

LEMMA JoinAppend ==
  ASSUME NEW S, NEW q \in Seq(S), NEW e \in Seq(S), NEW c \in S
  PROVE  q \o Append(e, c) = Append(q \o e, c)
  OBVIOUS

LEMMA Tuples ==
  ASSUME NEW S, NEW a \in S, NEW b \in S, NEW c \in S, NEW d \in S, NEW e \in S
  PROVE  /\ <<a, b>> = Append(<<a>>, b)
         /\ <<a, b, c>> = Append(<<a, b>>, c)
         /\ <<a, b, c, d>> = Append(<<a, b, c>>, d)
         /\ <<a, b, c, d, e>> = Append(<<a, b, c, d>>, e)
         /\ <<a, b>> \in Seq(S)
         /\ <<a, b, c>> \in Seq(S)
         /\ <<a, b, c, d>> \in Seq(S)
         /\ <<a, b, c, d, e>> \in Seq(S)
         /\ Len(<<a, b, c, d, e>>) = 5
  OBVIOUS

\* The parser reads text t as the bytes o, and its check of UTF-8 is at u.
ReadsAs(t, o, u) ==
  /\ t \in Seq(Byte) /\ Parsable(t) /\ ReadBack(t) = At(Plain(o), u)
  /\ u \in Expected

\* A hexadecimal escape sequence, and the byte it stands for.
HexText(h, l) == <<Backslash, LetterU, Zero, Zero, h, l>>
HexByte(h, l) == HexValue(h) * 16 + HexValue(l)

\* Reading a hexadecimal escape sequence, one character after the other.
LEMMA ReadHexEscape ==
  ASSUME NEW text, NEW o, NEW u, ReadsAs(text, o, u),
         NEW h \in Ascii, NEW l \in Ascii, NEW c \in Ascii
  PROVE  ReadsAs(text \o HexText(h, l), Append(o, HexByte(h, l)), Utf8(u, c))
  <1> DEFINE e1 == <<Backslash>>
             e2 == <<Backslash, LetterU>>
             e3 == <<Backslash, LetterU, Zero>>
             e4 == <<Backslash, LetterU, Zero, Zero>>
             e5 == <<Backslash, LetterU, Zero, Zero, h>>
             t1 == Append(text, Backslash)
             t2 == Append(t1, LetterU)
             t3 == Append(t2, Zero)
             t4 == Append(t3, Zero)
             t5 == Append(t4, h)
             t6 == Append(t5, l)
  <1>20. h \in Byte /\ l \in Byte
    BY AsciiByte
  <1>1. /\ Len(e1) = 1 /\ e1 # <<>> /\ Len(e2) = 2 /\ e2 # <<>>
        /\ Len(e3) = 3 /\ e3 # <<>> /\ Len(e4) = 4 /\ e4 # <<>>
        /\ e5[5] = h
    OBVIOUS
  <1>2. /\ e2 = Append(e1, LetterU) /\ e3 = Append(e2, Zero)
        /\ e4 = Append(e3, Zero) /\ e5 = Append(e4, h)
        /\ e2 \in Seq(Byte) /\ e3 \in Seq(Byte) /\ e4 \in Seq(Byte)
        /\ e5 \in Seq(Byte) /\ Len(e5) = 5
    BY <1>20, ByteChars, Tuples
  <1>3. e1 \in Seq(Byte)
    BY ByteChars
  <1>18. text \in Seq(Byte) /\ Parsable(text) /\ ReadBack(text) = At(Plain(o), u)
         /\ u \in Expected
    BY DEF ReadsAs
  <1>4. t6 = text \o HexText(h, l)
    <2>1. t1 = text \o e1
      OBVIOUS
    <2>2. HexText(h, l) = Append(e5, l)
      BY DEF HexText
    <2>3. \A e \in Seq(Byte) : \A d \in Byte :
            text \o Append(e, d) = Append(text \o e, d)
      BY <1>18, JoinAppend
    <2>8. /\ t2 = Append(t1, LetterU) /\ t3 = Append(t2, Zero)
          /\ t4 = Append(t3, Zero) /\ t5 = Append(t4, h) /\ t6 = Append(t5, l)
      OBVIOUS
    <2> HIDE DEF e1, e2, e3, e4, e5, t1, t2, t3, t4, t5, t6
    <2>4. t2 = text \o e2
      BY <1>2, <1>3, <2>1, <2>3, ByteChars, <2>8, Zenon
    <2>5. t3 = text \o e3
      <3>1. e2 \in Seq(Byte) /\ Zero \in Byte
        BY <1>2, ByteChars
      <3>2. text \o Append(e2, Zero) = Append(text \o e2, Zero)
        BY <1>20, <2>3, <3>1, Zenon
      <3>3. t3 = Append(t2, Zero) /\ e3 = Append(e2, Zero)
        BY <1>2, <2>8
      <3> QED
        BY <2>4, <3>2, <3>3
    <2>6. t4 = text \o e4
      <3>1. e3 \in Seq(Byte) /\ Zero \in Byte
        BY <1>2, ByteChars
      <3>2. text \o Append(e3, Zero) = Append(text \o e3, Zero)
        BY <1>20, <2>3, <3>1, Zenon
      <3>3. t4 = Append(t3, Zero) /\ e4 = Append(e3, Zero)
        BY <1>2, <2>8
      <3> QED
        BY <2>5, <3>2, <3>3
    <2>7. t5 = text \o e5
      <3>1. e4 \in Seq(Byte)
        BY <1>2
      <3>2. text \o Append(e4, h) = Append(text \o e4, h)
        BY <1>20, <2>3, <3>1, Zenon
      <3>3. t5 = Append(t4, h) /\ e5 = Append(e4, h)
        BY <1>2, <2>8
      <3> QED
        BY <2>6, <3>2, <3>3
    <2>9. text \o Append(e5, l) = Append(text \o e5, l)
      <3>1. e5 \in Seq(Byte)
        BY <1>2
      <3> QED
        BY <1>20, <2>3, <3>1, Zenon
    <2> QED
      BY <2>2, <2>7, <2>8, <2>9
  <1> HIDE DEF e1, e2, e3, e4, e5
  <1> DEFINE v == Utf8(u, c)
             Reads(t, q, w) ==
               t \in Seq(Byte) /\ Parsable(t) /\ ReadBack(t) = At(q, w)
  <1>5. ASSUME NEW t, NEW q, NEW w, Reads(t, q, w), NEW d \in Byte
        PROVE  Reads(Append(t, d), Unescape(q, d), Utf8(w, d))
    <2>1. Append(t, d) \in Seq(Byte)
      BY <1>5
    <2>2. /\ Parsable(Append(t, d))
          /\ ReadBack(Append(t, d)) = Reader(ReadBack(t), d)
      BY <1>5, ParseAppend
    <2>3. Reader(At(q, w), d) = At(Unescape(q, d), Utf8(w, d))
      BY ReaderStep
    <2> QED
      BY <1>5, <2>1, <2>2, <2>3
  <1>6. Reads(text, Plain(o), u)
    BY <1>18
  <1>19. /\ \A d \in Ascii : Utf8(u, d) = v
         /\ \A d \in Ascii : Utf8(v, d) = v
    <2>1. ASSUME NEW d \in Ascii PROVE Utf8(u, d) = v
      BY <1>18, Utf8Ascii
    <2>2. ASSUME NEW d \in Ascii PROVE Utf8(v, d) = v
      BY <1>18, Utf8AsciiTwice
    <2> QED
      BY <2>1, <2>2
  <1>21. v \in Expected
    BY <1>18, AsciiByte, Utf8Typed
  <1> HIDE DEF v, Reads, t1, t2, t3, t4, t5, t6
  <1>7. Reads(t1, Within(e1, o), v)
    <2>1. Reads(t1, Unescape(Plain(o), Backslash), v)
      BY <1>5, <1>6, ByteChars, <1>19, AsciiChars DEF t1
    <2> QED
      BY <2>1, UnescapeBegin DEF e1
  <1>8. Reads(t2, Within(e2, o), v)
    <2>1. Reads(t2, Unescape(Within(e1, o), LetterU), v)
      BY <1>5, <1>7, ByteChars, <1>19, AsciiChars DEF t2
    <2>2. /\ e1 \in Seq(Byte) /\ e1 # <<>> /\ LetterU \in Byte
          /\ Len(e1) < 5 /\ (Len(e1) = 1 => LetterU = LetterU)
      BY <1>1, <1>2, <1>3, ByteChars
    <2>3. Unescape(Within(e1, o), LetterU) = Within(e2, o)
      BY <1>2, <2>2, UnescapeMore, Zenon
    <2> QED
      BY <2>1, <2>3
  <1>9. Reads(t3, Within(e3, o), v)
    <2>1. Reads(t3, Unescape(Within(e2, o), Zero), v)
      BY <1>5, <1>8, ByteChars, <1>19, AsciiChars DEF t3
    <2>2. /\ e2 \in Seq(Byte) /\ e2 # <<>> /\ Zero \in Byte
          /\ Len(e2) < 5 /\ (Len(e2) = 1 => Zero = LetterU)
      BY <1>1, <1>2, <1>3, ByteChars
    <2>3. Unescape(Within(e2, o), Zero) = Within(e3, o)
      BY <1>2, <2>2, UnescapeMore, Zenon
    <2> QED
      BY <2>1, <2>3
  <1>10. Reads(t4, Within(e4, o), v)
    <2>1. Reads(t4, Unescape(Within(e3, o), Zero), v)
      BY <1>5, <1>9, ByteChars, <1>19, AsciiChars DEF t4
    <2>2. /\ e3 \in Seq(Byte) /\ e3 # <<>> /\ Zero \in Byte
          /\ Len(e3) < 5 /\ (Len(e3) = 1 => Zero = LetterU)
      BY <1>1, <1>2, <1>3, ByteChars
    <2>3. Unescape(Within(e3, o), Zero) = Within(e4, o)
      BY <1>2, <2>2, UnescapeMore, Zenon
    <2> QED
      BY <2>1, <2>3
  <1>11. Reads(t5, Within(e5, o), v)
    <2>1. Reads(t5, Unescape(Within(e4, o), h), v)
      BY <1>5, <1>10, <1>20, <1>19, AsciiChars DEF t5
    <2>2. /\ e4 \in Seq(Byte) /\ e4 # <<>> /\ h \in Byte
          /\ Len(e4) < 5 /\ (Len(e4) = 1 => h = LetterU)
      BY <1>1, <1>2, <1>3, <1>20, ByteChars
    <2>3. Unescape(Within(e4, o), h) = Within(e5, o)
      BY <1>2, <2>2, UnescapeMore, Zenon
    <2> QED
      BY <2>1, <2>3
  <1>12. Reads(t6, Plain(Append(o, HexByte(h, l))), v)
    <2>1. Reads(t6, Unescape(Within(e5, o), l), v)
      BY <1>5, <1>11, <1>20, <1>19, AsciiChars DEF t6
    <2>2. Unescape(Within(e5, o), l)
            = Plain(Append(o, HexValue(e5[5]) * 16 + HexValue(l)))
      BY <1>2, <1>20, UnescapeLast
    <2> QED
      BY <1>1, <2>1, <2>2 DEF HexByte
  <1> QED
    BY <1>4, <1>12, <1>21 DEF Reads, ReadsAs, v

\* What json_escape writes for a byte, the parser reads as that byte, and
\* its check of UTF-8 comes out as if it had read the byte itself.
LEMMA EscapeReads ==
  ASSUME NEW text, NEW o, NEW u, ReadsAs(text, o, u), NEW c \in Byte
  PROVE  ReadsAs(text \o escape(c), Append(o, c), Utf8(u, c))
  <1>1. text \in Seq(Byte) /\ Parsable(text) /\ ReadBack(text) = At(Plain(o), u)
        /\ u \in Expected
    BY DEF ReadsAs
  <1>5. Utf8(u, c) \in Expected
    BY <1>1, Utf8Typed
  <1>2. CASE /\ c \in 32..255 /\ c # Quote /\ c # Backslash
             /\ escape(c) = <<c>>
    <2>1. text \o escape(c) = Append(text, c) /\ Append(text, c) \in Seq(Byte)
      BY <1>1, <1>2
    <2>2. /\ Parsable(Append(text, c))
          /\ ReadBack(Append(text, c)) = Reader(ReadBack(text), c)
      BY <1>1, ParseAppend
    <2>3. Unescape(Plain(o), c) = Plain(Append(o, c))
      BY <1>2, UnescapePlain
    <2>4. Reader(At(Plain(o), u), c) = At(Plain(Append(o, c)), Utf8(u, c))
      BY <2>3, ReaderStep
    <2> QED
      BY <1>1, <1>5, <2>1, <2>2, <2>4 DEF ReadsAs
  <1>3. ASSUME NEW d \in Ascii, d # LetterU, Short[d] = c, c \in Ascii,
               escape(c) = <<Backslash, d>>
        PROVE  ReadsAs(text \o escape(c), Append(o, c), Utf8(u, c))
    <2> DEFINE t1 == Append(text, Backslash)
               t2 == Append(t1, d)
               w == Utf8(u, Backslash)
    <2>6. d \in Byte
      BY AsciiByte
    <2>1. text \o escape(c) = t2 /\ t1 \in Seq(Byte) /\ t2 \in Seq(Byte)
      BY <1>1, <1>3, <2>6, ByteChars
    <2>2. Parsable(t1) /\ ReadBack(t1) = Reader(ReadBack(text), Backslash)
      BY <1>1, ByteChars, ParseAppend
    <2> HIDE DEF t1
    <2>3. Parsable(t2) /\ ReadBack(t2) = Reader(ReadBack(t1), d)
      BY <2>1, <2>2, <2>6, ParseAppend
    <2> HIDE DEF t2
    <2>7. Utf8(w, d) = Utf8(u, c)
      BY <1>1, <1>3, AsciiChars, Utf8AsciiTwice
    <2> HIDE DEF w
    <2>4. Reader(At(Plain(o), u), Backslash) = At(Within(<<Backslash>>, o), w)
      BY ReaderStep, UnescapeBegin DEF w
    <2>5. Reader(At(Within(<<Backslash>>, o), w), d)
            = At(Plain(Append(o, c)), Utf8(u, c))
      BY <1>3, <2>6, <2>7, ReaderStep, UnescapeShort
    <2> QED
      BY <1>1, <1>5, <2>1, <2>2, <2>3, <2>4, <2>5 DEF ReadsAs
  <1>4. ASSUME NEW h \in Ascii, NEW l \in Ascii, c \in Ascii,
               HexByte(h, l) = c, escape(c) = HexText(h, l)
        PROVE  ReadsAs(text \o escape(c), Append(o, c), Utf8(u, c))
    BY <1>4, ReadHexEscape
  <1> QED
    BY <1>2, <1>3, <1>4, EscapeKinds, Zenon DEF HexByte, HexText

\* The parser reads t as the bytes o, and finds t to be UTF-8 as far as o is.
Means(t, o) ==
  /\ o \in Seq(Byte) /\ Parsable(o)
  /\ ReadsAs(t, o, ReadBack(o).more)
  /\ \E q : ReadBack(o) = At(q, ReadBack(o).more)

LEMMA MeansNothing == Means(<<>>, <<>>)
  <1>1. Parsable(<<>>) /\ ReadBack(<<>>) = At(Plain(<<>>), <<>>)
    BY ParseEmpty DEF Start, At, Plain
  <1>2. ReadBack(<<>>).more = <<>>
    BY <1>1 DEF At
  <1>3. <<>> \in Seq(Byte) /\ <<>> \in Expected
    BY DEF Expected
  <1> QED
    BY <1>1, <1>2, <1>3 DEF Means, ReadsAs

LEMMA MeansMore ==
  ASSUME NEW t, NEW o, Means(t, o), NEW c \in Byte
  PROVE  Means(t \o escape(c), Append(o, c))
  <1> DEFINE u == ReadBack(o).more
  <1>1. o \in Seq(Byte) /\ Parsable(o) /\ ReadsAs(t, o, u)
    BY DEF Means
  <1>2. PICK q : ReadBack(o) = At(q, u)
    BY DEF Means
  <1> HIDE DEF u
  <1>3. ReadsAs(t \o escape(c), Append(o, c), Utf8(u, c))
    BY <1>1, EscapeReads
  <1>4. /\ Append(o, c) \in Seq(Byte) /\ Parsable(Append(o, c))
        /\ ReadBack(Append(o, c)) = Reader(ReadBack(o), c)
    BY <1>1, ParseAppend
  <1>5. ReadBack(Append(o, c)) = At(Unescape(q, c), Utf8(u, c))
    BY <1>2, <1>4, ReaderStep
  <1>6. ReadBack(Append(o, c)).more = Utf8(u, c)
    BY <1>5 DEF At
  <1> QED
    BY <1>3, <1>4, <1>5, <1>6 DEF Means

LEMMA EscapeLength ==
  ASSUME NEW c \in Byte
  PROVE  escape(c) \in Seq(Byte) /\ Len(escape(c)) \in 1..6
  <1>1. CASE escape(c) = <<c>>
    BY <1>1
  <1>2. ASSUME NEW d \in Ascii, escape(c) = <<Backslash, d>>
        PROVE  escape(c) \in Seq(Byte) /\ Len(escape(c)) \in 1..6
    BY <1>2, AsciiByte, ByteChars
  <1>3. ASSUME NEW h \in Ascii, NEW l \in Ascii,
               escape(c) = <<Backslash, LetterU, Zero, Zero, h, l>>
        PROVE  escape(c) \in Seq(Byte) /\ Len(escape(c)) \in 1..6
    BY <1>3, AsciiByte, ByteChars
  <1> QED
    BY <1>1, <1>2, <1>3, EscapeKinds, Zenon

\* The sums of the first id lengths, up to n of them, none above the last.
Sums(p, n) ==
  /\ p \in [0..n -> Nat] /\ p[0] = 0
  /\ \A j \in 0..(n - 1) : p[j + 1] = p[j] + creds[j + 1]
  /\ \A j \in 0..n : p[j] <= p[n]

RepTypes ==
  /\ repPc \in {"sum", "entries", "escape", "cookie", "body", "sent"}
  /\ creds \in Seq(Nat) /\ user_id \in Seq(Byte) /\ esc \in Seq(Byte)
  /\ textLen \in TextLens
  /\ idx \in Nat /\ sum \in Nat /\ bufSize \in Nat /\ used \in Nat

\* The challenge reply: what the list takes is bounded by the sum of the
\* lengths it was allocated from.
ListProgress ==
  /\ repPc = "sum" =>
       /\ idx <= Len(creds) /\ used = 0
       /\ \E p : Sums(p, idx) /\ p[idx] = sum
  /\ repPc = "entries" =>
       /\ idx <= Len(creds)
       /\ \E p : /\ Sums(p, Len(creds)) /\ p[Len(creds)] = sum
                 /\ used <= 90 + textLen.token + textLen.rp_id + textLen.time
                              + 30 * idx + p[idx]
       /\ bufSize = 171 + textLen.token + textLen.rp_id
                      + 32 * Len(creds) + sum

\* The login reply: the escaped text so far means the user id so far.
EscapeProgress ==
  /\ repPc = "escape" =>
       /\ idx <= Len(user_id) /\ used <= 6 * idx /\ bufSize = 6 * Len(user_id)
       /\ \E o \in Seq(Byte) : /\ Means(esc, o) /\ Len(o) = idx
                               /\ \A j \in 1..idx : o[j] = user_id[j]
  /\ repPc = "cookie" => Means(esc, user_id)

RepInv ==
  RepTypes /\ ListProgress /\ EscapeProgress /\ (repPc # "entries" => ReplyFits)

LEMMA TextFacts ==
  ASSUME RepTypes
  PROVE  /\ textLen.token \in Nat /\ textLen.rp_id \in Nat
         /\ textLen.domain \in Nat /\ textLen.time \in 1..20
         /\ Len(creds) \in Nat /\ Len(user_id) \in Nat /\ Len(esc) \in Nat
  <1>1. /\ textLen.token \in Length /\ textLen.rp_id \in Length
        /\ textLen.domain \in Length /\ textLen.time \in {1, TimeLen}
    BY DEF RepTypes, TextLens
  <1>2. /\ Len(creds) \in Nat /\ Len(user_id) \in Nat /\ Len(esc) \in Nat
    BY DEF RepTypes
  <1>3. \A n \in Length : n \in Nat
    BY ReplyAssumption
  <1>4. 1 \in 1..20 /\ TimeLen \in 1..20
    BY ReplyAssumption
  <1>5. textLen.time \in 1..20
    BY <1>1, <1>4
  <1> QED
    BY <1>1, <1>2, <1>3, <1>5, Zenon

LEMMA RepInitInv == RepInit => RepInv
  <1> SUFFICES ASSUME RepInit PROVE RepInv
    OBVIOUS
  <1>1. creds \in Seq(Nat) /\ user_id \in Seq(Byte)
    <2>1. CASE creds \in CredLists /\ user_id = <<>>
      BY <2>1, ReplyAssumption
    <2>2. CASE creds = <<>> /\ user_id \in UserIds
      BY <2>2, ReplyAssumption DEF Byte
    <2> QED
      BY <2>1, <2>2 DEF RepInit
  <1>2. Len(user_id) \in Nat /\ Len(creds) \in Nat
    BY <1>1
  <1>3. RepTypes
    <2>1. <<>> \in Seq(Byte) /\ 6 * Len(user_id) \in Nat
      BY <1>2
    <2> QED
      BY <1>1, <2>1 DEF RepInit, RepTypes
  <1>4. ListProgress
    <2> DEFINE p == [j \in 0..0 |-> 0]
    <2>1. Sums(p, 0) /\ p[0] = 0
      BY DEF Sums
    <2> HIDE DEF p
    <2>2. \E q : Sums(q, 0) /\ q[0] = 0
      BY <2>1
    <2> QED
      BY <1>2, <2>2 DEF RepInit, ListProgress
  <1>5. EscapeProgress
    <2>1. Means(<<>>, <<>>) /\ <<>> \in Seq(Byte) /\ Len(<<>>) = 0
      BY MeansNothing
    <2>2. \A j \in 1..0 : <<>>[j] = user_id[j]
      OBVIOUS
    <2>3. esc = <<>> /\ idx = 0 /\ used = 0 /\ bufSize = 6 * Len(user_id)
          /\ repPc # "cookie"
      BY DEF RepInit
    <2>4. \E o \in Seq(Byte) : /\ Means(esc, o) /\ Len(o) = idx
                               /\ \A j \in 1..idx : o[j] = user_id[j]
      BY <2>1, <2>2, <2>3, Zenon
    <2>5. idx <= Len(user_id) /\ used <= 6 * idx
      BY <1>2, <2>3
    <2> QED
      BY <2>3, <2>4, <2>5 DEF EscapeProgress
  <1>6. ReplyFits
    BY <1>2 DEF RepInit, ReplyFits
  <1> QED
    BY <1>3, <1>4, <1>5, <1>6 DEF RepInv

LEMMA SumIdsInv == RepInv /\ SumIds => RepInv'
  <1> SUFFICES ASSUME RepInv, SumIds PROVE RepInv'
    OBVIOUS
  <1>1. /\ RepTypes /\ repPc = "sum" /\ used = 0 /\ idx < Len(creds)
        /\ sum' = sum + creds[idx + 1] /\ idx' = idx + 1
        /\ UNCHANGED <<repPc, creds, user_id, textLen, bufSize, used, esc>>
    BY DEF RepInv, SumIds, ListProgress
  <1>2. creds[idx + 1] \in Nat /\ Len(creds) \in Nat /\ idx \in Nat
    BY <1>1 DEF RepTypes
  <1>3. RepTypes'
    BY <1>1, <1>2 DEF RepTypes
  <1>4. PICK p : Sums(p, idx) /\ p[idx] = sum
    BY <1>1 DEF RepInv, ListProgress
  <1>5. sum' \in Nat /\ sum <= sum'
    BY <1>1, <1>2 DEF RepTypes
  <1>6. PICK q :
          /\ q \in [0..(idx + 1) -> Nat] /\ q[0] = 0 /\ q[idx + 1] = sum'
          /\ \A j \in 0..idx : q[j] = p[j] /\ p[j] \in Nat /\ p[j] <= sum
    <2> DEFINE r == [j \in 0..(idx + 1) |-> IF j = idx + 1 THEN sum' ELSE p[j]]
    <2>1. /\ r \in [0..(idx + 1) -> Nat] /\ r[0] = 0 /\ r[idx + 1] = sum'
          /\ \A j \in 0..idx : r[j] = p[j] /\ p[j] \in Nat /\ p[j] <= sum
      BY <1>2, <1>4, <1>5 DEF Sums
    <2> HIDE DEF r
    <2> QED
      BY <2>1
  <1>7. \A j \in 0..idx : q[j + 1] = q[j] + creds[j + 1]
    <2> SUFFICES ASSUME NEW j \in 0..idx
                 PROVE  q[j + 1] = q[j] + creds[j + 1]
      OBVIOUS
    <2>1. CASE j = idx
      BY <1>1, <1>2, <1>4, <1>6, <2>1
    <2>2. CASE j # idx
      <3>1. j \in 0..(idx - 1) /\ j + 1 \in 0..idx
        BY <1>2, <2>2
      <3> QED
        BY <1>4, <1>6, <3>1 DEF Sums
    <2> QED
      BY <2>1, <2>2
  <1>8. \A j \in 0..(idx + 1) : q[j] <= q[idx + 1]
    <2> SUFFICES ASSUME NEW j \in 0..(idx + 1) PROVE q[j] <= q[idx + 1]
      OBVIOUS
    <2>1. CASE j = idx + 1
      BY <1>5, <1>6, <2>1
    <2>2. CASE j # idx + 1
      <3>1. j \in 0..idx
        BY <1>2, <2>2
      <3> QED
        <4>1. q[j] = p[j] /\ p[j] \in Nat /\ p[j] <= sum /\ q[idx + 1] = sum'
          BY <1>6, <3>1
        <4>2. sum \in Nat
          BY <1>1 DEF RepTypes
        <4>3. \A x, y, z \in Nat : x <= y /\ y <= z => x <= z
          OBVIOUS
        <4> QED
          BY <1>5, <4>1, <4>2, <4>3
    <2> QED
      BY <2>1, <2>2
  <1>9. Sums(q, idx)' /\ q[idx'] = sum'
    <2>1. (idx + 1) - 1 = idx /\ creds' = creds /\ idx' = idx + 1
      BY <1>1, <1>2
    <2>2. /\ q \in [0..idx' -> Nat] /\ q[0] = 0
          /\ \A j \in 0..(idx' - 1) : q[j + 1] = q[j] + creds'[j + 1]
          /\ \A j \in 0..idx' : q[j] <= q[idx']
      BY <1>6, <1>7, <1>8, <2>1
    <2> QED
      BY <1>6, <2>1, <2>2 DEF Sums
  <1>10. ListProgress'
    <2>1. idx' <= Len(creds') /\ used' = 0 /\ repPc' = "sum"
      BY <1>1, <1>2
    <2> QED
      BY <1>9, <2>1 DEF ListProgress
  <1>11. EscapeProgress' /\ ReplyFits'
    <2>1. ReplyFits
      BY <1>1 DEF RepInv
    <2> QED
      BY <1>1, <2>1 DEF EscapeProgress, ReplyFits
  <1> QED
    BY <1>3, <1>10, <1>11 DEF RepInv

LEMMA OpeningInv == RepInv /\ Opening => RepInv'
  <1> SUFFICES ASSUME RepInv, Opening PROVE RepInv'
    OBVIOUS
  <1>1. /\ RepTypes /\ repPc = "sum" /\ idx = Len(creds)
        /\ idx' = 0 /\ repPc' = "entries"
        /\ UNCHANGED <<creds, user_id, textLen, sum, esc>>
        /\ bufSize' = 160 + textLen.token + textLen.rp_id + uv_max
                        + Len(creds) * ALLOWCRED_OVERHEAD + sum
        /\ used' = 79 + textLen.token + textLen.rp_id + uv_max + textLen.time
    BY DEF RepInv, Opening, Allocate
  <1>2. /\ textLen.token \in Nat /\ textLen.rp_id \in Nat
        /\ textLen.time \in 1..20 /\ Len(creds) \in Nat /\ sum \in Nat
    BY <1>1, TextFacts DEF RepTypes
  <1>3. /\ bufSize' = 171 + textLen.token + textLen.rp_id
                        + 32 * Len(creds) + sum
        /\ used' = 90 + textLen.token + textLen.rp_id + textLen.time
        /\ bufSize' \in Nat /\ used' \in Nat
    <2> DEFINE a == textLen.token
               b == textLen.rp_id
               m == textLen.time
               n == Len(creds)
    <2>1. /\ a \in Nat /\ b \in Nat /\ m \in Nat /\ n \in Nat /\ sum \in Nat
      <3>1. m \in 1..20
        BY <1>2, Zenon
      <3>2. a \in Nat /\ b \in Nat /\ n \in Nat /\ sum \in Nat
        BY <1>2, Zenon
      <3> HIDE DEF a, b, m, n
      <3> QED
        BY <3>1, <3>2
    <2>2. /\ bufSize' = 160 + a + b + 11 + n * 32 + sum
          /\ used' = 79 + a + b + 11 + m
      BY <1>1 DEF uv_max, ALLOWCRED_OVERHEAD
    <2> HIDE DEF a, b, m, n
    <2>3. /\ bufSize' = 171 + a + b + 32 * n + sum /\ bufSize' \in Nat
          /\ used' = 90 + a + b + m /\ used' \in Nat
      BY <2>1, <2>2
    <2> QED
      BY <2>3 DEF a, b, m, n
  <1>4. RepTypes'
    BY <1>1, <1>3 DEF RepTypes
  <1>5. PICK p : Sums(p, idx) /\ p[idx] = sum
    BY <1>1 DEF RepInv, ListProgress
  <1>6. Sums(p, Len(creds))' /\ p[Len(creds')] = sum' /\ p[0] = 0
    BY <1>1, <1>5 DEF Sums
  <1>7. used' <= 90 + textLen'.token + textLen'.rp_id + textLen'.time
                    + 30 * idx' + p[idx']
    <2> DEFINE v == 90 + textLen.token + textLen.rp_id + textLen.time
    <2>1. used' = v /\ v \in Nat
      BY <1>3
    <2>2. textLen' = textLen /\ idx' = 0 /\ p[idx'] = 0
      BY <1>1, <1>6
    <2> HIDE DEF v
    <2>3. used' <= v + 30 * 0 + 0
      BY <2>1
    <2> QED
      BY <2>2, <2>3 DEF v
  <1>8. ListProgress'
    <2>1. idx' <= Len(creds') /\ repPc' = "entries"
      BY <1>1, <1>2
    <2>2. bufSize' = 171 + textLen'.token + textLen'.rp_id
                       + 32 * Len(creds') + sum'
      BY <1>1, <1>3
    <2> QED
      BY <1>6, <1>7, <2>1, <2>2 DEF ListProgress
  <1> QED
    BY <1>1, <1>4, <1>8 DEF RepInv, EscapeProgress

LEMMA EntryInv == RepInv /\ Entry => RepInv'
  <1> SUFFICES ASSUME RepInv, Entry PROVE RepInv'
    OBVIOUS
  <1>1. /\ RepTypes /\ repPc = "entries" /\ idx < Len(creds)
        /\ used' = used + (IF idx = 0 THEN 29 ELSE 30) + creds[idx + 1]
        /\ idx' = idx + 1
        /\ UNCHANGED <<repPc, creds, user_id, textLen, sum, bufSize, esc>>
    BY DEF RepInv, Entry
  <1>2. /\ textLen.token \in Nat /\ textLen.rp_id \in Nat
        /\ textLen.time \in 1..20 /\ Len(creds) \in Nat /\ idx \in Nat
        /\ creds[idx + 1] \in Nat /\ used \in Nat
    BY <1>1, TextFacts DEF RepTypes
  <1>3. RepTypes'
    <2>1. idx' \in Nat
      BY <1>1, <1>2
    <2>2. used' \in Nat
      <3> DEFINE n == creds[idx + 1]
                 d == IF idx = 0 THEN 29 ELSE 30
      <3>1. n \in Nat /\ d \in Nat /\ used' = used + d + n
        BY <1>1, <1>2
      <3> HIDE DEF n, d
      <3> QED
        BY <1>2, <3>1
    <2> QED
      BY <1>1, <2>1, <2>2 DEF RepTypes
  <1>4. PICK p : /\ Sums(p, Len(creds)) /\ p[Len(creds)] = sum
                 /\ used <= 90 + textLen.token + textLen.rp_id + textLen.time
                              + 30 * idx + p[idx]
    BY <1>1 DEF RepInv, ListProgress
  <1>5. p[idx + 1] = p[idx] + creds[idx + 1] /\ p[idx] \in Nat
    <2>1. idx \in 0..(Len(creds) - 1) /\ idx \in 0..Len(creds)
      BY <1>1, <1>2
    <2> QED
      BY <1>4, <2>1 DEF Sums
  <1>6. used' <= 90 + textLen.token + textLen.rp_id + textLen.time
                   + 30 * (idx + 1) + p[idx + 1]
    <2> DEFINE v == 90 + textLen.token + textLen.rp_id + textLen.time
               w == creds[idx + 1]
               x == p[idx]
               d == IF idx = 0 THEN 29 ELSE 30
    <2>1. v \in Int /\ w \in Nat /\ x \in Nat /\ d \in 29..30
      <3>1. \A a, b \in Nat : \A m \in 1..20 : 90 + a + b + m \in Int
        OBVIOUS
      <3>2. v \in Int
        BY <1>2, <3>1
      <3> QED
        BY <1>2, <1>5, <3>2
    <2>2. /\ used <= v + 30 * idx + x /\ used' = used + d + w
          /\ p[idx + 1] = x + w
      BY <1>1, <1>4, <1>5
    <2> HIDE DEF v, w, x, d
    <2>3. used' <= v + 30 * (idx + 1) + (x + w)
      BY <1>2, <2>1, <2>2
    <2> QED
      BY <2>2, <2>3 DEF v
  <1>7. Sums(p, Len(creds))' /\ p[Len(creds')] = sum'
    BY <1>1, <1>4 DEF Sums
  <1>8. bufSize' = 171 + textLen'.token + textLen'.rp_id
                     + 32 * Len(creds') + sum'
    BY <1>1 DEF RepInv, ListProgress
  <1>9. ListProgress'
    <2>1. used' <= 90 + textLen'.token + textLen'.rp_id + textLen'.time
                     + 30 * idx' + p[idx']
      BY <1>1, <1>6
    <2>2. idx' <= Len(creds') /\ repPc' = "entries"
      BY <1>1, <1>2
    <2> QED
      BY <1>7, <1>8, <2>1, <2>2 DEF ListProgress
  <1> QED
    BY <1>1, <1>3, <1>9 DEF RepInv, EscapeProgress

LEMMA BracketsInv == RepInv /\ Brackets => RepInv'
  <1> SUFFICES ASSUME RepInv, Brackets PROVE RepInv'
    OBVIOUS
  <1>1. /\ RepTypes /\ repPc = "entries" /\ idx = Len(creds)
        /\ used' = used + 2 /\ repPc' = "sent"
        /\ UNCHANGED <<creds, user_id, textLen, idx, sum, bufSize, esc>>
    BY DEF RepInv, Brackets
  <1>2. /\ textLen.token \in Nat /\ textLen.rp_id \in Nat /\ sum \in Nat
        /\ textLen.time \in 1..20 /\ Len(creds) \in Nat /\ used \in Nat
    BY <1>1, TextFacts DEF RepTypes
  <1>3. RepTypes'
    BY <1>1, <1>2 DEF RepTypes
  <1>4. /\ used <= 90 + textLen.token + textLen.rp_id + textLen.time
                    + 30 * Len(creds) + sum
        /\ bufSize = 171 + textLen.token + textLen.rp_id
                       + 32 * Len(creds) + sum
    BY <1>1 DEF RepInv, ListProgress
  <1>5. ReplyFits'
    <2> DEFINE a == textLen.token
               b == textLen.rp_id
               m == textLen.time
               n == Len(creds)
    <2>1. /\ a \in Nat /\ b \in Nat /\ m \in 1..20 /\ n \in Nat
          /\ used <= 90 + a + b + m + 30 * n + sum
          /\ bufSize = 171 + a + b + 32 * n + sum
      BY <1>2, <1>4
    <2> HIDE DEF a, b, m, n
    <2>2. used + 2 <= bufSize
      BY <1>2, <2>1
    <2> QED
      BY <1>1, <2>2 DEF ReplyFits
  <1> QED
    BY <1>1, <1>3, <1>5 DEF RepInv, ListProgress, EscapeProgress

LEMMA EscapeInv == RepInv /\ json_escape => RepInv'
  <1> SUFFICES ASSUME RepInv, json_escape PROVE RepInv'
    OBVIOUS
  <1> DEFINE c == user_id[idx + 1]
  <1>1. /\ RepTypes /\ repPc = "escape" /\ idx < Len(user_id)
        /\ used <= 6 * idx /\ bufSize = 6 * Len(user_id)
        /\ esc' = esc \o escape(c) /\ used' = used + Len(escape(c))
        /\ idx' = idx + 1
        /\ UNCHANGED <<repPc, creds, user_id, textLen, sum, bufSize>>
    BY DEF RepInv, json_escape, EscapeProgress
  <1>2. c \in Byte /\ Len(user_id) \in Nat /\ idx \in Nat /\ used \in Nat
    BY <1>1 DEF RepTypes
  <1>3. PICK o \in Seq(Byte) : /\ Means(esc, o) /\ Len(o) = idx
                               /\ \A j \in 1..idx : o[j] = user_id[j]
    BY <1>1 DEF RepInv, EscapeProgress
  <1> HIDE DEF c
  <1>4. Len(escape(c)) \in 1..6
    BY <1>2, EscapeLength
  <1>5. Means(esc', Append(o, c))
    BY <1>1, <1>2, <1>3, MeansMore
  <1>6. /\ Append(o, c) \in Seq(Byte) /\ Len(Append(o, c)) = idx + 1
        /\ \A j \in 1..(idx + 1) : Append(o, c)[j] = user_id[j]
    <2>1. /\ Append(o, c) \in Seq(Byte) /\ Len(Append(o, c)) = idx + 1
          /\ Append(o, c)[idx + 1] = c
          /\ \A j \in 1..idx : Append(o, c)[j] = o[j]
      BY <1>2, <1>3
    <2>2. \A j \in 1..(idx + 1) : j \in 1..idx \/ j = idx + 1
      BY <1>2
    <2> QED
      BY <1>3, <2>1, <2>2 DEF c
  <1>7. \E r \in Seq(Byte) : /\ Means(esc', r) /\ Len(r) = idx'
                             /\ \A j \in 1..idx' : r[j] = user_id'[j]
    BY <1>1, <1>5, <1>6
  <1>8. RepTypes'
    <2>1. esc' \in Seq(Byte)
      BY <1>5 DEF Means, ReadsAs
    <2> QED
      BY <1>1, <1>2, <1>4, <2>1 DEF RepTypes
  <1>9. EscapeProgress'
    <2>1. /\ idx' <= Len(user_id') /\ used' <= 6 * idx'
          /\ bufSize' = 6 * Len(user_id') /\ repPc' = "escape"
      <3> DEFINE k == Len(escape(c))
                 n == Len(user_id)
      <3>1. /\ used' = used + k /\ k \in 1..6 /\ n \in Nat /\ idx < n
        BY <1>1, <1>2, <1>4
      <3> HIDE DEF k, n
      <3>2. idx + 1 <= n /\ used + k <= 6 * (idx + 1)
        BY <1>1, <1>2, <3>1
      <3> QED
        BY <1>1, <3>1, <3>2 DEF n
    <2> QED
      BY <1>7, <2>1 DEF EscapeProgress
  <1>10. ReplyFits' /\ ListProgress'
    <2> DEFINE k == Len(escape(c))
               n == Len(user_id)
    <2>1. /\ used' = used + k /\ k \in 1..6 /\ n \in Nat /\ idx < n
          /\ bufSize' = 6 * n
      BY <1>1, <1>2, <1>4
    <2> HIDE DEF k, n
    <2>2. used + k <= 6 * n
      BY <1>1, <1>2, <2>1
    <2>3. ReplyFits'
      BY <2>1, <2>2 DEF ReplyFits
    <2> QED
      BY <1>1, <2>3 DEF ListProgress
  <1> QED
    BY <1>8, <1>9, <1>10 DEF RepInv

LEMMA ClaimsInv == RepInv /\ Claims => RepInv'
  <1> SUFFICES ASSUME RepInv, Claims PROVE RepInv'
    OBVIOUS
  <1>1. /\ RepTypes /\ repPc = "escape" /\ idx = Len(user_id)
        /\ repPc' = "cookie"
        /\ bufSize' = 256 + Len(esc) + textLen.token + textLen.rp_id + 22
        /\ used' = 74 + Len(esc) + textLen.token + textLen.rp_id + 22
                     + 2 * textLen.time
        /\ UNCHANGED <<creds, user_id, textLen, idx, sum, esc>>
    BY DEF RepInv, Claims, Allocate
  <1>2. /\ bufSize' \in Nat /\ used' \in Nat /\ used' <= bufSize'
    <2> DEFINE a == textLen.token
               b == textLen.rp_id
               m == textLen.time
               n == Len(esc)
    <2>1. a \in Nat /\ b \in Nat /\ m \in 1..20 /\ n \in Nat
      BY <1>1, TextFacts
    <2>2. /\ bufSize' = 256 + n + a + b + 22
          /\ used' = 74 + n + a + b + 22 + 2 * m
      BY <1>1
    <2> HIDE DEF a, b, m, n
    <2> QED
      BY <2>1, <2>2
  <1>3. RepTypes'
    BY <1>1, <1>2 DEF RepTypes
  <1>4. PICK o \in Seq(Byte) : /\ Means(esc, o) /\ Len(o) = Len(user_id)
                               /\ \A j \in 1..Len(o) : o[j] = user_id[j]
    BY <1>1 DEF RepInv, EscapeProgress
  <1>5. o = user_id
    <2>1. user_id \in Seq(Byte)
      BY <1>1 DEF RepTypes
    <2> QED
      BY <1>4, <2>1
  <1>6. Means(esc, user_id)'
    BY <1>1, <1>4, <1>5
  <1> QED
    BY <1>1, <1>2, <1>3, <1>6
    DEF RepInv, ListProgress, EscapeProgress, ReplyFits

LEMMA LoginTextsInv == RepInv /\ (Cookie \/ SuccessBody) => RepInv'
  <1> SUFFICES ASSUME RepInv, Cookie \/ SuccessBody PROVE RepInv'
    OBVIOUS
  <1>1. RepTypes
    BY DEF RepInv
  <1>2. /\ repPc' \in {"body", "sent"}
        /\ UNCHANGED <<creds, user_id, textLen, idx, sum, esc>>
    BY DEF Cookie, SuccessBody
  <1>3. bufSize' \in Nat /\ used' \in Nat /\ used' <= bufSize'
    <2>1. CASE Cookie
      <3> DEFINE m == textLen.token + textLen.rp_id + textLen.token
                        + textLen.domain
      <3>1. m \in Nat /\ textLen.time \in 1..20
        <4> DEFINE a == textLen.token
                   b == textLen.rp_id
                   d == textLen.domain
        <4>1. a \in Nat /\ b \in Nat /\ d \in Nat /\ textLen.time \in 1..20
          BY <1>1, TextFacts, Zenon
        <4>2. m = a + b + a + d
          OBVIOUS
        <4> HIDE DEF a, b, d, m
        <4> QED
          BY <4>1, <4>2
      <3>2. /\ bufSize' = m + 128
            /\ used' = m + 29 + 6 + (IF textLen.secure THEN 8 ELSE 0)
                         + (IF textLen.domain > 0 THEN 9 ELSE 0)
                         + 10 + textLen.time
        BY <2>1 DEF Cookie, Allocate
      <3> HIDE DEF m
      <3> QED
        BY <3>1, <3>2
    <2>2. CASE SuccessBody
      <3> DEFINE m == textLen.time
                 n == Len(esc)
      <3>1. m \in 1..20 /\ n \in Nat
        BY <1>1, TextFacts
      <3>2. bufSize' = 64 + n /\ used' = 31 + n + m
        BY <2>2 DEF SuccessBody, Allocate
      <3> HIDE DEF m, n
      <3> QED
        BY <3>1, <3>2
    <2> QED
      BY <2>1, <2>2
  <1>4. RepTypes'
    BY <1>1, <1>2, <1>3 DEF RepTypes
  <1> QED
    BY <1>2, <1>3, <1>4 DEF RepInv, ListProgress, EscapeProgress, ReplyFits

LEMMA RepStep == RepInv /\ [RepNext]_repVars => RepInv'
  <1> SUFFICES ASSUME RepInv, [RepNext]_repVars PROVE RepInv'
    OBVIOUS
  <1>1. CASE UNCHANGED repVars
    BY <1>1 DEF repVars, RepInv, RepTypes, ListProgress, EscapeProgress, Sums,
                ReplyFits
  <1> QED
    BY <1>1, SumIdsInv, OpeningInv, EntryInv, BracketsInv, EscapeInv, ClaimsInv,
       LoginTextsInv DEF RepNext

LEMMA RepInvariant == RepSpec => []RepInv
  BY RepInitInv, RepStep, PTL DEF RepSpec

\* No reply outgrows the buffer it was allocated, for any number of
\* credentials of any lengths and every user id.
THEOREM RepliesFit == RepSpec => []ReplyFits
  <1>1. RepInv => ReplyFits
    <2> SUFFICES ASSUME RepInv, repPc = "entries" PROVE ReplyFits
      BY DEF RepInv
    <2>1. /\ textLen.token \in Nat /\ textLen.rp_id \in Nat
          /\ textLen.time \in 1..20 /\ Len(creds) \in Nat
          /\ idx \in Nat /\ idx <= Len(creds) /\ sum \in Nat /\ used \in Nat
      BY TextFacts DEF RepInv, RepTypes, ListProgress
    <2>2. PICK p : /\ Sums(p, Len(creds)) /\ p[Len(creds)] = sum
                   /\ used <= 90 + textLen.token + textLen.rp_id
                                + textLen.time + 30 * idx + p[idx]
      BY DEF RepInv, ListProgress
    <2>3. p[idx] \in Nat /\ p[idx] <= sum
      <3>1. idx \in 0..Len(creds)
        BY <2>1
      <3> QED
        BY <2>2, <3>1 DEF Sums
    <2>4. bufSize = 171 + textLen.token + textLen.rp_id
                      + 32 * Len(creds) + sum
      BY DEF RepInv, ListProgress
    <2> DEFINE a == textLen.token
               b == textLen.rp_id
               m == textLen.time
               n == Len(creds)
               x == p[idx]
    <2>5. /\ a \in Nat /\ b \in Nat /\ m \in 1..20 /\ n \in Nat /\ idx <= n
          /\ x \in Nat /\ x <= sum
          /\ used <= 90 + a + b + m + 30 * idx + x
          /\ bufSize = 171 + a + b + 32 * n + sum
      BY <2>1, <2>2, <2>3, <2>4
    <2> HIDE DEF a, b, m, n, x
    <2>6. used <= bufSize
      BY <2>1, <2>5
    <2> QED
      BY <2>6 DEF ReplyFits
  <1> QED
    BY <1>1, RepInvariant, PTL

\* Whatever bytes a user id is made of, jansson reads the claims exactly when
\* the user id is UTF-8 without a NUL, and then reads that user id.
THEOREM SubjectSurvives == RepSpec => []SubjectRoundTrip
  <1>1. RepInv => SubjectRoundTrip
    <2> SUFFICES ASSUME RepInv, repPc = "cookie"
                 PROVE  /\ Accepts(esc) <=> IsUtf8(user_id) /\ NoNul(user_id)
                        /\ Accepts(esc) => ReadBack(esc).text.out = user_id
      BY DEF SubjectRoundTrip
    <2>1. ReadBack(esc) = At(Plain(user_id), ReadBack(user_id).more)
      BY DEF RepInv, EscapeProgress, Means, ReadsAs
    <2>2. /\ ReadBack(esc).text = Plain(user_id)
          /\ ReadBack(esc).more = ReadBack(user_id).more
      BY <2>1 DEF At
    <2>3. /\ ReadBack(esc).text.esc = <<>>
          /\ ReadBack(esc).text.out = user_id
      BY <2>2 DEF Plain
    <2> QED
      BY <2>2, <2>3, Zenon DEF Accepts, IsUtf8
  <1> QED
    BY <1>1, RepInvariant, PTL

-----------------------------------------------------------------------------
(* The CLI's memory pool: no double free, and cleanups before frees.       *)

Distinct(q) == \A j, k \in 1..Len(q) : q[j] = q[k] => j = k

PoolTypes ==
  /\ stage \in {"live", "cleanup", "free", "destroyed"}
  /\ large \in Seq(Blk) /\ order \in Nat /\ ran \in Seq(Nat)
  /\ cleanup \in Seq([data : Blk \cup {NoData}, handler : BOOLEAN, n : Nat])

\* The list holds every block it owns once, and nothing else.
LinksSound ==
  /\ bad = FALSE /\ Distinct(large)
  /\ \A j \in 1..Len(large) : large[j] \in live

BlocksKept ==
  /\ stage \in {"live", "cleanup"} => kept \subseteq live
  /\ stage \in {"free", "destroyed"} => cleanup = <<>>

\* The cleanups are numbered downwards, and below those that have run.
CleanupsLifo ==
  /\ stage = "live" => ran = <<>>
  /\ \A j \in 1..Len(cleanup) : cleanup[j].n < order
  /\ \A j, k \in 1..Len(cleanup) : j < k => cleanup[j].n > cleanup[k].n
  /\ \A j \in 1..Len(ran), k \in 1..Len(cleanup) : ran[j] > cleanup[k].n
  /\ \A j, k \in 1..Len(ran) : j < k => ran[j] > ran[k]

PoolInv == PoolTypes /\ LinksSound /\ BlocksKept /\ CleanupsLifo

\* The length of a concatenation.
LEMMA LenConcat ==
  ASSUME NEW S, NEW x \in Seq(S), NEW y \in Seq(S)
  PROVE  Len(x \o y) = Len(x) + Len(y)
OBVIOUS

\* Removing the one link to b leaves the others.
LEMMA UnlinkOne ==
  ASSUME NEW q \in Seq(Blk), NEW b, Distinct(q), Contains(q, b)
  PROVE  /\ Unlink(q, b) \in Seq(Blk) /\ Distinct(Unlink(q, b))
         /\ \A j \in 1..Len(Unlink(q, b)) :
              /\ Unlink(q, b)[j] # b
              /\ \E k \in 1..Len(q) : Unlink(q, b)[j] = q[k]
  <1> DEFINE I == {j \in 1..Len(q) : q[j] = b}
             i == Min(I)
             t == Unlink(q, b)
             m == Len(q)
  <1>1. I \in SUBSET Nat /\ I # {}
    BY DEF Contains
  <1>2. i \in I
    <2>1. \E x \in I : \A y \in I : x <= y
      BY <1>1, LeastElement
    <2> HIDE DEF I
    <2> QED
      BY <2>1, Zenon DEF Min
  <1>3. t = SubSeq(q, 1, i - 1) \o SubSeq(q, i + 1, m)
    <2>1. \E j \in 1..Len(q) : q[j] = b
      BY DEF Contains
    <2>2. Unlink(q, b) = RemoveAt(q, SelectInSeq(q, LAMBDA v : v = b))
      BY <2>1 DEF Unlink, RemoveFirst
    <2>3. SelectInSeq(q, LAMBDA v : v = b) = i
      BY <1>1 DEF SelectInSeq
    <2> QED
      BY <2>2, <2>3 DEF RemoveAt
  <1>4. i \in 1..m /\ q[i] = b /\ m \in Nat
    BY <1>2
  <1> HIDE DEF I, i, t
  <1>5. /\ t \in Seq(Blk) /\ Len(t) = m - 1
        /\ \A j \in 1..(m - 1) : t[j] = IF j < i THEN q[j] ELSE q[j + 1]
    <2> DEFINE l == SubSeq(q, 1, i - 1)
               r == SubSeq(q, i + 1, m)
    <2>1. /\ l \in Seq(Blk) /\ Len(l) = i - 1
          /\ \A j \in 1..(i - 1) : l[j] = q[j]
      BY <1>4
    <2>2. /\ r \in Seq(Blk) /\ Len(r) = m - i
          /\ \A j \in 1..(m - i) : r[j] = q[i + j]
      BY <1>4
    <2> HIDE DEF l, r
    <2>3. t = l \o r
      BY <1>3 DEF l, r
    <2>4. t \in Seq(Blk) /\ Len(t) = (i - 1) + (m - i)
      <3>1. t \in Seq(Blk)
        BY <2>1, <2>2, <2>3
      <3>2. Len(t) = Len(l) + Len(r)
        BY <2>1, <2>2, <2>3, LenConcat
      <3> QED
        BY <2>1, <2>2, <3>1, <3>2
    <2>5. \A j \in 1..(i - 1) : t[j] = l[j]
      BY <1>4, <2>1, <2>2, <2>3
    <2>6. \A j \in 1..(m - i) : t[(i - 1) + j] = r[j]
      BY <1>4, <2>1, <2>2, <2>3
    <2>7. ASSUME NEW j \in 1..(m - 1)
          PROVE  t[j] = IF j < i THEN q[j] ELSE q[j + 1]
      <3>1. CASE j < i
        BY <1>4, <2>1, <2>5, <3>1
      <3>2. CASE ~(j < i)
        <4>1. PICK k \in 1..(m - i) : j = (i - 1) + k /\ i + k = j + 1
          <5>1. j - i + 1 \in 1..(m - i) /\ j = (i - 1) + (j - i + 1)
                /\ i + (j - i + 1) = j + 1
            BY <1>4, <2>7, <3>2
          <5> QED
            BY <5>1
        <4> QED
          BY <2>2, <2>6, <3>2, <4>1
      <3> QED
        BY <3>1, <3>2
    <2>8. (i - 1) + (m - i) = m - 1
      <3> HIDE DEF m
      <3> QED
        BY <1>4
    <2> QED
      BY <2>4, <2>7, <2>8, Zenon
  <1>6. Distinct(t)
    <2> SUFFICES ASSUME NEW j \in 1..(m - 1), NEW k \in 1..(m - 1), t[j] = t[k]
                 PROVE  j = k
      BY <1>5 DEF Distinct
    <2> DEFINE p(x) == IF x < i THEN x ELSE x + 1
    <2>1. p(j) \in 1..m /\ p(k) \in 1..m /\ (p(j) = p(k) => j = k)
      BY <1>4
    <2>2. t[j] = q[p(j)] /\ t[k] = q[p(k)]
      BY <1>5
    <2> HIDE DEF p
    <2> QED
      BY <2>1, <2>2 DEF Distinct
  <1>7. ASSUME NEW j \in 1..(m - 1)
        PROVE  t[j] # b /\ \E k \in 1..m : t[j] = q[k]
    <2> DEFINE p == IF j < i THEN j ELSE j + 1
    <2>1. p \in 1..m /\ p # i
      BY <1>4
    <2>2. t[j] = q[p]
      BY <1>5
    <2> HIDE DEF p
    <2> QED
      BY <1>4, <2>1, <2>2 DEF Distinct
  <1> QED
    BY <1>5, <1>6, <1>7 DEF t

LEMMA PrependFacts ==
  ASSUME NEW S, NEW q \in Seq(S), NEW x \in S
  PROVE  /\ <<x>> \o q \in Seq(S) /\ Len(<<x>> \o q) = Len(q) + 1
         /\ (<<x>> \o q)[1] = x
         /\ \A j \in 1..Len(q) : (<<x>> \o q)[j + 1] = q[j]
  <1>1. <<x>> \in Seq(S) /\ Len(<<x>>) = 1
    OBVIOUS
  <1>2. <<x>> \o q \in Seq(S)
    BY <1>1
  <1>3. Len(<<x>> \o q) = Len(q) + 1
    BY <1>1
  <1>4. (<<x>> \o q)[1] = x
    BY <1>1
  <1>5. \A j \in 1..Len(q) : (<<x>> \o q)[j + 1] = q[j]
    BY <1>1
  <1> QED
    BY <1>2, <1>3, <1>4, <1>5

LEMMA TailFacts ==
  ASSUME NEW S, NEW q \in Seq(S), q # <<>>
  PROVE  /\ Tail(q) \in Seq(S) /\ Len(Tail(q)) = Len(q) - 1
         /\ Len(q) \in Nat \ {0} /\ Head(q) = q[1]
         /\ \A j \in 1..(Len(q) - 1) : Tail(q)[j] = q[j + 1]
  OBVIOUS

LEMMA PoolInitInv == PoolInit => PoolInv
  BY DEF PoolInit, PoolInv, PoolTypes, LinksSound, BlocksKept, CleanupsLifo,
         Distinct

LEMMA PallocInv ==
  ASSUME PoolInv, NEW b \in Blk, ngx_palloc(b)
  PROVE  PoolInv'
  <1>1. /\ large \in Seq(Blk) /\ Len(large) \in Nat /\ Distinct(large)
        /\ bad = FALSE /\ \A j \in 1..Len(large) : large[j] \in live
    BY DEF PoolInv, PoolTypes, LinksSound
  <1>2. /\ stage = "live" /\ b \notin live /\ live' = live \cup {b}
        /\ large' = <<b>> \o large /\ kept' = kept \cup {b}
        /\ UNCHANGED <<stage, cleanup, order, ran, bad>>
    BY DEF ngx_palloc, malloc
  <1>3. /\ large' \in Seq(Blk) /\ Len(large') = Len(large) + 1
        /\ large'[1] = b
        /\ \A j \in 1..Len(large) : large'[j + 1] = large[j]
    BY <1>1, <1>2, PrependFacts
  <1>4. \A j \in 1..Len(large') :
          j = 1 \/ (j - 1 \in 1..Len(large) /\ large'[j] = large[j - 1])
    <2> SUFFICES ASSUME NEW j \in 1..Len(large'), j # 1
                 PROVE  j - 1 \in 1..Len(large) /\ large'[j] = large[j - 1]
      OBVIOUS
    <2>1. j - 1 \in 1..Len(large) /\ (j - 1) + 1 = j
      BY <1>1, <1>3
    <2>2. large'[(j - 1) + 1] = large[j - 1]
      BY <1>3, <2>1
    <2> QED
      BY <2>1, <2>2
  <1>5. Distinct(large')
    <2> SUFFICES ASSUME NEW j \in 1..Len(large'), NEW k \in 1..Len(large'),
                        large'[j] = large'[k]
                 PROVE  j = k
      BY DEF Distinct
    <2>1. CASE j = 1 \/ k = 1
      <3>1. j # 1 => large'[j] \in live
        BY <1>1, <1>4
      <3>2. k # 1 => large'[k] \in live
        BY <1>1, <1>4
      <3> QED
        BY <1>2, <1>3, <2>1, <3>1, <3>2
    <2>2. CASE j # 1 /\ k # 1
      <3>1. /\ j - 1 \in 1..Len(large) /\ k - 1 \in 1..Len(large)
            /\ large[j - 1] = large[k - 1]
        BY <1>4, <2>2
      <3>2. j - 1 = k - 1
        BY <1>1, <3>1 DEF Distinct
      <3> QED
        BY <1>1, <1>3, <3>2
    <2> QED
      BY <2>1, <2>2
  <1>6. \A j \in 1..Len(large') : large'[j] \in live'
    BY <1>1, <1>2, <1>3, <1>4
  <1>7. Distinct(large)' /\ bad' = FALSE
    BY <1>1, <1>2, <1>5 DEF Distinct
  <1> QED
    BY <1>2, <1>3, <1>6, <1>7
    DEF PoolInv, PoolTypes, LinksSound, BlocksKept, CleanupsLifo

LEMMA PfreeInv ==
  ASSUME PoolInv, NEW b \in Blk, ngx_pfree(b)
  PROVE  PoolInv'
  <1>1. /\ large \in Seq(Blk) /\ Distinct(large)
        /\ bad = FALSE /\ \A j \in 1..Len(large) : large[j] \in live
    BY DEF PoolInv, PoolTypes, LinksSound
  <1>2. /\ stage = "live" /\ Contains(large, b) /\ live' = live \ {b}
        /\ large' = Unlink(large, b) /\ kept' = kept \ {b}
        /\ UNCHANGED <<stage, cleanup, order, ran>>
        /\ bad' = (bad \/ b \notin live)
    BY DEF ngx_pfree, free
  <1>3. b \in live
    BY <1>1, <1>2 DEF Contains
  <1>4. bad' = FALSE
    BY <1>1, <1>2, <1>3
  <1>5. /\ large' \in Seq(Blk) /\ Distinct(large')
        /\ \A j \in 1..Len(large') :
             large'[j] # b /\ \E k \in 1..Len(large) : large'[j] = large[k]
    BY <1>1, <1>2, UnlinkOne
  <1>6. \A j \in 1..Len(large') : large'[j] \in live'
    BY <1>1, <1>2, <1>5
  <1>7. Distinct(large)'
    BY <1>5 DEF Distinct
  <1> QED
    BY <1>2, <1>4, <1>5, <1>6, <1>7
    DEF PoolInv, PoolTypes, LinksSound, BlocksKept, CleanupsLifo

LEMMA CleanupAddInv ==
  ASSUME PoolInv, NEW d \in Blk \cup {NoData}, NEW h \in BOOLEAN,
         ngx_pool_cleanup_add(d, h)
  PROVE  PoolInv'
  <1> DEFINE Rec == [data : Blk \cup {NoData}, handler : BOOLEAN, n : Nat]
             new == [data |-> d, handler |-> h, n |-> order]
  <1>1. /\ cleanup \in Seq(Rec) /\ order \in Nat /\ Len(cleanup) \in Nat
    BY DEF PoolInv, PoolTypes
  <1>2. /\ stage = "live" /\ cleanup' = <<new>> \o cleanup
        /\ order' = order + 1 /\ live \subseteq live'
        /\ UNCHANGED <<stage, large, ran, kept, bad>>
    BY DEF ngx_pool_cleanup_add
  <1>3. new \in Rec /\ new.n = order
    BY <1>1
  <1> HIDE DEF Rec, new
  <1>4. /\ cleanup' \in Seq(Rec) /\ Len(cleanup') = Len(cleanup) + 1
        /\ cleanup'[1] = new
        /\ \A j \in 1..Len(cleanup) : cleanup'[j + 1] = cleanup[j]
    BY <1>1, <1>2, <1>3, PrependFacts
  <1>5. \A j \in 1..Len(cleanup) : cleanup[j].n \in Nat /\ cleanup[j].n < order
    <2>1. \A j \in 1..Len(cleanup) : cleanup[j] \in Rec
      BY <1>1
    <2>2. \A r \in Rec : r.n \in Nat
      BY DEF Rec
    <2> QED
      BY <2>1, <2>2 DEF PoolInv, CleanupsLifo
  <1>6. \A j \in 1..Len(cleanup') :
          \/ j = 1 /\ cleanup'[j].n = order
          \/ /\ j > 1 /\ j - 1 \in 1..Len(cleanup)
             /\ cleanup'[j].n = cleanup[j - 1].n
    <2> SUFFICES ASSUME NEW j \in 1..Len(cleanup'), j # 1
                 PROVE  /\ j > 1 /\ j - 1 \in 1..Len(cleanup)
                        /\ cleanup'[j].n = cleanup[j - 1].n
      BY <1>3, <1>4
    <2>1. j > 1 /\ j - 1 \in 1..Len(cleanup) /\ (j - 1) + 1 = j
      BY <1>1, <1>4
    <2>2. cleanup'[(j - 1) + 1] = cleanup[j - 1]
      BY <1>4, <2>1
    <2> QED
      BY <2>1, <2>2
  <1>7. \A j \in 1..Len(cleanup') : cleanup'[j].n < order'
    BY <1>1, <1>2, <1>5, <1>6
  <1>8. ASSUME NEW j \in 1..Len(cleanup'), NEW k \in 1..Len(cleanup'), j < k
        PROVE  cleanup'[j].n > cleanup'[k].n
    <2>1. /\ k > 1 /\ k - 1 \in 1..Len(cleanup)
          /\ cleanup'[k].n = cleanup[k - 1].n
      BY <1>1, <1>4, <1>6, <1>8
    <2>2. CASE j = 1
      <3>1. cleanup'[j].n = order
        BY <1>6, <2>2
      <3> QED
        BY <1>1, <1>5, <2>1, <3>1
    <2>3. CASE j # 1
      <3>1. j - 1 \in 1..Len(cleanup) /\ cleanup'[j].n = cleanup[j - 1].n
        BY <1>6, <2>3
      <3>2. j - 1 < k - 1
        BY <1>1, <1>4, <1>8
      <3>3. cleanup[j - 1].n > cleanup[k - 1].n
        BY <2>1, <3>1, <3>2 DEF PoolInv, CleanupsLifo
      <3> QED
        BY <2>1, <3>1, <3>3
    <2> QED
      BY <2>2, <2>3
  <1>9. ran' = <<>> /\ Len(ran') = 0
    BY <1>2 DEF PoolInv, CleanupsLifo
  <1>10. CleanupsLifo'
    BY <1>7, <1>8, <1>9 DEF CleanupsLifo
  <1>11. PoolTypes'
    BY <1>1, <1>2, <1>4 DEF PoolInv, PoolTypes, Rec
  <1>12. LinksSound'
    BY <1>2 DEF PoolInv, LinksSound, Distinct
  <1>13. BlocksKept'
    BY <1>2 DEF PoolInv, BlocksKept
  <1> QED
    BY <1>10, <1>11, <1>12, <1>13 DEF PoolInv

LEMMA RunCleanupInv == PoolInv /\ RunCleanup => PoolInv'
  <1> SUFFICES ASSUME PoolInv, RunCleanup PROVE PoolInv'
    OBVIOUS
  <1> DEFINE Rec == [data : Blk \cup {NoData}, handler : BOOLEAN, n : Nat]
             m == Len(cleanup)
             first == cleanup[1].n
  <1>1. cleanup \in Seq(Rec) /\ ran \in Seq(Nat) /\ cleanup # <<>>
        /\ stage = "cleanup" /\ cleanup' = Tail(cleanup)
        /\ UNCHANGED <<stage, live, large, order, kept, bad>>
    BY DEF PoolInv, PoolTypes, RunCleanup
  <1> HIDE DEF Rec
  <1>2. /\ cleanup' \in Seq(Rec) /\ Len(cleanup') = m - 1 /\ m \in Nat \ {0}
        /\ Head(cleanup) = cleanup[1]
        /\ \A j \in 1..(m - 1) : cleanup'[j] = cleanup[j + 1]
    BY <1>1, TailFacts
  <1>3. \A j \in 1..m : cleanup[j].n \in Nat
    <2>1. \A j \in 1..m : cleanup[j] \in Rec
      BY <1>1
    <2> QED
      BY <2>1 DEF Rec
  <1>4. first \in Nat /\ Len(ran) \in Nat
    BY <1>1, <1>2, <1>3
  <1>5. \/ ran' = ran
        \/ ran' = Append(ran, first)
    BY <1>2 DEF RunCleanup
  <1>6. /\ \A j, k \in 1..m : j < k => cleanup[j].n > cleanup[k].n
        /\ \A j \in 1..m : cleanup[j].n < order
        /\ \A j \in 1..Len(ran), k \in 1..m : ran[j] > cleanup[k].n
        /\ \A j, k \in 1..Len(ran) : j < k => ran[j] > ran[k]
    BY DEF PoolInv, CleanupsLifo
  <1>7. \A k \in 1..(m - 1) :
          /\ k + 1 \in 1..m /\ cleanup'[k].n = cleanup[k + 1].n
          /\ first > cleanup'[k].n
    <2> SUFFICES ASSUME NEW k \in 1..(m - 1)
                 PROVE  /\ k + 1 \in 1..m /\ cleanup'[k].n = cleanup[k + 1].n
                        /\ first > cleanup'[k].n
      OBVIOUS
    <2>1. k + 1 \in 1..m /\ 1 \in 1..m /\ 1 < k + 1
      BY <1>2
    <2> QED
      BY <1>2, <1>6, <2>1
  <1>8. /\ \A j \in 1..Len(cleanup') : cleanup'[j].n < order'
        /\ \A j, k \in 1..Len(cleanup') : j < k => cleanup'[j].n > cleanup'[k].n
    <2>1. \A j \in 1..(m - 1) : cleanup'[j].n < order
      BY <1>6, <1>7
    <2>2. ASSUME NEW j \in 1..(m - 1), NEW k \in 1..(m - 1), j < k
          PROVE  cleanup'[j].n > cleanup'[k].n
      <3>1. j + 1 < k + 1
        BY <1>2, <2>2
      <3> QED
        BY <1>6, <1>7, <3>1
    <2> QED
      BY <1>1, <1>2, <2>1, <2>2
  <1>9. /\ ran' \in Seq(Nat)
        /\ \A j \in 1..Len(ran') :
             \/ j \in 1..Len(ran) /\ ran'[j] = ran[j]
             \/ j = Len(ran) + 1 /\ ran'[j] = first
    <2>1. CASE ran' = ran
      BY <1>1, <2>1
    <2>2. CASE ran' = Append(ran, first)
      <3>1. /\ ran' \in Seq(Nat) /\ Len(ran') = Len(ran) + 1
            /\ ran'[Len(ran) + 1] = first
            /\ \A j \in 1..Len(ran) : ran'[j] = ran[j]
        BY <1>1, <1>4, <2>2
      <3>2. \A j \in 1..(Len(ran) + 1) : j \in 1..Len(ran) \/ j = Len(ran) + 1
        BY <1>4
      <3> QED
        BY <3>1, <3>2
    <2> QED
      BY <1>5, <2>1, <2>2
  <1>10. \A j \in 1..Len(ran'), k \in 1..Len(cleanup') : ran'[j] > cleanup'[k].n
    BY <1>2, <1>6, <1>7, <1>9
  <1>11. ASSUME NEW j \in 1..Len(ran'), NEW k \in 1..Len(ran'), j < k
         PROVE  ran'[j] > ran'[k]
    <2>1. j \in 1..Len(ran) /\ ran'[j] = ran[j]
      <3>1. Len(ran') <= Len(ran) + 1 /\ Len(ran') \in Nat
        BY <1>1, <1>4, <1>5
      <3>2. j # Len(ran) + 1
        BY <1>4, <1>11, <3>1
      <3> QED
        BY <1>9, <3>2
    <2>2. CASE k \in 1..Len(ran) /\ ran'[k] = ran[k]
      BY <1>6, <1>11, <2>1, <2>2
    <2>3. CASE ran'[k] = first
      <3>1. 1 \in 1..m
        BY <1>2
      <3> QED
        BY <1>6, <2>1, <2>3, <3>1
    <2> QED
      BY <1>9, <2>2, <2>3
  <1>12. CleanupsLifo'
    BY <1>1, <1>8, <1>10, <1>11 DEF CleanupsLifo
  <1>13. PoolTypes'
    BY <1>1, <1>2, <1>9 DEF PoolInv, PoolTypes, Rec
  <1>14. LinksSound' /\ BlocksKept'
    BY <1>1 DEF PoolInv, LinksSound, Distinct, BlocksKept
  <1> QED
    BY <1>12, <1>13, <1>14 DEF PoolInv

LEMMA FreeLargeInv == PoolInv /\ FreeLarge => PoolInv'
  <1> SUFFICES ASSUME PoolInv, FreeLarge PROVE PoolInv'
    OBVIOUS
  <1> DEFINE b == Head(large)
             m == Len(large)
  <1>1. /\ large \in Seq(Blk) /\ Distinct(large) /\ large # <<>>
        /\ bad = FALSE /\ \A j \in 1..m : large[j] \in live
        /\ stage = "free" /\ large' = Tail(large) /\ live' = live \ {b}
        /\ bad' = (bad \/ b \notin live)
        /\ UNCHANGED <<stage, cleanup, order, ran, kept>>
    BY DEF PoolInv, PoolTypes, LinksSound, FreeLarge, free
  <1>2. /\ large' \in Seq(Blk) /\ Len(large') = m - 1 /\ m \in Nat \ {0}
        /\ b = large[1] /\ \A j \in 1..(m - 1) : large'[j] = large[j + 1]
    BY <1>1, TailFacts
  <1> HIDE DEF b, m
  <1>3. b \in live
    BY <1>1, <1>2
  <1>4. bad' = FALSE
    BY <1>1, <1>3
  <1>5. \A j \in 1..(m - 1) : j + 1 \in 1..m /\ j + 1 # 1 /\ 1 \in 1..m
    BY <1>2
  <1>6. \A j \in 1..Len(large') : large'[j] \in live'
    BY <1>1, <1>2, <1>5 DEF Distinct, m
  <1>7. Distinct(large)'
    <2> SUFFICES ASSUME NEW j \in 1..(m - 1), NEW k \in 1..(m - 1),
                        large'[j] = large'[k]
                 PROVE  j = k
      BY <1>2 DEF Distinct
    <2>1. j + 1 = k + 1
      BY <1>1, <1>2, <1>5 DEF Distinct, m
    <2> QED
      BY <1>2, <2>1
  <1> QED
    BY <1>1, <1>2, <1>4, <1>6, <1>7
    DEF PoolInv, PoolTypes, LinksSound, BlocksKept, CleanupsLifo

LEMMA PoolStep == PoolInv /\ [PoolNext]_poolVars => PoolInv'
  <1> SUFFICES ASSUME PoolInv, [PoolNext]_poolVars PROVE PoolInv'
    OBVIOUS
  <1>1. ASSUME ngx_destroy_pool \/ CleanupsDone \/ Destroyed
               \/ UNCHANGED poolVars
        PROVE  PoolInv'
    <2>1. /\ UNCHANGED <<live, large, cleanup, order, ran, kept, bad>>
          /\ \/ stage' = stage
             \/ stage = "live" /\ stage' = "cleanup"
             \/ stage = "cleanup" /\ stage' = "free" /\ cleanup = <<>>
             \/ stage = "free" /\ stage' = "destroyed"
      BY <1>1 DEF ngx_destroy_pool, CleanupsDone, Destroyed, poolVars
    <2>2. PoolTypes' /\ LinksSound' /\ BlocksKept'
      BY <2>1 DEF PoolInv, PoolTypes, LinksSound, Distinct, BlocksKept
    <2>3. CleanupsLifo'
      BY <2>1 DEF PoolInv, CleanupsLifo
    <2> QED
      BY <2>2, <2>3 DEF PoolInv
  <1> QED
    BY <1>1, PallocInv, PfreeInv, CleanupAddInv, RunCleanupInv, FreeLargeInv
    DEF PoolNext

\* For any blocks and any number of cleanups: nothing is freed twice, what a
\* cleanup may use is still allocated when it runs, and cleanups run in LIFO
\* order.
THEOREM PoolIsSound == PoolSpec => []PoolSound
  <1>1. PoolInv => PoolSound
    <2> SUFFICES ASSUME PoolInv PROVE PoolSound
      OBVIOUS
    <2>1. DOMAIN large = 1..Len(large) /\ DOMAIN ran = 1..Len(ran)
      BY DEF PoolInv, PoolTypes
    <2>2. ~bad /\ \A j \in DOMAIN large : large[j] \in live
      BY <2>1 DEF PoolInv, LinksSound
    <2>3. cleanup # <<>> => kept \subseteq live
      BY DEF PoolInv, PoolTypes, BlocksKept
    <2>4. \A j, k \in DOMAIN ran : j < k => ran[j] > ran[k]
      BY <2>1 DEF PoolInv, CleanupsLifo
    <2> QED
      BY <2>2, <2>3, <2>4 DEF PoolSound
  <1> QED
    BY <1>1, PoolInitInv, PoolStep, PTL DEF PoolSpec
-----------------------------------------------------------------------------
(* What atoi64 reads, and the text snprintf writes.                        *)

\* The recursion that defines the magnitudes of the first j characters.
MagnitudeRun(t, j, f) ==
  f = [n \in 0..j |-> IF n <= SignLen(t) THEN 0
                      ELSE 10 * f[n - 1] + (t[n] - Zero)]

LEMMA MagnitudeExists ==
  ASSUME NEW t, NEW j \in Nat
  PROVE  \E f : MagnitudeRun(t, j, f)
  <1> DEFINE Fails(i) == ~ \E f : MagnitudeRun(t, i, f)
             T == {i \in Nat : Fails(i)}
  <1> SUFFICES ASSUME Fails(j) PROVE FALSE
    OBVIOUS
  <1>1. PICK i \in T : \A y \in T : i <= y
    <2>1. j \in T
      OBVIOUS
    <2>2. T \in SUBSET Nat /\ T # {}
      BY <2>1
    <2> HIDE DEF T
    <2> QED
      BY <2>2, LeastElement
  <1>2. i \in Nat /\ Fails(i)
    BY <1>1
  <1>3. i # 0
    <2> DEFINE f == [n \in 0..0 |-> 0]
    <2>1. SignLen(t) \in {0, 1}
      BY DEF SignLen
    <2>2. MagnitudeRun(t, 0, f)
      BY <2>1 DEF MagnitudeRun
    <2>3. ~Fails(0)
      BY <2>2
    <2> QED
      BY <1>2, <2>3
  <1>4. i - 1 \in Nat /\ ~Fails(i - 1)
    BY <1>1, <1>2, <1>3
  <1>5. PICK f : MagnitudeRun(t, i - 1, f)
    BY <1>4
  <1> DEFINE v(n, q) == IF n <= SignLen(t) THEN 0
                        ELSE 10 * q + (t[n] - Zero)
             h == [n \in 0..i |-> IF n = i THEN v(i, f[i - 1]) ELSE f[n]]
  <1>6. \A n \in 0..(i - 1) : f[n] = v(n, f[n - 1])
    BY <1>5 DEF MagnitudeRun
  <1>7. \A n \in 0..i : h[n] = v(n, h[n - 1])
    <2> SUFFICES ASSUME NEW n \in 0..i PROVE h[n] = v(n, h[n - 1])
      OBVIOUS
    <2> HIDE DEF v
    <2>1. CASE n = i
      <3>1. h[n] = v(i, f[i - 1]) /\ h[n - 1] = f[i - 1]
        BY <1>2, <1>3, <2>1
      <3> QED
        BY <2>1, <3>1
    <2>2. CASE n # i /\ n # 0
      <3>1. n \in 0..(i - 1) /\ h[n] = f[n] /\ h[n - 1] = f[n - 1]
        BY <1>2, <2>2
      <3> QED
        BY <1>6, <3>1
    <2>3. CASE n # i /\ n = 0
      <3>1. h[0] = f[0] /\ f[0] = v(0, f[0 - 1])
        BY <1>2, <1>3, <1>6
      <3>2. \A q : v(0, q) = 0
        BY DEF v, SignLen
      <3> QED
        BY <2>3, <3>1, <3>2
    <2> QED
      BY <2>1, <2>2, <2>3
  <1>8. MagnitudeRun(t, i, h)
    <2> DEFINE u == [n \in 0..i |-> v(n, h[n - 1])]
    <2>1. \A n \in 0..i : h[n] = u[n]
      BY <1>7
    <2>2. h = u
      <3> HIDE DEF v
      <3>1. DOMAIN h = 0..i /\ DOMAIN u = 0..i
        OBVIOUS
      <3>2. h = [n \in 0..i |-> h[n]] /\ u = [n \in 0..i |-> u[n]]
        OBVIOUS
      <3> HIDE DEF h, u
      <3> QED
        BY <2>1, <3>2
    <2> HIDE DEF h
    <2> QED
      BY <2>2 DEF MagnitudeRun
  <1> QED
    BY <1>2, <1>8

\* The magnitudes of a text, character by character.
LEMMA MagnitudeSteps ==
  ASSUME NEW t \in Seq(0..255)
  PROVE  \A n \in 0..Len(t) :
           Magnitudes(t)[n] = IF n <= SignLen(t) THEN 0
                              ELSE 10 * Magnitudes(t)[n - 1] + (t[n] - Zero)
  <1> DEFINE Run(f) == MagnitudeRun(t, Len(t), f)
             m == Magnitudes(t)
  <1>1. m = CHOOSE f : Run(f)
    BY DEF Magnitudes, MagnitudeRun
  <1>2. \E f : Run(f)
    <2>1. Len(t) \in Nat
      OBVIOUS
    <2> QED
      BY <2>1, MagnitudeExists
  <1> HIDE DEF Run, m
  <1>3. Run(m)
    BY <1>1, <1>2, Zenon
  <1>4. m = [n \in 0..Len(t) |-> IF n <= SignLen(t) THEN 0
                                 ELSE 10 * m[n - 1] + (t[n] - Zero)]
    BY <1>3 DEF Run, MagnitudeRun
  <1>5. \A n \in 0..Len(t) : m[n] = IF n <= SignLen(t) THEN 0
                                    ELSE 10 * m[n - 1] + (t[n] - Zero)
    BY <1>4, Zenon
  <1> QED
    BY <1>5 DEF m

\* Digits only ever make a magnitude larger.
LEMMA MagnitudeGrows ==
  ASSUME NEW t \in Seq(0..255), NEW i \in Nat, NEW j \in Nat,
         SignLen(t) <= i, i <= j, j <= Len(t),
         Magnitudes(t)[i] \in Nat,
         \A k \in (i + 1)..j : IsDigit(t[k])
  PROVE  Magnitudes(t)[j] \in Nat /\ Magnitudes(t)[i] <= Magnitudes(t)[j]
  <1> DEFINE m == Magnitudes(t)
             Holds(n) == m[n] \in Nat /\ m[i] <= m[n]
             T == {n \in i..j : ~Holds(n)}
  <1> SUFFICES ASSUME ~Holds(j) PROVE FALSE
    OBVIOUS
  <1>1. PICK n \in T : \A y \in T : n <= y
    <2>1. T \in SUBSET Nat /\ j \in T
      OBVIOUS
    <2> HIDE DEF T
    <2> QED
      BY <2>1, LeastElement
  <1>2. n \in i..j /\ ~Holds(n)
    BY <1>1
  <1>3. n # i
    BY <1>2
  <1>4. n - 1 \in i..j /\ n - 1 \notin T
    BY <1>1, <1>2, <1>3
  <1>5. Holds(n - 1)
    BY <1>4
  <1>6. n \in 0..Len(t) /\ ~(n <= SignLen(t)) /\ n \in (i + 1)..j
    BY <1>2, <1>3 DEF SignLen
  <1>7. m[n] = 10 * m[n - 1] + (t[n] - Zero)
    BY <1>6, MagnitudeSteps
  <1>8. t[n] - Zero \in 0..9
    BY <1>6 DEF IsDigit, Zero
  <1> DEFINE a == m[n - 1]
             d == t[n] - Zero
  <1>9. a \in Nat /\ m[i] <= a /\ m[i] \in Nat /\ d \in 0..9 /\ m[n] = 10 * a + d
    BY <1>5, <1>7, <1>8
  <1> HIDE DEF a, d, m
  <1>10. m[n] \in Nat /\ m[i] <= m[n]
    BY <1>9
  <1> QED
    BY <1>2, <1>10

\* The conversions at the end of atoi64 give the number, INT64_MIN included.
LEMMA ParsedFacts ==
  ASSUME neg \in BOOLEAN, acc \in Nat, acc <= limit
  PROVE  Parsed = IF neg THEN -acc ELSE acc
  <1>1. Word \in Nat /\ Word = 2 * IntMax + 2 /\ IntMax \in Nat
    BY WidthAssumption DEF Word
  <1> HIDE DEF Word
  <1>2. CASE ~neg
    BY <1>1, <1>2 DEF Parsed, ToSigned, limit
  <1>3. CASE neg /\ acc <= IntMax
    <2>1. ToSigned(acc) = acc
      BY <1>1, <1>3 DEF ToSigned
    <2>2. CASE acc = 0
      <3>1. (-acc) % Word = 0
        BY <1>1, <2>2
      <3> QED
        BY <1>1, <1>3, <2>1, <2>2, <3>1 DEF Parsed, ToSigned, Unsigned
    <2>3. CASE acc > 0
      <3>1. (-acc) % Word = Word - acc
        BY <1>1, <1>3, <2>3
      <3> QED
        BY <1>1, <1>3, <2>1, <2>3, <3>1 DEF Parsed, ToSigned, Unsigned
    <2> QED
      BY <2>2, <2>3
  <1>4. CASE neg /\ acc = IntMax + 1
    <2>1. ToSigned(acc) = -acc
      BY <1>1, <1>4 DEF ToSigned
    <2>2. acc % Word = acc
      BY <1>1, <1>4
    <2>3. -(-acc) = acc
      OBVIOUS
    <2> QED
      BY <1>1, <1>4, <2>1, <2>2, <2>3 DEF Parsed, ToSigned, Unsigned
  <1> QED
    BY <1>1, <1>2, <1>3, <1>4 DEF limit

\* The digit loop has read digits only, and their magnitude is exact; it gives
\* up only on a text that is no numeral of an int64.
Int64Numeral(t) == Numeral(t) /\ Denotes(t) \in (-IntMax - 1)..IntMax

ReadSoFar ==
  /\ value \in Seq(0..255) /\ readPos \in 0..Len(value)
  /\ rc \in {"run", "NGX_OK", "NGX_ERROR"}
  /\ neg => SignLen(value) = 1 /\ Len(value) > 1 /\ readPos >= 1
  /\ ~neg /\ readPos > 0 => SignLen(value) = 0
  /\ \A k \in (SignLen(value) + 1)..readPos : IsDigit(value[k])
  /\ exact = Magnitudes(value)[readPos]
  /\ rc = "NGX_OK" => readPos = Len(value) /\ readPos > 0
  /\ rc = "NGX_ERROR" => ~Int64Numeral(value)

LEMMA SignRead == ReadSoFar /\ Sign => ReadSoFar'
  <1> SUFFICES ASSUME ReadSoFar, Sign PROVE ReadSoFar'
    OBVIOUS
  <1>1. /\ readPos = 0 /\ value' = value /\ exact' = exact
        /\ value \in Seq(0..255) /\ Len(value) \in Nat /\ rc = "run" /\ ~neg
        /\ exact = Magnitudes(value)[0]
    BY DEF ReadSoFar, Sign
  <1>2. CASE value = <<>> \/ value = <<Hyphen>>
    <2>1. ~Numeral(value)
      BY <1>2 DEF Numeral, SignLen
    <2>2. rc' = "NGX_ERROR" /\ UNCHANGED <<readPos, neg, value, exact>>
      BY <1>1, <1>2 DEF Sign
    <2> QED
      BY <2>1, <2>2 DEF ReadSoFar, Int64Numeral
  <1>3. CASE ~(value = <<>> \/ value = <<Hyphen>>)
    <2>1. value[1] = Hyphen /\ neg' = TRUE /\ readPos' = 1 /\ rc' = rc
      BY <1>3 DEF Sign
    <2>2. Len(value) > 1
      <3>1. Len(value) # 0
        BY <1>1, <1>3
      <3>2. Len(value) # 1
        <4> SUFFICES ASSUME Len(value) = 1 PROVE FALSE
          OBVIOUS
        <4> DEFINE u == <<Hyphen>>
        <4>1. u \in Seq(0..255) /\ Len(u) = 1 /\ u[1] = Hyphen
          BY DEF Hyphen
        <4> HIDE DEF u
        <4>2. Len(value) = Len(u) /\ \A k \in 1..Len(u) : value[k] = u[k]
          BY <2>1, <4>1
        <4>3. value = u
          BY <1>1, <4>1, <4>2
        <4> QED
          BY <1>3, <4>3 DEF u
      <3>3. Len(value) \in Nat
        BY <1>1, Zenon
      <3>4. \A n \in Nat : n # 0 /\ n # 1 => n > 1
        OBVIOUS
      <3> QED
        BY <3>1, <3>2, <3>3, <3>4, Zenon
    <2>3. SignLen(value) = 1
      BY <2>1, <2>2 DEF SignLen
    <2>4. Magnitudes(value)[0] = 0 /\ Magnitudes(value)[1] = 0
      BY <1>1, <2>2, <2>3, MagnitudeSteps
    <2>5. 1 \in 0..Len(value) /\ \A k \in (1 + 1)..1 : IsDigit(value[k])
      BY <1>1, <2>2
    <2> QED
      BY <1>1, <2>1, <2>2, <2>3, <2>4, <2>5 DEF ReadSoFar
  <1> QED
    BY <1>2, <1>3

LEMMA DigitRead == DecInv /\ ReadSoFar /\ Digit => ReadSoFar'
  <1> SUFFICES ASSUME DecInv, ReadSoFar, Digit PROVE ReadSoFar'
    OBVIOUS
  <1> DEFINE i == readPos + 1
             c == value[i]
             d == c - Zero
             m == Magnitudes(value)
  <1>1. /\ readPos \in Nat /\ Len(value) \in Nat /\ readPos < Len(value)
        /\ value \in Seq(0..255) /\ rc = "run" /\ i \in 1..Len(value)
        /\ UNCHANGED <<value, neg>>
    BY DEF ReadSoFar, Digit
  <1>2. /\ neg => SignLen(value) = 1 /\ Len(value) > 1 /\ readPos >= 1
        /\ ~neg => SignLen(value) = 0
    <2>1. readPos = 0 => c # Hyphen
      BY DEF Digit
    <2>2. readPos = 0 => SignLen(value) = 0
      BY <1>1, <2>1 DEF SignLen
    <2> QED
      BY <1>1, <2>2 DEF ReadSoFar
  <1>3. SignLen(value) \in Nat /\ SignLen(value) <= readPos /\ neg \in BOOLEAN
    BY <1>1, <1>2 DEF DecInv, SignLen
  <1>4. m[i] = 10 * m[readPos] + d
    <2>1. i \in 0..Len(value) /\ ~(i <= SignLen(value)) /\ i - 1 = readPos
      BY <1>1, <1>3
    <2> HIDE DEF i
    <2> QED
      BY <1>1, <2>1, MagnitudeSteps
  <1>5. m[readPos] = acc /\ exact = acc /\ acc \in Nat
    BY DEF ReadSoFar, DecInv, AccExact
  <1>6. CASE IsDigit(c) /\ Fits(d)
    <2>1. exact' = exact * 10 + d /\ readPos' = i /\ rc' = rc
      BY <1>6 DEF Digit
    <2>2. \A k \in (SignLen(value) + 1)..i : IsDigit(value[k])
      <3> SUFFICES ASSUME NEW k \in (SignLen(value) + 1)..i
                   PROVE  IsDigit(value[k])
        OBVIOUS
      <3>1. CASE k = i
        BY <1>6, <3>1
      <3>2. CASE k # i
        BY <1>1, <1>3, <3>2 DEF ReadSoFar
      <3> QED
        BY <3>1, <3>2
    <2>3. exact' = m[i]
      <3>1. d \in 0..9
        BY <1>6 DEF IsDigit, Zero
      <3> HIDE DEF d, i, m
      <3> QED
        BY <1>4, <1>5, <2>1, <3>1
    <2> QED
      BY <1>1, <1>2, <2>1, <2>2, <2>3 DEF ReadSoFar
  <1>7. CASE ~(IsDigit(c) /\ Fits(d))
    <2>1. rc' = "NGX_ERROR" /\ UNCHANGED <<acc, exact, readPos>>
      BY <1>7 DEF Digit
    <2>2. ~Int64Numeral(value)
      <3>1. CASE ~IsDigit(c)
        <4>1. i \in (SignLen(value) + 1)..Len(value)
          BY <1>1, <1>3
        <4> QED
          BY <3>1, <4>1 DEF Int64Numeral, Numeral
      <3>2. CASE IsDigit(c) /\ ~Fits(d)
        <4> SUFFICES ASSUME Numeral(value)
                     PROVE  Denotes(value) \notin (-IntMax - 1)..IntMax
          BY DEF Int64Numeral
        <4>1. d \in 0..9
          BY <3>2 DEF IsDigit, Zero
        <4>2. limit \in Nat /\ limit >= 9
          BY <1>3, LimitFacts
        <4>3. 10 * acc + d > limit
          <5>1. ~(acc <= (limit - d) \div 10)
            BY <3>2 DEF Fits
          <5> HIDE DEF d
          <5> QED
            BY <1>5, <4>1, <4>2, <5>1
        <4>4. m[i] \in Nat /\ m[i] > limit
          <5> HIDE DEF d, m, i
          <5> QED
            BY <1>4, <1>5, <4>1, <4>3
        <4>5. \A k \in (i + 1)..Len(value) : IsDigit(value[k])
          BY <1>1, <1>3 DEF Numeral
        <4>6. m[Len(value)] \in Nat /\ m[i] <= m[Len(value)]
          <5>1. /\ i \in Nat /\ SignLen(value) <= i /\ i <= Len(value)
                /\ Len(value) <= Len(value)
            BY <1>1, <1>3
          <5> HIDE DEF i
          <5> QED
            BY <1>1, <4>4, <4>5, <5>1, MagnitudeGrows
        <4> DEFINE e == m[Len(value)]
        <4>7. e \in Nat /\ e > limit
          BY <4>2, <4>4, <4>6
        <4>8. /\ neg => Denotes(value) = -e /\ limit = IntMax + 1
              /\ ~neg => Denotes(value) = e /\ limit = IntMax
          BY <1>2 DEF Denotes, limit
        <4> HIDE DEF e
        <4> QED
          BY <4>7, <4>8, WidthAssumption
      <3> QED
        BY <1>7, <3>1, <3>2
    <2> QED
      BY <1>1, <2>1, <2>2 DEF ReadSoFar
  <1> QED
    BY <1>6, <1>7

\* What the two results of atoi64 are worth.
LEMMA AtoiResult == DecInv /\ ReadSoFar => AtoiIsExact
  <1> SUFFICES ASSUME DecInv, ReadSoFar PROVE AtoiIsExact
    OBVIOUS
  <1>1. rc = "NGX_ERROR" =>
          ~ (Numeral(value) /\ Denotes(value) \in (-IntMax - 1)..IntMax)
    BY DEF ReadSoFar, Int64Numeral
  <1>2. ASSUME rc = "NGX_OK"
        PROVE  Numeral(value) /\ Parsed = Denotes(value)
    <2>1. /\ readPos = Len(value) /\ Len(value) > 0 /\ Len(value) \in Nat
          /\ \A k \in (SignLen(value) + 1)..Len(value) : IsDigit(value[k])
          /\ neg => SignLen(value) = 1 /\ Len(value) > 1
          /\ ~neg => SignLen(value) = 0
      BY <1>2 DEF ReadSoFar
    <2>2. acc = Magnitudes(value)[Len(value)] /\ acc \in Nat /\ neg \in BOOLEAN
          /\ acc <= limit
      BY <2>1 DEF ReadSoFar, DecInv, AccExact
    <2>3. Len(value) > SignLen(value)
      BY <2>1, <2>2
    <2>4. Parsed = IF neg THEN -acc ELSE acc
      BY <2>2, ParsedFacts
    <2> QED
      BY <2>1, <2>2, <2>3, <2>4 DEF Numeral, Denotes
  <1> QED
    BY <1>1, <1>2 DEF AtoiIsExact

\* The recursion of digits up to k, and for all naturals.
NextDigits(f, n) ==
  IF n < 10 THEN <<Zero + n>> ELSE Append(f[n \div 10], Zero + (n % 10))
DigitsTo(k, f) ==
  /\ f = [n \in 0..k |-> f[n]]
  /\ \A n \in 0..k : f[n] = NextDigits(f, n)

LEMMA TenthBelow ==
  ASSUME NEW n \in Nat, n >= 10
  PROVE  n \div 10 \in Nat /\ n \div 10 < n /\ n = 10 * (n \div 10) + (n % 10)
         /\ n % 10 \in 0..9
  OBVIOUS

LEMMA DigitsExist ==
  ASSUME NEW j \in Nat
  PROVE  \E f : DigitsTo(j, f)
  <1> DEFINE Fails(i) == ~ \E f : DigitsTo(i, f)
             T == {i \in Nat : Fails(i)}
  <1> SUFFICES ASSUME Fails(j) PROVE FALSE
    OBVIOUS
  <1>1. PICK i \in T : \A y \in T : i <= y
    <2>1. j \in T
      OBVIOUS
    <2>2. T \in SUBSET Nat /\ T # {}
      BY <2>1
    <2> HIDE DEF T
    <2> QED
      BY <2>2, LeastElement
  <1>2. i \in Nat /\ Fails(i)
    BY <1>1
  <1>3. PICK f : i # 0 => DigitsTo(i - 1, f)
    <2>1. CASE i = 0
      BY <2>1
    <2>2. CASE i # 0
      <3>1. i - 1 \in Nat /\ i - 1 \notin T
        BY <1>1, <1>2, <2>2
      <3> QED
        BY <3>1
    <2> QED
      BY <2>1, <2>2
  <1> DEFINE h == [n \in 0..i |-> IF n = i THEN NextDigits(f, i) ELSE f[n]]
  <1>4. ASSUME NEW n \in 0..i
        PROVE  h[n] = NextDigits(h, n)
    <2>1. h[n] = NextDigits(f, n)
      <3>1. CASE n = i
        BY <3>1
      <3>2. CASE n # i
        <4>1. i # 0 /\ n \in 0..(i - 1)
          BY <1>2, <3>2
        <4> QED
          BY <1>3, <3>2, <4>1 DEF DigitsTo
      <3> QED
        BY <3>1, <3>2
    <2>2. n >= 10 => h[n \div 10] = f[n \div 10]
      BY <1>2, TenthBelow
    <2> HIDE DEF h
    <2>3. n < 10 \/ n >= 10
      BY <1>2
    <2> QED
      BY <2>1, <2>2, <2>3 DEF NextDigits
  <1>5. h = [n \in 0..i |-> h[n]]
    OBVIOUS
  <1> HIDE DEF h
  <1>6. DigitsTo(i, h)
    BY <1>4, <1>5 DEF DigitsTo
  <1> QED
    BY <1>2, <1>6

LEMMA DigitsAgree ==
  ASSUME NEW j \in Nat, NEW k \in Nat, NEW f, NEW g,
         DigitsTo(j, f), DigitsTo(k, g), NEW x \in Nat, x <= j, x <= k
  PROVE  f[x] = g[x]
  <1> DEFINE T == {n \in 0..x : f[n] # g[n]}
  <1> SUFFICES ASSUME f[x] # g[x] PROVE FALSE
    OBVIOUS
  <1>1. PICK n \in T : \A y \in T : n <= y
    <2>1. T \in SUBSET Nat /\ x \in T
      OBVIOUS
    <2> HIDE DEF T
    <2> QED
      BY <2>1, LeastElement
  <1>2. n \in 0..x /\ f[n] # g[n]
    BY <1>1
  <1>3. f[n] = NextDigits(f, n) /\ g[n] = NextDigits(g, n)
    <2>1. n \in 0..j /\ n \in 0..k
      BY <1>2
    <2>2. \A y \in 0..j : f[y] = NextDigits(f, y)
      BY DEF DigitsTo
    <2>3. \A y \in 0..k : g[y] = NextDigits(g, y)
      BY DEF DigitsTo
    <2> QED
      BY <2>1, <2>2, <2>3
  <1>4. n >= 10
    BY <1>2, <1>3 DEF NextDigits
  <1>5. n \div 10 \in 0..x /\ n \div 10 \notin T
    BY <1>1, <1>2, <1>4, TenthBelow
  <1>6. f[n \div 10] = g[n \div 10]
    BY <1>5
  <1> QED
    BY <1>2, <1>3, <1>6 DEF NextDigits

LEMMA DigitsSteps ==
  ASSUME NEW x \in Nat
  PROVE  digits[x] = NextDigits(digits, x)
  <1> DEFINE G(n) == CHOOSE f : DigitsTo(n, f)
             f == [n \in Nat |-> G(n)[n]]
             Run(u) == u = [n \in Nat |-> IF n < 10 THEN <<Zero + n>>
                              ELSE Append(u[n \div 10], Zero + (n % 10))]
  <1>1. \A n \in Nat : DigitsTo(n, G(n))
    BY DigitsExist, Zenon
  <1> HIDE DEF G
  <1>2. \A n \in Nat : f[n] = NextDigits(f, n)
    <2> SUFFICES ASSUME NEW n \in Nat PROVE f[n] = NextDigits(f, n)
      OBVIOUS
    <2>1. f[n] = G(n)[n] /\ DigitsTo(n, G(n))
      BY <1>1
    <2>2. G(n)[n] = NextDigits(G(n), n)
      BY <2>1 DEF DigitsTo
    <2>3. CASE n < 10
      BY <2>1, <2>2, <2>3 DEF NextDigits
    <2>4. CASE n >= 10
      <3> DEFINE q == n \div 10
      <3>1. q \in Nat /\ q <= n /\ q <= q
        BY <2>4, TenthBelow
      <3> HIDE DEF q
      <3>2. DigitsTo(q, G(q)) /\ f[q] = G(q)[q]
        BY <1>1, <3>1
      <3>3. G(n)[q] = G(q)[q]
        BY <2>1, <3>1, <3>2, DigitsAgree
      <3>4. G(n)[q] = f[q]
        BY <3>2, <3>3
      <3> HIDE DEF f
      <3> QED
        BY <2>1, <2>2, <2>4, <3>4 DEF NextDigits, q
    <2> QED
      BY <2>3, <2>4
  <1>3. \E u : Run(u)
    <2> DEFINE u == [n \in Nat |-> NextDigits(f, n)]
    <2>1. f = [n \in Nat |-> f[n]]
      OBVIOUS
    <2> HIDE DEF f
    <2>2. f = u
      BY <1>2, <2>1
    <2>3. Run(f)
      BY <2>2 DEF NextDigits
    <2> QED
      BY <2>3
  <1>4. digits = CHOOSE u : Run(u)
    BY DEF digits
  <1> HIDE DEF Run
  <1>5. Run(digits)
    BY <1>3, <1>4, Zenon
  <1> QED
    BY <1>5 DEF Run, NextDigits

\* Equal beginnings have equal magnitudes.
LEMMA MagnitudePrefix ==
  ASSUME NEW t \in Seq(0..255), NEW u \in Seq(0..255), Len(t) <= Len(u),
         SignLen(t) = SignLen(u), \A k \in 1..Len(t) : t[k] = u[k],
         NEW x \in 0..Len(t)
  PROVE  Magnitudes(t)[x] = Magnitudes(u)[x]
  <1> DEFINE f == Magnitudes(t)
             g == Magnitudes(u)
             T == {n \in 0..x : f[n] # g[n]}
  <1> SUFFICES ASSUME f[x] # g[x] PROVE FALSE
    OBVIOUS
  <1>0. x \in Nat /\ x <= Len(t) /\ Len(t) \in Nat /\ Len(u) \in Nat
    OBVIOUS
  <1>1. PICK n \in T : \A y \in T : n <= y
    <2>1. T \in SUBSET Nat /\ x \in T
      BY <1>0
    <2> HIDE DEF T
    <2> QED
      BY <2>1, LeastElement
  <1>2. n \in 0..x /\ f[n] # g[n]
    BY <1>1
  <1>3. n \in 0..Len(t) /\ n \in 0..Len(u)
    BY <1>0, <1>2
  <1>4. /\ f[n] = IF n <= SignLen(t) THEN 0 ELSE 10 * f[n - 1] + (t[n] - Zero)
        /\ g[n] = IF n <= SignLen(t) THEN 0 ELSE 10 * g[n - 1] + (u[n] - Zero)
    BY <1>3, MagnitudeSteps
  <1>5. ~(n <= SignLen(t)) /\ SignLen(t) \in Nat
    BY <1>2, <1>4 DEF SignLen
  <1>6. n - 1 \in 0..x /\ n - 1 \notin T /\ n \in 1..Len(t)
    BY <1>0, <1>1, <1>2, <1>3, <1>5
  <1>7. f[n - 1] = g[n - 1] /\ t[n] = u[n]
    BY <1>6
  <1> HIDE DEF f, g
  <1> QED
    BY <1>2, <1>4, <1>5, <1>7

\* t is a sign of length l and then the digits of n.
Written(t, l, n) ==
  /\ t \in Seq(0..255) /\ SignLen(t) = l /\ Len(t) > l
  /\ \A k \in (l + 1)..Len(t) : IsDigit(t[k])
  /\ Magnitudes(t)[Len(t)] = n

LEMMA WrittenAppend ==
  ASSUME NEW t, NEW l \in {0, 1}, NEW n \in Nat, NEW d \in 0..9, Written(t, l, n)
  PROVE  Written(Append(t, Zero + d), l, 10 * n + d)
  <1> DEFINE c == Zero + d
             u == Append(t, c)
             j == Len(t)
  <1>1. /\ t \in Seq(0..255) /\ SignLen(t) = l /\ j > l /\ j \in Nat
        /\ \A k \in (l + 1)..j : IsDigit(t[k])
        /\ Magnitudes(t)[j] = n
    BY DEF Written
  <1>2. c \in 0..255 /\ IsDigit(c) /\ c - Zero = d
    BY DEF Zero, IsDigit
  <1> HIDE DEF c
  <1>3. u \in Seq(0..255)
    BY <1>1, <1>2
  <1>4. Len(u) = j + 1 /\ u[j + 1] = c /\ \A k \in 1..j : u[k] = t[k]
    BY <1>1, <1>2
  <1> HIDE DEF u, j
  <1>5. SignLen(u) = l
    <2>1. j > 0 /\ Len(u) > 0 /\ u[1] = t[1]
      BY <1>1, <1>4
    <2> QED
      BY <1>1, <2>1 DEF SignLen, j
  <1>6. \A k \in (l + 1)..(j + 1) : IsDigit(u[k])
    <2> SUFFICES ASSUME NEW k \in (l + 1)..(j + 1) PROVE IsDigit(u[k])
      OBVIOUS
    <2>1. CASE k = j + 1
      BY <1>2, <1>4, <2>1
    <2>2. CASE k # j + 1
      <3>1. k \in (l + 1)..j /\ k \in 1..j
        BY <1>1, <2>2
      <3> QED
        BY <1>1, <1>4, <3>1
    <2> QED
      BY <2>1, <2>2
  <1>7. Magnitudes(u)[j] = n
    <2>1. Len(t) <= Len(u) /\ j \in 0..Len(t) /\ \A k \in 1..Len(t) : t[k] = u[k]
      BY <1>1, <1>4 DEF j
    <2> QED
      BY <1>1, <1>3, <1>5, <2>1, MagnitudePrefix
  <1>8. Magnitudes(u)[j + 1] = 10 * Magnitudes(u)[j] + (u[j + 1] - Zero)
    <2>1. j + 1 \in 0..Len(u) /\ ~(j + 1 <= SignLen(u)) /\ (j + 1) - 1 = j
      BY <1>1, <1>4, <1>5
    <2> QED
      BY <1>3, <2>1, MagnitudeSteps
  <1>9. Magnitudes(u)[j + 1] = 10 * n + d
    BY <1>2, <1>4, <1>7, <1>8
  <1>10. Len(u) > l
    BY <1>1, <1>4
  <1>11. Written(u, l, 10 * n + d)
    BY <1>3, <1>4, <1>5, <1>6, <1>9, <1>10 DEF Written
  <1> QED
    BY <1>11 DEF u, c

LEMMA WrittenOne ==
  ASSUME NEW d \in 0..9
  PROVE  /\ Written(<<Zero + d>>, 0, d)
         /\ Written(<<Hyphen, Zero + d>>, 1, d)
  <1> DEFINE c == Zero + d
             t == <<c>>
             u == <<Hyphen, c>>
  <1>1. c \in 0..255 /\ IsDigit(c) /\ c - Zero = d /\ c # Hyphen
        /\ Hyphen \in 0..255
    BY DEF Zero, IsDigit, Hyphen
  <1> HIDE DEF c
  <1>2. t \in Seq(0..255) /\ Len(t) = 1 /\ t[1] = c
    BY <1>1
  <1>3. u \in Seq(0..255) /\ Len(u) = 2 /\ u[1] = Hyphen /\ u[2] = c
    BY <1>1
  <1> HIDE DEF t, u
  <1>4. SignLen(t) = 0 /\ SignLen(u) = 1
    BY <1>1, <1>2, <1>3 DEF SignLen
  <1>5. Magnitudes(t)[0] = 0 /\ Magnitudes(t)[1] = d
    <2>1. Magnitudes(t)[0] = 0
      BY <1>2, <1>4, MagnitudeSteps
    <2>2. 1 \in 0..Len(t) /\ ~(1 <= SignLen(t)) /\ 1 - 1 = 0
      BY <1>2, <1>4
    <2>3. Magnitudes(t)[1] = 10 * Magnitudes(t)[1 - 1] + (t[1] - Zero)
      BY <1>2, <2>2, MagnitudeSteps, Zenon
    <2> QED
      BY <1>1, <1>2, <2>1, <2>2, <2>3
  <1>6. Magnitudes(u)[2] = d
    <2>1. Magnitudes(u)[1] = 0
      BY <1>3, <1>4, MagnitudeSteps
    <2>2. 2 \in 0..Len(u) /\ ~(2 <= SignLen(u)) /\ 2 - 1 = 1
      BY <1>3, <1>4
    <2>3. Magnitudes(u)[2] = 10 * Magnitudes(u)[2 - 1] + (u[2] - Zero)
      BY <1>3, <2>2, MagnitudeSteps, Zenon
    <2> QED
      BY <1>1, <1>3, <2>1, <2>2, <2>3
  <1>7. Written(t, 0, d)
    BY <1>1, <1>2, <1>4, <1>5 DEF Written
  <1>8. Written(u, 1, d)
    BY <1>1, <1>3, <1>4, <1>6 DEF Written
  <1> QED
    BY <1>7, <1>8 DEF t, u, c

LEMMA JoinOne ==
  ASSUME NEW S, NEW a \in S, NEW b \in S
  PROVE  <<a>> \o <<b>> = <<a, b>>
  <1>1. <<a>> \o Append(<<>>, b) = Append(<<a>> \o <<>>, b)
    <2>1. <<>> \in Seq(S) /\ <<a>> \in Seq(S)
      OBVIOUS
    <2> QED
      BY <2>1, JoinAppend
  <1>2. <<a>> \o <<>> = <<a>>
    OBVIOUS
  <1>3. Append(<<>>, b) = <<b>>
    OBVIOUS
  <1>4. <<a, b>> = Append(<<a>>, b)
    OBVIOUS
  <1> QED
    BY <1>1, <1>2, <1>3, <1>4

\* snprintf of a magnitude, alone and behind a sign.
LEMMA DigitsWritten ==
  ASSUME NEW x \in Nat
  PROVE  Written(digits[x], 0, x) /\ Written(<<Hyphen>> \o digits[x], 1, x)
  <1> DEFINE Holds(n) == /\ Written(digits[n], 0, n)
                         /\ Written(<<Hyphen>> \o digits[n], 1, n)
             T == {n \in Nat : ~Holds(n)}
  <1> SUFFICES ASSUME ~Holds(x) PROVE FALSE
    OBVIOUS
  <1>1. PICK n \in T : \A y \in T : n <= y
    <2>1. T \in SUBSET Nat /\ x \in T
      OBVIOUS
    <2> HIDE DEF T
    <2> QED
      BY <2>1, LeastElement
  <1>2. n \in Nat /\ ~Holds(n)
    BY <1>1
  <1>3. digits[n] = NextDigits(digits, n)
    BY <1>2, DigitsSteps
  <1>4. CASE n < 10
    <2>1. digits[n] = <<Zero + n>> /\ n \in 0..9
      BY <1>2, <1>3, <1>4 DEF NextDigits
    <2>2. <<Hyphen>> \o digits[n] = <<Hyphen, Zero + n>>
      <3> DEFINE c == Zero + n
      <3>1. c \in 0..255 /\ Hyphen \in 0..255
        BY <2>1 DEF Zero, Hyphen
      <3> HIDE DEF c
      <3> QED
        BY <2>1, <3>1, JoinOne DEF c
    <2> QED
      BY <1>2, <2>1, <2>2, WrittenOne
  <1>5. CASE n >= 10
    <2> DEFINE q == n \div 10
               d == n % 10
               t == digits[q]
    <2>1. q \in Nat /\ q < n /\ n = 10 * q + d /\ d \in 0..9
      BY <1>2, <1>5, TenthBelow
    <2>2. q \notin T
      <3> HIDE DEF q
      <3> QED
        BY <1>1, <1>2, <2>1
    <2>3. Holds(q)
      BY <2>1, <2>2
    <2>4. digits[n] = Append(t, Zero + d)
      BY <1>2, <1>3, <1>5 DEF NextDigits
    <2> HIDE DEF q, d
    <2>5. Written(t, 0, q) /\ Written(<<Hyphen>> \o t, 1, q)
      BY <2>3
    <2>6. Written(Append(t, Zero + d), 0, n)
      BY <2>1, <2>5, WrittenAppend
    <2>7. Written(Append(<<Hyphen>> \o t, Zero + d), 1, n)
      BY <2>1, <2>5, WrittenAppend
    <2>8. <<Hyphen>> \o Append(t, Zero + d) = Append(<<Hyphen>> \o t, Zero + d)
      <3>1. t \in Seq(0..255)
        BY <2>5 DEF Written
      <3>2. Zero + d \in 0..255 /\ Hyphen \in 0..255
        BY <2>1 DEF Zero, Hyphen
      <3>3. <<Hyphen>> \in Seq(0..255)
        BY <3>2
      <3> DEFINE c == Zero + d
      <3> HIDE DEF t, c
      <3> QED
        BY <3>1, <3>2, <3>3, JoinAppend DEF c
    <2> QED
      BY <1>2, <2>4, <2>6, <2>7, <2>8
  <1> QED
    BY <1>2, <1>4, <1>5

\* What snprintf writes is a numeral, and denotes the number.
LEMMA SnprintfDenotes ==
  ASSUME NEW v \in Int
  PROVE  /\ snprintf(v) \in Seq(0..255)
         /\ Numeral(snprintf(v)) /\ Denotes(snprintf(v)) = v
  <1>1. CASE v < 0
    <2> DEFINE n == -v
               t == <<Hyphen>> \o digits[n]
    <2>1. n \in Nat /\ v = -n
      BY <1>1
    <2>2. snprintf(v) = t
      BY <1>1 DEF snprintf
    <2> HIDE DEF n
    <2>3. Written(t, 1, n)
      BY <2>1, DigitsWritten
    <2> HIDE DEF t
    <2>4. /\ t \in Seq(0..255) /\ SignLen(t) = 1 /\ Len(t) > 1
          /\ \A k \in (1 + 1)..Len(t) : IsDigit(t[k])
          /\ Magnitudes(t)[Len(t)] = n
      BY <2>3, Zenon DEF Written
    <2>5. Numeral(t)
      BY <2>4, Zenon DEF Numeral
    <2>6. Denotes(t) = -n
      BY <2>4 DEF Denotes
    <2> QED
      BY <2>1, <2>2, <2>4, <2>5, <2>6
  <1>2. CASE v >= 0
    <2> DEFINE t == digits[v]
    <2>1. v \in Nat /\ ~(v < 0)
      BY <1>2
    <2>2. snprintf(v) = t
      BY <2>1 DEF snprintf
    <2>3. Written(t, 0, v)
      BY <2>1, DigitsWritten
    <2> HIDE DEF t
    <2>4. /\ t \in Seq(0..255) /\ SignLen(t) = 0 /\ Len(t) > 0
          /\ \A k \in (0 + 1)..Len(t) : IsDigit(t[k])
          /\ Magnitudes(t)[Len(t)] = v
      BY <2>3, Zenon DEF Written
    <2>5. Numeral(t)
      BY <2>4, Zenon DEF Numeral
    <2>6. Denotes(t) = v
      BY <2>4 DEF Denotes
    <2> QED
      BY <2>2, <2>4, <2>5, <2>6
  <1> QED
    BY <1>1, <1>2

\* Every field lies within an int64.
LEMMA FieldWithin ==
  ASSUME NEW f \in DOMAIN FieldRange, NEW v \in FieldRange[f]
  PROVE  v \in Int /\ v \in (-IntMax - 1)..IntMax
  <1>1. f \in {"alg", "sign_count", "created_at"}
    BY DEF FieldRange
  <1>2. v \in (-Int32Max - 1)..Int32Max \/ v \in 0..UInt32Max
        \/ v \in (-IntMax - 1)..IntMax
    <2>1. CASE f = "alg"
      BY <2>1 DEF FieldRange
    <2>2. CASE f = "sign_count"
      BY <2>2 DEF FieldRange
    <2>3. CASE f = "created_at"
      BY <2>3 DEF FieldRange
    <2> QED
      BY <1>1, <2>1, <2>2, <2>3
  <1> QED
    BY <1>2, WidthAssumption DEF UInt32Max

\* What credential_get makes of the result.
Used == IF rc = "NGX_OK" /\ InField(Parsed) /\ ~NoAlg(Parsed) THEN <<Parsed>>
        ELSE IF field = "created_at" THEN <<0>> ELSE <<>>

FieldKept ==
  /\ field \in DOMAIN FieldRange
  /\ wrote # NoNumber => wrote \in FieldRange[field] /\ value = snprintf(wrote)
  /\ member # NoNumber => rc \in {"NGX_OK", "NGX_ERROR"} /\ member = Used

AtoiInv == DecInv /\ ReadSoFar /\ FieldKept

LEMMA AtoiInitInv == DecInit => AtoiInv
  <1> SUFFICES ASSUME DecInit PROVE AtoiInv
    OBVIOUS
  <1>1. /\ readPos = 0 /\ neg = FALSE /\ acc = 0 /\ exact = 0
        /\ rc = "run" /\ member = NoNumber /\ field \in DOMAIN FieldRange
        /\ \/ wrote \in FieldRange[field] /\ value = snprintf(wrote)
           \/ wrote = NoNumber /\ value \in FieldTexts
    BY Zenon DEF DecInit
  <1>2. DecInv
    <2>1. limit = IntMax
      BY <1>1 DEF limit
    <2>2. AccExact
      BY <1>1, <2>1, WidthAssumption DEF AccExact
    <2> QED
      BY <1>1, <2>2 DEF DecInv
  <1>3. value \in Seq(0..255)
    <2>1. CASE wrote \in FieldRange[field] /\ value = snprintf(wrote)
      <3>1. wrote \in Int
        BY <1>1, <2>1, FieldWithin
      <3> QED
        BY <2>1, <3>1, SnprintfDenotes
    <2>2. CASE value \in FieldTexts
      BY <2>2, TextAssumption
    <2> QED
      BY <1>1, <2>1, <2>2
  <1>4. Len(value) \in Nat
    BY <1>3
  <1>5. SignLen(value) \in {0, 1}
    BY DEF SignLen
  <1>6. 0 \in 0..Len(value) /\ 0 <= SignLen(value)
        /\ \A k \in (SignLen(value) + 1)..0 : IsDigit(value[k])
    BY <1>4, <1>5
  <1>7. Magnitudes(value)[0] = 0
    BY <1>3, <1>6, MagnitudeSteps, Zenon
  <1>8. ReadSoFar
    BY <1>1, <1>3, <1>6, <1>7 DEF ReadSoFar
  <1>9. FieldKept
    BY <1>1, Zenon DEF FieldKept
  <1> QED
    BY <1>2, <1>8, <1>9 DEF AtoiInv

LEMMA AtoiStepInv == AtoiInv /\ [DecNext]_decVars => AtoiInv'
  <1> SUFFICES ASSUME AtoiInv, [DecNext]_decVars PROVE AtoiInv'
    OBVIOUS
  <1> USE DEF AtoiInv
  <1>1. ASSUME rc = "run", UNCHANGED <<field, wrote, value, member>>
        PROVE  FieldKept'
    <2>1. member = NoNumber
      BY <1>1 DEF FieldKept
    <2>2. field' \in DOMAIN FieldRange
      BY <1>1 DEF FieldKept
    <2>3. wrote' # NoNumber =>
            wrote' \in FieldRange[field'] /\ value' = snprintf(wrote')
      BY <1>1 DEF FieldKept
    <2>4. member' = NoNumber
      BY <1>1, <2>1
    <2> QED
      BY <2>2, <2>3, <2>4, Zenon DEF FieldKept
  <1>2. CASE Sign
    <2>1. FieldKept'
      BY <1>1, <1>2 DEF Sign
    <2> QED
      BY <1>2, <2>1, SignInv, SignRead
  <1>3. CASE Digit
    <2>1. FieldKept'
      BY <1>1, <1>3 DEF Digit
    <2> QED
      BY <1>3, <2>1, DigitInv, DigitRead
  <1>4. CASE End
    <2>1. FieldKept'
      BY <1>1, <1>4 DEF End
    <2>2. DecInv'
      BY <1>4 DEF End, DecInv, AccExact, limit
    <2>3. ReadSoFar'
      BY <1>4 DEF End, ReadSoFar
    <2> QED
      BY <2>1, <2>2, <2>3
  <1>5. CASE Use
    <2>1. DecInv'
      BY <1>5 DEF Use, DecInv, AccExact, limit
    <2>2. ReadSoFar'
      BY <1>5 DEF Use, ReadSoFar
    <2>3. UNCHANGED <<rc, field, neg, acc, wrote, value>>
          /\ rc \in {"NGX_OK", "NGX_ERROR"} /\ member' = Used
      BY <1>5 DEF Use, Used
    <2>4. Parsed' = Parsed
      BY <2>3 DEF Parsed
    <2>5. /\ InField(Parsed)' = InField(Parsed)
          /\ NoAlg(Parsed)' = NoAlg(Parsed)
      BY <2>3, <2>4 DEF InField, NoAlg
    <2>6. Used' = Used
      BY <2>3, <2>4, <2>5 DEF Used
    <2>7. FieldKept'
      BY <2>3, <2>6 DEF FieldKept
    <2> QED
      BY <2>1, <2>2, <2>7
  <1>6. CASE UNCHANGED decVars
    <2>1. DecInv'
      BY <1>6 DEF decVars, DecInv, AccExact, limit
    <2>2. ReadSoFar'
      BY <1>6 DEF decVars, ReadSoFar
    <2>3. Used' = Used
      BY <1>6 DEF decVars, Used, Parsed, InField, NoAlg
    <2>4. FieldKept'
      BY <1>6, <2>3 DEF decVars, FieldKept
    <2> QED
      BY <2>1, <2>2, <2>4
  <1> QED
    BY <1>2, <1>3, <1>4, <1>5, <1>6 DEF DecNext

\* A number that was written is read back: the text is a numeral of an int64,
\* so atoi64 does not reject it, and the number is in the field's range.
LEMMA AtoiKept == AtoiInv => FieldRoundTrip
  <1> SUFFICES ASSUME AtoiInv, wrote # NoNumber, member # NoNumber
               PROVE  member = IF field = "alg" /\ wrote = 0 THEN <<>>
                               ELSE <<wrote>>
    BY DEF FieldRoundTrip
  <1>1. /\ field \in DOMAIN FieldRange /\ wrote \in FieldRange[field]
        /\ value = snprintf(wrote)
        /\ rc \in {"NGX_OK", "NGX_ERROR"} /\ member = Used
    BY DEF AtoiInv, FieldKept
  <1>2. wrote \in Int /\ wrote \in (-IntMax - 1)..IntMax
    BY <1>1, FieldWithin
  <1>3. Numeral(value) /\ Denotes(value) = wrote
    BY <1>1, <1>2, SnprintfDenotes
  <1>4. AtoiIsExact
    BY AtoiResult DEF AtoiInv
  <1>5. rc = "NGX_OK" /\ Parsed = wrote
    BY <1>1, <1>2, <1>3, <1>4 DEF AtoiIsExact
  <1>6. InField(Parsed)
    BY <1>1, <1>5 DEF InField
  <1> QED
    BY <1>1, <1>5, <1>6 DEF Used, NoAlg

LEMMA AtoiInvariant == DecSpec => []AtoiInv
  BY AtoiInitInv, AtoiStepInv, PTL DEF DecSpec

\* credential_atoi64 is exact: for every text and every width of the integers
\* it accepts precisely the numerals an int64 holds, INT64_MIN included, and
\* returns the number they denote; every other text is an error.
THEOREM AtoiAcceptsExactly == DecSpec => []AtoiIsExact
  <1>1. AtoiInv => AtoiIsExact
    BY AtoiResult DEF AtoiInv
  <1> QED
    BY <1>1, AtoiInvariant, PTL

\* What credential_put writes with snprintf into a decimal field of a record,
\* credential_get reads back as the same number, for every number of the
\* field's range but algorithm 0, which it declines: no counter, time or other
\* algorithm makes the record unreadable.
THEOREM FieldsSurvive == DecSpec => []FieldRoundTrip
  BY AtoiKept, AtoiInvariant, PTL

-----------------------------------------------------------------------------
(* base64url: what the decoder makes of any text.                          *)

\* The recursion that defines the symbols of the first j characters.
NextSymbols(t, f, n) ==
  IF n = 0 THEN <<>>
  ELSE IF t[n] \in Sextet THEN Append(f[n - 1], t[n]) ELSE f[n - 1]
SymbolRun(t, j, f) ==
  /\ f = [n \in 0..j |-> f[n]]
  /\ \A n \in 0..j : f[n] = NextSymbols(t, f, n)

LEMMA SymbolsExist ==
  ASSUME NEW t, NEW j \in Nat
  PROVE  \E f : SymbolRun(t, j, f)
  <1> DEFINE Fails(i) == ~ \E f : SymbolRun(t, i, f)
             T == {i \in Nat : Fails(i)}
  <1> SUFFICES ASSUME Fails(j) PROVE FALSE
    OBVIOUS
  <1>1. PICK i \in T : \A y \in T : i <= y
    <2>1. j \in T
      OBVIOUS
    <2>2. T \in SUBSET Nat /\ T # {}
      BY <2>1
    <2> HIDE DEF T
    <2> QED
      BY <2>2, LeastElement
  <1>2. i \in Nat /\ Fails(i)
    BY <1>1
  <1>3. PICK f : i # 0 => SymbolRun(t, i - 1, f)
    <2>1. CASE i = 0
      BY <2>1
    <2>2. CASE i # 0
      <3>1. i - 1 \in Nat /\ i - 1 \notin T
        BY <1>1, <1>2, <2>2
      <3> QED
        BY <3>1
    <2> QED
      BY <2>1, <2>2
  <1> DEFINE h == [n \in 0..i |-> IF n = i THEN NextSymbols(t, f, i) ELSE f[n]]
  <1>4. ASSUME NEW n \in 0..i
        PROVE  h[n] = NextSymbols(t, h, n)
    <2>1. h[n] = NextSymbols(t, f, n)
      <3>1. CASE n = i
        BY <3>1
      <3>2. CASE n # i
        <4>1. i # 0 /\ n \in 0..(i - 1)
          BY <1>2, <3>2
        <4> QED
          BY <1>3, <3>2, <4>1 DEF SymbolRun
      <3> QED
        BY <3>1, <3>2
    <2>2. n # 0 => h[n - 1] = f[n - 1]
      BY <1>2
    <2> HIDE DEF h
    <2> QED
      BY <2>1, <2>2 DEF NextSymbols
  <1>5. h = [n \in 0..i |-> h[n]]
    OBVIOUS
  <1> HIDE DEF h
  <1>6. SymbolRun(t, i, h)
    BY <1>4, <1>5 DEF SymbolRun
  <1> QED
    BY <1>2, <1>6

LEMMA SymbolSteps ==
  ASSUME NEW t \in Seq(0..Bad), NEW x \in 0..Len(t)
  PROVE  SymbolsOf(t)[x] = NextSymbols(t, SymbolsOf(t), x)
  <1> DEFINE j == Len(t)
             Run(f) == f = [n \in 0..j |->
               IF n = 0 THEN <<>>
               ELSE IF t[n] \in Sextet THEN Append(f[n - 1], t[n])
               ELSE f[n - 1]]
  <1>1. j \in Nat
    OBVIOUS
  <1>2. SymbolsOf(t) = CHOOSE f : Run(f)
    BY DEF SymbolsOf
  <1> HIDE DEF j
  <1>3. \E f : Run(f)
    <2>1. PICK f : SymbolRun(t, j, f)
      BY <1>1, SymbolsExist
    <2> DEFINE u == [n \in 0..j |-> NextSymbols(t, f, n)]
    <2>2. f = [n \in 0..j |-> f[n]] /\ \A n \in 0..j : f[n] = NextSymbols(t, f, n)
      BY <2>1 DEF SymbolRun
    <2>3. f = u
      BY <2>2
    <2>4. Run(f)
      BY <2>3 DEF NextSymbols
    <2> QED
      BY <2>4
  <1> HIDE DEF Run
  <1>4. Run(SymbolsOf(t))
    BY <1>2, <1>3, Zenon
  <1> QED
    BY <1>4 DEF Run, NextSymbols, j

\* The numbers two, four, six and eight bits make.
Two(b0, b1) == 2 * b0 + b1
Four(b0, b1, b2, b3) == 8 * b0 + 4 * b1 + 2 * b2 + b3
Six(b0, b1, b2, b3, b4, b5) ==
  32 * b0 + 16 * b1 + 8 * b2 + 4 * b3 + 2 * b4 + b5
Eight(b0, b1, b2, b3, b4, b5, b6, b7) ==
  128 * b0 + 64 * b1 + 32 * b2 + 16 * b3 + 8 * b4 + 4 * b5 + 2 * b6 + b7

\* The bits of a character, and its parts.
Parts(c, b0, b1, b2, b3, b4, b5) ==
  /\ c = Six(b0, b1, b2, b3, b4, b5)
  /\ c \div 16 = Two(b0, b1) /\ c \div 4 = Four(b0, b1, b2, b3)
  /\ c % 16 = Four(b2, b3, b4, b5) /\ c % 4 = Two(b4, b5)

LEMMA BinaryParts ==
  ASSUME NEW b0 \in 0..1, NEW b1 \in 0..1, NEW b2 \in 0..1, NEW b3 \in 0..1,
         NEW b4 \in 0..1, NEW b5 \in 0..1
  PROVE  Parts(Six(b0, b1, b2, b3, b4, b5), b0, b1, b2, b3, b4, b5)
  BY DEF Parts, Two, Four, Six

LEMMA Halvings ==
  ASSUME NEW b0 \in 0..1, NEW b1 \in 0..1, NEW b2 \in 0..1, NEW b3 \in 0..1,
         NEW b4 \in 0..1, NEW b5 \in 0..1, NEW c, NEW c1, NEW c2, NEW c3, NEW c4,
         c = 2 * c1 + b5, c1 = 2 * c2 + b4, c2 = 2 * c3 + b3,
         c3 = 2 * c4 + b2, c4 = 2 * b0 + b1
  PROVE  c = Six(b0, b1, b2, b3, b4, b5)
  <1>1. c3 = 4 * b0 + 2 * b1 + b2
    OBVIOUS
  <1>2. c2 = 8 * b0 + 4 * b1 + 2 * b2 + b3
    BY <1>1
  <1>3. c1 = 16 * b0 + 8 * b1 + 4 * b2 + 2 * b3 + b4
    BY <1>2
  <1> QED
    BY <1>3 DEF Six

LEMMA SextetBits ==
  ASSUME NEW c \in Sextet
  PROVE  /\ Parts(c, BitOf(c, 0), BitOf(c, 1), BitOf(c, 2), BitOf(c, 3),
                  BitOf(c, 4), BitOf(c, 5))
         /\ \A p \in 0..5 : BitOf(c, p) \in 0..1
  <1>1. c \in 0..63
    BY DEF Sextet
  <1>2. /\ BitOf(c, 0) = (c \div 32) % 2 /\ BitOf(c, 1) = (c \div 16) % 2
        /\ BitOf(c, 2) = (c \div 8) % 2 /\ BitOf(c, 3) = (c \div 4) % 2
        /\ BitOf(c, 4) = (c \div 2) % 2 /\ BitOf(c, 5) = c % 2
    BY <1>1 DEF BitOf
  <1>3. /\ BitOf(c, 0) \in 0..1 /\ BitOf(c, 1) \in 0..1 /\ BitOf(c, 2) \in 0..1
        /\ BitOf(c, 3) \in 0..1 /\ BitOf(c, 4) \in 0..1 /\ BitOf(c, 5) \in 0..1
    BY <1>1, <1>2
  <1>4. c = Six(BitOf(c, 0), BitOf(c, 1), BitOf(c, 2), BitOf(c, 3),
                BitOf(c, 4), BitOf(c, 5))
    <2>1. c = 2 * (c \div 2) + BitOf(c, 5)
      BY <1>1, <1>2
    <2>2. c \div 2 = 2 * (c \div 4) + BitOf(c, 4)
      BY <1>1, <1>2
    <2>3. c \div 4 = 2 * (c \div 8) + BitOf(c, 3)
      BY <1>1, <1>2
    <2>4. c \div 8 = 2 * (c \div 16) + BitOf(c, 2)
      BY <1>1, <1>2
    <2>5. c \div 16 = 2 * (c \div 32) + BitOf(c, 1)
      BY <1>1, <1>2
    <2>6. c \div 32 = BitOf(c, 0)
      BY <1>1, <1>2
    <2>7. c \div 16 = 2 * BitOf(c, 0) + BitOf(c, 1)
      BY <2>5, <2>6
    <2> DEFINE c1 == c \div 2
               c2 == c \div 4
               c3 == c \div 8
               c4 == c \div 16
               b0 == BitOf(c, 0)
               b1 == BitOf(c, 1)
               b2 == BitOf(c, 2)
               b3 == BitOf(c, 3)
               b4 == BitOf(c, 4)
               b5 == BitOf(c, 5)
    <2>8. /\ c = 2 * c1 + b5 /\ c1 = 2 * c2 + b4 /\ c2 = 2 * c3 + b3
          /\ c3 = 2 * c4 + b2 /\ c4 = 2 * b0 + b1
      BY <2>1, <2>2, <2>3, <2>4, <2>7
    <2>9. /\ b0 \in 0..1 /\ b1 \in 0..1 /\ b2 \in 0..1 /\ b3 \in 0..1
          /\ b4 \in 0..1 /\ b5 \in 0..1
      BY <1>3
    <2> HIDE DEF c1, c2, c3, c4, b0, b1, b2, b3, b4, b5
    <2>10. c = Six(b0, b1, b2, b3, b4, b5)
      BY <2>8, <2>9, Halvings
    <2> QED
      BY <2>10 DEF b0, b1, b2, b3, b4, b5
  <1>5. \A p \in 0..5 : BitOf(c, p) \in 0..1
    <2> SUFFICES ASSUME NEW p \in 0..5 PROVE BitOf(c, p) \in 0..1
      OBVIOUS
    <2>1. p = 0 \/ p = 1 \/ p = 2 \/ p = 3 \/ p = 4 \/ p = 5
      OBVIOUS
    <2> QED
      BY <1>3, <2>1, Zenon
  <1> QED
    BY <1>3, <1>4, <1>5, BinaryParts

\* Bit p of the k-th character is bit 6(k-1) + p of the text.
LEMMA BitPlace ==
  ASSUME NEW y, NEW k \in Nat, k >= 1, NEW p \in 0..5
  PROVE  Bit(y, 6 * (k - 1) + p) = BitOf(y[k], p)
  <1> DEFINE n == 6 * (k - 1) + p
  <1>1. n \div 6 = k - 1 /\ n % 6 = p
    OBVIOUS
  <1>2. (n \div 6) + 1 = k
    BY <1>1
  <1> HIDE DEF n
  <1>3. Bit(y, n) = BitOf(y[k], p)
    BY <1>1, <1>2 DEF Bit
  <1> QED
    BY <1>3 DEF n

\* A byte cut after its sixth, fourth or second bit.
LEMMA ByteCut ==
  ASSUME NEW b0 \in 0..1, NEW b1 \in 0..1, NEW b2 \in 0..1, NEW b3 \in 0..1,
         NEW b4 \in 0..1, NEW b5 \in 0..1, NEW b6 \in 0..1, NEW b7 \in 0..1
  PROVE  /\ Eight(b0, b1, b2, b3, b4, b5, b6, b7)
              = Six(b0, b1, b2, b3, b4, b5) * 4 + Two(b6, b7)
         /\ Eight(b0, b1, b2, b3, b4, b5, b6, b7)
              = Four(b0, b1, b2, b3) * 16 + Four(b4, b5, b6, b7)
         /\ Eight(b0, b1, b2, b3, b4, b5, b6, b7)
              = Two(b0, b1) * 64 + Six(b2, b3, b4, b5, b6, b7)
  BY DEF Two, Four, Six, Eight

\* A byte whose first bit is bit 0, 2 or 4 of the m-th character.
LEMMA ByteAcross ==
  ASSUME NEW y \in Seq(Sextet), NEW m \in Nat, NEW k \in Nat, m >= 1, k >= 1,
         m + 1 <= Len(y)
  PROVE  /\ 8 * (k - 1) = 6 * (m - 1) =>
              ByteAt(y, k) = y[m] * 4 + y[m + 1] \div 16
         /\ 8 * (k - 1) = 6 * (m - 1) + 2 =>
              ByteAt(y, k) = (y[m] % 16) * 16 + y[m + 1] \div 4
         /\ 8 * (k - 1) = 6 * (m - 1) + 4 =>
              ByteAt(y, k) = (y[m] % 4) * 64 + y[m + 1]
  <1> DEFINE c == y[m]
             e == y[m + 1]
             w == 6 * (m - 1)
             a(i) == BitOf(c, i)
             b(i) == BitOf(e, i)
             t(n) == Bit(y, 8 * (k - 1) + n)
  <1>1. c \in Sextet /\ e \in Sextet
    <2>1. Len(y) \in Nat
      OBVIOUS
    <2>2. m \in 1..Len(y) /\ m + 1 \in 1..Len(y)
      BY <2>1
    <2> QED
      BY <2>2
  <1>2. \A i \in 0..5 : Bit(y, w + i) = a(i)
    BY BitPlace
  <1>3. \A i \in 0..5 : Bit(y, w + 6 + i) = b(i)
    <2> SUFFICES ASSUME NEW i \in 0..5 PROVE Bit(y, w + 6 + i) = b(i)
      OBVIOUS
    <2>1. m + 1 \in Nat /\ m + 1 >= 1
      OBVIOUS
    <2>2. Bit(y, 6 * ((m + 1) - 1) + i) = BitOf(y[m + 1], i)
      BY <2>1, BitPlace
    <2>3. 6 * ((m + 1) - 1) + i = w + 6 + i
      OBVIOUS
    <2> QED
      BY <2>2, <2>3
  <1>4. Parts(c, a(0), a(1), a(2), a(3), a(4), a(5))
        /\ Parts(e, b(0), b(1), b(2), b(3), b(4), b(5))
    BY <1>1, SextetBits
  <1>5. /\ a(0) \in 0..1 /\ a(1) \in 0..1 /\ a(2) \in 0..1 /\ a(3) \in 0..1
        /\ a(4) \in 0..1 /\ a(5) \in 0..1
        /\ b(0) \in 0..1 /\ b(1) \in 0..1 /\ b(2) \in 0..1 /\ b(3) \in 0..1
        /\ b(4) \in 0..1 /\ b(5) \in 0..1
    BY <1>1, SextetBits
  <1>6. ByteAt(y, k) = Eight(t(0), t(1), t(2), t(3), t(4), t(5), t(6), t(7))
    BY DEF ByteAt, Eight
  <1>7. w \in Int /\ 8 * (k - 1) \in Int
    OBVIOUS
  <1>8. ASSUME 8 * (k - 1) = w
        PROVE  ByteAt(y, k) = c * 4 + e \div 16
    <2>1. /\ t(0) = a(0) /\ t(1) = a(1) /\ t(2) = a(2) /\ t(3) = a(3)
          /\ t(4) = a(4) /\ t(5) = a(5)
      <3>1. /\ 8 * (k - 1) + 0 = w + 0 /\ 8 * (k - 1) + 1 = w + 1
            /\ 8 * (k - 1) + 2 = w + 2 /\ 8 * (k - 1) + 3 = w + 3
            /\ 8 * (k - 1) + 4 = w + 4 /\ 8 * (k - 1) + 5 = w + 5
        BY <1>8
      <3> QED
        BY <1>2, <3>1
    <2>2. t(6) = b(0) /\ t(7) = b(1)
      <3>1. 8 * (k - 1) + 6 = w + 6 + 0 /\ 8 * (k - 1) + 7 = w + 6 + 1
        BY <1>7, <1>8
      <3> QED
        BY <1>3, <3>1
    <2> HIDE DEF a, b, t, c, e
    <2>3. ByteAt(y, k)
            = Eight(a(0), a(1), a(2), a(3),
                    a(4), a(5), b(0), b(1))
      BY <1>6, <2>1, <2>2
    <2>4. ByteAt(y, k)
            = Six(a(0), a(1), a(2), a(3), a(4), a(5)) * 4 + Two(b(0), b(1))
      BY <1>5, <2>3, ByteCut
    <2>5. c = Six(a(0), a(1), a(2), a(3), a(4), a(5)) /\ e \div 16 = Two(b(0), b(1))
      BY <1>4 DEF Parts
    <2> QED
      BY <2>4, <2>5
  <1>9. ASSUME 8 * (k - 1) = w + 2
        PROVE  ByteAt(y, k) = (c % 16) * 16 + e \div 4
    <2>1. t(0) = a(2) /\ t(1) = a(3) /\ t(2) = a(4) /\ t(3) = a(5)
      <3>1. /\ 8 * (k - 1) + 0 = w + 2 /\ 8 * (k - 1) + 1 = w + 3
            /\ 8 * (k - 1) + 2 = w + 4 /\ 8 * (k - 1) + 3 = w + 5
        BY <1>7, <1>9
      <3> QED
        BY <1>2, <3>1
    <2>2. t(4) = b(0) /\ t(5) = b(1) /\ t(6) = b(2) /\ t(7) = b(3)
      <3>1. /\ 8 * (k - 1) + 4 = w + 6 + 0 /\ 8 * (k - 1) + 5 = w + 6 + 1
            /\ 8 * (k - 1) + 6 = w + 6 + 2 /\ 8 * (k - 1) + 7 = w + 6 + 3
        BY <1>7, <1>9
      <3> QED
        BY <1>3, <3>1
    <2> HIDE DEF a, b, t, c, e
    <2>3. ByteAt(y, k)
            = Eight(a(2), a(3), a(4), a(5),
                    b(0), b(1), b(2), b(3))
      BY <1>6, <2>1, <2>2
    <2>4. ByteAt(y, k)
            = Four(a(2), a(3), a(4), a(5)) * 16 + Four(b(0), b(1), b(2), b(3))
      BY <1>5, <2>3, ByteCut
    <2>5. c % 16 = Four(a(2), a(3), a(4), a(5)) /\ e \div 4 = Four(b(0), b(1), b(2), b(3))
      BY <1>4 DEF Parts
    <2> QED
      BY <2>4, <2>5
  <1>10. ASSUME 8 * (k - 1) = w + 4
         PROVE  ByteAt(y, k) = (c % 4) * 64 + e
    <2>1. t(0) = a(4) /\ t(1) = a(5)
      <3>1. 8 * (k - 1) + 0 = w + 4 /\ 8 * (k - 1) + 1 = w + 5
        BY <1>7, <1>10
      <3> QED
        BY <1>2, <3>1
    <2>2. /\ t(2) = b(0) /\ t(3) = b(1) /\ t(4) = b(2) /\ t(5) = b(3)
          /\ t(6) = b(4) /\ t(7) = b(5)
      <3>1. /\ 8 * (k - 1) + 2 = w + 6 + 0 /\ 8 * (k - 1) + 3 = w + 6 + 1
            /\ 8 * (k - 1) + 4 = w + 6 + 2 /\ 8 * (k - 1) + 5 = w + 6 + 3
            /\ 8 * (k - 1) + 6 = w + 6 + 4 /\ 8 * (k - 1) + 7 = w + 6 + 5
        BY <1>7, <1>10
      <3> QED
        BY <1>3, <3>1
    <2> HIDE DEF a, b, t, c, e
    <2>3. ByteAt(y, k)
            = Eight(a(4), a(5), b(0), b(1),
                    b(2), b(3), b(4), b(5))
      BY <1>6, <2>1, <2>2
    <2>4. ByteAt(y, k)
            = Two(a(4), a(5)) * 64 + Six(b(0), b(1), b(2), b(3), b(4), b(5))
      BY <1>5, <2>3, ByteCut
    <2>5. c % 4 = Two(a(4), a(5)) /\ e = Six(b(0), b(1), b(2), b(3), b(4), b(5))
      BY <1>4 DEF Parts
    <2> QED
      BY <2>4, <2>5
  <1> QED
    BY <1>8, <1>9, <1>10

\* A further character does not change the bytes that are complete.
LEMMA ByteKept ==
  ASSUME NEW y \in Seq(Sextet), NEW v \in Sextet, NEW k \in Nat, k >= 1,
         8 * k <= 6 * Len(y)
  PROVE  ByteAt(Append(y, v), k) = ByteAt(y, k)
  <1> DEFINE u == Append(y, v)
             m == Len(y)
  <1>1. m \in Nat /\ \A i \in 1..m : u[i] = y[i]
    OBVIOUS
  <1> HIDE DEF u
  <1>2. ASSUME NEW i \in 0..7
        PROVE  Bit(u, 8 * (k - 1) + i) = Bit(y, 8 * (k - 1) + i)
    <2> DEFINE n == 8 * (k - 1) + i
    <2>1. n \in Nat /\ n < 6 * m
      BY <1>1
    <2> HIDE DEF n, m
    <2>2. (n \div 6) + 1 \in 1..m
      BY <1>1, <2>1
    <2>3. u[(n \div 6) + 1] = y[(n \div 6) + 1]
      BY <1>1, <2>2
    <2>4. Bit(u, n) = Bit(y, n)
      BY <2>3 DEF Bit
    <2> QED
      BY <2>4 DEF n
  <1>3. ByteAt(u, k) = ByteAt(y, k)
    BY <1>2 DEF ByteAt
  <1> QED
    BY <1>3 DEF u

\* What the decoder has made of the symbols y read so far: their whole bytes,
\* and in the buffer the bits of the last one that are left over.
TextOf(y) ==
  /\ y \in Seq(Sextet)
  /\ 8 * Len(dst) + bits = 6 * Len(y)
  /\ bits = 6 => buf % 64 = y[Len(y)]
  /\ bits = 4 => buf % 16 = y[Len(y)] % 16
  /\ bits = 2 => buf % 4 = y[Len(y)] % 4
  /\ \A k \in 1..Len(dst) : dst[k] = ByteAt(y, k)

TextRead == TextOf(SymbolsOf(chars)[decoded])

\* One character of the alphabet: the byte that is complete, if any, is made
\* of what the buffer kept of the last symbol and of the new one.
LEMMA TextGoesOn ==
  ASSUME B64Types, NEW y, TextOf(y), DecodeChar, NEW v \in Sextet,
         v = chars[decoded + 1]
  PROVE  TextOf(Append(y, v))'
  <1> DEFINE m == Len(y)
             u == Append(y, v)
             b == (buf * 64 + v) % BufWord
             j == Len(dst)
  <1>1. v \in 0..63 /\ v # Bad /\ v # Pad
    BY DEF Sextet, Bad, Pad
  <1>2. ShiftedIn(b, buf, v)
    BY <1>1, ShiftIn DEF B64Types
  <1>3. /\ buf' = b
        /\ bits + 6 >= 8 => /\ bits' = bits + 6 - 8
                            /\ dst' = Append(dst, Extract(b, bits'))
        /\ ~(bits + 6 >= 8) => bits' = bits + 6 /\ dst' = dst
    BY <1>1 DEF DecodeChar
  <1>4. /\ y \in Seq(Sextet) /\ m \in Nat /\ dst \in Seq(Byte) /\ j \in Nat
        /\ bits \in {0, 2, 4, 6} /\ 8 * j + bits = 6 * m
    BY DEF TextOf, B64Types
  <1>5. u \in Seq(Sextet) /\ Len(u) = m + 1
    BY <1>4
  <1>6. u[m + 1] = v /\ \A i \in 1..m : u[i] = y[i]
    BY <1>4
  <1>7. \A k \in 1..j : dst[k] = ByteAt(u, k)
    <2> SUFFICES ASSUME NEW k \in 1..j PROVE dst[k] = ByteAt(u, k)
      OBVIOUS
    <2>1. k \in Nat /\ k >= 1 /\ 8 * k <= 6 * m
      BY <1>4
    <2>2. ByteAt(u, k) = ByteAt(y, k)
      BY <1>4, <2>1, ByteKept
    <2> QED
      BY <2>2 DEF TextOf
  <1>8. /\ b % 64 = v /\ b % 16 = v % 16 /\ b % 4 = v % 4 /\ b \in Nat
        /\ b % 256 = (buf % 4) * 64 + v
        /\ (b \div 4) % 256 = (buf % 16) * 16 + v \div 4
        /\ (b \div 16) % 256 = (buf % 64) * 4 + v \div 16
    BY <1>2 DEF ShiftedIn
  <1> HIDE DEF b, u, m, j
  <1>9. ASSUME bits = 0 PROVE TextOf(u)'
    <2>1. bits' = 6 /\ dst' = dst /\ Len(dst') = j
      BY <1>3, <1>9 DEF j
    <2>2. 8 * j + 6 = 6 * (m + 1)
      BY <1>4, <1>9
    <2>3. buf' % 64 = v
      BY <1>3, <1>8
    <2> QED
      BY <1>5, <1>6, <1>7, <2>1, <2>2, <2>3 DEF TextOf
  <1>10. ASSUME NEW e, bits' = bits - 2, dst' = Append(dst, e), bits # 0,
                e \in Byte, e = ByteAt(u, j + 1),
                bits' = 4 => buf' % 16 = v % 16,
                bits' = 2 => buf' % 4 = v % 4
         PROVE  TextOf(u)'
    <2>1. Len(dst') = j + 1
      BY <1>4, <1>10 DEF j
    <2>2. dst'[j + 1] = e /\ \A k \in 1..j : dst'[k] = dst[k]
      BY <1>4, <1>10 DEF j
    <2>3. \A k \in 1..(j + 1) : dst'[k] = ByteAt(u, k)
      <3> SUFFICES ASSUME NEW k \in 1..(j + 1) PROVE dst'[k] = ByteAt(u, k)
        OBVIOUS
      <3>1. k \in 1..j \/ k = j + 1
        BY <1>4
      <3> QED
        BY <1>7, <1>10, <2>2, <3>1
    <2>4. 8 * (j + 1) + bits' = 6 * (m + 1) /\ bits' # 6
      BY <1>4, <1>10
    <2> QED
      BY <1>5, <1>6, <1>10, <2>1, <2>3, <2>4 DEF TextOf
  <1>11. ASSUME bits # 0
         PROVE  m >= 1 /\ m + 1 <= Len(u) /\ u[m] = y[m] /\ y[m] \in Sextet
    <2>1. m >= 1
      BY <1>4, <1>11
    <2>2. m \in 1..m
      BY <1>4, <2>1
    <2> QED
      BY <1>4, <1>5, <1>6, <2>1, <2>2
  <1>12. ASSUME bits = 6 PROVE TextOf(u)'
    <2>0. m >= 1 /\ m + 1 <= Len(u) /\ u[m] = y[m] /\ bits # 0
      BY <1>11, <1>12
    <2>1. bits' = 4 /\ bits' = bits - 2 /\ dst' = Append(dst, Extract(b, 4))
      BY <1>3, <1>12
    <2>2. Extract(b, 4) = (b \div 16) % 256
      BY DEF Extract
    <2>3. buf % 64 = y[m]
      BY <1>12 DEF TextOf, m
    <2>4. 8 * ((j + 1) - 1) = 6 * (m - 1) /\ j + 1 \in Nat /\ j + 1 >= 1
      BY <1>4, <1>12
    <2>5. ByteAt(u, j + 1) = u[m] * 4 + u[m + 1] \div 16
      BY <1>4, <1>5, <2>0, <2>4, ByteAcross
    <2>6. Extract(b, 4) = ByteAt(u, j + 1)
      BY <1>6, <1>8, <2>0, <2>2, <2>3, <2>5
    <2>7. Extract(b, 4) \in Byte
      BY <1>8, ExtractByte
    <2>8. (bits' = 4 => buf' % 16 = v % 16) /\ (bits' = 2 => buf' % 4 = v % 4)
      BY <1>3, <1>8
    <2> QED
      BY <1>10, <2>0, <2>1, <2>6, <2>7, <2>8
  <1>13. ASSUME bits = 4 PROVE TextOf(u)'
    <2>0. m >= 1 /\ m + 1 <= Len(u) /\ u[m] = y[m] /\ bits # 0
      BY <1>11, <1>13
    <2>1. bits' = 2 /\ bits' = bits - 2 /\ dst' = Append(dst, Extract(b, 2))
      BY <1>3, <1>13
    <2>2. Extract(b, 2) = (b \div 4) % 256
      BY DEF Extract
    <2>3. buf % 16 = y[m] % 16
      BY <1>13 DEF TextOf, m
    <2>4. 8 * ((j + 1) - 1) = 6 * (m - 1) + 2 /\ j + 1 \in Nat /\ j + 1 >= 1
      BY <1>4, <1>13
    <2>5. ByteAt(u, j + 1) = (u[m] % 16) * 16 + u[m + 1] \div 4
      BY <1>4, <1>5, <2>0, <2>4, ByteAcross
    <2>6. Extract(b, 2) = ByteAt(u, j + 1)
      BY <1>6, <1>8, <2>0, <2>2, <2>3, <2>5
    <2>7. Extract(b, 2) \in Byte
      BY <1>8, ExtractByte
    <2>8. (bits' = 4 => buf' % 16 = v % 16) /\ (bits' = 2 => buf' % 4 = v % 4)
      BY <1>3, <1>8
    <2> QED
      BY <1>10, <2>0, <2>1, <2>6, <2>7, <2>8
  <1>14. ASSUME bits = 2 PROVE TextOf(u)'
    <2>0. m >= 1 /\ m + 1 <= Len(u) /\ u[m] = y[m] /\ bits # 0
      BY <1>11, <1>14
    <2>1. bits' = 0 /\ bits' = bits - 2 /\ dst' = Append(dst, Extract(b, 0))
      BY <1>3, <1>14
    <2>2. Extract(b, 0) = b % 256
      BY <1>8 DEF Extract
    <2>3. buf % 4 = y[m] % 4
      BY <1>14 DEF TextOf, m
    <2>4. 8 * ((j + 1) - 1) = 6 * (m - 1) + 4 /\ j + 1 \in Nat /\ j + 1 >= 1
      BY <1>4, <1>14
    <2>5. ByteAt(u, j + 1) = (u[m] % 4) * 64 + u[m + 1]
      BY <1>4, <1>5, <2>0, <2>4, ByteAcross
    <2>6. Extract(b, 0) = ByteAt(u, j + 1)
      BY <1>6, <1>8, <2>0, <2>2, <2>3, <2>5
    <2>7. Extract(b, 0) \in Byte
      BY <1>8, ExtractByte
    <2>8. (bits' = 4 => buf' % 16 = v % 16) /\ (bits' = 2 => buf' % 4 = v % 4)
      BY <1>3, <1>8
    <2> QED
      BY <1>10, <2>0, <2>1, <2>6, <2>7, <2>8
  <1>15. TextOf(u)'
    BY <1>4, <1>9, <1>12, <1>13, <1>14
  <1> QED
    BY <1>15 DEF u

LEMMA SymbolZero ==
  ASSUME NEW t \in Seq(0..Bad)
  PROVE  SymbolsOf(t)[0] = <<>>
  <1>1. Len(t) \in Nat
    OBVIOUS
  <1>2. 0 \in 0..Len(t)
    BY <1>1
  <1> QED
    BY <1>2, SymbolSteps DEF NextSymbols

\* Before the first character there is nothing to show.
LEMMA TextBegins ==
  ASSUME chars \in Seq(0..Bad), decoded = 0, bits = 0, dst = <<>>
  PROVE  TextRead
  <1>1. SymbolsOf(chars)[0] = <<>>
    BY SymbolZero
  <1>2. TextOf(<<>>)
    BY DEF TextOf
  <1> QED
    BY <1>1, <1>2 DEF TextRead

LEMMA TextStep == B64Inv /\ TextRead /\ [B64Next]_b64Vars => TextRead'
  <1> SUFFICES ASSUME B64Inv, TextRead, [B64Next]_b64Vars PROVE TextRead'
    OBVIOUS
  <1>1. B64Types /\ Encoding /\ B64Inv'
    BY B64Step DEF B64Inv
  <1>2. chars \in Seq(0..Bad) /\ chars' \in Seq(0..Bad)
    BY <1>1 DEF B64Inv, B64Types
  \* The encoder leaves the decoder where it starts.
  <1>3. CASE Triple \/ EncodeEnd
    <2>1. decoded' = 0 /\ bits' = 0 /\ dst' = <<>>
      BY <1>1, <1>3 DEF Triple, EncodeEnd, Encoding
    <2>2. SymbolsOf(chars')[0] = <<>>
      BY <1>2, SymbolZero
    <2>3. TextOf(<<>>)'
      BY <2>1 DEF TextOf
    <2> QED
      BY <2>1, <2>2, <2>3 DEF TextRead
  <1>4. CASE UNCHANGED <<chars, decoded, bits, buf, dst>>
    <2>1. \A y : TextOf(y)' <=> TextOf(y)
      BY <1>4 DEF TextOf
    <2> QED
      BY <1>4, <2>1 DEF TextRead
  <1>5. CASE DecodeChar
    <2>1. PICK v : v = chars[decoded + 1]
      OBVIOUS
    <2>2. PICK y : y = SymbolsOf(chars)[decoded]
      OBVIOUS
    <2>3. decoded \in Nat /\ decoded < Len(chars) /\ chars' = chars
      BY <1>1, <1>5 DEF B64Types, DecodeChar
    <2>4. SymbolsOf(chars)[decoded + 1] =
            IF v \in Sextet THEN Append(y, v) ELSE y
      <3> DEFINE n == decoded + 1
      <3>1. Len(chars) \in Nat
        BY <1>2
      <3>2. n \in 0..Len(chars) /\ n # 0 /\ n - 1 = decoded
        BY <2>3, <3>1
      <3> HIDE DEF n
      <3>3. SymbolsOf(chars)[n] = NextSymbols(chars, SymbolsOf(chars), n)
        BY <1>2, <3>2, SymbolSteps
      <3> QED
        BY <2>1, <2>2, <3>2, <3>3 DEF NextSymbols, n
    <2>5. TextOf(y)
      BY <2>2 DEF TextRead
    <2>6. v \in 0..Bad
      <3> DEFINE S == 0..Bad
      <3>1. Len(chars) \in Nat
        BY <1>2
      <3>2. decoded + 1 \in 1..Len(chars)
        BY <2>3, <3>1
      <3>3. chars \in Seq(S)
        BY <1>2
      <3> HIDE DEF S
      <3>4. chars[decoded + 1] \in S
        BY <3>2, <3>3
      <3> QED
        BY <2>1, <3>4 DEF S
    <2>7. CASE v = Bad
      BY <1>4, <1>5, <2>1, <2>7 DEF DecodeChar
    <2>8. CASE v = Pad
      <3>1. /\ decoded' = decoded + 1
            /\ UNCHANGED <<bits, buf, dst>>
        BY <1>5, <2>1, <2>8 DEF DecodeChar, Pad, Bad
      <3>2. v \notin Sextet
        BY <2>8 DEF Pad, Sextet
      <3>3. SymbolsOf(chars')[decoded'] = y
        BY <2>3, <2>4, <3>1, <3>2
      <3>4. TextOf(y)'
        BY <2>5, <3>1 DEF TextOf
      <3> QED
        BY <3>3, <3>4 DEF TextRead
    <2>9. CASE v # Bad /\ v # Pad
      <3>1. v \in Sextet
        BY <2>6, <2>9 DEF Bad, Pad, Sextet
      <3>2. decoded' = decoded + 1
        BY <1>5, <2>1, <2>9 DEF DecodeChar
      <3>3. SymbolsOf(chars')[decoded'] = Append(y, v)
        BY <2>3, <2>4, <3>1, <3>2
      <3>4. TextOf(Append(y, v))'
        BY <1>1, <1>5, <2>1, <2>5, <3>1, TextGoesOn
      <3> QED
        BY <3>3, <3>4 DEF TextRead
    <2> QED
      BY <2>7, <2>8, <2>9
  <1> QED
    BY <1>3, <1>4, <1>5 DEF B64Next, DecodeEnd, b64Vars

LEMMA TextDecoded == B64Inv /\ TextRead => DecodesTheBits
  <1> SUFFICES ASSUME B64Inv, TextRead, codec = "NGX_OK"
               PROVE  dst = [k \in 1..((6 * Len(Symbols)) \div 8) |->
                               ByteAt(Symbols, k)]
    BY DEF DecodesTheBits
  <1> DEFINE y == Symbols
             j == Len(dst)
             m == Len(y)
  <1>1. TextOf(y)
    BY DEF B64Inv, TextRead, Symbols
  <1>2. /\ dst \in Seq(Byte) /\ bits \in {0, 2, 4, 6} /\ y \in Seq(Sextet)
        /\ 8 * j + bits = 6 * m
        /\ \A k \in 1..j : dst[k] = ByteAt(y, k)
    BY <1>1 DEF TextOf, B64Inv, B64Types
  <1>3. j \in Nat /\ m \in Nat /\ dst = [k \in 1..j |-> dst[k]]
    BY <1>2
  <1> HIDE DEF y, j, m
  <1>4. (6 * m) \div 8 = j
    <2>1. j \in Nat /\ m \in Nat /\ bits \in 0..7 /\ 6 * m = 8 * j + bits
      BY <1>2, <1>3
    <2>2. \A n \in 0..7 : (8 * j + n) \div 8 = j
      BY <2>1
    <2> QED
      BY <2>1, <2>2
  <1>5. dst = [k \in 1..j |-> ByteAt(y, k)]
    BY <1>2, <1>3
  <1> QED
    BY <1>4, <1>5 DEF y, m

\* The decoder of ngx_compat.c answers with the whole bytes of a text's bits,
\* for texts of any length and origin, with padding anywhere, and although the
\* int it collects the bits in overflows.
THEOREM DecoderReadsTheBits == B64Spec => []DecodesTheBits
  <1>1. B64Init => TextRead
    <2> SUFFICES ASSUME B64Init PROVE TextRead
      OBVIOUS
    <2>1. chars \in Seq(0..Bad)
      BY B64InitInv DEF B64Inv, B64Types
    <2> QED
      BY <2>1, TextBegins DEF B64Init
  <1> QED
    BY <1>1, B64Invariant, TextStep, TextDecoded, PTL DEF B64Spec
=============================================================================

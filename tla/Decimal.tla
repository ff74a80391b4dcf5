------------------------------- MODULE Decimal -------------------------------
(***************************************************************************)
(* The decimal fields of a credential record: the text credential_put       *)
(* writes with snprintf, the digit loop of credential_atoi64 that reads it  *)
(* back one character per step in unsigned arithmetic of fixed width, and   *)
(* the range credential_get asks of the field.  The record may also hold    *)
(* any other text, since Redis is shared.                                   *)
(***************************************************************************)
EXTENDS Integers, Sequences

CONSTANTS
  IntMax,       \* INT64_MAX
  Int32Max,     \* INT32_MAX
  FieldTexts,   \* the field values other writers may have left
  NoNumber      \* stands for no number

ASSUME WidthAssumption ==
  /\ IntMax \in Nat /\ IntMax >= 9
  /\ Int32Max \in Nat /\ 2 * Int32Max + 1 <= IntMax

ASSUME TextAssumption == FieldTexts \subseteq Seq(0..255)

Word == 2 * IntMax + 2                  \* 2^64
UInt32Max == 2 * Int32Max + 1
Hyphen == 45
Zero == 48
IsDigit(c) == c \in Zero..(Zero + 9)

\* The fields that are decimal numbers; created_at stands for last_used_at too.
FieldRange == [alg        |-> (-Int32Max - 1)..Int32Max,
               sign_count |-> 0..UInt32Max,
               created_at |-> (-IntMax - 1)..IntMax]

VARIABLES
  field,        \* the name of the field being read
  wrote,        \* history: the number credential_put wrote, NoNumber otherwise
  value,        \* the characters of the field
  readPos,      \* characters read so far
  neg, acc,     \* locals of atoi64
  exact,        \* history: the number the digits read so far denote
  rc,           \* "run", "NGX_OK" or "NGX_ERROR" of atoi64
  member        \* the member credential_get fills in: <<number>>, or <<>> for
                \* NGX_DECLINED; NoNumber before

decVars == <<field, wrote, value, readPos, neg, acc, exact, rc, member>>

\* snprintf of "%d", "%lu" and "%lld" by way of the digits of the magnitude.
digits[n \in Nat] ==
  IF n < 10 THEN <<Zero + n>> ELSE Append(digits[n \div 10], Zero + (n % 10))

snprintf(v) == IF v < 0 THEN <<Hyphen>> \o digits[-v] ELSE digits[v]

\* Mutant: the same limit for both signs.
limit_Positive == IntMax

\* The magnitude limit: one more for negative numbers.
limit == IF neg THEN IntMax + 1 ELSE IntMax

\* The signed number a 64-bit word holds, and the word of a number.
ToSigned(w) == IF w > IntMax THEN w - Word ELSE w
Unsigned(n) == n % Word

DecInit ==
  /\ field \in DOMAIN FieldRange
  /\ \/ wrote \in FieldRange[field] /\ value = snprintf(wrote)
     \/ wrote = NoNumber /\ value \in FieldTexts
  /\ readPos = 0 /\ neg = FALSE /\ acc = 0 /\ exact = 0
  /\ rc = "run" /\ member = NoNumber

\* The empty value, and the optional sign, which needs a digit after it.
Sign ==
  /\ rc = "run" /\ readPos = 0 /\ ~neg
  /\ IF value = <<>> \/ value = <<Hyphen>>
     THEN rc' = "NGX_ERROR" /\ UNCHANGED <<readPos, neg>>
     ELSE /\ value[1] = Hyphen
          /\ neg' = TRUE /\ readPos' = 1
          /\ UNCHANGED rc
  /\ UNCHANGED <<field, wrote, value, acc, exact, member>>

\* Mutant: the digit about to be added is left out of the overflow test.
Fits_NoDigit(d) == acc <= limit \div 10

\* The overflow test, written so that nothing in it can overflow.
Fits(d) == acc <= (limit - d) \div 10

Digit ==
  LET c == value[readPos + 1]
      d == c - Zero IN
  /\ rc = "run" /\ readPos < Len(value)
  /\ readPos = 0 => c # Hyphen
  /\ IF IsDigit(c) /\ Fits(d)
     THEN /\ acc' = (acc * 10 + d) % Word
          /\ exact' = exact * 10 + d
          /\ readPos' = readPos + 1
          /\ UNCHANGED rc
     ELSE rc' = "NGX_ERROR" /\ UNCHANGED <<acc, exact, readPos>>
  /\ UNCHANGED <<field, wrote, value, neg, member>>

End ==
  /\ rc = "run" /\ readPos > 0 /\ readPos = Len(value)
  /\ rc' = "NGX_OK"
  /\ UNCHANGED <<field, wrote, value, readPos, neg, acc, exact, member>>

\* *out, with the conversions of the last line.
Parsed == IF neg THEN ToSigned(Unsigned(-ToSigned(acc))) ELSE ToSigned(acc)

\* Mutant: the counter is checked like the algorithm, as a signed number.
InField_Signed(v) ==
  field = "created_at" \/ v \in FieldRange.alg

\* The bounds credential_get puts on the number.
InField(v) == field = "created_at" \/ v \in FieldRange[field]

\* "A usable record needs ... an algorithm", and 0 is none.
NoAlg(v) == field = "alg" /\ v = 0

\* credential_get on the field: a bad time is left at 0, anything else bad
\* makes the record unusable.
Use ==
  /\ rc \in {"NGX_OK", "NGX_ERROR"} /\ member = NoNumber
  /\ member' = IF rc = "NGX_OK" /\ InField(Parsed) /\ ~NoAlg(Parsed)
            THEN <<Parsed>>
            ELSE IF field = "created_at" THEN <<0>> ELSE <<>>
  /\ UNCHANGED <<field, wrote, value, readPos, neg, acc, exact, rc>>

DecNext == Sign \/ Digit \/ End \/ Use

DecSpec == DecInit /\ [][DecNext]_decVars

-----------------------------------------------------------------------------
\* The accumulator of credential_atoi64 never wraps: it is the number read so
\* far, within the limit of its sign.
AccExact == acc = exact /\ acc <= limit

\* What a decimal numeral denotes: the magnitudes of its beginnings, from the
\* sign on, and its value.
SignLen(s) == IF Len(s) > 0 /\ s[1] = Hyphen THEN 1 ELSE 0
Numeral(s) ==
  /\ Len(s) > SignLen(s)
  /\ \A k \in (SignLen(s) + 1)..Len(s) : IsDigit(s[k])
Magnitudes(s) ==
  LET m[n \in 0..Len(s)] ==
        IF n <= SignLen(s) THEN 0 ELSE 10 * m[n - 1] + (s[n] - Zero)
  IN  m
Denotes(s) ==
  IF SignLen(s) = 1 THEN -Magnitudes(s)[Len(s)] ELSE Magnitudes(s)[Len(s)]

\* "Rejects empty input, non-digit characters, and overflow", and nothing
\* else: atoi64 accepts exactly the numerals an int64 holds, INT64_MIN
\* included, with the value they denote.
AtoiIsExact ==
  /\ rc = "NGX_OK" => Numeral(value) /\ Parsed = Denotes(value)
  /\ rc = "NGX_ERROR" =>
       ~ (Numeral(value) /\ Denotes(value) \in (-IntMax - 1)..IntMax)

\* A number credential_put stores is the number credential_get returns, at
\* the ends of the field's range too, with the one exception of algorithm 0,
\* which is declined; in particular no counter an authenticator can send makes
\* the record unreadable.
FieldRoundTrip ==
  wrote # NoNumber /\ member # NoNumber =>
    member = IF field = "alg" /\ wrote = 0 THEN <<>> ELSE <<wrote>>
=============================================================================

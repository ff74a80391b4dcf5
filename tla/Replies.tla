------------------------------- MODULE Replies -------------------------------
(***************************************************************************)
(* The buffers in which the endpoints put their replies together: the       *)
(* challenge reply with its list of credential ids, and, on a login, the    *)
(* escaped user id, the claims, the cookie and the success body.  Each is   *)
(* allocated once from an estimate and then written without bounds checks,  *)
(* so every text counts with its length; only the user id, which is         *)
(* escaped, is kept byte by byte.                                           *)
(***************************************************************************)
EXTENDS Integers, Sequences

CONSTANTS
  Length,       \* lengths of configured strings, tokens and ids
  CredLists,    \* sequences of the lengths of a user's credential ids
  UserIds,      \* user ids, as byte strings
  TimeLen       \* characters of the widest time or counter

ASSUME ReplyAssumption ==
  /\ Length \subseteq Nat
  /\ CredLists \subseteq Seq(Nat)
  /\ UserIds \subseteq Seq(0..255)
  /\ TimeLen \in 1..20

VARIABLES
  repPc,         \* the next step
  creds,         \* lengths of the ids SMEMBERS returned
  user_id,       \* the user id of the record
  textLen,       \* lengths of the other texts of the reply
  idx, sum,      \* loop index and summed lengths
  bufSize, used, \* bytes allocated for the current buffer, bytes written
  esc            \* the escaped user id

repVars == <<repPc, creds, user_id, textLen, idx, sum, bufSize, used, esc>>

TextLens == [rp_id : Length, token : Length, domain : Length,
             time : {1, TimeLen}, secure : BOOLEAN]

RepInit ==
  /\ \/ repPc = "sum" /\ creds \in CredLists /\ user_id = <<>>
     \/ repPc = "escape" /\ creds = <<>> /\ user_id \in UserIds
  /\ textLen \in TextLens
  /\ idx = 0 /\ sum = 0 /\ used = 0 /\ esc = <<>>
  /\ bufSize = 6 * Len(user_id)

\* Bytes written into a buffer of n bytes, one that is allocated now.
Allocate(n, written) == bufSize' = n /\ used' = written

-----------------------------------------------------------------------------
(* The challenge reply.  textLen.token is the challenge's encoding here.   *)

uv_max == 11            \* "discouraged"

\* for (...) sum += creds[i].len
SumIds ==
  /\ repPc = "sum" /\ idx < Len(creds)
  /\ sum' = sum + creds[idx + 1]
  /\ idx' = idx + 1
  /\ UNCHANGED <<repPc, creds, user_id, textLen, bufSize, used, esc>>

\* Mutant: the estimate per id counts the comma and the quotes only.
ALLOWCRED_OVERHEAD_NoType == 3

\* NGX_AUTH_WEBAUTHN_ALLOWCRED_OVERHEAD
ALLOWCRED_OVERHEAD == 32

\* The body is allocated and everything before the list is written.
Opening ==
  /\ repPc = "sum" /\ idx = Len(creds)
  /\ Allocate(160 + textLen.token + textLen.rp_id + uv_max
                + Len(creds) * ALLOWCRED_OVERHEAD + sum,
              79 + textLen.token + textLen.rp_id + uv_max + textLen.time)
  /\ idx' = 0 /\ repPc' = "entries"
  /\ UNCHANGED <<creds, user_id, textLen, sum, esc>>

\* One id, after a comma from the second on.
Entry ==
  /\ repPc = "entries" /\ idx < Len(creds)
  /\ used' = used + (IF idx = 0 THEN 29 ELSE 30) + creds[idx + 1]
  /\ idx' = idx + 1
  /\ UNCHANGED <<repPc, creds, user_id, textLen, sum, bufSize, esc>>

Brackets ==
  /\ repPc = "entries" /\ idx = Len(creds)
  /\ used' = used + 2
  /\ repPc' = "sent"
  /\ UNCHANGED <<creds, user_id, textLen, idx, sum, bufSize, esc>>

-----------------------------------------------------------------------------
(* The login reply.  textLen.token stands for the credential id, the JWT   *)
(* and the cookie path, textLen.rp_id for the cookie name too.             *)

Quote == 34
Backslash == 92
hex == <<48, 49, 50, 51, 52, 53, 54, 55, 56, 57, 97, 98, 99, 100, 101, 102>>

\* Mutant: only control bytes are escaped.
escape_ControlOnly(c) ==
  IF c < 32 THEN <<Backslash, 117, 48, 48, hex[(c \div 16) + 1],
                   hex[(c % 16) + 1]>>
  ELSE <<c>>

\* The characters json_escape writes for one byte.
escape(c) ==
  CASE c = Quote     -> <<Backslash, Quote>>
    [] c = Backslash -> <<Backslash, Backslash>>
    [] c = 10        -> <<Backslash, 110>>
    [] c = 13        -> <<Backslash, 114>>
    [] c = 9         -> <<Backslash, 116>>
    [] OTHER         -> IF c < 32
                        THEN <<Backslash, 117, 48, 48, hex[(c \div 16) + 1],
                               hex[(c % 16) + 1]>>
                        ELSE <<c>>

json_escape ==
  /\ repPc = "escape" /\ idx < Len(user_id)
  /\ esc' = esc \o escape(user_id[idx + 1])
  /\ used' = used + Len(escape(user_id[idx + 1]))
  /\ idx' = idx + 1
  /\ UNCHANGED <<repPc, creds, user_id, textLen, sum, bufSize>>

\* aud, sub, cid, iat, exp and a 22-character jti.
Claims ==
  /\ repPc = "escape" /\ idx = Len(user_id)
  /\ Allocate(256 + Len(esc) + textLen.token + textLen.rp_id + 22,
              74 + Len(esc) + textLen.token + textLen.rp_id + 22
                + 2 * textLen.time)
  /\ repPc' = "cookie"
  /\ UNCHANGED <<creds, user_id, textLen, idx, sum, esc>>

\* Name, token, path and domain; SameSite is at most "Strict".
Cookie ==
  LET texts == textLen.token + textLen.rp_id + textLen.token + textLen.domain IN
  /\ repPc = "cookie"
  /\ Allocate(texts + 128,
              texts + 29 + 6 + (IF textLen.secure THEN 8 ELSE 0)
                + (IF textLen.domain > 0 THEN 9 ELSE 0) + 10 + textLen.time)
  /\ repPc' = "body"
  /\ UNCHANGED <<creds, user_id, textLen, idx, sum, esc>>

SuccessBody ==
  /\ repPc = "body"
  /\ Allocate(64 + Len(esc), 31 + Len(esc) + textLen.time)
  /\ repPc' = "sent"
  /\ UNCHANGED <<creds, user_id, textLen, idx, sum, esc>>

RepNext ==
  \/ SumIds \/ Opening \/ Entry \/ Brackets
  \/ json_escape \/ Claims \/ Cookie \/ SuccessBody

RepSpec == RepInit /\ [][RepNext]_repVars

-----------------------------------------------------------------------------
\* No reply outgrows its buffer, for any number of credentials, any lengths
\* and the widest times.
ReplyFits == used <= bufSize

(* jansson, which reads the claims back at the gate, goes through the text *)
(* byte by byte. It keeps the escape sequence begun and the bytes read,    *)
(* and, for its check of UTF-8, the sets that the bytes still missing of a *)
(* character must come from: the empty set, once the text is malformed.    *)

Reject == <<-1>>
HexValue(c) == IF c < 58 THEN c - 48 ELSE c - 87
Short == [c \in 0..255 |-> CASE c = 110 -> 10 [] c = 114 -> 13 [] c = 116 -> 9
                             [] OTHER -> c]
Unescape(s, c) ==
  CASE s.esc = <<>> -> IF c = Backslash THEN [s EXCEPT !.esc = <<c>>]
                       ELSE IF c = Quote \/ c < 32 THEN [s EXCEPT !.out = Reject]
                       ELSE [s EXCEPT !.out = Append(@, c)]
    [] Len(s.esc) = 1 /\ c # 117 ->
         [esc |-> <<>>, out |-> Append(s.out, Short[c])]
    [] Len(s.esc) = 5 ->
         [esc |-> <<>>,
          out |-> Append(s.out, HexValue(s.esc[5]) * 16 + HexValue(c))]
    [] OTHER -> [s EXCEPT !.esc = Append(@, c)]

Continuation == 128..191
Malformed == <<{}>>
\* No overlong form, no surrogate, nothing above U+10FFFF.
Second(c) == CASE c = 224 -> 160..191 [] c = 237 -> 128..159
               [] c = 240 -> 144..191 [] c = 244 -> 128..143
               [] OTHER   -> Continuation
Lead(c) == IF c < 128 THEN <<>>
           ELSE IF c \in 194..223 THEN <<Continuation>>
           ELSE IF c \in 224..239 THEN <<Second(c), Continuation>>
           ELSE IF c \in 240..244 THEN <<Second(c), Continuation, Continuation>>
           ELSE Malformed
Utf8(more, c) == IF more = <<>> THEN Lead(c)
                 ELSE IF c \in Head(more) THEN Tail(more) ELSE Malformed

Reader(s, c) == [text |-> Unescape(s.text, c), more |-> Utf8(s.more, c)]

\* Its states on the way through a text, and the one at the end.
ReaderStates(text) ==
  LET state[n \in 0..Len(text)] ==
        IF n = 0 THEN [text |-> [esc |-> <<>>, out |-> <<>>], more |-> <<>>]
        ELSE Reader(state[n - 1], text[n])
  IN  state
ReadBack(text) == ReaderStates(text)[Len(text)]

IsUtf8(text) == ReadBack(text).more = <<>>
NoNul(bytes) == \A i \in DOMAIN bytes : bytes[i] > 0

\* A string is read when it is UTF-8, ends outside an escape sequence, holds
\* no character that had to be escaped and, as jansson allows it only on
\* request, no \u0000.
Accepts(text) ==
  IsUtf8(text) /\ ReadBack(text).text.esc = <<>> /\ NoNul(ReadBack(text).text.out)

\* The gate can read the claims exactly when the user id of the record is
\* UTF-8 without a NUL, and the subject it then hands the application is that
\* user id, quotes, backslashes and control bytes included. A session minted
\* for any other user id is refused at the gate, not handed on as another.
SubjectRoundTrip ==
  repPc = "cookie" =>
    /\ Accepts(esc) <=> IsUtf8(user_id) /\ NoNul(user_id)
    /\ Accepts(esc) => ReadBack(esc).text.out = user_id
=============================================================================

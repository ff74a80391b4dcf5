------------------------------ MODULE Base64Url ------------------------------
(***************************************************************************)
(* The base64url encoder and decoder the admin CLI is built with            *)
(* (ngx_compat.c): the encoder three bytes per step, the decoder one        *)
(* character per step with its bit buffer.  A character is its value in the *)
(* alphabet, or Pad for `=', or Bad for any other byte: basis and           *)
(* b64url_char are each other's inverse.                                    *)
(***************************************************************************)
EXTENDS Integers, Sequences

CONSTANTS
  Inputs,       \* byte strings given to the encoder
  OtherTexts,   \* texts of any other origin given to the decoder
  BufWord       \* the decoder's bit buffer is an int; the left shift that
                \* overflows it keeps the low bits, as compilers do

Byte == 0..255
Sextet == 0..63
Pad == 64
Bad == 65

\* The encoder's table, A-Z a-z 0-9 - _, and the decoder's way back.
basis ==
  [v \in Sextet |-> IF v < 26 THEN 65 + v
                    ELSE IF v < 52 THEN 97 + (v - 26)
                    ELSE IF v < 62 THEN 48 + (v - 52)
                    ELSE IF v = 62 THEN 45 ELSE 95]

b64url_char(c) ==
  IF c >= 65 /\ c <= 90 THEN c - 65
  ELSE IF c >= 97 /\ c <= 122 THEN c - 97 + 26
  ELSE IF c >= 48 /\ c <= 57 THEN c - 48 + 52
  ELSE IF c = 45 THEN 62 ELSE IF c = 95 THEN 63 ELSE -1

ASSUME CodecAssumption ==
  /\ Inputs \subseteq Seq(Byte)
  /\ OtherTexts \subseteq Seq(0..Bad)
  /\ BufWord \in Nat /\ BufWord % 16384 = 0 /\ BufWord > 0

VARIABLES
  codec,        \* "encode", "decode", "NGX_OK" or "NGX_ERROR"
  src,          \* the bytes to encode, <<>> for a text of other origin
  s,            \* bytes encoded so far
  chars,        \* the encoded text
  decoded,      \* characters decoded so far
  bits, buf,    \* the decoder's bit count and buffer
  dst           \* the bytes decoded so far

b64Vars == <<codec, src, s, chars, decoded, bits, buf, dst>>

\* The buffer sizes callers allocate.
encoded_length(n) == ((n + 2) \div 3) * 4

\* Mutant: rounded down to whole groups.
decoded_length_Floor(n) == (n \div 4) * 3

decoded_length(n) == ((n + 3) \div 4) * 3

B64Init ==
  /\ \/ codec = "encode" /\ src \in Inputs /\ chars = <<>>
     \/ codec = "decode" /\ src = <<>> /\ chars \in OtherTexts
  /\ s = 0 /\ decoded = 0 /\ bits = 0 /\ buf = 0 /\ dst = <<>>

High(b) == b \div 4
Middle(b, c) == (b % 4) * 16 + (c \div 16)
Low(c, e) == (c % 16) * 4 + (e \div 64)

\* while (len > 2): three bytes become four characters.
Triple ==
  LET b == src[s + 1]
      c == src[s + 2]
      e == src[s + 3] IN
  /\ codec = "encode" /\ Len(src) - s > 2
  /\ chars' = chars \o <<High(b), Middle(b, c), Low(c, e), e % 64>>
  /\ s' = s + 3
  /\ UNCHANGED <<codec, src, decoded, bits, buf, dst>>

\* Mutant: the last characters are not shifted into place.
Rest_Unshifted(n) ==
  CASE n = 0 -> <<>>
    [] n = 1 -> <<High(src[s + 1]), src[s + 1] % 4>>
    [] n = 2 -> <<High(src[s + 1]), Middle(src[s + 1], src[s + 2]),
                  src[s + 2] % 16>>

\* The one or two bytes left over, without padding.
Rest(n) ==
  CASE n = 0 -> <<>>
    [] n = 1 -> <<High(src[s + 1]), Middle(src[s + 1], 0)>>
    [] n = 2 -> <<High(src[s + 1]), Middle(src[s + 1], src[s + 2]),
                  Low(src[s + 2], 0)>>

EncodeEnd ==
  /\ codec = "encode" /\ Len(src) - s <= 2
  /\ chars' = chars \o Rest(Len(src) - s)
  /\ s' = Len(src)
  /\ codec' = "decode"
  /\ UNCHANGED <<src, decoded, bits, buf, dst>>

\* Mutant: the bits that belong to the next byte are not shifted out.
Extract_Low(b, k) == b % 256

\* (u_char) ((buf >> bits) & 0xff)
Extract(b, k) == (b \div 2^k) % 256

DecodeChar ==
  LET v == chars[decoded + 1]
      b == (buf * 64 + v) % BufWord IN
  /\ codec = "decode" /\ decoded < Len(chars)
  /\ IF v = Bad
     THEN codec' = "NGX_ERROR" /\ UNCHANGED <<decoded, bits, buf, dst>>
     ELSE /\ decoded' = decoded + 1
          /\ IF v = Pad THEN UNCHANGED <<bits, buf, dst>>
             ELSE /\ buf' = b
                  /\ IF bits + 6 >= 8
                     THEN /\ bits' = bits + 6 - 8
                          /\ dst' = Append(dst, Extract(b, bits'))
                     ELSE bits' = bits + 6 /\ UNCHANGED dst
          /\ UNCHANGED codec
  /\ UNCHANGED <<src, s, chars>>

DecodeEnd ==
  /\ codec = "decode" /\ decoded = Len(chars)
  /\ codec' = "NGX_OK"
  /\ UNCHANGED <<src, s, chars, decoded, bits, buf, dst>>

B64Next == Triple \/ EncodeEnd \/ DecodeChar \/ DecodeEnd

B64Spec == B64Init /\ [][B64Next]_b64Vars

-----------------------------------------------------------------------------
\* Neither loop writes past the buffer its caller allocated, whatever the
\* text, with padding characters anywhere in it.
WithinBuffers ==
  /\ Len(dst) <= decoded_length(Len(chars))
  /\ src # <<>> => Len(chars) <= encoded_length(Len(src))

\* What a text means, bit by bit: the characters of the alphabet among its
\* first n, the k-th of which holds bits 6(k-1) to 6k-1, and the k-th byte.
SymbolsOf(t) ==
  LET f[n \in 0..Len(t)] ==
        IF n = 0 THEN <<>>
        ELSE IF t[n] \in Sextet THEN Append(f[n - 1], t[n]) ELSE f[n - 1]
  IN  f
Symbols == SymbolsOf(chars)[Len(chars)]
BitOf(c, p) == (c \div 2^(5 - p)) % 2
Bit(y, n) == BitOf(y[(n \div 6) + 1], n % 6)
ByteAt(y, k) ==
  LET b(n) == Bit(y, 8 * (k - 1) + n)
  IN  128 * b(0) + 64 * b(1) + 32 * b(2) + 16 * b(3)
      + 8 * b(4) + 4 * b(5) + 2 * b(6) + b(7)

\* The decoder's answer is the whole bytes of the text's bits, although the
\* bit buffer, an int shifted left for every character, soon overflows.
DecodesTheBits ==
  codec = "NGX_OK" =>
    dst = [k \in 1..((6 * Len(Symbols)) \div 8) |-> ByteAt(Symbols, k)]

\* Decoding what the encoder wrote gives the bytes back: the credential id
\* register uses as a Redis key is the id the authenticator presents.
RoundTrip == codec = "NGX_OK" /\ src # <<>> => dst = src
=============================================================================

------------------------------ MODULE ReadFile -------------------------------
(***************************************************************************)
(* auth_webauthn_admin_read_file, one turn of its loop per step: the buffer *)
(* doubles when it is full, a read may fail half way, and the text is       *)
(* terminated with a NUL; then chomp, for a password file.  A file is its   *)
(* size and the line-end characters ("n" and "r") it ends with.              *)
(***************************************************************************)
EXTENDS Naturals, Sequences, FiniteSetsExt

CONSTANTS
  Chunk,        \* AUTH_WEBAUTHN_ADMIN_READ_CHUNK
  FileMax,      \* AUTH_WEBAUTHN_ADMIN_FILE_MAX
  MaxSize,      \* bound on the size of the instance's files
  MaxEnds       \* bound on the line-end characters they end with

ASSUME ReadAssumption ==
  Chunk \in Nat \ {0} /\ FileMax \in Nat /\ MaxSize \in Nat /\ MaxEnds \in Nat

VARIABLES
  fileSize, ends, \* the file
  filePc,         \* "read", "end", "chomp", "NGX_OK" or "NGX_ERROR"
  cap, filled,    \* bytes allocated for the buffer, bytes in it
  ferror,         \* the stream's error flag
  top,            \* one past the highest byte ever written to the buffer
  result          \* length of the result

fileVars == <<fileSize, ends, filePc, cap, filled, ferror, top, result>>

LineEnds == UNION {[1..n -> {"n", "r"}] : n \in 0..MaxEnds}

FileInit ==
  /\ fileSize \in 0..MaxSize
  /\ ends \in LineEnds /\ Len(ends) <= fileSize
  /\ filePc = "read" /\ cap = Chunk /\ filled = 0
  /\ ferror = FALSE /\ top = 0 /\ result = 0

\* if (len == cap): the input is too large, or the buffer is doubled.
Grow ==
  /\ filePc = "read" /\ filled = cap
  /\ IF cap >= FileMax
     THEN filePc' = "NGX_ERROR" /\ UNCHANGED <<cap, top>>
     ELSE /\ cap' = cap * 2
          /\ top' = filled
          /\ UNCHANGED filePc
  /\ UNCHANGED <<fileSize, ends, filled, ferror, result>>

\* What fread returns and whether it sets the error flag: all that fits, or
\* less after an error.
fread(n, err) ==
  LET all == Min({cap - filled, fileSize - filled})
  IN  IF err THEN n <= all ELSE n = all

\* Mutant: a short read is taken for the end of the file.
AtEnd_ShortRead(n) == n < cap - filled

\* if (n == 0)
AtEnd(n) == n = 0

Read(n, err) ==
  /\ filePc = "read" /\ filled < cap
  /\ fread(n, err)
  /\ filled' = filled + n
  /\ top' = Max({top, filled + n})
  /\ ferror' = (ferror \/ err)
  /\ filePc' = IF ~AtEnd(n) THEN "read"
           ELSE IF n = 0 /\ ferror' THEN "NGX_ERROR" ELSE "end"
  /\ UNCHANGED <<fileSize, ends, cap, result>>

\* buf[len] = NUL, in a larger buffer when this one is full.
Terminate ==
  /\ filePc = "end"
  /\ cap' = IF filled = cap THEN cap + 1 ELSE cap
  /\ top' = filled + 1
  /\ result' = filled
  /\ filePc' = "chomp"
  /\ UNCHANGED <<fileSize, ends, filled, ferror>>

\* Any allocation may fail.
ReadNoMemory ==
  /\ filePc \in {"read", "end"}
  /\ filePc' = "NGX_ERROR"
  /\ UNCHANGED <<fileSize, ends, cap, filled, ferror, top, result>>

\* Character k of the file; "x" is any that ends no line.
CharAt(k) ==
  LET body == fileSize - Len(ends) IN IF k > body THEN ends[k - body] ELSE "x"

\* chomp, one turn of its loop: while the last character is "\n" or "\r" it is
\* dropped.  Its comment speaks of "a single trailing" line end; the loop has no
\* such limit.
Chomp ==
  /\ filePc = "chomp"
  /\ IF result > 0 /\ CharAt(result) \in {"n", "r"}
     THEN result' = result - 1 /\ UNCHANGED filePc
     ELSE filePc' = "NGX_OK" /\ UNCHANGED result
  /\ UNCHANGED <<fileSize, ends, cap, filled, ferror, top>>

FileNext ==
  \/ Grow \/ Terminate \/ ReadNoMemory \/ Chomp
  \/ \E n \in 0..MaxSize, err \in BOOLEAN : Read(n, err)

FileSpec == FileInit /\ [][FileNext]_fileVars

-----------------------------------------------------------------------------
\* A file is used only as a whole: one whose reading failed half way, at any
\* fill of the buffer, is an error and never a shorter response or password;
\* chomp takes off the line ends, all of them, and nothing else.  On the way no
\* byte, the terminator included, is written outside the buffer.
WholeFile ==
  /\ top <= cap
  /\ filePc \in {"chomp", "NGX_OK"} => filled = fileSize /\ ~ferror
  /\ filePc = "NGX_OK" =>
       /\ \A k \in (result + 1)..fileSize : CharAt(k) \in {"n", "r"}
       /\ result > 0 => CharAt(result) = "x"
=============================================================================

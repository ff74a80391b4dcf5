----------------------------- MODULE RedisClient -----------------------------
(***************************************************************************)
(* The blocking Redis client every other component is written against      *)
(* (ngx_auth_webauthn_redis.c over hiredis).  A process opens one handle,   *)
(* sends one command at a time and blocks until the reply, an error or the  *)
(* timeout; the server executes each command atomically.  Only what the     *)
(* callers can tell apart is kept: whether the command took effect, whether *)
(* a usable reply came back, and whether the handle may be used again.      *)
(***************************************************************************)
EXTENDS Naturals

CONSTANTS
  Faults,       \* the failures this instance exercises, a subset of AllFaults
  Nil           \* the empty reply: a missing field or expiry, an unset local

(***************************************************************************)
(* "noconnect"  connect, AUTH or SELECT failed: the caller gets no handle.  *)
(* "refused"    the server answered with an error reply, or the wrapper ran *)
(*              out of memory or randomness before it sent anything: no     *)
(*              effect, and the handle stays usable.                        *)
(* "unsent"     connection-level error before the server ran the command.   *)
(* "lost"       the server ran the command, the reply never arrived.        *)
(* Two failures of the callers themselves are listed with them:             *)
(* "killed"     the process dies between two commands.                      *)
(* "nomem"      an allocation, RAND_bytes or the token encoder fails while  *)
(*              the answer is put together.                                 *)
(***************************************************************************)
AllFaults == {"noconnect", "refused", "unsent", "lost", "killed", "nomem"}

ASSUME FaultsAssumption == Faults \subseteq AllFaults

ASSUME NilAssumption == Nil \notin Nat

Handle == {"closed", "open", "broken"}

Outcome == {"ok", "refused", "unsent", "lost"}

\* redis_connect: the handles it can return ("closed" stands for NGX_ERROR).
redis_connect ==
  {"open"} \cup (IF "noconnect" \in Faults THEN {"closed"} ELSE {})

\* redis_exec: the outcomes of one command.  hiredis refuses every command
\* after the first connection-level error of a context.
redis_exec(h) ==
  IF h = "open"
  THEN {"ok"} \cup (Faults \cap {"refused", "unsent", "lost"})
  ELSE {"unsent"}

\* The command was executed by the server.
Applied(o) == o \in {"ok", "lost"}

\* The wrapper returns NGX_OK to its caller.
Replied(o) == o = "ok"

\* The handle after a command with outcome o.
HandleAfter(h, o) == IF o \in {"unsent", "lost"} THEN "broken" ELSE h

=============================================================================

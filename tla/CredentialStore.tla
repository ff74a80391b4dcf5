--------------------------- MODULE CredentialStore ---------------------------
(***************************************************************************)
(* The credential records and per-user index kept in Redis                  *)
(* (ngx_auth_webauthn_credential.c) and the two commands of the admin CLI   *)
(* that write them, `register' and `revoke'.  Neither is a transaction:     *)
(* register is HSET then SADD, revoke is HGETALL, DEL, SREM, and another    *)
(* process, a Redis failure or a kill can come between any two of them.     *)
(***************************************************************************)
EXTENDS Naturals, RedisClient

CONSTANTS
  CredId,       \* credential ids; a credential id also names its key pair
  User,         \* user ids
  Admin,        \* concurrently running CLI processes
  MaxCount      \* bound on the 32-bit signature counters of the instance

ASSUME StoreAssumption ==
  /\ MaxCount \in Nat
  /\ Nil \notin User \cup CredId

VARIABLES
  record,       \* {prefix}cred:{id}: the hash of each credential id
  index,        \* {prefix}user:{id}:creds: the id set of each user
  cliPc,        \* where each CLI process is
  cliConn,      \* its Redis handle
  cliArg,       \* its arguments and what it read
  registered,   \* history: ids whose last register HSET / revoke DEL was HSET
  torn          \* history: ids whose last register HSET has no SADD after it

storeVars == <<record, index>>
cliVars == <<cliPc, cliConn, cliArg, registered, torn>>
credVars == <<record, index, cliPc, cliConn, cliArg, registered, torn>>

Count == 0..MaxCount

\* The fields of a record that decide anything.  alg is written and required
\* together with public_key; the other fields are only displayed.
Hash == [user_id    : User \cup {Nil},
         public_key : CredId \cup {Nil},
         sign_count : Count \cup {Nil}]

NoHash == [user_id |-> Nil, public_key |-> Nil, sign_count |-> Nil]

CliPc == {"idle", "put_record", "put_index",
          "delete_get", "delete_record", "delete_index"}

CliArg == [cred : CredId \cup {Nil}, user : User \cup {Nil},
           count : Count \cup {Nil}]

NoArg == [cred |-> Nil, user |-> Nil, count |-> Nil]

-----------------------------------------------------------------------------
(* What the store operations read and write.                               *)

\* Mutant: the test for a usable record is dropped, any field will do.
credential_get_AnyField(h) == h # NoHash

\* credential_get returns NGX_OK: there are fields, public_key (and alg) too.
credential_get(h) == h # NoHash /\ h.public_key # Nil

\* The counter credential_get reports: 0 when the field is missing.
StoredCount(h) == IF h.sign_count = Nil THEN 0 ELSE h.sign_count

\* Mutant: user_id is left out of the field list.
PutFields_Anonymous(h, c, u, n) ==
  [h EXCEPT !.public_key = c, !.sign_count = n]

\* The hash after credential_put's HSET: the fields it names, over the rest.
PutFields(h, c, u, n) ==
  [h EXCEPT !.user_id = u, !.public_key = c, !.sign_count = n]

\* Mutant: the stored counter is advanced by one instead of replaced.
CounterFields_Increment(h, n) == [h EXCEPT !.sign_count = StoredCount(h) + 1]

\* The hash after credential_update_counter's HSET, whatever was there.
CounterFields(h, n) == [h EXCEPT !.sign_count = n]

-----------------------------------------------------------------------------
CredInit ==
  /\ record = [c \in CredId |-> NoHash]
  /\ index = [u \in User |-> {}]
  /\ cliPc = [a \in Admin |-> "idle"]
  /\ cliConn = [a \in Admin |-> "closed"]
  /\ cliArg = [a \in Admin |-> NoArg]
  /\ registered = {}
  /\ torn = {}

\* The process closes its handle, reports and exits.
CliExit(a) ==
  /\ cliPc' = [cliPc EXCEPT ![a] = "idle"]
  /\ cliConn' = [cliConn EXCEPT ![a] = "closed"]
  /\ cliArg' = [cliArg EXCEPT ![a] = NoArg]

\* Go on at step `to' when the reply o is usable, exit with an error otherwise.
CliContinue(a, o, to) ==
  IF Replied(o)
  THEN /\ cliPc' = [cliPc EXCEPT ![a] = to]
       /\ UNCHANGED <<cliConn, cliArg>>
  ELSE CliExit(a)

\* A command starts by connecting.  Without a handle it exits at once, which
\* changes nothing and is not a step.
CliConnect(a, to, arg) ==
  /\ cliPc[a] = "idle"
  /\ cliPc' = [cliPc EXCEPT ![a] = to]
  /\ cliConn' = [cliConn EXCEPT ![a] = "open"]
  /\ cliArg' = [cliArg EXCEPT ![a] = arg]
  /\ UNCHANGED <<record, index, registered, torn>>

\* register: a response that passed attestation, for user u with counter n.
Register(a, c, u, n) ==
  CliConnect(a, "put_record", [cred |-> c, user |-> u, count |-> n])

\* credential_put, first command: HSET of the record.
PutRecord(a, o) ==
  LET c == cliArg[a].cred IN
  /\ cliPc[a] = "put_record"
  /\ IF Applied(o)
     THEN /\ record' = [record EXCEPT ![c] =
                          PutFields(@, c, cliArg[a].user, cliArg[a].count)]
          /\ registered' = registered \cup {c}
          /\ torn' = torn \cup {c}
     ELSE UNCHANGED <<record, registered, torn>>
  /\ CliContinue(a, o, "put_index")
  /\ UNCHANGED index

\* credential_put, second command: SADD to the user's index.
PutIndex(a, o) ==
  LET c == cliArg[a].cred IN
  /\ cliPc[a] = "put_index"
  /\ IF Applied(o)
     THEN /\ index' = [index EXCEPT ![cliArg[a].user] = @ \cup {c}]
          /\ torn' = torn \ {c}
     ELSE UNCHANGED <<index, torn>>
  /\ CliExit(a)
  /\ UNCHANGED <<record, registered>>

Revoke(a, c) ==
  CliConnect(a, "delete_get", [cred |-> c, user |-> Nil, count |-> Nil])

\* Mutant: the index entry is dropped before the record.
DeleteGet_UnlistFirst(a, o) ==
  LET c == cliArg[a].cred
      h == record[c] IN
  /\ cliPc[a] = "delete_get"
  /\ IF Replied(o) /\ credential_get(h)
     THEN /\ cliPc' = [cliPc EXCEPT ![a] = "delete_record"]
          /\ cliArg' = [cliArg EXCEPT ![a].user = h.user_id]
          /\ index' = [index EXCEPT ![h.user_id] = @ \ {c}]
          /\ UNCHANGED cliConn
     ELSE CliExit(a) /\ UNCHANGED index
  /\ UNCHANGED <<record, registered, torn>>

\* credential_delete, first command: the HGETALL of credential_get.  A missing
\* or unusable record ends the command ("no such credential").
DeleteGet(a, o) ==
  LET h == record[cliArg[a].cred] IN
  /\ cliPc[a] = "delete_get"
  /\ IF Replied(o) /\ credential_get(h)
     THEN /\ cliPc' = [cliPc EXCEPT ![a] = "delete_record"]
          /\ cliArg' = [cliArg EXCEPT ![a].user = h.user_id]
          /\ UNCHANGED cliConn
     ELSE CliExit(a)
  /\ UNCHANGED <<record, index, registered, torn>>

\* credential_delete, second command: DEL of the record.
DeleteRecord(a, o) ==
  LET c == cliArg[a].cred IN
  /\ cliPc[a] = "delete_record"
  /\ IF Applied(o)
     THEN /\ record' = [record EXCEPT ![c] = NoHash]
          /\ registered' = registered \ {c}
     ELSE UNCHANGED <<record, registered>>
  /\ IF cliArg[a].user # Nil
     THEN CliContinue(a, o, "delete_index")
     ELSE CliExit(a)
  /\ UNCHANGED <<index, torn>>

\* credential_delete, third command: SREM from the index of the user read.
DeleteIndex(a, o) ==
  /\ cliPc[a] = "delete_index"
  /\ index' = IF Applied(o)
              THEN [index EXCEPT ![cliArg[a].user] = @ \ {cliArg[a].cred}]
              ELSE index
  /\ CliExit(a)
  /\ UNCHANGED <<record, registered, torn>>

\* The operator interrupts the command, or the host goes down.
CliKilled(a) ==
  /\ "killed" \in Faults
  /\ cliPc[a] # "idle"
  /\ CliExit(a)
  /\ UNCHANGED <<record, index, registered, torn>>

\* One command of a running CLI process other than register's HSET.
CliCommand(a) ==
  \E o \in redis_exec(cliConn[a]) :
    \/ PutIndex(a, o)
    \/ DeleteGet(a, o)
    \/ DeleteRecord(a, o)
    \/ DeleteIndex(a, o)

CliStart(a) ==
  \E c \in CredId :
    \/ \E u \in User, n \in Count : Register(a, c, u, n)
    \/ Revoke(a, c)

CredNext ==
  \E a \in Admin :
    \/ CliStart(a)
    \/ \E o \in redis_exec(cliConn[a]) : PutRecord(a, o)
    \/ CliCommand(a)
    \/ CliKilled(a)

CredSpec == CredInit /\ [][CredNext]_credVars

-----------------------------------------------------------------------------
(* Properties of the store under register and revoke alone.                *)

\* Every record, index and CLI local has its type.
CredTypeOK ==
  /\ record \in [CredId -> Hash]
  /\ index \in [User -> SUBSET CredId]
  /\ cliPc \in [Admin -> CliPc]
  /\ cliConn \in [Admin -> {"closed", "open"}]
  /\ cliArg \in [Admin -> CliArg]
  /\ registered \in SUBSET CredId
  /\ torn \in SUBSET CredId

\* What a CLI process knows at each of its steps; part of the inductive
\* invariant of the proofs.
CliLocals ==
  \A a \in Admin :
    /\ cliPc[a] # "idle" => cliArg[a].cred \in CredId
    /\ cliPc[a] \in {"put_record", "put_index"} =>
         cliArg[a].user \in User /\ cliArg[a].count \in Count
    /\ cliPc[a] = "delete_index" => cliArg[a].user \in User

\* Credential c can authenticate exactly when the last word on it was a register.
UsableIff(c) == credential_get(record[c]) <=> c \in registered

\* A credential can authenticate exactly when the last word of the admin CLI on
\* it was a register: in particular a verify that overlaps a revoke, and still
\* writes the counter afterwards, neither brings the credential back nor breaks
\* it.
UsableIffRegistered == \A c \in CredId : UsableIff(c)

\* What a record that can authenticate holds.
RecordsSound ==
  \A c \in CredId :
    credential_get(record[c]) =>
      record[c].user_id \in User /\ record[c].public_key = c

CredInv == CredTypeOK /\ CliLocals /\ RecordsSound

CliIdle == \A a \in Admin : cliPc[a] = "idle"

\* A credential that can authenticate is listed under its user, whatever
\* commands failed or were interrupted, unless its own register stopped
\* between HSET and SADD: in particular revoke, which drops the record before
\* the index entry, never leaves a working credential that `list' hides.
UsableIsListed ==
  CliIdle =>
    \A c \in CredId :
      credential_get(record[c]) /\ c \notin torn
        => c \in index[record[c].user_id]

\* No two CLI processes work on one credential at the same time.
OperatorsApart ==
  \A a, b \in Admin :
    (a # b /\ cliPc[a] # "idle" /\ cliPc[b] # "idle")
      => cliArg[a].cred # cliArg[b].cred

\* The inductive invariant behind UsableIsListed for operators apart: at no
\* moment of a command is a working credential hidden.  Register marks it torn
\* until SADD, and revoke comes to SREM only after DEL.
ListInv ==
  /\ \A c \in CredId :
       credential_get(record[c]) /\ c \notin torn
         => c \in index[record[c].user_id]
  /\ \A a \in Admin :
       LET c == cliArg[a].cred IN
       /\ cliPc[a] = "put_index" =>
            credential_get(record[c]) /\ record[c].user_id = cliArg[a].user
       /\ cliPc[a] = "delete_index" => ~credential_get(record[c])

\* docs/DIRECTIVES.md: "?user_id=<id> returns that user's registered
\* credential ids", that is, the index holds nothing else.
ListedIsRegistered ==
  CliIdle =>
    \A u \in User : \A c \in index[u] :
      credential_get(record[c]) /\ record[c].user_id = u

=============================================================================

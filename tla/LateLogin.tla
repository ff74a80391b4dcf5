----------------------------- MODULE LateLogin ------------------------------
(***************************************************************************)
(* The login path when Redis is slow rather than dead.  A command whose     *)
(* client timed out (SO_RCVTIMEO of redis_connect), or died while waiting,  *)
(* can still sit in a socket buffer and be executed later, after commands   *)
(* that other processes, or the same one on a new handle, sent meanwhile.   *)
(* Only commands that write are kept.                                       *)
(*                                                                         *)
(* `registered' stays what it is in Login, the last word of the admin CLI:  *)
(* a command given up that is executed later does not move it.  A register  *)
(* that timed out and lands after a successful revoke therefore leaves a    *)
(* credential that works against the last word; `overtaken' records where.  *)
(***************************************************************************)
EXTENDS Login

CONSTANT
  MaxLimbo      \* bound on the commands in flight at a time

ASSUME LateAssumption == MaxLimbo \in Nat

VARIABLES
  limbo,        \* commands given up by their sender that may yet be executed
  overtaken     \* history: ids whose last register HSET or revoke DEL to be
                \* executed was one that its sender had given up

lateVars == <<loginVars, limbo, overtaken>>

\* The command the challenge handler is blocked on, if it writes; the EVAL of
\* the rate counter is told from others by the random value of its request.
ChallengeSent(w) ==
  CASE pc[w] = "rate"  -> {[op |-> "EVAL", key |-> chal[w]]}
    [] pc[w] = "issue" -> {[op |-> "SET", key |-> chal[w]]}
    [] OTHER -> {}

\* The command the verify handler is blocked on, if it writes.
VerifySent(w) ==
  CASE pc[w] = "consume" -> {[op |-> "GETDEL", key |-> chal[w]]}
    [] pc[w] = "update"  -> {[op |-> "HSET counter", key |-> pres[w].id,
                              count |-> pres[w].signCount]}
    [] OTHER -> {}

WorkerSent(w) == ChallengeSent(w) \cup VerifySent(w)

\* The command a CLI process is blocked on, if it writes.
CliSent(a) ==
  LET arg == cliArg[a] IN
  CASE cliPc[a] = "put_record"    -> {[op |-> "HSET record", key |-> arg.cred,
                                       user |-> arg.user, count |-> arg.count]}
    [] cliPc[a] = "put_index"     -> {[op |-> "SADD", key |-> arg.user,
                                       cred |-> arg.cred]}
    [] cliPc[a] = "delete_record" -> {[op |-> "DEL", key |-> arg.cred]}
    [] cliPc[a] = "delete_index"  -> {[op |-> "SREM", key |-> arg.user,
                                       cred |-> arg.cred]}
    [] OTHER -> {}

\* The sender gives up on a command: it may or may not be in flight still.
GiveUp(sent) ==
  \/ UNCHANGED limbo
  \/ /\ Cardinality(limbo \cup sent) <= MaxLimbo
     /\ limbo' = limbo \cup sent

\* After outcome o on handle h; a broken handle sends nothing.
AfterCommand(h, o, sent) ==
  IF o = "unsent" /\ h = "open" THEN GiveUp(sent) ELSE UNCHANGED limbo

-----------------------------------------------------------------------------
LateInit == LoginInit /\ limbo = {} /\ overtaken = {}

WorkerCommand(w, o) ==
  \/ /\ RateLimit(w, o) \/ challenge_issue(w, o) \/ AllowCredentials(w, o)
     /\ UNCHANGED <<credVars, verifyVars>>
  \/ challenge_consume(w, o)
  \/ Lookup(w, o)
  \/ update_counter(w, o)

WorkerLocal(w) ==
  \/ Judge(w)
  \/ Mint(w)
  \/ /\ \E at \in {"served", "verified"} : Finish(w, at)
     /\ UNCHANGED <<chalVars, rateVars, credVars, verifyVars>>

CliCommandBy(a, o) ==
  \/ PutIndex(a, o)
  \/ DeleteGet(a, o)
  \/ DeleteRecord(a, o)
  \/ DeleteIndex(a, o)

LateWorker(w) ==
  \/ /\ WorkerStart(w)
     \* the random values of challenges in flight are taken as well
     /\ \A m \in limbo : m.op = "SET" => chal'[w] # m.key
     /\ UNCHANGED limbo
  \/ \E o \in redis_exec(conn[w]) :
       /\ WorkerCommand(w, o)
       /\ AfterCommand(conn[w], o, WorkerSent(w))
  \/ WorkerLocal(w) /\ UNCHANGED limbo
  \/ WorkerDies(w) /\ GiveUp(WorkerSent(w))

\* The CLI waits for the command that decides on its credential.
Deciding(a, o) == cliPc[a] \in {"put_record", "delete_record"} /\ Applied(o)

LateCli(a) ==
  \/ CliStart(a) /\ UNCHANGED <<challengeVars, verifyVars, limbo, overtaken>>
  \/ \E o \in redis_exec(cliConn[a]) :
       /\ \/ /\ PutRecord(a, o)
             /\ top' = IF Applied(o)
                       THEN [top EXCEPT ![cliArg[a].cred] = Nil] ELSE top
          \/ CliCommandBy(a, o) /\ UNCHANGED top
       /\ UNCHANGED <<challengeVars, pres, got, redeemed, minted>>
       /\ AfterCommand(cliConn[a], o, CliSent(a))
       /\ overtaken' = IF Deciding(a, o) THEN overtaken \ {cliArg[a].cred}
                       ELSE overtaken
  \/ /\ CliKilled(a)
     /\ UNCHANGED <<challengeVars, verifyVars, overtaken>>
     /\ GiveUp(CliSent(a))

-----------------------------------------------------------------------------
(* The server executes a command nobody waits for.                         *)

LateCount(m) ==
  /\ m.op = "EVAL"
  /\ hits' = hits + 1
  /\ window' = incr_expire
  /\ UNCHANGED <<recent, chalVars, workerVars, credVars, verifyVars>>

LateSet(m) ==
  /\ m.op = "SET"
  /\ ttl' = set_ex(m.key)
  /\ issued' = issued \cup {m.key}
  /\ UNCHANGED <<served, workerVars, rateVars, credVars, verifyVars>>

LateGetdel(m) ==
  /\ m.op = "GETDEL"
  /\ ttl' = IF m.key # Nil THEN getdel(m.key) ELSE ttl
  /\ UNCHANGED <<issued, served, workerVars, rateVars, credVars, verifyVars>>

LateCounter(m) ==
  /\ m.op = "HSET counter"
  /\ record' = [record EXCEPT ![m.key] = CounterFields(@, m.count)]
  /\ UNCHANGED <<index, cliVars, challengeVars, verifyVars>>

LateRecord(m) ==
  /\ m.op = "HSET record"
  /\ record' = [record EXCEPT ![m.key] = PutFields(@, m.key, m.user, m.count)]
  /\ torn' = torn \cup {m.key}
  /\ top' = [top EXCEPT ![m.key] = Nil]
  /\ UNCHANGED <<index, cliPc, cliConn, cliArg, registered, challengeVars,
                 pres, got, redeemed, minted>>

LateDel(m) ==
  /\ m.op = "DEL"
  /\ record' = [record EXCEPT ![m.key] = NoHash]
  /\ UNCHANGED <<index, cliVars, challengeVars, verifyVars>>

LateIndex(m) ==
  /\ \/ /\ m.op = "SADD"
        /\ index' = [index EXCEPT ![m.key] = @ \cup {m.cred}]
        /\ torn' = torn \ {m.cred}
     \/ /\ m.op = "SREM"
        /\ index' = [index EXCEPT ![m.key] = @ \ {m.cred}]
        /\ UNCHANGED torn
  /\ UNCHANGED <<record, cliPc, cliConn, cliArg, registered, challengeVars,
                 verifyVars>>

ExecuteLate(m) ==
  /\ limbo' = limbo \ {m}
  /\ overtaken' = IF m.op \in {"HSET record", "DEL"}
                  THEN overtaken \cup {m.key} ELSE overtaken
  /\ \/ LateCount(m) \/ LateSet(m) \/ LateGetdel(m) \/ LateCounter(m)
     \/ LateRecord(m) \/ LateDel(m) \/ LateIndex(m)

LateNext ==
  \/ \E w \in Worker : LateWorker(w) /\ UNCHANGED overtaken
  \/ \E a \in Admin : LateCli(a)
  \/ \E m \in limbo : ExecuteLate(m)
  \/ Tick /\ UNCHANGED <<credVars, verifyVars, limbo, overtaken>>

LateSpec == LateInit /\ [][LateNext]_lateVars

-----------------------------------------------------------------------------
(* Properties.  OneShotSpec of Login is checked again under LateSpec.       *)

\* The last word of the admin CLI on a credential holds, whatever lands late:
\* no counter HSET, SADD, SREM, EVAL, SET or GETDEL executed after its sender
\* gave up brings a revoked credential back or takes a registered one away.
\* Only a register HSET or a revoke DEL that was itself given up can, until the
\* next command the CLI waits for.
LastWordHolds == \A c \in CredId \ overtaken : UsableIff(c)

\* What a late command can do to the challenges: a challenge whose SET is in
\* flight has not been shown to anybody, so neither a login nor a session can
\* come of it whenever it lands.
LateSetHarmless ==
  \A m \in limbo :
    m.op = "SET" => /\ m.key \notin served
                    /\ minted[m.key] = 0
                    /\ \A w \in Worker :
                         pc[w] \in Holding \cup {"consume"} => chal[w] # m.key

\* The inductive invariant behind them: commands in flight are well formed, and
\* a challenge whose SET is in flight is nowhere else.
LateCommand ==
  [op : {"EVAL", "SET"}, key : Challenge]
  \cup [op : {"GETDEL"}, key : Challenge \cup {Nil}]
  \cup [op : {"HSET counter"}, key : CredId, count : Count]
  \cup [op : {"HSET record"}, key : CredId, user : User, count : Count]
  \cup [op : {"DEL"}, key : CredId]
  \cup [op : {"SADD", "SREM"}, key : User, cred : CredId]

SetsApart ==
  \A m \in limbo :
    m.op = "SET" =>
      /\ m.key \notin issued
      /\ \A w \in Worker : pc[w] \in {"rate", "issue"} => chal[w] # m.key

LateInv == LoginInv /\ limbo \in SUBSET LateCommand /\ SetsApart
=============================================================================

-------------------------- MODULE CredentialProofs --------------------------
(***************************************************************************)
(* Proofs about the credential store under register and revoke, for every   *)
(* number of credentials, users and operators and every set of faults.      *)
(***************************************************************************)
EXTENDS CredentialStore, TLAPS

\* What the store operations make of a hash.
LEMMA HashFacts ==
  /\ NoHash \in Hash
  /\ ~credential_get(NoHash)
  /\ \A h \in Hash : \A n \in Count :
       /\ CounterFields(h, n) \in Hash
       /\ CounterFields(h, n).user_id = h.user_id
       /\ CounterFields(h, n).public_key = h.public_key
  /\ \A h \in Hash : \A c \in CredId : \A u \in User : \A n \in Count :
       /\ PutFields(h, c, u, n) \in Hash
       /\ PutFields(h, c, u, n).user_id = u
       /\ PutFields(h, c, u, n).public_key = c
  /\ \A h \in Hash : credential_get(h) <=> h.public_key # Nil
<1>1. NoHash \in Hash /\ ~credential_get(NoHash)
  BY DEF Hash, NoHash, credential_get
<1>2. ASSUME NEW h \in Hash, NEW n \in Count
      PROVE  /\ CounterFields(h, n) \in Hash
             /\ CounterFields(h, n).user_id = h.user_id
             /\ CounterFields(h, n).public_key = h.public_key
  BY DEF Hash, CounterFields
<1>3. ASSUME NEW h \in Hash, NEW c \in CredId, NEW u \in User, NEW n \in Count
      PROVE  /\ PutFields(h, c, u, n) \in Hash
             /\ PutFields(h, c, u, n).user_id = u
             /\ PutFields(h, c, u, n).public_key = c
  BY DEF Hash, PutFields
<1>4. ASSUME NEW h \in Hash
      PROVE  credential_get(h) <=> h.public_key # Nil
  BY DEF Hash, NoHash, credential_get
<1>5. QED
  BY <1>1, <1>2, <1>3, <1>4

-----------------------------------------------------------------------------
(* The admin CLI.                                                          *)

\* A step that leaves the store and the CLI alone keeps their invariant.
LEMMA CredUnchanged == CredInv /\ UNCHANGED credVars => CredInv'
BY DEF CredInv, CredTypeOK, CliLocals, RecordsSound,
       credVars

\* The locals of every CLI process are sound after the step.
CliSound ==
  /\ cliPc' \in [Admin -> CliPc]
  /\ cliConn' \in [Admin -> {"closed", "open"}]
  /\ cliArg' \in [Admin -> CliArg]
  /\ CliLocals'

\* A CLI process that ends leaves the locals of all sound.
LEMMA CliExitInv ==
  ASSUME NEW a \in Admin, CredInv, CliExit(a)
  PROVE  CliSound
BY DEF CredInv, CredTypeOK, CliExit, CliPc, CliArg, NoArg, CliLocals, CliSound

\* A command either goes on, with the same locals, or ends.
LEMMA CliContinueInv ==
  ASSUME NEW a \in Admin, NEW o, NEW to \in {"put_index", "delete_index"},
         CredInv, CliContinue(a, o, to),
         cliPc[a] # "idle",
         to = "put_index" => cliPc[a] = "put_record",
         to = "delete_index" => cliArg[a].user \in User
  PROVE  CliSound
<1>1. CASE Replied(o)
  BY <1>1
  DEF CredInv, CredTypeOK, CliContinue, CliPc, CliArg, CliLocals, CliSound
<1>2. CASE ~Replied(o)
  BY <1>2, CliExitInv DEF CliContinue
<1>3. QED
  BY <1>1, <1>2

LEMMA CliStartInv ==
  ASSUME NEW a \in Admin, CredInv, CliStart(a)
  PROVE  CredInv'
<1> PICK c \in CredId : \/ \E u \in User, n \in Count : Register(a, c, u, n)
                        \/ Revoke(a, c)
  BY DEF CliStart
<1>1. /\ CliSound
      /\ UNCHANGED <<record, index, registered, torn>>
  <2>1. CASE Revoke(a, c)
    BY <2>1 DEF Revoke, CliConnect, CredInv, CredTypeOK, CliPc, CliArg,
                CliLocals, CliSound
  <2>2. ASSUME NEW u \in User, NEW n \in Count, Register(a, c, u, n)
        PROVE  <1>1!:
    BY <2>2 DEF Register, CliConnect, CredInv, CredTypeOK, CliPc, CliArg,
                CliLocals, CliSound
  <2>3. QED
    BY <2>1, <2>2
<1>2. QED
  BY <1>1 DEF CredInv, CredTypeOK, RecordsSound, CliSound

\* Writing one record c that is sound keeps all of them sound.
LEMMA RecordWrite ==
  ASSUME CredInv, NEW c \in CredId, NEW h \in Hash,
         record' = [record EXCEPT ![c] = h],
         h.public_key # Nil => h.user_id \in User /\ h.public_key = c
  PROVE  record' \in [CredId -> Hash] /\ RecordsSound'
<1> USE DEF CredInv, CredTypeOK
<1>1. record' \in [CredId -> Hash]
  OBVIOUS
<1>2. \A d \in CredId : record'[d] = IF d = c THEN h ELSE record[d]
  OBVIOUS
<1>3. RecordsSound'
  BY <1>2, HashFacts DEF RecordsSound
<1>4. QED
  BY <1>1, <1>3

\* No step makes a credential usable, or unusable, that the last word on it does
\* not: each credential by itself.
UsableKept == \A c \in CredId : UsableIff(c) => UsableIff(c)'

\* Writing one record c to match the last word on it.
LEMMA UsableWrite ==
  ASSUME CredInv, NEW c \in CredId, NEW h \in Hash,
         record' = [record EXCEPT ![c] = h],
         \A d \in CredId \ {c} : d \in registered' <=> d \in registered,
         UsableIff(c) => (c \in registered' <=> h.public_key # Nil)
  PROVE  UsableKept
<1>1. \A d \in CredId : record'[d] = IF d = c THEN h ELSE record[d]
  BY DEF CredInv, CredTypeOK
<1>2. QED
  BY <1>1, HashFacts DEF UsableKept, UsableIff

LEMMA UsableUnchanged ==
  ASSUME UNCHANGED <<record, registered>>
  PROVE  UsableKept
BY DEF UsableKept, UsableIff

\* HSET of register: the record becomes usable and the credential registered.
LEMMA PutRecordInv ==
  ASSUME NEW a \in Admin, NEW o, CredInv, PutRecord(a, o)
  PROVE  CredInv'
<1> DEFINE c == cliArg[a].cred
<1>1. /\ cliPc[a] = "put_record"
      /\ c \in CredId
      /\ cliArg[a].user \in User
      /\ cliArg[a].count \in Count
  BY DEF PutRecord, CredInv, CliLocals
<1>2. CliSound
  BY <1>1, CliContinueInv DEF PutRecord
<1>3. CASE Applied(o)
  <2> DEFINE h == PutFields(record[c], c, cliArg[a].user, cliArg[a].count)
  <2>1. record[c] \in Hash
    BY <1>1 DEF CredInv, CredTypeOK
  <2>2. h \in Hash /\ h.user_id \in User /\ h.public_key = c
    BY <1>1, <2>1, HashFacts
  <2>3. /\ record' = [record EXCEPT ![c] = h]
        /\ registered' = registered \cup {c}
        /\ torn' = torn \cup {c}
        /\ index' = index
    BY <1>3 DEF PutRecord
  <2>4. c # Nil
    BY <1>1, StoreAssumption
  <2> HIDE DEF c, h
  <2>5. registered' \in SUBSET CredId /\ torn' \in SUBSET CredId
    BY <1>1, <2>3 DEF CredInv, CredTypeOK
  <2>6. record' \in [CredId -> Hash] /\ RecordsSound'
    BY <1>1, <2>2, <2>3, <2>4, <2>5, RecordWrite
  <2>7. QED
    BY <1>2, <2>3, <2>5, <2>6 DEF CredInv, CredTypeOK, CliSound
<1>4. CASE ~Applied(o)
  BY <1>2, <1>4
  DEF PutRecord, CredInv, CredTypeOK, RecordsSound,
      CliSound
<1>5. QED
  BY <1>3, <1>4

\* SADD of register touches the index only.
LEMMA PutIndexInv ==
  ASSUME NEW a \in Admin, NEW o, CredInv, PutIndex(a, o)
  PROVE  CredInv'
<1>1. cliArg[a].cred \in CredId /\ cliArg[a].user \in User
  BY DEF PutIndex, CredInv, CliLocals
<1>2. CliSound
  BY CliExitInv DEF PutIndex
<1>3. index' \in [User -> SUBSET CredId] /\ torn' \in SUBSET CredId
  BY <1>1 DEF PutIndex, CredInv, CredTypeOK
<1>4. record' = record /\ registered' = registered
  BY DEF PutIndex
<1>5. QED
  BY <1>2, <1>3, <1>4
  DEF CredInv, CredTypeOK, RecordsSound, CliSound

\* HGETALL of revoke: the user it remembers is the one of a sound record.
LEMMA DeleteGetInv ==
  ASSUME NEW a \in Admin, NEW o, CredInv, DeleteGet(a, o)
  PROVE  CredInv'
<1> DEFINE h == record[cliArg[a].cred]
<1>1. /\ cliPc[a] = "delete_get"
      /\ cliArg[a].cred \in CredId
      /\ h \in Hash
  BY DEF DeleteGet, CredInv, CredTypeOK, CliLocals
<1>2. CliSound
  <2>1. CASE Replied(o) /\ credential_get(h)
    BY <1>1, <2>1 DEF DeleteGet, CredInv, CredTypeOK, CliPc, CliArg, CliLocals,
                      Hash, CliSound
  <2>2. CASE ~(Replied(o) /\ credential_get(h))
    BY <2>2, CliExitInv DEF DeleteGet
  <2>3. QED
    BY <2>1, <2>2
<1>3. UNCHANGED <<record, index, registered, torn>>
  BY DEF DeleteGet
<1>4. QED
  BY <1>2, <1>3
  DEF CredInv, CredTypeOK, RecordsSound, CliSound

\* DEL of revoke: the record is gone and the credential no longer registered.
LEMMA DeleteRecordInv ==
  ASSUME NEW a \in Admin, NEW o, CredInv, DeleteRecord(a, o)
  PROVE  CredInv'
<1> DEFINE c == cliArg[a].cred
<1>1. /\ cliPc[a] = "delete_record"
      /\ c \in CredId
      /\ cliArg[a].user \in User \cup {Nil}
  BY DEF DeleteRecord, CredInv, CredTypeOK, CliArg, CliLocals
<1>2. CliSound
  <2>1. CASE cliArg[a].user # Nil
    BY <1>1, <2>1, CliContinueInv DEF DeleteRecord
  <2>2. CASE cliArg[a].user = Nil
    BY <2>2, CliExitInv DEF DeleteRecord
  <2>3. QED
    BY <2>1, <2>2
<1>3. CASE Applied(o)
  <2>1. /\ record' = [record EXCEPT ![c] = NoHash]
        /\ registered' = registered \ {c}
        /\ torn' = torn
        /\ index' = index
    BY <1>3 DEF DeleteRecord
  <2>2. NoHash.public_key = Nil
    BY DEF NoHash
  <2> HIDE DEF c
  <2>3. registered' \in SUBSET CredId
    BY <2>1 DEF CredInv, CredTypeOK
  <2>4. record' \in [CredId -> Hash] /\ RecordsSound'
    BY <1>1, <2>1, <2>2, <2>3, HashFacts, RecordWrite
  <2>5. QED
    BY <1>2, <2>1, <2>3, <2>4 DEF CredInv, CredTypeOK, CliSound
<1>4. CASE ~Applied(o)
  BY <1>2, <1>4
  DEF DeleteRecord, CredInv, CredTypeOK, RecordsSound,
      CliSound
<1>5. QED
  BY <1>3, <1>4

\* SREM of revoke touches the index only.
LEMMA DeleteIndexInv ==
  ASSUME NEW a \in Admin, NEW o, CredInv, DeleteIndex(a, o)
  PROVE  CredInv'
<1>1. cliArg[a].user \in User
  BY DEF DeleteIndex, CredInv, CliLocals
<1>2. CliSound
  BY CliExitInv DEF DeleteIndex
<1>3. index' \in [User -> SUBSET CredId]
  BY <1>1 DEF DeleteIndex, CredInv, CredTypeOK
<1>4. UNCHANGED <<record, registered, torn>>
  BY DEF DeleteIndex
<1>5. QED
  BY <1>2, <1>3, <1>4
  DEF CredInv, CredTypeOK, RecordsSound, CliSound

\* An interrupted command leaves the store as it is.
LEMMA CliKilledInv ==
  ASSUME NEW a \in Admin, CredInv, CliKilled(a)
  PROVE  CredInv'
<1>1. CliSound
  BY CliExitInv DEF CliKilled
<1>2. UNCHANGED <<record, index, registered, torn>>
  BY DEF CliKilled
<1>3. QED
  BY <1>1, <1>2
  DEF CredInv, CredTypeOK, RecordsSound, CliSound

\* The initial states of the store alone, and every step of the CLI.
LEMMA CredInitInv == CredInit => CredInv
BY HashFacts DEF CredInit, CredInv, CredTypeOK, CliLocals, CliPc, CliArg,
  NoArg, RecordsSound

\* HSET of register: the record becomes usable and the credential registered.
LEMMA PutRecordUsable ==
  ASSUME NEW a \in Admin, NEW o, CredInv, PutRecord(a, o)
  PROVE  UsableKept
<1> DEFINE c == cliArg[a].cred
           h == PutFields(record[c], c, cliArg[a].user, cliArg[a].count)
<1>1. /\ c \in CredId
      /\ cliArg[a].user \in User
      /\ cliArg[a].count \in Count
  BY DEF PutRecord, CredInv, CliLocals
<1>2. CASE Applied(o)
  <2>1. h \in Hash /\ h.public_key = c /\ c # Nil
    BY <1>1, HashFacts, StoreAssumption DEF CredInv, CredTypeOK
  <2>2. record' = [record EXCEPT ![c] = h] /\ registered' = registered \cup {c}
    BY <1>2 DEF PutRecord
  <2> HIDE DEF c, h
  <2>3. QED
    BY <1>1, <2>1, <2>2, UsableWrite
<1>3. CASE ~Applied(o)
  BY <1>3, UsableUnchanged DEF PutRecord
<1>4. QED
  BY <1>2, <1>3

\* DEL of revoke: the record is gone and the credential no longer registered.
LEMMA DeleteRecordUsable ==
  ASSUME NEW a \in Admin, NEW o, CredInv, DeleteRecord(a, o)
  PROVE  UsableKept
<1> DEFINE c == cliArg[a].cred
<1>1. c \in CredId
  BY DEF DeleteRecord, CredInv, CliLocals
<1>2. CASE Applied(o)
  <2>1. record' = [record EXCEPT ![c] = NoHash] /\ registered' = registered \ {c}
    BY <1>2 DEF DeleteRecord
  <2>2. NoHash \in Hash /\ NoHash.public_key = Nil
    BY HashFacts DEF NoHash
  <2> HIDE DEF c
  <2>3. QED
    BY <1>1, <2>1, <2>2, UsableWrite
<1>3. CASE ~Applied(o)
  BY <1>3, UsableUnchanged DEF DeleteRecord
<1>4. QED
  BY <1>2, <1>3

\* Either write settles its credential, whatever was true of it before.
LEMMA WriteSettles ==
  ASSUME NEW a \in Admin, NEW o, CredInv, Applied(o),
         PutRecord(a, o) \/ DeleteRecord(a, o),
         NEW c \in CredId, c = cliArg[a].cred
  PROVE  UsableIff(c)'
<1> DEFINE h == PutFields(record[c], c, cliArg[a].user, cliArg[a].count)
<1>1. CASE PutRecord(a, o)
  <2>1. cliArg[a].user \in User /\ cliArg[a].count \in Count
    BY <1>1 DEF PutRecord, CredInv, CliLocals
  <2>2. h \in Hash /\ h.public_key = c /\ c # Nil
    BY <2>1, HashFacts, StoreAssumption DEF CredInv, CredTypeOK
  <2>3. record'[c] = h /\ c \in registered'
    BY <1>1 DEF PutRecord, CredInv, CredTypeOK
  <2>4. QED
    BY <2>2, <2>3, HashFacts DEF UsableIff
<1>2. CASE DeleteRecord(a, o)
  <2>1. record'[c] = NoHash /\ c \notin registered'
    BY <1>2 DEF DeleteRecord, CredInv, CredTypeOK
  <2>2. QED
    BY <2>1, HashFacts DEF UsableIff
<1>3. QED
  BY <1>1, <1>2

\* The other steps of the CLI touch neither the records nor the last word.
LEMMA CliUsable ==
  ASSUME NEW a \in Admin, CredInv,
         CliStart(a) \/ CliCommand(a) \/ CliKilled(a)
  PROVE  UsableKept
<1>1. CASE CliStart(a) \/ CliKilled(a)
  BY <1>1, UsableUnchanged
  DEF CliStart, Register, Revoke, CliConnect, CliKilled
<1>2. CASE \E o : PutIndex(a, o) \/ DeleteGet(a, o) \/ DeleteIndex(a, o)
  BY <1>2, UsableUnchanged DEF PutIndex, DeleteGet, DeleteIndex
<1>3. CASE \E o : DeleteRecord(a, o)
  BY <1>3, DeleteRecordUsable
<1>4. QED
  BY <1>1, <1>2, <1>3 DEF CliCommand

LEMMA CredUsable == CredInv /\ [CredNext]_credVars => UsableKept
<1>1. CASE UNCHANGED credVars
  BY <1>1, UsableUnchanged DEF credVars
<1>2. ASSUME CredInv, CredNext PROVE UsableKept
  BY <1>2, PutRecordUsable, CliUsable DEF CredNext
<1>3. QED
  BY <1>1, <1>2

LEMMA CredStepInv == CredInv /\ [CredNext]_credVars => CredInv'
BY CredUnchanged, CliStartInv, PutRecordInv, PutIndexInv, DeleteGetInv,
   DeleteRecordInv, DeleteIndexInv, CliKilledInv DEF CredNext, CliCommand

-----------------------------------------------------------------------------
(* Operators who work on different credentials.                            *)

\* Steps that write no record and no index entry, and put no process behind
\* one of its writes.
LEMMA ListKept ==
  ASSUME CredInv, ListInv, UNCHANGED <<record, index>>, torn \subseteq torn',
         \A a \in Admin :
           cliPc'[a] \in {"put_index", "delete_index"} =>
             cliPc'[a] = cliPc[a] /\ cliArg'[a] = cliArg[a]
  PROVE  ListInv'
BY DEF ListInv

\* A process that ends is behind no write.
LEMMA ExitKept ==
  ASSUME NEW a \in Admin, CredInv, CliExit(a)
  PROVE  /\ cliPc'[a] = "idle"
         /\ \A b \in Admin \ {a} :
              cliPc'[b] = cliPc[b] /\ cliArg'[b] = cliArg[b]
BY DEF CredInv, CredTypeOK, CliExit

LEMMA StartList ==
  ASSUME NEW a \in Admin, CredInv, ListInv, CliStart(a) \/ CliKilled(a)
  PROVE  ListInv'
<1>1. CASE CliKilled(a)
  BY <1>1, ListKept, ExitKept DEF CliKilled
<1>2. CASE CliStart(a)
  <2>1. ASSUME NEW arg, NEW to \in {"put_record", "delete_get"},
               CliConnect(a, to, arg)
        PROVE  ListInv'
    BY <2>1, ListKept DEF CliConnect, CredInv, CredTypeOK
  <2>2. PICK c \in CredId :
          (\E u \in User, n \in Count : Register(a, c, u, n)) \/ Revoke(a, c)
    BY <1>2 DEF CliStart
  <2>3. CASE Revoke(a, c)
    BY <2>1, <2>3 DEF Revoke
  <2>4. CASE \E u \in User, n \in Count : Register(a, c, u, n)
    BY <2>1, <2>4 DEF Register
  <2>5. QED
    BY <2>2, <2>3, <2>4
<1>3. QED
  BY <1>1, <1>2

\* HSET of register: the credential is torn from now on.
LEMMA PutRecordList ==
  ASSUME NEW a \in Admin, NEW o, CredInv, ListInv, OperatorsApart,
         PutRecord(a, o)
  PROVE  ListInv'
<1> DEFINE c == cliArg[a].cred
<1> DEFINE u == cliArg[a].user
<1>1. /\ cliPc[a] = "put_record" /\ c \in CredId /\ u \in User
      /\ cliArg[a].count \in Count /\ record[c] \in Hash
  BY DEF PutRecord, CredInv, CliLocals, CredTypeOK
<1>2. CASE ~Applied(o)
  <2>1. CliExit(a) /\ UNCHANGED <<record, index, torn>>
    BY <1>2 DEF PutRecord, CliContinue, Applied, Replied
  <2>2. QED
    BY <2>1, ListKept, ExitKept
<1>3. CASE Applied(o)
  <2> DEFINE h == PutFields(record[c], c, u, cliArg[a].count)
  <2>1. /\ record' = [record EXCEPT ![c] = h]
        /\ torn' = torn \cup {c} /\ index' = index
    BY <1>3 DEF PutRecord
  <2>2. h \in Hash /\ h.user_id = u /\ h.public_key = c
    BY <1>1, HashFacts
  <2>3. credential_get(h)
    BY <1>1, <2>2, HashFacts, StoreAssumption
  <2> HIDE DEF h
  <2>4. \A d \in CredId : record'[d] = IF d = c THEN h ELSE record[d]
    BY <2>1 DEF CredInv, CredTypeOK
  <2>5. /\ cliPc'[a] \in {"put_index", "idle"}
        /\ cliPc'[a] = "put_index" => cliArg'[a] = cliArg[a]
        /\ \A b \in Admin \ {a} : cliPc'[b] = cliPc[b] /\ cliArg'[b] = cliArg[b]
    BY ExitKept DEF PutRecord, CliContinue, CredInv, CredTypeOK
  <2>6. \A d \in CredId :
          credential_get(record'[d]) /\ d \notin torn'
            => d \in index'[record'[d].user_id]
    BY <2>1, <2>4 DEF ListInv
  <2>7. ASSUME NEW b \in Admin, cliPc'[b] \in {"put_index", "delete_index"}
        PROVE  LET d == cliArg'[b].cred IN
               /\ cliPc'[b] = "put_index" =>
                    /\ credential_get(record'[d])
                    /\ record'[d].user_id = cliArg'[b].user
               /\ cliPc'[b] = "delete_index" => ~credential_get(record'[d])
    <3>1. CASE b = a
      BY <1>1, <2>2, <2>3, <2>4, <2>5, <2>7, <3>1
    <3>2. CASE b # a
      <4>1. cliPc[b] = cliPc'[b] /\ cliArg'[b] = cliArg[b]
        BY <2>5, <3>2
      <4>2. cliArg[b].cred # c /\ cliArg[b].cred \in CredId
        BY <1>1, <2>7, <3>2, <4>1 DEF OperatorsApart, CredInv, CliLocals
      <4>3. QED
        BY <2>4, <4>1, <4>2 DEF ListInv
    <3>3. QED
      BY <3>1, <3>2
  <2>8. QED
    BY <2>6, <2>7 DEF ListInv
<1>4. QED
  BY <1>2, <1>3

\* SADD of register: the record still names the user it was written for.
LEMMA PutIndexList ==
  ASSUME NEW a \in Admin, NEW o, CredInv, ListInv, PutIndex(a, o)
  PROVE  ListInv'
<1> DEFINE c == cliArg[a].cred
<1> DEFINE u == cliArg[a].user
<1>1. /\ cliPc[a] = "put_index" /\ c \in CredId /\ u \in User
      /\ credential_get(record[c]) /\ record[c].user_id = u
  BY DEF PutIndex, CredInv, CliLocals, ListInv
<1>2. record' = record /\ CliExit(a)
  BY DEF PutIndex
<1>3. CASE ~Applied(o)
  BY <1>2, <1>3, ListKept, ExitKept DEF PutIndex
<1>4. CASE Applied(o)
  <2>1. index' = [index EXCEPT ![u] = @ \cup {c}] /\ torn' = torn \ {c}
    BY <1>4 DEF PutIndex
  <2>2. \A v \in User : index'[v] = IF v = u THEN index[v] \cup {c} ELSE index[v]
    BY <2>1 DEF CredInv, CredTypeOK
  <2>3. \A d \in CredId : credential_get(record[d]) => record[d].user_id \in User
    BY DEF CredInv, RecordsSound
  <2>4. \A d \in CredId :
          credential_get(record'[d]) /\ d \notin torn'
            => d \in index'[record'[d].user_id]
    BY <1>1, <1>2, <2>1, <2>2, <2>3 DEF ListInv
  <2>5. QED
    BY <1>2, <2>4, ExitKept DEF ListInv
<1>5. QED
  BY <1>3, <1>4

\* HGETALL of revoke reads only.
LEMMA DeleteGetList ==
  ASSUME NEW a \in Admin, NEW o, CredInv, ListInv, DeleteGet(a, o)
  PROVE  ListInv'
<1>1. UNCHANGED <<record, index, torn>>
  BY DEF DeleteGet
<1>2. /\ cliPc'[a] \in {"delete_record", "idle"}
      /\ \A b \in Admin \ {a} : cliPc'[b] = cliPc[b] /\ cliArg'[b] = cliArg[b]
  BY ExitKept DEF DeleteGet, CredInv, CredTypeOK
<1>3. QED
  BY <1>1, <1>2, ListKept

\* DEL of revoke: what follows it finds the record gone.
LEMMA DeleteRecordList ==
  ASSUME NEW a \in Admin, NEW o, CredInv, ListInv, OperatorsApart,
         DeleteRecord(a, o)
  PROVE  ListInv'
<1> DEFINE c == cliArg[a].cred
<1>1. cliPc[a] = "delete_record" /\ c \in CredId /\ UNCHANGED <<index, torn>>
  BY DEF DeleteRecord, CredInv, CliLocals
<1>2. /\ cliPc'[a] \in {"delete_index", "idle"}
      /\ cliPc'[a] = "delete_index" => Applied(o) /\ cliArg'[a] = cliArg[a]
      /\ \A b \in Admin \ {a} : cliPc'[b] = cliPc[b] /\ cliArg'[b] = cliArg[b]
  BY ExitKept
  DEF DeleteRecord, CliContinue, CredInv, CredTypeOK, Applied, Replied
<1>3. CASE ~Applied(o)
  BY <1>1, <1>2, <1>3, ListKept DEF DeleteRecord
<1>4. CASE Applied(o)
  <2>1. record' = [record EXCEPT ![c] = NoHash]
    BY <1>4 DEF DeleteRecord
  <2>2. \A d \in CredId : record'[d] = IF d = c THEN NoHash ELSE record[d]
    BY <2>1 DEF CredInv, CredTypeOK
  <2>3. \A d \in CredId :
          credential_get(record'[d]) /\ d \notin torn'
            => d \in index'[record'[d].user_id]
    BY <1>1, <2>2, HashFacts DEF ListInv
  <2>4. ASSUME NEW b \in Admin, cliPc'[b] \in {"put_index", "delete_index"}
        PROVE  LET d == cliArg'[b].cred IN
               /\ cliPc'[b] = "put_index" =>
                    /\ credential_get(record'[d])
                    /\ record'[d].user_id = cliArg'[b].user
               /\ cliPc'[b] = "delete_index" => ~credential_get(record'[d])
    <3>1. CASE b = a
      BY <1>1, <1>2, <2>2, <2>4, <3>1, HashFacts
    <3>2. CASE b # a
      <4>1. cliPc[b] = cliPc'[b] /\ cliArg'[b] = cliArg[b]
        BY <1>2, <3>2
      <4>2. cliArg[b].cred # c /\ cliArg[b].cred \in CredId
        BY <1>1, <2>4, <3>2, <4>1 DEF OperatorsApart, CredInv, CliLocals
      <4>3. QED
        BY <2>2, <4>1, <4>2 DEF ListInv
    <3>3. QED
      BY <3>1, <3>2
  <2>5. QED
    BY <2>3, <2>4 DEF ListInv
<1>5. QED
  BY <1>3, <1>4

\* SREM of revoke takes away the entry of a credential that is gone.
LEMMA DeleteIndexList ==
  ASSUME NEW a \in Admin, NEW o, CredInv, ListInv, DeleteIndex(a, o)
  PROVE  ListInv'
<1> DEFINE c == cliArg[a].cred
<1> DEFINE u == cliArg[a].user
<1>1. /\ c \in CredId /\ u \in User /\ ~credential_get(record[c])
      /\ UNCHANGED <<record, torn>> /\ CliExit(a)
  BY DEF DeleteIndex, CredInv, CliLocals, ListInv
<1>2. \A v \in User : \A d \in CredId \ {c} : d \in index'[v] <=> d \in index[v]
  BY DEF DeleteIndex, CredInv, CredTypeOK
<1>3. \A d \in CredId : credential_get(record[d]) => record[d].user_id \in User
  BY DEF CredInv, RecordsSound
<1>4. \A d \in CredId :
        credential_get(record'[d]) /\ d \notin torn'
          => d \in index'[record'[d].user_id]
  BY <1>1, <1>2, <1>3 DEF ListInv
<1>5. QED
  BY <1>1, <1>4, ExitKept DEF ListInv

LEMMA ListStepInv ==
  CredInv /\ ListInv /\ OperatorsApart /\ [CredNext]_credVars => ListInv'
<1> SUFFICES ASSUME CredInv, ListInv, OperatorsApart, [CredNext]_credVars
             PROVE  ListInv'
  OBVIOUS
<1>1. CASE UNCHANGED credVars
  BY <1>1 DEF credVars, ListInv
<1>2. QED
  BY <1>1, StartList, PutRecordList, PutIndexList, DeleteGetList,
     DeleteRecordList, DeleteIndexList DEF CredNext, CliCommand

-----------------------------------------------------------------------------
(* The theorems.                                                           *)

\* The store's invariant under any number of concurrent operators, and that
\* exactly the credentials last registered can authenticate.
THEOREM StoreInvariant == CredSpec => [](CredInv /\ UsableIffRegistered)
<1>1. CredInit => UsableIffRegistered
  BY HashFacts DEF CredInit, UsableIffRegistered, UsableIff
<1>2. UsableIffRegistered /\ UsableKept => UsableIffRegistered'
  BY DEF UsableIffRegistered, UsableKept
<1>3. QED
  BY <1>1, <1>2, CredInitInv, CredStepInv, CredUsable, PTL DEF CredSpec

\* Any number of operators may work at once, fail and be interrupted: as long
\* as no two of them work on one credential, the only working credentials that
\* `list' hides are those whose own register stopped between HSET and SADD.
THEOREM ListedWhenApart == CredSpec /\ []OperatorsApart => []UsableIsListed
<1>1. CredInit => ListInv
  BY HashFacts DEF CredInit, ListInv
<1>2. ListInv => UsableIsListed
  BY DEF ListInv, UsableIsListed
<1>3. QED
  BY <1>1, <1>2, ListStepInv, StoreInvariant, PTL DEF CredSpec
=============================================================================

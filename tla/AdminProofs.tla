---------------------------- MODULE AdminProofs -----------------------------
(***************************************************************************)
(* Proofs about `list' and `show' next to any number of writers and of      *)
(* other readers, for every store and every set of faults.                  *)
(***************************************************************************)
EXTENDS AdminView, CredentialProofs

\* The conjuncts of ViewInv for one viewer.
ViewerSound(v) ==
  /\ viewPc[v] # "exit" => code[v] = Nil
  /\ viewPc[v] \in {"idle", "smembers", "show"} => steady[v] = {}
  /\ viewPc[v] = "idle" => rows[v] = NoRows
  /\ viewPc[v] = "rows" =>
       \A c \in steady[v] : c \in todo[v] \/ rows[v][c] # "none"
  /\ viewPc[v] \notin {"idle", "exit"} => Usable \subseteq seen[v]
  /\ code[v] = 0 => \A c \in steady[v] : rows[v][c] # "none"
  /\ \A c \in CredId : rows[v][c] = "row" => c \in seen[v]

LEMMA ViewInvParts ==
  /\ ViewInv <=> ViewTypeOK /\ \A v \in Viewer : ViewerSound(v)
  /\ ViewInv' <=> ViewTypeOK' /\ \A v \in Viewer : ViewerSound(v)'
BY DEF ViewInv, ViewerSound, ListComplete, RowsWereUsable

\* A step of viewer w leaves the others alone.
OthersKept(w) ==
  \A v \in Viewer \ {w} :
    /\ viewPc'[v] = viewPc[v] /\ todo'[v] = todo[v] /\ code'[v] = code[v]
    /\ steady'[v] = steady[v] /\ seen'[v] = seen[v] /\ rows'[v] = rows[v]

LEMMA OneViewer ==
  ASSUME NEW w \in Viewer, ViewInv, ViewTypeOK', OthersKept(w),
         UNCHANGED credVars, ViewerSound(w)'
  PROVE  ViewInv'
<1>1. Usable' = Usable
  BY DEF Usable, credVars
<1>2. ASSUME NEW v \in Viewer \ {w}
      PROVE  ViewerSound(v)'
  BY <1>1, ViewInvParts DEF OthersKept, ViewerSound
<1>3. QED
  BY <1>2, ViewInvParts

LEMMA ViewInitInv == AdminInit => ViewInv
BY NilAssumption DEF AdminInit, ViewInv, ViewTypeOK, ListComplete,
  RowsWereUsable, NoRows

\* A command that starts has seen what works now.
LEMMA ConnectInv ==
  ASSUME NEW v \in Viewer, NEW to \in {"smembers", "show"}, NEW u, NEW ids,
         ViewInv, ViewConnect(v, to, u, ids)
  PROVE  ViewInv'
<1> PICK h \in redis_connect :
      /\ viewPc' = [viewPc EXCEPT ![v] = IF h = "open" THEN to ELSE "exit"]
      /\ code' = [code EXCEPT ![v] = IF h = "open" THEN Nil ELSE 1]
  BY DEF ViewConnect
<1>1. ViewTypeOK
  BY DEF ViewInv
<1>2. /\ viewPc[v] = "idle" /\ UNCHANGED <<credVars, rows, steady>>
      /\ todo' = [todo EXCEPT ![v] = ids]
      /\ seen' = [seen EXCEPT ![v] = Usable]
  BY DEF ViewConnect
<1>3. Usable \subseteq CredId /\ Usable' = Usable
  BY <1>2 DEF Usable, credVars
<1>4. ViewTypeOK' /\ OthersKept(v)
  BY <1>1, <1>2, <1>3 DEF ViewTypeOK, OthersKept
<1>5. steady[v] = {} /\ rows[v] = NoRows
  BY <1>2 DEF ViewInv
<1>6. /\ viewPc'[v] \in {"smembers", "show", "exit"}
      /\ viewPc'[v] # "exit" => code'[v] = Nil
      /\ seen'[v] = Usable /\ steady'[v] = {} /\ rows'[v] = NoRows
  BY <1>1, <1>2, <1>5 DEF ViewTypeOK
<1>7. ViewerSound(v)'
  BY <1>3, <1>6 DEF ViewerSound, NoRows
<1>8. QED
  BY <1>2, <1>4, <1>7, OneViewer

\* SMEMBERS: everything steady from now on is yet to be shown.
LEMMA ListIndexInv ==
  ASSUME NEW v \in Viewer, NEW o, ViewInv, ListIndex(v, o)
  PROVE  ViewInv'
<1> DEFINE ids == index[viewUser[v]]
<1>1. ViewTypeOK /\ ViewerSound(v) /\ viewPc[v] = "smembers"
  BY ViewInvParts DEF ListIndex
<1>2. UNCHANGED <<credVars, rows, seen>> /\ Usable' = Usable
  BY DEF ListIndex, Usable, credVars
<1>3. CASE Replied(o)
  <2>1. /\ viewPc' = [viewPc EXCEPT ![v] = "rows"]
        /\ todo' = [todo EXCEPT ![v] = ids]
        /\ steady' = [steady EXCEPT ![v] = ids \cap Usable]
        /\ UNCHANGED code
    BY <1>3 DEF ListIndex
  <2>2. ViewTypeOK' /\ OthersKept(v)
    BY <1>1, <1>2, <2>1 DEF ViewTypeOK, OthersKept, Usable
  <2>3. /\ viewPc'[v] = "rows" /\ todo'[v] = ids
        /\ steady'[v] = ids \cap Usable
    BY <1>1, <2>1 DEF ViewTypeOK
  <2>4. ViewerSound(v)'
    BY <1>1, <1>2, <2>1, <2>3, NilAssumption DEF ViewerSound
  <2>5. QED
    BY <1>2, <2>2, <2>4, OneViewer
<1>4. CASE ~Replied(o)
  <2>1. Exit(v, 1) /\ UNCHANGED <<todo, steady>>
    BY <1>4 DEF ListIndex
  <2>2. ViewTypeOK' /\ OthersKept(v)
    BY <1>1, <1>2, <2>1 DEF ViewTypeOK, OthersKept, Exit
  <2>3. viewPc'[v] = "exit" /\ code'[v] = 1
    BY <1>1, <2>1 DEF ViewTypeOK, Exit
  <2>4. ViewerSound(v)'
    BY <1>1, <1>2, <2>1, <2>3 DEF ViewerSound
  <2>5. QED
    BY <1>2, <2>2, <2>4, OneViewer
<1>5. QED
  BY <1>3, <1>4

\* A turn of the loop shows the id it takes off the list.
LEMMA ListRowInv ==
  ASSUME NEW v \in Viewer, NEW c \in CredId, NEW o, ViewInv, ListRow(v, c, o)
  PROVE  ViewInv'
<1> DEFINE line == IF Replied(o) /\ credential_get(record[c])
                   THEN "row" ELSE "missing"
<1>1. ViewTypeOK /\ ViewerSound(v) /\ viewPc[v] = "rows"
  BY ViewInvParts DEF ListRow
<1>2. /\ UNCHANGED <<credVars, viewPc, code, steady, seen>>
      /\ todo' = [todo EXCEPT ![v] = @ \ {c}]
      /\ rows' = [rows EXCEPT ![v][c] = line]
  BY DEF ListRow
<1>3. line = "row" => c \in Usable
  BY DEF Usable
<1>4. line \in {"row", "missing"}
  OBVIOUS
<1>5. Usable' = Usable
  BY <1>2 DEF Usable, credVars
<1> HIDE DEF line
<1>6. ViewTypeOK' /\ OthersKept(v)
  BY <1>1, <1>2, <1>4 DEF ViewTypeOK, OthersKept
<1>7. /\ todo'[v] = todo[v] \ {c}
      /\ rows'[v][c] = line
      /\ \A d \in CredId \ {c} : rows'[v][d] = rows[v][d]
  BY <1>1, <1>2 DEF ViewTypeOK
<1>8. steady[v] \subseteq CredId
  BY <1>1 DEF ViewTypeOK
<1>9. ViewerSound(v)'
  BY <1>1, <1>2, <1>3, <1>4, <1>5, <1>7, <1>8, NilAssumption DEF ViewerSound
<1>10. QED
  BY <1>2, <1>6, <1>9, OneViewer

\* The loop ends with nothing left on the list.
LEMMA ListEndInv ==
  ASSUME NEW v \in Viewer, ViewInv, ListEnd(v)
  PROVE  ViewInv'
<1>1. ViewTypeOK /\ ViewerSound(v) /\ viewPc[v] = "rows" /\ todo[v] = {}
  BY ViewInvParts DEF ListEnd
<1>2. /\ UNCHANGED <<credVars, todo, rows, steady, seen>>
      /\ viewPc' = [viewPc EXCEPT ![v] = "exit"]
      /\ code' = [code EXCEPT ![v] = 0]
  BY DEF ListEnd, Exit
<1>3. ViewTypeOK' /\ OthersKept(v) /\ viewPc'[v] = "exit"
  BY <1>1, <1>2 DEF ViewTypeOK, OthersKept
<1>4. ViewerSound(v)'
  BY <1>1, <1>2, <1>3 DEF ViewerSound
<1>5. QED
  BY <1>2, <1>3, <1>4, OneViewer

LEMMA ShowRowInv ==
  ASSUME NEW v \in Viewer, NEW c \in CredId, NEW o, ViewInv, ShowRow(v, c, o)
  PROVE  ViewInv'
<1>1. ViewTypeOK /\ ViewerSound(v) /\ viewPc[v] = "show"
  BY ViewInvParts DEF ShowRow
<1>2. /\ UNCHANGED <<credVars, todo, steady, seen>>
      /\ viewPc' = [viewPc EXCEPT ![v] = "exit"]
      /\ \E n \in {0, 1} : code' = [code EXCEPT ![v] = n]
      /\ \/ rows' = rows
         \/ c \in Usable /\ rows' = [rows EXCEPT ![v][c] = "row"]
  BY DEF ShowRow, Exit, Usable
<1>3. Usable \subseteq seen[v] /\ steady[v] = {}
  BY <1>1 DEF ViewerSound
<1>4. ViewTypeOK' /\ OthersKept(v) /\ viewPc'[v] = "exit"
  <2>1. rows' \in [Viewer -> [CredId -> {"none", "row", "missing"}]]
    <3>1. [rows[v] EXCEPT ![c] = "row"] \in [CredId -> {"none", "row", "missing"}]
      BY <1>1 DEF ViewTypeOK
    <3>2. QED
      BY <1>1, <1>2, <3>1 DEF ViewTypeOK
  <2>2. \A w \in Viewer \ {v} : rows'[w] = rows[w]
    BY <1>1, <1>2 DEF ViewTypeOK
  <2>3. code' \in [Viewer -> {0, 1, Nil}]
    BY <1>1, <1>2 DEF ViewTypeOK
  <2>4. \A w \in Viewer \ {v} : code'[w] = code[w]
    BY <1>1, <1>2 DEF ViewTypeOK
  <2>5. QED
    BY <1>1, <1>2, <2>1, <2>2, <2>3, <2>4 DEF ViewTypeOK, OthersKept
<1>5. \A d \in CredId : rows'[v][d] = "row" => d \in seen[v]
  BY <1>1, <1>2, <1>3 DEF ViewTypeOK, ViewerSound
<1>6. ViewerSound(v)'
  BY <1>2, <1>3, <1>4, <1>5 DEF ViewerSound
<1>7. QED
  BY <1>2, <1>4, <1>6, OneViewer

LEMMA ForgetInv ==
  ASSUME NEW v \in Viewer, ViewInv, Forget(v)
  PROVE  ViewInv'
<1>1. ViewTypeOK
  BY DEF ViewInv
<1>2. NoRows \in [CredId -> {"none", "row", "missing"}]
  BY DEF NoRows
<1>3. UNCHANGED credVars /\ OthersKept(v) /\ ViewTypeOK'
  BY <1>1, <1>2 DEF Forget, ViewTypeOK, OthersKept
<1>4. /\ viewPc'[v] = "idle" /\ code'[v] = Nil /\ steady'[v] = {}
      /\ rows'[v] = NoRows
  BY <1>1 DEF Forget, ViewTypeOK
<1>5. ViewerSound(v)'
  BY <1>4, NilAssumption DEF ViewerSound, NoRows
<1>6. QED
  BY <1>3, <1>5, OneViewer

\* A write is seen by the commands that run, and ends the steadiness of what
\* it takes away.
LEMMA WriterInv == ViewInv /\ WriterStep => ViewInv'
<1> SUFFICES ASSUME ViewInv, WriterStep PROVE ViewInv'
  OBVIOUS
<1>1. ViewTypeOK /\ UNCHANGED <<viewPc, todo, rows, code>>
  BY DEF ViewInv, WriterStep, viewVars
<1>2. /\ seen' = [v \in Viewer |->
           IF viewPc[v] \in {"idle", "exit"} THEN seen[v]
           ELSE seen[v] \cup {c \in CredId : credential_get(record'[c])}]
      /\ steady' = [v \in Viewer |->
           {c \in steady[v] : /\ credential_get(record'[c])
                              /\ c \in index'[viewUser[v]]}]
  BY DEF WriterStep
<1>3. Usable' = {c \in CredId : credential_get(record'[c])}
  BY DEF Usable, credential_get
<1>4. \A v \in Viewer : /\ steady'[v] \subseteq steady[v]
                        /\ seen[v] \subseteq seen'[v]
                        /\ viewPc[v] \notin {"idle", "exit"} =>
                             Usable' \subseteq seen'[v]
  BY <1>2, <1>3
<1>5. ViewTypeOK'
  BY <1>1, <1>2 DEF ViewTypeOK
<1>6. ASSUME NEW v \in Viewer
      PROVE  ViewerSound(v)'
  BY <1>1, <1>4, ViewInvParts DEF ViewerSound
<1>7. QED
  BY <1>5, <1>6, ViewInvParts

LEMMA ViewStepInv == ViewInv /\ [AdminNext]_adminVars => ViewInv'
<1> SUFFICES ASSUME ViewInv, [AdminNext]_adminVars PROVE ViewInv'
  OBVIOUS
<1>1. CASE UNCHANGED adminVars
  BY <1>1 DEF adminVars, viewVars, credVars, ViewInv, ViewTypeOK,
    ListComplete, RowsWereUsable, Usable
<1>2. CASE \E v \in Viewer :
             (\E u \in User : List(v, u)) \/ (\E c \in CredId : Show(v, c))
  BY <1>2, ConnectInv DEF List, Show
<1>3. QED
  BY <1>1, <1>2, WriterInv, ListIndexInv, ListRowInv, ListEndInv, ShowRowInv,
     ForgetInv DEF AdminNext, ViewCommand

-----------------------------------------------------------------------------
(* The theorems.                                                           *)

\* The inductive invariant of the reading commands: what a listing owes is in
\* its list of ids to fetch, and it has seen whatever works while it runs.
THEOREM ViewInvariant == AdminSpec => []ViewInv
BY ViewInitInv, ViewStepInv, PTL DEF AdminSpec

\* A listing that exits 0 shows every credential that was its user's and
\* working from SMEMBERS to the end, whatever any number of operators did.
THEOREM ListingIsComplete == AdminSpec => []ListComplete
<1>1. ViewInv => ListComplete
  BY DEF ViewInv
<1>2. QED
  BY <1>1, ViewInvariant, PTL

\* Nothing is shown as a credential that could not log in at some moment of
\* the command.
THEOREM OutputWasUsable == AdminSpec => []RowsWereUsable
<1>1. ViewInv => RowsWereUsable
  BY DEF ViewInv
<1>2. QED
  BY <1>1, ViewInvariant, PTL

\* list and show never write: with any number of them around, the store
\* behaves as it does under register and revoke alone.
THEOREM ReadersOnlyRead == AdminSpec => CredSpec
<1>1. AdminInit => CredInit
  BY DEF AdminInit
<1>2. [AdminNext]_adminVars => [CredNext]_credVars
  BY DEF AdminNext, adminVars, WriterStep, List, Show, ViewConnect,
    ViewCommand, ListIndex, ListRow, ShowRow, ListEnd, Forget
<1>3. QED
  BY <1>1, <1>2, PTL DEF AdminSpec, CredSpec

\* Hence with listings going on, operators who work on different credentials
\* take no working one out of its user's index; only a register that stopped
\* between HSET and SADD leaves one that is in none.
THEOREM ListedWithReaders == AdminSpec /\ []OperatorsApart => []UsableIsListed
BY ReadersOnlyRead, ListedWhenApart, PTL
=============================================================================

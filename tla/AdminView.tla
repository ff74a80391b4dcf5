------------------------------ MODULE AdminView ------------------------------
(***************************************************************************)
(* The reading commands of the admin CLI, `list' and `show', while other    *)
(* operators register and revoke.  list is SMEMBERS of the user's index and *)
(* then one HGETALL per member on the same handle, so the table is put      *)
(* together from several moments.                                           *)
(***************************************************************************)
EXTENDS CredentialStore

CONSTANT
  Viewer        \* CLI processes running list or show

VARIABLES
  viewPc,       \* where each of them is
  viewConn,     \* its Redis handle
  viewUser,     \* list: the user asked for, Nil for show
  todo,         \* credential ids it has yet to fetch
  rows,         \* its line for each id: "row", "missing", or "none" so far
  code,         \* its exit code, Nil while it runs
  steady,       \* history: ids usable and indexed ever since the SMEMBERS
  seen          \* history: ids that were usable at some moment of the run

viewVars == <<viewPc, viewConn, viewUser, todo, rows, code>>
adminVars == <<credVars, viewVars, steady, seen>>

NoRows == [c \in CredId |-> "none"]

Usable == {c \in CredId : credential_get(record[c])}

AdminInit ==
  /\ CredInit
  /\ viewPc = [v \in Viewer |-> "idle"]
  /\ viewConn = [v \in Viewer |-> "closed"]
  /\ viewUser = [v \in Viewer |-> Nil]
  /\ todo = [v \in Viewer |-> {}]
  /\ rows = [v \in Viewer |-> NoRows]
  /\ code = [v \in Viewer |-> Nil]
  /\ steady = [v \in Viewer |-> {}]
  /\ seen = [v \in Viewer |-> {}]

\* Connect, or exit 1 without a handle.
ViewConnect(v, to, u, ids) ==
  /\ viewPc[v] = "idle"
  /\ \E h \in redis_connect :
       /\ viewConn' = [viewConn EXCEPT ![v] = h]
       /\ viewPc' = [viewPc EXCEPT ![v] = IF h = "open" THEN to ELSE "exit"]
       /\ code' = [code EXCEPT ![v] = IF h = "open" THEN Nil ELSE 1]
  /\ viewUser' = [viewUser EXCEPT ![v] = u]
  /\ todo' = [todo EXCEPT ![v] = ids]
  /\ seen' = [seen EXCEPT ![v] = Usable]
  /\ UNCHANGED <<credVars, rows, steady>>

List(v, u) == ViewConnect(v, "smembers", u, {})

Show(v, c) == ViewConnect(v, "show", Nil, {c})

Exit(v, n) ==
  /\ viewPc' = [viewPc EXCEPT ![v] = "exit"]
  /\ viewConn' = [viewConn EXCEPT ![v] = "closed"]
  /\ code' = [code EXCEPT ![v] = n]

\* redis_smembers of the index; a failure ends the command.
ListIndex(v, o) ==
  LET ids == index[viewUser[v]] IN
  /\ viewPc[v] = "smembers"
  /\ IF Replied(o)
     THEN /\ viewPc' = [viewPc EXCEPT ![v] = "rows"]
          /\ todo' = [todo EXCEPT ![v] = ids]
          /\ steady' = [steady EXCEPT ![v] = ids \cap Usable]
          /\ UNCHANGED <<viewConn, code>>
     ELSE Exit(v, 1) /\ UNCHANGED <<todo, steady>>
  /\ UNCHANGED <<credVars, viewUser, rows, seen>>

\* Mutant: the first record that cannot be read ends the table.
ListRow_Break(v, c, o) ==
  LET found == Replied(o) /\ credential_get(record[c]) IN
  /\ viewPc[v] = "rows"
  /\ c \in todo[v]
  /\ todo' = [todo EXCEPT ![v] = IF found THEN @ \ {c} ELSE {}]
  /\ rows' = [rows EXCEPT ![v][c] = IF found THEN "row" ELSE @]
  /\ viewConn' = [viewConn EXCEPT ![v] = HandleAfter(@, o)]
  /\ UNCHANGED <<credVars, viewPc, viewUser, code, steady, seen>>

\* Mutant: every member of the index is printed as a credential.
ListRow_Unread(v, c, o) ==
  /\ viewPc[v] = "rows"
  /\ c \in todo[v]
  /\ todo' = [todo EXCEPT ![v] = @ \ {c}]
  /\ rows' = [rows EXCEPT ![v][c] = "row"]
  /\ viewConn' = [viewConn EXCEPT ![v] = HandleAfter(@, o)]
  /\ UNCHANGED <<credVars, viewPc, viewUser, code, steady, seen>>

\* One turn of the loop: credential_get of a member.  Whatever is not NGX_OK,
\* a connection that broke included, is printed as missing.
ListRow(v, c, o) ==
  LET found == Replied(o) /\ credential_get(record[c]) IN
  /\ viewPc[v] = "rows"
  /\ c \in todo[v]
  /\ todo' = [todo EXCEPT ![v] = @ \ {c}]
  /\ rows' = [rows EXCEPT ![v][c] = IF found THEN "row" ELSE "missing"]
  /\ viewConn' = [viewConn EXCEPT ![v] = HandleAfter(@, o)]
  /\ UNCHANGED <<credVars, viewPc, viewUser, code, steady, seen>>

ListEnd(v) ==
  /\ viewPc[v] = "rows"
  /\ todo[v] = {}
  /\ Exit(v, 0)
  /\ UNCHANGED <<credVars, viewUser, todo, rows, steady, seen>>

\* show: one credential_get; a missing record and a failure both exit 1.
ShowRow(v, c, o) ==
  /\ viewPc[v] = "show"
  /\ c \in todo[v]
  /\ IF Replied(o) /\ credential_get(record[c])
     THEN Exit(v, 0) /\ rows' = [rows EXCEPT ![v][c] = "row"]
     ELSE Exit(v, 1) /\ UNCHANGED rows
  /\ UNCHANGED <<credVars, viewUser, todo, steady, seen>>

\* The operator has read the output.
Forget(v) ==
  /\ viewPc[v] = "exit"
  /\ viewPc' = [viewPc EXCEPT ![v] = "idle"]
  /\ viewConn' = [viewConn EXCEPT ![v] = "closed"]
  /\ viewUser' = [viewUser EXCEPT ![v] = Nil]
  /\ todo' = [todo EXCEPT ![v] = {}]
  /\ rows' = [rows EXCEPT ![v] = NoRows]
  /\ code' = [code EXCEPT ![v] = Nil]
  /\ steady' = [steady EXCEPT ![v] = {}]
  /\ seen' = [seen EXCEPT ![v] = {}]
  /\ UNCHANGED credVars

ViewCommand(v) ==
  \E o \in redis_exec(viewConn[v]) :
    \/ ListIndex(v, o)
    \/ \E c \in CredId : ListRow(v, c, o) \/ ShowRow(v, c, o)

\* A writer's step, with what it means for the runs in progress.
WriterStep ==
  /\ CredNext
  /\ steady' = [v \in Viewer |->
       {c \in steady[v] : /\ credential_get(record'[c])
                          /\ c \in index'[viewUser[v]]}]
  /\ seen' = [v \in Viewer |->
       IF viewPc[v] \in {"idle", "exit"} THEN seen[v]
       ELSE seen[v] \cup {c \in CredId : credential_get(record'[c])}]
  /\ UNCHANGED viewVars

AdminNext ==
  \/ WriterStep
  \/ \E v \in Viewer :
       \/ \E u \in User : List(v, u)
       \/ \E c \in CredId : Show(v, c)
       \/ ViewCommand(v)
       \/ ListEnd(v)
       \/ Forget(v)

AdminSpec == AdminInit /\ [][AdminNext]_adminVars

-----------------------------------------------------------------------------
(* Properties.                                                             *)

\* A listing that exits 0 leaves out no credential that was registered to the
\* user and working from SMEMBERS to the end, whatever writers and failures did
\* in between.
ListComplete ==
  \A v \in Viewer : code[v] = 0 => \A c \in steady[v] : rows[v][c] # "none"

\* What list and show print as a credential could log in at some moment while
\* the command ran: never a half-deleted one, or an index entry that a revoke
\* left behind.
RowsWereUsable ==
  \A v \in Viewer :
    \A c \in CredId : rows[v][c] = "row" => c \in seen[v]

\* The inductive invariant behind them: what a listing has yet to show is in
\* its todo list, and it has seen everything that works while it runs.
ViewTypeOK ==
  /\ viewPc \in [Viewer -> {"idle", "smembers", "rows", "show", "exit"}]
  /\ code \in [Viewer -> {0, 1, Nil}]
  /\ steady \in [Viewer -> SUBSET CredId]
  /\ seen \in [Viewer -> SUBSET CredId]
  /\ DOMAIN todo = Viewer
  /\ rows \in [Viewer -> [CredId -> {"none", "row", "missing"}]]

ViewInv ==
  /\ ViewTypeOK
  /\ \A v \in Viewer :
       /\ viewPc[v] # "exit" => code[v] = Nil
       /\ viewPc[v] \in {"idle", "smembers", "show"} => steady[v] = {}
       /\ viewPc[v] = "idle" => rows[v] = NoRows
       /\ viewPc[v] = "rows" =>
            \A c \in steady[v] : c \in todo[v] \/ rows[v][c] # "none"
       /\ viewPc[v] \notin {"idle", "exit"} => Usable \subseteq seen[v]
  /\ ListComplete
  /\ RowsWereUsable
=============================================================================

-------------------------------- MODULE Pool ---------------------------------
(***************************************************************************)
(* The memory pool the admin CLI is built with in place of nginx's          *)
(* (ngx_compat.c).  Every block is a malloc of its own, linked into the     *)
(* pool; ngx_destroy_pool runs the cleanup handlers and then frees the      *)
(* links and the blocks.  List nodes are freed together with what they      *)
(* link and are not counted separately.                                     *)
(***************************************************************************)
EXTENDS Naturals, Sequences, SequencesExt

CONSTANTS
  Blk,          \* blocks malloc may hand out
  MaxCleanups,  \* bound on the registered cleanups
  NoData        \* stands for a cleanup without data

ASSUME PoolAssumption == MaxCleanups \in Nat /\ NoData \notin Blk

VARIABLES
  stage,        \* "live", "cleanup", "free" or "destroyed"
  live,         \* blocks malloc handed out and nobody freed since
  large,        \* the pool's list of blocks, newest first
  cleanup,      \* its list of cleanups, newest first
  order,        \* history: number of the next cleanup registered
  ran,          \* history: numbers of the handlers that ran, in order
  kept,         \* history: blocks the program holds on to
  bad           \* history: a free of something that was not allocated

poolVars == <<stage, live, large, cleanup, order, ran, kept, bad>>

PoolInit ==
  /\ stage = "live" /\ live = {} /\ large = <<>> /\ cleanup = <<>>
  /\ order = 0 /\ ran = <<>> /\ kept = {} /\ bad = FALSE

\* malloc hands out any block that is not in use; a failure changes nothing,
\* since the callers free what they had got before it.
malloc(b) == b \notin live

free(b) == live' = live \ {b} /\ bad' = (bad \/ b \notin live)

ngx_palloc(b) ==
  /\ stage = "live" /\ malloc(b)
  /\ live' = live \cup {b}
  /\ large' = <<b>> \o large
  /\ kept' = kept \cup {b}
  /\ UNCHANGED <<stage, cleanup, order, ran, bad>>

\* Mutant: the link of the freed block stays in the list.
Unlink_Keep(s, b) == s

\* The list without the first link to b.
Unlink(s, b) == RemoveFirst(s, b)

\* ngx_pfree: a pointer the pool does not know is an error and stays alone.
ngx_pfree(b) ==
  /\ stage = "live" /\ Contains(large, b)
  /\ large' = Unlink(large, b)
  /\ free(b)
  /\ kept' = kept \ {b}
  /\ UNCHANGED <<stage, cleanup, order, ran>>

\* ngx_pool_cleanup_add: data is a block for the handler, NoData for size 0; the
\* caller sets the handler.
ngx_pool_cleanup_add(data, handler) ==
  /\ stage = "live" /\ order < MaxCleanups
  /\ data # NoData => malloc(data)
  /\ live' = IF data = NoData THEN live ELSE live \cup {data}
  /\ cleanup' = <<[data |-> data, handler |-> handler, n |-> order]>> \o cleanup
  /\ order' = order + 1
  /\ UNCHANGED <<stage, large, ran, kept, bad>>

\* ngx_destroy_pool starts with the handlers.
ngx_destroy_pool ==
  /\ stage = "live"
  /\ stage' = "cleanup"
  /\ UNCHANGED <<live, large, cleanup, order, ran, kept, bad>>

\* One turn of the first loop; the data stays allocated.
RunCleanup ==
  /\ stage = "cleanup" /\ cleanup # <<>>
  /\ ran' = IF Head(cleanup).handler THEN Append(ran, Head(cleanup).n) ELSE ran
  /\ cleanup' = Tail(cleanup)
  /\ UNCHANGED <<stage, live, large, order, kept, bad>>

CleanupsDone ==
  /\ stage = "cleanup" /\ cleanup = <<>>
  /\ stage' = "free"
  /\ UNCHANGED <<live, large, cleanup, order, ran, kept, bad>>

\* One turn of the second loop.
FreeLarge ==
  /\ stage = "free" /\ large # <<>>
  /\ free(Head(large))
  /\ large' = Tail(large)
  /\ UNCHANGED <<stage, cleanup, order, ran, kept>>

Destroyed ==
  /\ stage = "free" /\ large = <<>>
  /\ stage' = "destroyed"
  /\ UNCHANGED <<live, large, cleanup, order, ran, kept, bad>>

PoolNext ==
  \/ \E b \in Blk : ngx_palloc(b) \/ ngx_pfree(b)
  \/ \E d \in Blk \cup {NoData}, h \in BOOLEAN : ngx_pool_cleanup_add(d, h)
  \/ ngx_destroy_pool \/ RunCleanup \/ CleanupsDone \/ FreeLarge \/ Destroyed

PoolSpec == PoolInit /\ [][PoolNext]_poolVars

-----------------------------------------------------------------------------
\* Nothing is freed twice, also when malloc hands a block out again after an
\* ngx_pfree: the pool never holds a link to a block it does not own.  As long
\* as a cleanup has yet to run, every block the program holds is still there
\* for it to use, and the handlers run in LIFO order.
PoolSound ==
  /\ ~bad
  /\ \A j \in DOMAIN large : large[j] \in live
  /\ cleanup # <<>> => kept \subseteq live
  /\ \A j, k \in DOMAIN ran : j < k => ran[j] > ran[k]
=============================================================================

------------------------------ MODULE ConfMerge ------------------------------
(***************************************************************************)
(* How a block of nginx.conf comes to its settings: directives set fields   *)
(* of the block they stand in, in any order; when the whole http block is   *)
(* read, every server is merged with http, every location with the block    *)
(* around it (ngx_http_auth_webauthn_merge_loc_conf), and a block that      *)
(* mints or checks sessions loads its key.  One field stands for all the    *)
(* directives whose slot setter and merge have nothing special.             *)
(***************************************************************************)
EXTENDS Naturals

CONSTANTS
  Unset,          \* NGX_CONF_UNSET, NULL and the empty string
  Around,         \* the block each block stands in, Unset for http
  Location,       \* the blocks that are locations
  Http,           \* the http block
  File,           \* key files
  Content,        \* what is in each: "pem", "text", "short", or "unreadable"
  Menu,           \* the kinds of directives the instance uses
  MaxDirectives   \* bound on the directives of the configuration

Block == DOMAIN Around

ASSUME ConfAssumption ==
  /\ Http \in Block /\ Around[Http] = Unset
  /\ \A b \in Block \ {Http} : Around[b] \in Block \ {b}
  /\ Location \subseteq Block \ {Http}
  /\ Content \in [File -> {"pem", "text", "short", "unreadable"}]
  /\ MaxDirectives \in Nat
  /\ Unset \notin Nat
  /\ Unset \notin {"h1", "h2", "HS256", "RS256", "ES256", "HMAC", "ASYM"}

VARIABLES
  own,            \* the fields of each block as the directives set them
  eff,            \* the fields after the merge, Unset before it
  phase,          \* "parse", "merge", or "rejected"
  count           \* directives read so far

confVars == <<own, eff, phase, count>>

Field == {"rp_id", "origins", "rate_max", "rate_window", "redis_host",
          "redis_port", "redis_password", "jwt_secret_file", "jwt_secret",
          "jwt_pub_pem", "jwt_alg", "jwt_alg_family", "auth", "verify_handler"}

\* create_loc_conf: nothing is set.
create_loc_conf == [f \in Field |-> Unset]

Default ==
  [create_loc_conf EXCEPT !.rate_max = 0, !.rate_window = 60,
     !.redis_port = 0, !.jwt_alg = "HS256", !.jwt_alg_family = "HMAC",
     !.auth = FALSE, !.verify_handler = FALSE]

ConfInit ==
  /\ own = [b \in Block |-> create_loc_conf]
  /\ eff = [b \in Block |-> Unset]
  /\ phase = "parse"
  /\ count = 0

-----------------------------------------------------------------------------
(* Directives.                                                             *)

\* A directive in block b leaves fields x, or is an error.
SetFields(b, ok, x) ==
  /\ phase = "parse"
  /\ count < MaxDirectives
  /\ count' = count + 1
  /\ IF ok
     THEN own' = [own EXCEPT ![b] = x] /\ UNCHANGED phase
     ELSE phase' = "rejected" /\ UNCHANGED own
  /\ UNCHANGED eff

\* The slot setters of nginx: a second directive in the block "is duplicate".
set_slot(b, f, v) == SetFields(b, own[b][f] = Unset, [own[b] EXCEPT ![f] = v])

\* set_origin: every directive of the block adds to the list.
set_origin(b, v) ==
  SetFields(b, TRUE,
            [own[b] EXCEPT !.origins = (IF @ = Unset THEN {} ELSE @) \cup {v}])

\* set_redis: host and port of one directive; port 0 stands for a bad one.
set_redis(b, h, p) ==
  SetFields(b, own[b].redis_host = Unset /\ p > 0,
            [own[b] EXCEPT !.redis_host = h, !.redis_port = p])

\* Mutant: HS256 is left to the default family.
set_jwt_alg_DefaultFamily(b, a) ==
  SetFields(b, a \in {"HS256", "RS256", "ES256"},
            [own[b] EXCEPT !.jwt_alg = a,
               !.jwt_alg_family = IF a = "HS256" THEN @ ELSE "ASYM"])

\* set_jwt_alg: the algorithm and its family; the last directive counts.
set_jwt_alg(b, a) ==
  SetFields(b, a \in {"HS256", "RS256", "ES256"},
            [own[b] EXCEPT !.jwt_alg = a,
               !.jwt_alg_family = IF a = "HS256" THEN "HMAC" ELSE "ASYM"])

\* set_rate_limit off | max [window]: m is Unset for off, w without a window.
set_rate_limit(b, m, w) ==
  SetFields(b, IF m = Unset THEN w = Unset ELSE m > 0 /\ w # 0,
            [own[b] EXCEPT !.rate_max = IF m = Unset THEN 0 ELSE m,
                           !.rate_window = IF w = Unset THEN @ ELSE w])

\* set_redis_password file:f: read at once; the last directive counts.
set_redis_password(b, f) ==
  SetFields(b, Content[f] # "unreadable", [own[b] EXCEPT !.redis_password = f])

\* set_verify_handler: the flag slot (and the content handler that goes with
\* it); set_challenge_handler is alike and needs no key.
set_verify_handler(b, v) == set_slot(b, "verify_handler", v)

\* The contexts of the commands table.
Directive ==
  \E b \in Block :
    \/ "slot" \in Menu /\ \E v \in {"a", "b"} : set_slot(b, "rp_id", v)
    \/ "origin" \in Menu /\ \E v \in {"a", "b"} : set_origin(b, v)
    \/ "redis" \in Menu /\ \E p \in 0..2 :
         set_redis(b, IF p = 1 THEN "h1" ELSE "h2", p)
    \/ "alg" \in Menu /\ \E a \in {"HS256", "RS256", "none"} : set_jwt_alg(b, a)
    \/ "rate" \in Menu /\ \E m \in {Unset, 0, 1}, w \in {Unset, 0, 5} :
         set_rate_limit(b, m, w)
    \/ "password" \in Menu /\ \E f \in File : set_redis_password(b, f)
    \/ "key" \in Menu /\ \E f \in File : set_slot(b, "jwt_secret_file", f)
    \/ "key" \in Menu /\ b # Http
       /\ \E v \in BOOLEAN : set_slot(b, "auth", v)
    \/ "key" \in Menu /\ b \in Location
       /\ \E v \in BOOLEAN : set_verify_handler(b, v)

\* The http block is read; it is not merged with anything itself.
EndOfHttp ==
  /\ phase = "parse"
  /\ phase' = "merge"
  /\ eff' = [eff EXCEPT ![Http] = own[Http]]
  /\ UNCHANGED <<own, count>>

-----------------------------------------------------------------------------
(* The merge.                                                              *)

\* Mutant: the outer block prevails.
Inherit_OuterWins(inner, outer, f) ==
  IF outer[f] # Unset THEN outer[f]
  ELSE IF inner[f] # Unset THEN inner[f] ELSE Default[f]

\* ngx_conf_merge_*_value of one field.
Inherit(inner, outer, f) ==
  IF inner[f] # Unset THEN inner[f]
  ELSE IF outer[f] # Unset THEN outer[f] ELSE Default[f]

\* Mutant: only locations with a handler of their own load a key.
NeedsKey_VerifyOnly(m) ==
  m.verify_handler /\ m.jwt_secret = Unset /\ m.jwt_secret_file # Unset

\* The block mints or checks sessions and has a file but no key yet.
NeedsKey(m) ==
  /\ m.auth \/ m.verify_handler
  /\ m.jwt_secret = Unset
  /\ m.jwt_secret_file # Unset

\* read_file, then chomp and the length test, or derive_pub_pem.
KeyFits(m) ==
  IF m.jwt_alg_family = "HMAC"
  THEN Content[m.jwt_secret_file] \in {"pem", "text"}
  ELSE Content[m.jwt_secret_file] = "pem"

LoadKey(m) ==
  [m EXCEPT !.jwt_secret = m.jwt_secret_file,
            !.jwt_pub_pem = IF m.jwt_alg_family = "ASYM"
                            THEN m.jwt_secret_file ELSE @]

merge_loc_conf(b) ==
  LET outer == eff[Around[b]]
      m == [f \in Field |-> Inherit(own[b], outer, f)] IN
  /\ phase = "merge"
  /\ eff[b] = Unset
  /\ outer # Unset
  /\ IF NeedsKey(m) /\ ~KeyFits(m)
     THEN phase' = "rejected" /\ UNCHANGED eff
     ELSE /\ eff' = [eff EXCEPT ![b] = IF NeedsKey(m) THEN LoadKey(m) ELSE m]
          /\ UNCHANGED phase
  /\ UNCHANGED <<own, count>>

ConfNext ==
  \/ Directive
  \/ EndOfHttp
  \/ \E b \in Block \ {Http} : merge_loc_conf(b)

ConfSpec == ConfInit /\ [][ConfNext]_confVars

-----------------------------------------------------------------------------
(* Properties.                                                             *)

Merged == {b \in Block \ {Http} : eff[b] # Unset}

\* The blocks from each block outwards, however deeply locations nest: what
\* every set of blocks has that holds the block and with each block the one
\* around it.
Outwards(S) == \A x \in S \ {Http} : Around[x] \in S

Chain ==
  [b \in Block |-> {x \in Block :
     \A S \in SUBSET Block : (b \in S /\ Outwards(S)) => x \in S}]

\* x is the innermost block from b outwards that sets field f.
Innermost(b, x, f) ==
  /\ x \in Chain[b]
  /\ own[x][f] # Unset
  /\ \A y \in Chain[b] \ Chain[x] : own[y][f] = Unset

\* docs/DIRECTIVES.md: "values set in http / server are inherited by lower
\* blocks; redefining them in a lower block overrides the inherited value", also
\* through blocks that say nothing, and for defaults a block already took.
InnermostWins ==
  \A b \in Merged :
    \A f \in Field \ {"jwt_secret", "jwt_pub_pem"} :
      \/ \E x \in Block : Innermost(b, x, f) /\ eff[b][f] = own[x][f]
      \/ eff[b][f] = Default[f] /\ \A x \in Chain[b] : own[x][f] = Unset

\* The algorithm and its family, and the host and its port, are set by one
\* directive and inherited field by field, and still come from one directive:
\* the gate never checks with the key type of another algorithm, and no host
\* is contacted on another one's port.  Not so the limit and its window, the
\* third such pair: a location's limit without a window takes the window of an
\* outer limit, where docs/DIRECTIVES.md names a default of 60s.
PairsTogether ==
  \A b \in Merged :
    /\ eff[b].jwt_alg_family =
         (IF eff[b].jwt_alg = "HS256" THEN "HMAC" ELSE "ASYM")
    /\ \/ eff[b].redis_host = Unset /\ eff[b].redis_port = 0
       \/ \E x \in Chain[b] : /\ own[x].redis_host = eff[b].redis_host
                              /\ own[x].redis_port = eff[b].redis_port

\* With an accepted configuration no block that mints or checks sessions and
\* has a key file in effect is left without a key, which would make every
\* request a 500.
KeyIsLoaded ==
  \A b \in Merged :
    /\ eff[b].auth \/ eff[b].verify_handler
    /\ eff[b].jwt_secret_file # Unset
    => eff[b].jwt_secret # Unset

\* The same sentence of docs/DIRECTIVES.md about the key itself: a block that
\* mints or checks sessions does so with the key of the file and algorithm in
\* effect for it.
KeyIsOwn ==
  \A b \in Merged :
    (eff[b].auth \/ eff[b].verify_handler) =>
      /\ eff[b].jwt_secret = eff[b].jwt_secret_file
      /\ eff[b].jwt_alg_family = "ASYM" =>
           eff[b].jwt_pub_pem = eff[b].jwt_secret_file
=============================================================================

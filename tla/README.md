# A TLA+ model of nginx-auth-webauthn

This directory specifies nginx-auth-webauthn, an nginx module that authenticates
users with WebAuthn assertions and keeps its shared state in Redis, together
with its command-line tool: the login path, the access gate behind it, the
configuration both are given, the CLI's commands, and the decoders and
formatters they rest on. The specifications are model-checked with TLC on small
instances, and nearly all safety results are proved with TLAPS for every instance.

Source paths below are relative to the repository; `module.c` stands for
`src/ngx_http_auth_webauthn_module.c` and `redis.c`, `credential.c` and so on
for `src/ngx_auth_webauthn_*.c`.

## The system

| Component | State it keeps | Operations | Talks to |
|---|---|---|---|
| Challenge endpoint (`module.c`) | none of its own | rate limit, issue, list the user's credentials, answer | challenge store, rate counter, user index |
| Verify endpoint (`module.c`) | none of its own | decode, consume, look up, decide, persist the counter, mint the session | challenge store, credential store, assertion decision |
| Access gate (`module.c`) | none; the session is a signed token in a cookie | accept or refuse a request | the token only, never Redis |
| Configuration (`module.c`) | directives of each location | parse, inherit | everything in `module.c` |
| Challenge store (`challenge.c`) | `chal:{raw}` keys with an expiry | issue (SET EX), consume (GETDEL) | Redis client |
| Credential store (`credential.c`) | `cred:{id}` hashes and `user:{id}:creds` sets | get, put, update_counter, delete | Redis client |
| Rate counter (`redis.c`) | `ratelimit:challenge:{ip}` with an expiry | one EVAL script: INCR, EXPIRE if needed | Redis |
| Redis client (`redis.c`) | a hiredis context per request | one blocking command at a time | Redis |
| Assertion decision (`assertion.c`, `clientdata.c`, `authdata.c`) | none | accept or decline an assertion | OpenSSL |
| Attestation, COSE (`attestation.c`, `cose.c`) | none | accept a registration, convert its key | OpenSSL, libcbor |
| Admin CLI (`tools/admin`) | none | register, revoke, list, show | credential store, attestation |
| CLI runtime shim (`tools/admin/ngx_compat`) | the pool's lists | allocate, free, destroy; base64url | malloc |

Several nginx workers, possibly on several nodes, and several CLI processes
share one Redis. A worker handles the body of a request in one blocking run, so
within a worker requests do not interleave; between workers, and with the CLI,
everything can happen between any two Redis commands. A command is atomic at the
server. It can be refused, can fail before the server sees it, or can be
executed and lose its reply; the last two leave the handle dead. A process can
die between two commands. Time enters through the expiry of keys and of the
session.

What makes each part correct:

* challenge store and endpoints: a challenge is worth at most one session, and
  disappears if it is not used;
* verify endpoint: a session is minted only for a sound assertion by the named
  credential; every request is answered; counters only grow under `strict`;
* credential store and CLI: what the operator last said decides which
  credentials work, whatever logins are in flight; the index shows what works;
* rate counter: bounded bursts, no lockout that lasts or is prolonged;
* access gate: no session is accepted at another relying party, and none much
  longer than its lifetime after its credential was revoked;
* configuration: a nested location gets the values the documents promise, fields
  that belong together stay together, and a key is there where one is needed;
* attestation and COSE: what register stores can log in, and is what the
  response vouches for;
* list and show: the table, put together from several moments, leaves out no
  working credential;
* decoders, parsers, formatters, pool: no byte outside a buffer, the meaning
  kept, nothing freed twice.

## Modules

| Module | Models |
|---|---|
| `RedisClient` | what one connection or one command can do to its caller (constants `Faults`, `Nil`) |
| `CredentialStore` | records, index, and the CLI's register and revoke, one action per Redis command |
| `ChallengeHandler` | the challenge endpoint, its rate counter and the expiry of keys |
| `Assertion` | the decision of `assertion_verify` as an operator |
| `Login` | composes the three above with the verify endpoint: workers and CLI processes against one Redis |
| `OneShotLogin` | the abstract promise about a challenge: issued once, redeemed at most once, one session |
| `LateLogin` | `Login` when a command that was given up is executed later |
| `AccessGate` | `Login` with clocks, session tokens and the access handler |
| `AccessPromise` | the abstract promise of the gate: access ends a bounded time after the revoke |
| `AdminView` | `list` and `show` next to `CredentialStore`'s writers |
| `ConfMerge` | directives, the merge of nested blocks, and the loading of keys |
| `Enrollment` | attestation, COSE decoding, key conversion, and the signature check of a later login |
| `AuthData` | the parser of authenticator data |
| `Decimal` | the decimal fields of a record: `snprintf`, `atoi64`, range checks |
| `Base64Url` | the CLI's base64url encoder and decoder |
| `ReadFile` | the CLI's file reader and `chomp` |
| `Replies` | the endpoints' reply buffers and `json_escape` |
| `Pool` | the CLI's memory pool |
| `LoginProofs`, `CredentialProofs`, `AdminProofs`, `LateLoginProofs`, `AccessGateProofs`, `ChallengeProofs` | the theorems about the module of that name |
| `PartsProofs` | the theorems about the sequential modules |
| `LeastNatural` | the least element of a set of naturals, from which induction over data is derived |
| `MCParts` | the composition of the sequential modules and `AdminView`, one of them at a time |
| `MC...` | symmetry sets and the inputs of the model-checked instances |

`Login` extends `ChallengeHandler`, `CredentialStore` (both over `RedisClient`)
and `Assertion`; `LateLogin` and `AccessGate` extend `Login`, `AdminView` extends
`CredentialStore`. The others are sequential code; `MCParts` puts them and `AdminView`
together.

Correspondence with the code:

* `pc[w]` is the place of a worker between two Redis commands: `rate`, `issue`,
  `allow`, `served` in the challenge handler, `consume`, `lookup`, `judge`,
  `update`, `mint`, `verified` in the verify handler. `conn`, `chal`, `pres` and
  `got` are the handler's locals: handle, challenge, decoded assertion, and the
  record `credential_get` returned. `status` is the HTTP status.
* `ttl[c]` is the remaining life of a challenge key, 0 when there is none.
  `hits` and `window` are the rate counter and its expiry; one client address is
  modelled, since each has its own key.
* `record` and `index` are the hash and set keys. A record keeps the three
  fields that decide something: `user_id`, `public_key` (written and required
  together with `alg`) and `sign_count`. A hash with no field is a missing key.
* `issued`, `served`, `redeemed`, `minted`, `top`, `registered`, `torn` and
  `recent` are history variables: they record what happened for the properties
  and the abstract specification, and no guard of the code depends on them
  beyond "a random value was not drawn before" and "a client presents a
  challenge it received".
* Every Redis command is an action with an outcome `o` taken from `redis_exec`;
  `Applied(o)` says whether it took effect, `Replied(o)` whether the wrapper
  returned NGX_OK.
* The random challenge is drawn when the request arrives rather than just before
  SET: nobody can see the difference.
* `nomem` covers allocation, RAND_bytes and token encoder failures while the
  answer is built; such a failure before a command is sent has the same effect
  as a refused command and is covered by `refused`.
* An assertion is a record of what the checks look at: which key signed it,
  counter, type, origin, crossOrigin, flags, relying party. A credential id also
  names its key pair, as authenticators generate both together.

Left out of these modules on purpose: a location with missing directives (both
endpoints answer 500 before they do anything), wording and JSON layout.

The other modules:

* `LateLogin`: `limbo` holds the writing commands that timed out, or whose sender
  died, and that Redis may still have in a socket buffer. Each may be executed
  at any later time, once, or never. `registered` stays the last word of the
  CLI: a command that lands late does not move it. A register that timed out and
  lands after a successful revoke therefore leaves a credential that works
  although it was revoked; `overtaken` records such credentials, until the next
  register or revoke the CLI waits for. `LastWordHolds` says that nothing else
  that lands late has this effect. A late counter HSET can put an older
  counter back, with the same consequence as the race of `login_race`; it is
  not stated again.
* `AccessGate`: `clock` is real time, `cached[w]` what `ngx_time()` returns in
  worker `w`, refreshed only between requests. An identity is a credential with
  the user it is registered for; `lostAt` is history, the moment an identity ended
  by a revoke or by a registration of the credential for another user. `sessions` are the tokens handed
  out, `Foreign` what else a client may present: tokens of other relying
  parties with the same secret, other issuers, other keys. `ctx[w]` is the
  request context the variables are evaluated from, kept also when the request
  fails. A token is a record of its claims and signing key.
* `AdminView`: `todo` is what the loop has yet to fetch, `rows` what was printed for
  each id; `steady` and `seen` are history.
* `ConfMerge`: `own` is what the directives set, `eff` the result of the merge.
  `Chain` follows
  the nesting for any tree of blocks. `rp_id` stands for every directive with a plain slot; the fields with a setter
  of their own are modelled one by one, quota and window of the rate limit too. A key is named by the file it came from.
* `Enrollment`: CBOR maps are sequences of pairs, so a label can be repeated and a
  value can have the wrong type; integers have 64 bits on the wire and are cut
  to an int where the code does. A signature names the key, digest and data it
  was made with. OpenSSL's test that a point is on the curve is the one on
  coordinates of one key.
* `Decimal`, `AuthData`, `Base64Url`: one step per character or field, in the
  width of the C types. `touched` (AuthData) and the lengths of the outputs show
  a read or write outside a buffer. Signed left shifts in the decoder's bit
  buffer overflow, which is undefined in C; the low bits are kept, as compilers
  do.
  The encoder works on sextets; the table that turns them into characters and the
  tests that turn characters back are `basis` and `b64url_char`, proved inverse to
  each other (`AlphabetsAgree`).
* `ReadFile`: a file is its size and the line ends it ends with; a read may return
  part of it and raise the error flag at any point. `chomp` is one turn of its loop
  per step.
* `Replies`: every text counts with its length, apart from the user id, which is
  kept byte by byte since it is escaped; the property reads it back the way
  jansson does, one state per byte: UTF-8 is checked, without overlong forms,
  surrogates and numbers beyond U+10FFFF, escapes are undone, and a string with a
  NUL is refused. Three lengths are used for several texts at once.
* `Pool`: `live` is what malloc handed out, so that a block can come back after it
  was freed. List nodes are freed with what they link.

## Model checking

| Run | Configuration | Checks | States |
|---|---|---|---|
| `challenge` | `MCChallenge.cfg` | `BurstBound`, `WindowNeverExtended`, `LockoutEnds`, `ChallengeExpires`, `ChallengeAnswered`, types | 83 k |
| `login` | `MCLogin.cfg` | `LoginInv`, `OneSessionPerChallenge`, `UsableIffRegistered`, the refinement `OneShotSpec`, types | 310 k |
| `login_single` | `MCLoginSingle.cfg` | `MintJustified` with every flaw the decision looks for, `AcceptedAdvance`, `EveryRequestEnds` | 214 k |
| `late_login` | `MCLate.cfg` | `OneShotSpec`, `LastWordHolds`, `LateSetHarmless` | 1247 k |
| `access_gate` | `MCAccess.cfg` | the refinement `PromiseSpec`, `SessionsDated`, `IdentityIsOwnSession` | 749 k |
| `parts` | `MCParts.cfg` | the properties of the sequential modules and of the admin CLI, listed below | 983 k |

`parts` (module `MCParts`) composes the eight modules of sequential code and
`AdminView`. No two of them share a variable, and a call of sequential code runs to
its end without anybody looking on, so a behaviour is one call of one of them, or
one of `AdminView` with its reader and its writer, the others idle: the states add
up and do not multiply. It checks

* `Decimal`: `AccExact`, `AtoiIsExact`, `FieldRoundTrip`;
* `Base64Url`: `WithinBuffers`, `DecodesTheBits`, `RoundTrip`;
* `AuthData`: `InBounds`, `FieldsTile`;
* `ReadFile`: `WholeFile`;
* `Replies`: `ReplyFits`, `SubjectRoundTrip`;
* `Pool`: `PoolSound`;
* `ConfMerge`: `InnermostWins`, `PairsTogether`, `KeyIsLoaded`;
* `Enrollment`: `RegisteredCanLogIn`, `RegistrationJustified`;
* `AdminView`: `UsableIsListed`, `ListComplete`, `RowsWereUsable`.

Bounds, and why they are enough:

* two workers: each property about requests relates one request to one other;
* two challenges (`login`), so that a worker can draw one while the other is
  being redeemed; three in `challenge`, one more than `2 * RateMax`, so that
  the burst bound could be exceeded;
* one credential and one CLI process at a time in `login`: the races are between
  a verification and an operation on the same credential. An assertion may be
  signed with its key or with another one, written `Nil`; two credentials in
  `AdminView`, whose table has several rows;
* `ChallengeTtl`, `RateWindow` of 1 or 2: expiry can fall between any two steps;
* `MaxCount` bounds the 32-bit counters; 1 gives a counter that grows, stays and
  falls back;
* `MaxHits` stops new requests when the counter has passed the quota, so that
  requests over the quota are seen;
* `MaxLimbo` bounds the commands in flight; one at a time can still be overtaken by
  any other step, and the theorems hold for any number;
* `access_gate` runs one worker, which logs in and then serves the gate with a
  clock that lags by up to `MaxLag`; all workers share one real clock. Two users,
  so that a credential can be registered again for another one while its session
  is being minted; `MaxTime` is `JwtTtl + MaxLag`, the longest a session can
  outlive its identity. `Grace` is
  `JwtTtl + MaxLag`, and the check fails with one second less;
* configuration: http, a server and two locations, one in the other, and up to
  `MaxDirectives` directives, enough for a value at two levels with a silent
  block in between;
* registration: every mix of key type, algorithm and parameters, with one
  further pair before or after them, and statements with every kind of member;
  `Int32` and `Int64` are scaled down, keeping the wrap-around between them;
* decimal fields: INT64_MAX and INT32_MAX are scaled down so that every number of
  each field and every text of up to `MaxText` characters is tried, at and beyond
  the limits;
* base64url: all short inputs over bytes and characters with distinct bit
  patterns, with a bit buffer small enough to overflow within them;
* authenticator data: the real field lengths and every buffer length up to
  `MaxBuf`;
* the file reader: `Chunk` and `FileMax` scaled down, sizes up to past `FileMax`, so
  that the buffer doubles three times and the limit is met;
* replies: up to `MaxCreds` ids, so that an estimate per id that is too small would
  use up the fixed reserve, and the longest times.

`parts` and the runs of sequential code expected to fail say `CHECK_DEADLOCK FALSE`:
sequential code returns.

`login_single` runs one worker, and the only command failure in it is a lost reply,
on purpose: with two workers, or when the counter write is not applied,
`AcceptedAdvance` does not hold (see below, and the comment at `module.c` line
1516).

Symmetry is used only in runs without liveness properties. Every property of a
passing run is paired in `PROJECT.json` with a mutant, an operator of the module
marked "Mutant" that changes the code's behaviour the way a plausible bug would,
under which TLC finds the property violated.

Fairness. `ChallengeFairness` and `LoginFairness` assume weak fairness of each
worker's next step and of the expiry of keys. A worker is single-threaded and
blocks in hiredis with `redis_timeout` set on connect and commands, so its next
step happens unless the process dies (`Die` is not fair and frees the worker).
A timeout of 0 would leave hiredis without a limit and void the assumption.
Clients and operators are not assumed to act.

## Disagreements found

Six runs are expected to fail, each on a statement of the repository:

* `login_race`: `docs/SECURITY.md` line 36 says `strict` answers 401 if the
  counter has not increased. The counter is read with HGETALL and written with a
  later HSET, so two overlapping verifications both pass with the same counter.
* `login_ghost`: `credential.h` line 59 says update_counter works on an existing
  credential. Its HSET creates the key when the credential was revoked in
  between; the record left has no key, cannot authenticate
  (`UsableIffRegistered` holds), and revoke refuses it as "no such credential".
* `credential_index`: `docs/DIRECTIVES.md` line 355 says `user_id` returns that
  user's registered credentials; registering a credential again for another user
  leaves its id in the first user's index.
* `credential_two`: the same sentence, when one operator revokes a credential
  while another registers it again: the SREM of the first follows the SADD of
  the second and a working credential is listed nowhere.
* `conf_key`: `docs/DIRECTIVES.md` line 46 says a lower block overrides an inherited
  value. A location inside one that has loaded a key inherits `jwt_secret`
  itself, and its own `jwt_secret_file` or `jwt_alg` does not replace it.
* `enroll_require`: `docs/ADMIN_TOOL.md` line 132 and `docs/TROUBLESHOOTING.md` line
  76 say that `--require-attestation=packed` rejects any other format; `none` is
  accepted before the requirement is looked at.

Smaller differences met while modelling, visible in the definitions and without a
run of their own:

* `docs/SECURITY.md` line 48 promises 401 for every failure of verify, Redis failure
  included; when the connection fails the handler answers 500 (`Login`).
* `docs/ADMIN_TOOL.md` line 95 reserves the `(missing)` row for index entries without
  a record; when the connection breaks during `list`, the remaining credentials are
  shown as missing and the command exits 0 (`ListRow`).
* `attestation.c` line 283 says the statement's algorithm must match the key's; it is
  cut to an int first, so other 64-bit numbers match too (`parse_stmt`). The
  signature is still checked with the key's algorithm (`RegistrationJustified`).
* the comment at `module.c` line 704 says a key file is read once per distinct
  setting; set at server level it is read by every location that needs it
  (`NeedsKey`).
* the comment at `module.c` line 903 says a rate limit of 0 disables limiting, while
  the directive rejects 0 (`set_rate_limit`).
* `ngx_compat.c` line 312 says trailing padding is tolerated and any other byte
  rejected; padding is skipped anywhere (`DecodeChar`). Line 7 says every allocation
  is released with the pool; the data block of a cleanup is not
  (`ngx_pool_cleanup_add`), and no caller asks for one today.
* `auth_webauthn_admin_main.c`: a file of exactly the limit is refused as exceeding
  it (`Grow`), and `chomp` strips all trailing line ends where its comment at line 180
  says a single one (`Chomp`; `WholeFile` states what the code does).
* `docs/DIRECTIVES.md` line 147 gives the window of a rate limit a default of 60s. The
  setter leaves the window unset when none is given and the merge fills it from
  outside: `10 5m` in an outer block and `20` in a location make 20 requests per 5
  minutes (`set_rate_limit`, `merge_loc_conf`). `PairsTogether` is therefore about the
  other two directives that set several fields.
* a user id that is not UTF-8, or contains a NUL, can be registered and logs in, but
  the gate refuses its token, whose claims jansson does not accept
  (`SubjectRoundTrip`). No document says which user ids are allowed.
* when memory runs out for the body of a successful verify, the 500 carries the
  session cookie (`Mint`).

## Proofs

Every invariant and action property of the passing runs is also proved, two of them
(`UsableIsListed`, `AcceptedAdvance`) under conditions the code needs and does not
enforce. The theorems are in eight modules, each beside the specification it is about:

| Module | Theorems | For every |
|---|---|---|
| `LoginProofs` | `Invariant`, `TypeCorrect`, `Replay`, `RevokeHolds`, `MintIsJustified`, `CountersAdvance`, `Refinement` | set of workers, challenges, credentials, users, CLI processes; policy; subset of faults |
| `CredentialProofs` | `StoreInvariant`, `ListedWhenApart` | set of credentials, users and CLI processes |
| `AdminProofs` | `ViewInvariant`, `ListingIsComplete`, `OutputWasUsable`, `ReadersOnlyRead`, `ListedWithReaders` | the same, and any number of readers |
| `LateLoginProofs` | `LateInvariant`, `LateSetIsHarmless`, `LateLastWord`, `LateRefinement` | as for `LoginProofs`, and any number of commands in flight |
| `AccessGateProofs` | `AccessInvariant`, `SessionsAreDated`, `IdentityIsGenuine`, `GateKeepsPromise` | as for `LoginProofs`, and every lifetime, clock lag, set of gates and of foreign tokens |
| `ChallengeProofs` | `ChallengeInvariant`, `ChallengeTypes`, `BurstIsBounded`, `LockoutIsFixed` | quota, window, lifetime and number of workers |
| `PartsProofs` | the sequential modules, below | input of any length |
| `LeastNatural` | `LeastElement` | set of naturals |

They rest on the assumptions named in the modules: constants are of their type,
`Nil` and `Unset` are none of the values, words are wide enough for one digit, byte
or label, and (`GateAssumption`) nobody but the verify endpoint signs for its
`rp_id` with its secret.

**Login** (`LoginInv`). `OneSessionPerChallenge` is not inductive: a state in which
two workers hold the same challenge satisfies it, and both could mint. `LoginInv`
adds that a challenge is in one place at a time. `ChallengeLife` says a challenge
that is still stored has not been redeemed and one that was not redeemed has no
session; `Exclusive` says no two workers hold the same challenge, neither before it
is stored nor after it was consumed; `WorkerLocals` says what a worker knows at each
place, in particular that what it holds is redeemed and has no session yet. GETDEL
keeps it because the key it removes was not redeemed, hence held by nobody. There is
one lemma per action; `AnswerInv` and `LeaveInv` treat the ways a request can end
together. The refinement maps `ttl` to `left` and `issued` to `born`: SET is Issue,
GETDEL is Redeem, or Burn when its reply is lost, handing out the token is Mint, a
second is Elapse, and everything else is invisible.

**Signature counters** (`CounterInv`). `AcceptedAdvance` compares a counter with the one
accepted before, while the code compares it with the record it read some steps earlier.
`CounterInv` ties the two: the counter in a usable record, and in the copy a worker
decides on, is not behind what was accepted. It needs `CloneDetection = "strict"`, no
counter HSET that is not applied (`Faults` without "refused" and "unsent"; a reply may
still be lost and a worker may die), and `[]VerifiersApart`: no two workers have the
same credential's record in hand at once. The code guarantees neither of the last two:
a counter write that fails is logged and the login goes on, and run `login_race` shows
two verifications that overlap. With them `CountersAdvance` holds for any number of
workers and operators, a register over the credential included.

**Credential store** (`CredInv`, `ListInv`). `RecordsSound` and `CliLocals` say that a
usable record names a user and its own key and that a CLI process remembers valid
arguments; the counter HSET keeps `UsableIffRegistered` because it never writes the
key field (`RecordWrite` treats the three writers of a record). The link is stated for
each credential (`UsableIff`), since under late commands it holds for some of them. `UsableIsListed` is
false for two operators on one credential (run `credential_two`), so its theorems
have the hypothesis `[]OperatorsApart`: no two CLI processes work on one credential
at the same time. They may work on different ones, fail and be killed. Neither the
theorems nor the run cover a credential whose own register stopped between HSET and
SADD (`torn`): it works and is in no index, and register has exited with an error. `ListInv` adds
that a process about to SADD finds its own record, and one about to SREM finds none.

**List and show** (`ViewInv`): what a listing still owes is in `todo`, and while it
runs `seen` contains whatever works. `ReadersOnlyRead` shows that with readers around
the store behaves as without, which carries `ListedWhenApart` over to `AdminSpec`.

**Late commands** (`LateInv`): `LoginInv`, the form of the commands in flight, and
`SetsApart`: a challenge whose SET is in flight is not stored and not drawn by any
worker. So a late SET is an Issue of the abstract login, a late GETDEL a Burn, and
the rest is invisible. `LastWordHolds` is kept with `LoginInv`: a late counter HSET
writes no key, SADD and SREM no record, and a late record HSET or DEL puts its
credential into `overtaken`, from which only a register or revoke that was executed
under the eyes of its sender, and so agrees with `registered`, removes it.

**Access gate** (`AccessInv`): `LoginInv`, the claims of every session (`SessionsOurs`)
and the bounds on clocks (`GateState`). `SessionsDated` already speaks of the workers
about to mint: the worker's cached time is at most `MaxLag` behind the clock, so the
`exp` it will sign is tied to the moment the record was read, at which the credential was registered for the user the token
will name. A granted request then falls within `JwtTtl + MaxLag` of the last moment
the credential was that user's, which is a step of `AccessPromise`.

**Rate limit** (`ChallengeInv`): `BurstBound` sums `recent` over the window, which says
nothing about the counter. `QuotaKept` splits the sum at the moment the current window
began: what came later was counted in `hits` and is within the quota, what came before
belongs to the previous window and is within the quota as well. The sum is a function
`p` with `p[n] = p[n-1] + recent[n]`; that there is one, `passed`, and only one, comes
from `LeastElement`.

**Sequential code** (`PartsProofs`):

* `ParserInBounds`, `ParserTiles` (authdata_parse): `AuthProgress` adds what the parser
  knows on reaching each field, in particular that the buffer is at least as long as
  the offset, so that the subtraction in `cred_id_len > len - offset` does not wrap.
* `AccumulatorExact` (atoi64): `acc <= (limit - d) / 10` gives `10 * acc + d <= limit`
  (`DivBound`), which is below the word size.
* `AtoiAcceptsExactly`, `FieldsSurvive` (atoi64 and snprintf). `ReadSoFar` says that the
  characters read are digits and `exact` is the magnitude they denote. A digit that does
  not fit leaves a magnitude above the limit, and further digits only enlarge it
  (`MagnitudeGrows`), so the whole text is no int64. `digits[n]` is a numeral of magnitude
  `n` (`DigitsWritten`), hence what `credential_put` wrote is never
  rejected, save algorithm 0, which credential_get takes for a missing one.
* `InnermostPrevails`, `PairsStayTogether`, `KeysAreLoaded` (merge), for every tree of
  blocks. `Chain[b]`, the blocks from `b` outwards, is the least set closed under
  `Around`; a block's chain is itself and the chain of the block around it. `ConfInv`
  adds that the fields a directive sets together are set together in `own`, and that a
  merged block always has an algorithm, which a later merge inherits or replaces with
  its family.
* `OwnerCanLogIn`, `RegistrationIsJustified` (register), for every response, CBOR maps of
  any length, any order and with repeated labels. `EnrInv` records what each stage
  established; the lemmas say what a decoded key and a parsed statement have in
  common with the maps they came from.
* `FileIsWhole` (read_file, chomp): what was read fits the buffer, the loop is left only
  at the end of the file with no error seen, and chomp has dropped line ends only.
* `CodecWithinBuffers`, `EncodingIsLossless` (base64url), for strings of any length. The
  invariant says that the text holds the bits of the source six by six (`Encoding`) and
  that after each character the decoder's low `bits` bits are those of the source not
  yet written (`Restored`, `Decoding`). Only the 14 low bits of the buffer are ever
  used, and a shift in a wider word keeps them (`LowBits`). `AlphabetsAgree` covers the
  characters.
* `DecoderReadsTheBits` (base64url_decode): the same for a text of any origin, with
  padding in any place and any number of left-over bits. `TextRead` says that the output
  is the whole bytes of the symbols read so far and that the buffer still holds the
  bits of the last symbol that no byte has used. `ByteAcross` puts a byte together
  from the two symbols it lies across; `ByteKept` says a byte does not change when
  the text grows.
* `RepliesFit`, `SubjectSurvives` (replies). The first counts per entry what the estimate
  reserves for it; the second relates the escaped prefix to what jansson has
  read of it (`ReadsAs`): after each escaped byte the parser has one more byte, the one
  escaped, and is in the same place of a UTF-8 sequence as one that reads the user id
  itself: an escape inside a sequence breaks it, as its byte would. So it accepts exactly the user ids that
  are UTF-8 without a NUL.
* `PoolIsSound` (pool): the list of blocks has no duplicates and links live blocks only,
  and cleanups are numbered downwards, below those that ran.

Facts by induction over data (two recursive functions agree, a prefix of a text is
read alike in a longer one) are derived from `LeastElement`: the least index at which
the fact fails is not 0, and its predecessor is no counterexample.

Only model-checked:

* liveness (`LockoutEnds`, `ChallengeExpires`, `ChallengeAnswered`, `EveryRequestEnds`),
  which is outside what the prover handles.

## Plan

Every component of the table above is modelled. Left to prove: a bound like
`BurstBound` when the rate counter's EVAL is executed late (`LateLogin`).

## Not modelled

* OpenSSL, libcbor, jansson, hiredis and the JWT library: what the code relies on
  is stated where it is used (a signature verifies when made by the key over the
  data; a command is atomic).
* The rewriting of log format strings in `ngx_compat.c`, usage texts, option
  parsing and the layout of the CLI's output: they change no state the program
  keeps.
* Building and packaging, the test suites, the browser example.

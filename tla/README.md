# servir in TLA+

servir (`src/src`) is a Rust library that turns an axum router into a server
with accounts: it migrates an SQLite database, keeps a signing secret in it,
mounts `register`, `login`, `refresh`, `logout` and `me`, and gives handlers an
`AuthUser` extractor. `src/consumer` is the template of an application built on
it. This directory holds a TLA+ specification of what the two do to their
databases and answer to their clients, the TLC configurations that check it on
small instances, and TLAPS proofs for instances of any size.

    tlc -config SessionsSafety.cfg MCAuthSessions.tla     # and so on, see "Runs"
    tlapm AuthSessionsProofs.tla                          # and so on, see "Proofs"

## The system

| component | state | operations | properties that make it correct |
|---|---|---|---|
| auth handlers, `src/src/auth/http.rs` | one future per request | `register`, `login`, `refresh`, `logout`, `me`, the extractor `AuthUser` | a refresh token is exchanged once; a logout ends the user's sessions; errors have the cause their documentation gives; every request ends |
| tokens, `src/src/auth/core.rs` | none (secret and lifetimes are fixed at start) | issue and verify access and refresh JWTs, hash and verify passwords | a token is good from issue to `exp`, for its kind only; no lifetime, however large, makes one immortal |
| auth repository, `src/src/db/auth.rs` | tables `users`, `refresh_tokens`, `auth_config` | one SQL statement per call, two in `load_or_generate_secret` | rows name accounts that exist; a username is taken once; one secret |
| connection and migrations, `src/src/db/mod.rs` | `_sqlx_migrations`, the connection pool | connect, migrate | nobody serves on half a schema; no connection is lost, or held by who waits for another |
| builder and lifecycle, `src/src/server.rs` | the process, the router | `build`, `serve`; middleware, `/health`, 404, `AppJson` | a start that loses a race or dies half-way can be repeated; every endpoint reaches its owner behind the layers it needs |
| errors, `src/src/error.rs` | none | `error_id`, `status_code`, `context` of every variant | the status, and the identifier in the context, are those documented |
| response envelope, `src/src/response.rs` | none | JSON of answers | left out, but for the error id and the identifier in the context |
| tracing and logging, `src/src/server.rs` | none | set up output | left out |
| consumer template, `src/consumer` | table `user_profiles` in a database of its own | `GET /user` finds or creates a profile; `main` | one profile per user, whoever asks first |

**Interaction.** Handlers run concurrently on the tokio runtime and share
nothing but the database and the pool of connections to it: a handler calls the
repository, the repository takes a connection and sends one statement, SQLite executes statements one at a time. No call spans a
transaction over two statements, so everything a handler read may be stale at its
next call. The server and its clients share tokens: what a client holds may have
been consumed, revoked or outlived. Processes that share a database meet in
`_sqlx_migrations` and `auth_config`. The consumer sees only the claims
`AuthUser` hands it; deleting an account does not touch its table.

**What is hard.** Two requests with one token; a logout in the middle of a
refresh; an account deleted, and its name registered again, under a running
request; two expiry times for one token (`exp`, with the leeway of the JWT
library, and `expires_at`, without) read from the clock at different moments; a
future dropped between the DELETE and the INSERT of a rotation; processes that
initialise one database together or die half-way; handlers that queue for the
pool's connections; expiries that overflow, on a clock that may be set back; a
router assembled from whatever the consumer passes in. `PROJECT.json` lists each such
hazard at its line with the properties that cover it.

## Modules

`ServirErrors` — the error ids of `error.rs`, one set per error type, with the
status and the kind of identifier that `context()` answers for each.

`AuthTokens` — claims, issuing, and `verify_token` with the caller's test of kind.
A signed token is its claims: only tokens the server issued verify.

`AuthSessions` — the core. A handler is a task whose `pc` is the repository call
it waits for. A request (`Register`, `Login`, `Refresh`, `Logout`, `Me`,
`MalformedBody`) runs to its first call; then one action per call is the
statement *and* the synchronous code after it, up to the next call or the answer.
`Fail` is a statement or the crypto failing at any call, `Reply` the answer
reaching its client, `Drop` the future dropped at an await: a disconnected client
or the death of the process (which drops all of them; tables and secret remain).
`RemoveUser` is an operator deleting an account — the code only provides for it
with `ON DELETE CASCADE` — and `Tick` the clock. `since` bounds how stale the
`now_secs()` bound into a statement may be when it executes.

| variable | code |
|---|---|
| `users`, `refresh_tokens` | the tables; a password hash is the password it verifies |
| `clock` | `now_secs()` |
| `task` | the running handlers: locals that live across an await, and the answer |
| `held` | the tokens clients have received; a client may present any of them at any time |
| `created`, `root` | history: ids given out, and the first token of each token's session |

`SessionLifecycle` — the abstract specification: a session holds one token,
spends it, gets a new one or ends, and never comes back. `AuthSessions`
implements it (`ImplementsLifecycle`): the refinement mapping names a session
after its first token and reads its state off the table and the handlers that are
exchanging its token.

`LogoutHistory` — `AuthSessions` with the sessions each logout has met as history
variables; it restricts nothing.

`PooledSessions` — `AuthSessions` composed with the pool of `Db`: every call of a
handler first waits its turn in `queue`, then holds a connection (`busy`) while
its statement runs, and gives it back before the handler goes on. A handler that
makes three calls queues three times. The pool's acquire timeout is a `Fail` of
a handler in the queue, a dropped future leaves the queue or returns what it
holds. Its steps are those of `AuthSessions` and one that only takes a
connection.

`TokenExpiry` — what `AuthSessions` takes as exact: the lifetimes are any `u64`,
`exp` is a sum in `usize` (which may be narrower), `expires_at` one in `i64`, a sum
that overflows panics in a debug build and wraps in a release build, and
the clock may be set back. One client logs in and presents its refresh token. The
widths are constants, so that TLC can try every value.

`Startup` — processes that run the consumer's `main` and `ServerBuilder::serve` on
shared databases: the data database first, then the builder's options, the auth
database, the migrations one by one, the secret's SELECT and INSERT, the
listener, and a supervisor that starts what went down (`main` panics on an error
and its `docker-compose.yml` restarts it).

`DatabaseLifecycle` — the abstract specification of start-up: the data database and
then the auth database go forward by one migration at a time, on complete schemas a
secret is set for good, and only then is anything served, under that secret.
`Startup` implements it (`ImplementsDatabaseLifecycle`): of a process nothing but
what it leaves in the databases, and that it serves, is to be seen.

`Routing` — the router `build()` makes, stage by stage (the consumer's routes,
the auth routes merged in, `/health`, `AuthLayer`, nesting under `/api/v1` with the
outer fallback, the middleware), for any consumer router, and then the way of one
request after another: inwards through the middleware, to a route, a fallback or
axum's 405, through the extractor to the handler, and outwards. `api` is the
router, each route with its owner, its extractor and whether the layer covers
it; `stack` is the middleware, outermost first; `call` holds the
`x-request-id` header as the request is seen, and what `PropagateRequestId`
keeps of it. Merging and routing a method that a path already has panics; a
second method of a path does not. Each fact about axum and tower-http is an
external definition of its own.

`Profiles` — the consumer's `GET /user` over `user_profiles`. `returned` is the history of
what `find_or_create_profile` has returned (a profile's `created_at` with it, which
the handler leaves out of the body), and a task's `retry` says that a call for its
user had returned when it began.

`MC*` — instances for TLC. `*Proofs` — the theorems about the module of that
name; `SessionLifecycleProofs`, `LogoutHistoryProofs` and `PooledSessionsProofs`
build on those of `AuthSessionsProofs`.

Operators named `Faulty...` are plausible bugs, each next to the definition it
would replace. No action uses one; `PROJECT.json` ("mutants") says which property
each one breaks when it takes the definition's place.

## Runs

| run | checks | shows |
|---|---|---|
| `sessions_safety` | `TypeInv`, `RotationInv`, `RefusedOnlyIfSpentOrExpired`, `ImplementsLifecycle`, `ExpiredNeverConsumed`, `RequestsAdvance` | rotation never forks or revives a session, the two expiries never refuse a live token that is on file nor exchange one past `expires_at`, and no request makes a call twice, with faults, disconnects and crashes anywhere |
| `sessions_accounts` | `OneTokenPerSession`, `ServerErrorsHaveCauses`, `OneSubjectPerSession`, `ReferentialIntegrity`, `LogoutEndsStoredSessions` | three handlers while accounts are deleted and their name registered again: sessions and rows keep their account, and without database faults (a locked database and the pool's timeout are such) statements that conflict are not answered 5xx |
| `sessions_liveness` | `ConnectionsComeBack`, `RequestsComplete` | two handlers on one connection: none is lost, nobody waits for a second one while holding the first, and every request ends |
| `token_expiry` | `TypeOK`, `NeverOutlivesItsLifetime`, `DiesEarlyOnlyByOverflow`, `ExpiriesAgree` | an overflow may make a token useless but never immortal, and `exp` and `expires_at` differ by exactly what the clock moved between the two readings |
| `startup` | `TypeOK`, `OneSigningSecret`, `ServesCompleteSchema`, `ImplementsDatabaseLifecycle`, `ConfiguredProcessesServe` | starting together or dying half-way leaves one secret and whole schemas, migrated in order, and those who can serve do |
| `routing` | `TypeOK`, `EndpointsReachTheirOwner`, `AuthLayerNeverMissing`, `AnswersCarryRequestId` | no consumer router shadows the library's endpoints or is shadowed, lacks the layer it needs, or gets an answer without its request id |
| `profiles` | `TypeOK`, `AnswersShowTheStoredProfile`, `LaterRequestsAgree` | the profile returned is the one on file; once a call for a user has returned, a refusal included, every later request finds it, and all are shown the same |
| `logout_race`, `refresh_invalid`, `access_expiry`, `error_context`, `profile_race` | one documented statement each | the code does otherwise, see "Findings" |

**Bounds.** `sessions_safety`: two handlers on one account, which may be deleted, three refresh tokens.
Every conflict in the code is between two statements, so two handlers reach all of
them; three tokens let a session rotate twice, or two sessions live beside each other
while one rotates. `RefreshTtl = 1`, `Leeway = 1`, `MaxTime = 2` put the clock
before `expires_at`, between it and the end of the leeway, and past `exp`.
`sessions_accounts`: three handlers, so that an account can be deleted and
registered again around two running requests, and two account ids; time
stands still there, because the first run covers it and the questions of the
second are not about time. `sessions_liveness`: two handlers and a single
connection, so that each has to wait for the other at every call (sqlx allows ten; with
more connections than handlers nobody waits); all passwords (right, wrong, too short),
faults and removals, so that every path of every handler is taken.
`token_expiry`: a `u64` of 8 values, a `usize` of 4 and of 8, every lifetime; the
clock runs to 3, the largest second that still fits the `i64`, and may be set back twice, so
that every sum that can overflow does, in one type or both, and the clock passes
each expiry and comes back before it. `startup`: three processes, the third with
changing options and the second's address; the migrations of the repository (one and three); two
crashes or faults; three secrets (two mishaps cannot lose all three, so a process that
finds none left to draw waits only for one that will store its own). `routing`:
four endpoints for the consumer, one apart from the library's, one beside a route of
the library, two on top of one, each with any extractor; ten request endpoints,
with a path nobody has and a method nobody has; one client id, because requests
share no state. `profiles`: three handlers, two users, three seconds.
Tokens and account ids are never used again (they are UUIDs): `HasRoom` and
`HasIdRoom` keep one in reserve for each running handler, so the bound refuses
new requests and never blocks one half-way.

**Symmetry.** The safety runs of the sessions and the profiles use permutations of
handlers, ids, tokens and names. No definition orders or singles out one of them;
the action properties and the refinement of `sessions_safety` are likewise the same
for every permutation and are checked step by step (neither has a liveness
part). Runs with liveness have no symmetry.

**Fairness.** `RequestsComplete` assumes, per handler, weak fairness of
`Acquire`, `Execute` and `Answered`: tokio polls a future that can make progress,
the pool hands out a free connection in order of arrival (sqlx queues on a fair
semaphore; the mutant that serves the newest first starves a handler), and a
statement sent to SQLite returns. Nothing is assumed of clients, faults,
removals, timeouts or time.
`ConfiguredProcessesServe` assumes weak fairness of each process's own steps,
the restart included, which is `restart: unless-stopped`; crashes and faults are
bounded and unfair. Deadlock is checked in every run.

## Proofs

Every safety property, action property and refinement the passing runs check is
also a theorem: it holds for every value of the constants that the modules'
`ASSUME`s admit, and those say no more than what the code's types and the
configuration give (lifetimes and leeway are natural numbers, `None` is no value
of a type, the empty username is not one of the others). TLC evaluates the
assumptions in every run. Liveness is only model-checked, see below.

**Sessions** (`AuthSessionsProofs`): any number of handlers, accounts, tokens and
passwords, any lifetimes, leeway and clock bound, with or without faults and
removals.

* `TypeCorrect`: `Spec => []TypeInv`. `TypeOK` alone is not inductive, because a
  call reads fields that are `None` in other states; `DataInv` says each handler
  has what its call reads.
* `OneToken`: `Spec => []OneTokenPerSession`. The strengthening is
  `RotationInvariant`. A new row could fork a session if the fresh jti were by
  chance the name of one in use; `RotationInv` excludes it: the name of a session
  in use is a used token (`root[root[j]] = root[j]`, rows and exchanges have a
  root), and a fresh jti has none. The proof splits the steps into those that
  neither store nor begin an exchange (`QuietStep`, which covers every request,
  failure, answer, drop, logout, removal and tick) and the two that move a session:
  `ConsumeRotation` from its row to the handler, `StoreRotation` back.
* `SpentForGood`: a refresh token that has been issued and is off file stays off
  file, `Spec => [](Spent(j) => []Spent(j))` for each jti. Rows are only inserted
  under a jti that has no root, and a root is never taken away (`SpentStep`).
* `References`: `Spec => []ReferentialIntegrity`, inductive by itself.
* `LeewayEndsAtTheTable`: the action property `ExpiredNeverConsumed`. Only
  `consume_refresh_token` removes a row and leaves its handler in exchange, and it
  compares `expires_at` with a reading no older than `since`.
* `InternalErrors`: `Spec => []ServerErrorsHaveCauses`. `AccountsInv` adds the
  history: an account that is on file, that a handler is about to store a token
  for, or whose deletion a handler has reported, is one whose id was given out
  (`created`). Without that, a later registration could give the id out again and
  make the reported cause untrue.
* `RefusalsJustified` and `OneSubject`, both from `TokensInvariant`: every refresh
  token a client holds or a handler carries has a root, shares its account with
  all the tokens and the row of its session, and expires no later than its row.
  The two properties are about different tokens at different times (what is held
  now, what was refused earlier), and only the tokens in between, those handlers
  carry, tie them together. `StoreTokens` is where the order of the two clock
  readings enters.
* `RequestsEnd`: the action property `RequestsAdvance`, the safety half of
  `RequestsComplete` for any number of handlers. `StepsLeft` falls with every step of
  a handler (`CallAdvances`) and no step of another changes it (`OthersStay`), so a
  request ends after four steps of its own, unless one of them waits for ever, and
  that is what the liveness run is about.

**Refinement** (`SessionLifecycleProofs`): `Implementation`,
`Spec => Lifecycle!Spec`. `Representation` shows that `RotationInv` makes the mapping
well defined (a session with a row is that row's, with an exchange it is rotating,
with neither it is over, never "forked"). Then each step maps: `SpendStep` to
Spend, `StoreStep` to Begin or Replace, logouts and removals (`EndStep`) to the End
of the sessions whose rows they delete, exchanges that are refused or dropped
(`AbandonStep`) to Abandon, every other step to a stutter.

**Logout** (`LogoutHistoryProofs`): `HistoriesAddNothing`, `HSpec => Spec`, carries the
theorems above over. `LogoutIsFinal`, `HSpec => []LogoutEndsStoredSessions`, adds that an
ended session was in use, so that no new one takes its name; that the logout's
DELETE takes *all* of a session it meets is `OneTokenPerSession` (`DeleteLogout`).

**Pool** (`PooledSessionsProofs`): any number of handlers and connections. `PoolOnlyDelays`,
`PSpec => Spec`, carries the theorems about sessions over. `NoConnectionLost`,
`PSpec => []ConnectionsComeBack`, from `PoolInv`: the queue is an injective sequence, so
that taking its head, appending to it and leaving it from any position change the
set of those that wait by one handler (`TailInjective`, `AppendInjection`,
`RemoveInjective`); every step of the service is one release and one new place in
the queue (`ReleaseAndEnqueue`). The library's theorems about cardinalities give the
bound on `busy`.

**Start-up** (`StartupProofs`): any number of processes, migrations, secrets and mishaps.
`OneSecret` and `CompleteSchema` from `StartupInv`: what a process has listed as pending
(`Prepared`) only gets smaller by what is applied, by it or by another; and the
secret it goes on with is the one on file, because nothing replaces a stored one.
`DatabasesOnlyGoForward`, `Spec => ImplementsDatabaseLifecycle`, from the same invariant.
The step that needs it is a migration (`MigrateImplements`): the list of pending
migrations a process works from may be out of date, but what is not on it is
applied and what is applied has no gap, so the first one on it that is still
missing is the next of its database (`NextMigration`). Storing a secret and binding
the listener are SetSecret and Serve (`SecretImplements`); everything else, crashes
included, stutters.

**Profiles** (`ProfilesProofs`): any number of handlers and users. `StoredProfileShown`
and `LaterRequestsFindIt` from `ProfilesInv`: at most one profile per user, an answer shows
it, whoever a call has returned for has one, and if a profile was returned it is that
one (`Recorded`); so a request that retries never comes to the INSERT (`Honest`).

**Expiry** (`TokenExpiryProofs`): any width of `u64` that is even, any `usize` up to it, every
lifetime, leeway and clock within an `i64`. `NoImmortalToken`, `OverflowOnly` and
`ExpiryAgreement` from `ExpiryInv`: `exp` and `expires_at` are at most the end of the
lifetime and equal to it unless that overflows the type (`ExpSumBound`,
`ExpiresAtBound`), and a row is on file only beside the `exp` issued before it, so
that of two expiries that did not overflow the difference is that of the two readings.

**Routing** (`RoutingProofs`): whatever the consumer may route and clients may ask for.
`OwnersAnswer`, `LayerWhereNeeded` and `RequestIdsReturn` from
`RoutingInv`: each stage of `build()` has the endpoints of the stages before, each with
its owner's handler (`RouterInv`; `MergedRouter` is the one place where a route could
be shadowed, and `Overlap` excludes it), and a request on its way has the id, the
route and the answer that its depth in the middleware says (`CallInv`).

**Only model-checked**: `RequestsComplete` and `ConfiguredProcessesServe`. They are
liveness properties under fairness, and the proof system has no rule for
`ENABLED`; the runs check them on their small instances only (`RequestsEnd` and
`NoConnectionLost` are what is proved of the first). The violations
under "Findings" are counterexamples of TLC.

## Assumptions

* SQLite executes one statement atomically and enforces the foreign key (sqlx
  turns `PRAGMA foreign_keys` on by default).
* A statement that fails has had no effect. One whose future was dropped may have
  executed: that is the call's action followed by `Drop`.
* UUIDs and secrets are never drawn twice. The clock does not step back, but in
  `TokenExpiry`, and in `AuthSessions` lifetimes do not overflow (the
  defaults are 900 and 604800 seconds).
* Only tokens the server issued verify: HMAC and argon2 are not modelled.
* `username` in the claims is a function of `sub` (nothing renames an account), and
  `iat` is `exp` minus the lifetime; both are left out of the claims.
* The migrator of sqlx takes no lock on SQLite, and applies each migration in a
  transaction that inserts its version, a primary key.

## Findings

* `logout_race`: a refresh that has consumed its token but not stored the next
  has no row; a logout in between deletes nothing of it and the session survives,
  though logout "Revokes all refresh tokens for the user"
  (`http.rs:308`). What does hold is `LogoutEndsStoredSessions`.
* `profile_race`: the loser of two concurrent first `GET /user` of a user is
  answered 500, though the handler creates the profile "on first access"
  (`consumer/src/lib.rs:21`). What does hold is `LaterRequestsAgree`:
  asking again finds the profile.
* `refresh_invalid`: `INVALID_REFRESH_TOKEN` is documented as "not in the database"
  (`error.rs:521`), but is also the answer for a row past `expires_at` within the
  leeway. What does hold is `RefusedOnlyIfSpentOrExpired`.
* `access_expiry`: `AuthUser` is documented to refuse expired tokens
  (`http.rs:83`) and accepts them for the leeway of `Validation::default()`.
* `error_context`: `DB_DELETE_REFRESH_TOKENS_FOR_USER_FAILED` carries a user id as its
  `username` (`db/auth.rs:157`, `error.rs:279`).

Three smaller ones have no run of their own:

* axum's 405 (`MethodNotAllowed` in `Routing`: a known path, another method) has an
  empty body, and the rejection of a handler that takes `axum::Json` is plain text
  (`server.rs:145`), though `response.rs:13` says "Every response — success or
  error — shares the same top-level shape". Bodies are not modelled.
* `WEAK_PASSWORD` is documented for a password "shorter than 8 characters"
  (`error.rs:384`); `http.rs:196` counts bytes, and three characters may have nine.
* An overflowing lifetime makes every token dead on arrival (release) or panics the
  handler after `register` has created the account (debug); `set_*_ttl`
  accept any `u64`. `NeverOutlivesItsLifetime` is what does hold.

## Not modelled

The JSON of bodies and answers, the envelope included, wording and logging (`init_tracing`,
`init_logging`: output only, no other part reads what they set up). argon2 and the
signature: a hash verifies the password it was made from, a token verifies under
the secret that signed it. Argument parsing, which only names the two databases.
`HEAD` requests, which axum answers with the handler of `GET`, and layers a
consumer puts around its own router. The statements of SQLite are atomic steps;
its locking and its files are not modelled.

## Plan

Done, in this order: errors and tokens, sessions, the abstract lifecycle, logout
history, start-up, profiles, expiry arithmetic, routing, the pool; then the
theorems: types, rotation and the foreign key, start-up, profiles, expiry, the two
expiries and the subject of a session, the refinement, logout, the pool, routing;
then the abstract specification of start-up and its refinement. What remains:

1. The converse of `HistoriesAddNothing`, that `LogoutHistory` allows every behaviour
   of the service, is evident from its form and not proved: it is a statement with
   a temporal existential quantifier.
2. `register` creates the account before it stores the first token: a property
   that relates the accounts left without a token to the failures that caused them.
3. The liveness properties for any number of handlers and processes.

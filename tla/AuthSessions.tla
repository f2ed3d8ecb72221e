---------------------------- MODULE AuthSessions ----------------------------
(***************************************************************************)
(* The authentication service: the handlers of src/src/auth/http.rs run    *)
(* concurrently over the tables users and refresh_tokens, which the        *)
(* repository calls of src/src/db/auth.rs read and write.                  *)
(*                                                                         *)
(* A handler is a task that stops at every await.  One repository call is  *)
(* one SQL statement, which SQLite executes atomically: it is one action,  *)
(* together with the synchronous code up to the next await.  Between two   *)
(* calls other tasks run, time passes, the client may disconnect or the    *)
(* process die (the handler's future is dropped), and the database may     *)
(* fail.                                                                   *)
(***************************************************************************)
EXTENDS AuthTokens, FiniteSets

CONSTANTS
    Tasks,          \* request handlers that can be running at one time
    Usernames,      \* non-empty usernames a client can send
    EmptyUsername,  \* the empty username
    Passwords,      \* passwords a client can send
    WeakPasswords,  \* those shorter than 8 bytes
    MaxTime,        \* bound of the clock
    Faults,         \* whether the database and the crypto can fail
    Removals        \* whether an operator deletes accounts

ASSUME SessionsAssumption ==
    /\ EmptyUsername \notin Usernames
    /\ None \notin Usernames \cup Passwords
    /\ WeakPasswords \subseteq Passwords
    /\ MaxTime \in Nat
    /\ Faults \in BOOLEAN /\ Removals \in BOOLEAN

VARIABLES
    users,           \* table users
    refresh_tokens,  \* table refresh_tokens
    clock,           \* now_secs(), assumed never to step back
    task,            \* the handlers
    held,            \* the tokens clients have received
    created,         \* the account ids given out so far
    root             \* history: the first token of the session a token is of

tables == <<users, refresh_tokens>>
ghosts == <<created, root>>
vars == <<users, refresh_tokens, clock, task, held, created, root>>

-----------------------------------------------------------------------------
(* The tables, the tasks and their answers.                                *)

(* What a client can send as a username; only register refuses the empty. *)
Names == Usernames \cup {EmptyUsername}

(* An argon2 hash is the password it verifies. *)
User == [id : UserIds, username : Usernames, password : Passwords]

RefreshToken == [jti : Jtis, user_id : UserIds, expires_at : Nat]

(* error_id is "OK" for an answer with success = true. *)
Response ==
    [error_id : ServirError \cup {"OK"},
     context  : Names \cup UserIds \cup {None},
     tokens   : SUBSET Claims]

(* Where a handler waits: for its next request, for the repository call of *)
(* that name, or for its answer to be sent.                                *)
IssuingCalls ==
    { "create_user", "find_user_by_username", "consume_refresh_token",
      "find_user_by_id", "store_refresh_token" }

Calls == IssuingCalls \cup {"delete_refresh_tokens_for_user"}

Task ==
    [pc       : Calls \cup {"idle", "reply"},
     username : Names \cup {None},
     password : Passwords \cup {None},
     user     : User \cup {None},
     claims   : Claims \cup {None},
     since    : 0..MaxTime,   \* when the synchronous code before pc began
     response : Response \cup {None}]

Idle ==
    [pc |-> "idle", username |-> None, password |-> None, user |-> None,
     claims |-> None, since |-> 0, response |-> None]

(* A UUID is never given out twice.  HasRoom and HasIdRoom keep one in     *)
(* reserve for every running handler, so that the finite sets that bound   *)
(* the model never block one.                                              *)
FreeJtis == {j \in Jtis : root[j] = None}

HasRoom ==
    Cardinality({t \in Tasks : task[t].pc \in IssuingCalls})
        < Cardinality(FreeJtis)

HasIdRoom ==
    Cardinality({t \in Tasks : task[t].pc = "create_user"})
        < Cardinality(UserIds \ created)

(* Only two calls are preceded by code that reads the clock. *)
ReadsClock == {"consume_refresh_token", "store_refresh_token"}

Await(t, call, fields) ==
    task' = [task EXCEPT ![t] =
                [fields EXCEPT !.pc = call,
                               !.since = IF call \in ReadsClock THEN clock ELSE 0]]

Success(tokens) == [error_id |-> "OK", context |-> None, tokens |-> tokens]

Answer(t, response) ==
    task' = [task EXCEPT ![t].pc = "reply", ![t].since = 0,
                         ![t].response = response]

Refuse(t, error_id, context) ==
    Answer(t, [error_id |-> error_id, context |-> context, tokens |-> {}])

-----------------------------------------------------------------------------
(***************************************************************************)
(* The statements.  A definition named Faulty... is what a bug could make  *)
(* of the one it precedes; no action uses it, and each is there to show    *)
(* that a property would tell.                                             *)
(***************************************************************************)

(* The error an INSERT INTO users that breaks UNIQUE (username) is mapped  *)
(* to, without and with the is_unique_violation arm.                       *)
FaultyUniqueViolation == "DB_USER_CREATE_FAILED"
UniqueViolation == "ALREADY_EXISTS"

(* SELECT ... FROM users WHERE id = sub. *)
FaultyUsersById(sub) == users
UsersById(sub) == {u \in users : u.id = sub}

(* FOREIGN KEY (user_id) REFERENCES users, enforced or not. *)
FaultyForeignKeyHolds(user_id) == TRUE
ForeignKeyHolds(user_id) == UsersById(user_id) # {}

(* The session a token issued by t belongs to is that of the token t has   *)
(* consumed, or starts with it.  A jti is fresh, or wrongly used again.    *)
Session(t) == root[task[t].claims.jti]

FaultyIssuedJtis(t) ==
    IF task[t].claims # None THEN {task[t].claims.jti} ELSE FreeJtis
IssuedJtis(t) == FreeJtis

SessionOf(t, jti) == IF task[t].claims = None THEN jti ELSE Session(t)

(* expires_at, with the sign or the rounding wrong. *)
FaultySignExpiresAt(now) == now - RefreshTtl
FaultyEarlyExpiresAt(now) == now + RefreshTtl - 1
ExpiresAt(now) == now + RefreshTtl

(* DELETE FROM refresh_tokens WHERE jti = ? AND expires_at > ?: without    *)
(* its second test, and as a SELECT that leaves the row.                   *)
FaultyConsumable(jti, now) == {r \in refresh_tokens : r.jti = jti}
Consumable(jti, now) ==
    {r \in refresh_tokens : r.jti = jti /\ r.expires_at > now}

FaultyAfterConsume(jti, now) == refresh_tokens
AfterConsume(jti, now) == refresh_tokens \ Consumable(jti, now)

(* DELETE FROM refresh_tokens WHERE user_id = ?, or only the token given. *)
FaultyAfterLogout(claims) == {r \in refresh_tokens : r.jti # claims.jti}
AfterLogout(claims) == {r \in refresh_tokens : r.user_id # claims.sub}

-----------------------------------------------------------------------------
(* A request arrives and runs to its first repository call.                *)

(* AppJson: the body of a POST is not the JSON the handler expects. *)
MalformedBody(t) ==
    /\ task[t].pc = "idle"
    /\ Refuse(t, "BAD_REQUEST", None)
    /\ UNCHANGED <<tables, clock, held, ghosts>>

Register(t) ==
    /\ task[t].pc = "idle"
    /\ \E name \in Names, password \in Passwords :
          \/ /\ name = EmptyUsername
             /\ Refuse(t, "EMPTY_USERNAME", None)
          \/ /\ name # EmptyUsername /\ password \in WeakPasswords
             /\ Refuse(t, "WEAK_PASSWORD", None)
          \/ /\ name # EmptyUsername /\ password \notin WeakPasswords
             /\ HasRoom /\ HasIdRoom
             /\ Await(t, "create_user", [Idle EXCEPT !.username = name,
                                                     !.password = password])
    /\ UNCHANGED <<tables, clock, held, ghosts>>

(* An empty username is looked up like any other. *)
Login(t) ==
    /\ task[t].pc = "idle"
    /\ HasRoom
    /\ \E name \in Names, password \in Passwords :
          Await(t, "find_user_by_username", [Idle EXCEPT !.username = name,
                                                         !.password = password])
    /\ UNCHANGED <<tables, clock, held, ghosts>>

(* refresh and logout: verify_token and the test of kind, then the call.   *)
(* None is a string that is no token of this server.                       *)
WithRefreshToken(t, call) ==
    \E token \in held \cup {None} :
        LET verdict == VerifyToken(token, "refresh", clock) IN
        \/ verdict # "OK" /\ Refuse(t, verdict, None)
        \/ verdict = "OK" /\ Await(t, call, [Idle EXCEPT !.claims = token])

Refresh(t) ==
    /\ task[t].pc = "idle"
    /\ HasRoom
    /\ WithRefreshToken(t, "consume_refresh_token")
    /\ UNCHANGED <<tables, clock, held, ghosts>>

Logout(t) ==
    /\ task[t].pc = "idle"
    /\ WithRefreshToken(t, "delete_refresh_tokens_for_user")
    /\ UNCHANGED <<tables, clock, held, ghosts>>

(* AuthUser::from_request_parts, then me, which only echoes the claims.    *)
(* The layer is there: build() installs it.                                *)
Me(t) ==
    /\ task[t].pc = "idle"
    /\ \/ Refuse(t, "MISSING_AUTHORIZATION_HEADER", None)
       \/ \E token \in held \cup {None} :
             LET verdict == VerifyToken(token, "access", clock) IN
             \/ verdict # "OK" /\ Refuse(t, verdict, None)
             \/ /\ verdict = "OK"
                /\ task' = [task EXCEPT ![t] =
                               [Idle EXCEPT !.pc = "reply", !.claims = token,
                                            !.response = Success({})]]
    /\ UNCHANGED <<tables, clock, held, ghosts>>

-----------------------------------------------------------------------------
(* A repository call returns and the handler runs to its next await.       *)

CreateUser(t) ==
    /\ task[t].pc = "create_user"
    /\ LET name == task[t].username IN
       \/ /\ \E u \in users : u.username = name     \* UNIQUE (username)
          /\ Refuse(t, UniqueViolation, name)
          /\ UNCHANGED <<users, created>>
       \/ /\ \A u \in users : u.username # name
          /\ \E id \in UserIds \ created :
                LET u == [id |-> id, username |-> name,
                          password |-> task[t].password] IN
                /\ users' = users \cup {u}
                /\ created' = created \cup {id}
                /\ Await(t, "store_refresh_token", [Idle EXCEPT !.user = u])
    /\ UNCHANGED <<refresh_tokens, clock, held, root>>

FindUserByUsername(t) ==
    /\ task[t].pc = "find_user_by_username"
    /\ LET name == task[t].username
           matching == {u \in users : u.username = name
                                        /\ u.password = task[t].password} IN
       \/ matching = {} /\ Refuse(t, "INVALID_CREDENTIALS", name)
       \/ \E u \in matching :
             Await(t, "store_refresh_token", [Idle EXCEPT !.user = u])
    /\ UNCHANGED <<tables, clock, held, ghosts>>

(* The DELETE compares expires_at with a time that was read before the     *)
(* statement was sent and may be stale when it executes.                   *)
ConsumeRefreshToken(t) ==
    /\ task[t].pc = "consume_refresh_token"
    /\ \E now \in task[t].since..clock :
          LET jti == task[t].claims.jti IN
          /\ refresh_tokens' = AfterConsume(jti, now)
          /\ \/ /\ Consumable(jti, now) = {}
                /\ Refuse(t, "INVALID_REFRESH_TOKEN", None)
             \/ /\ Consumable(jti, now) # {}
                /\ Await(t, "find_user_by_id", task[t])
    /\ UNCHANGED <<users, clock, held, ghosts>>

(* Faulty: asked for again without end, or the token exchanged once more. *)
FaultyUserNotFound(t, sub) == Await(t, "find_user_by_id", task[t])
FaultyExchangeAgain(t, sub) == Await(t, "consume_refresh_token", task[t])
UserNotFound(t, sub) == Refuse(t, "USER_NOT_FOUND", sub)

FindUserById(t) ==
    /\ task[t].pc = "find_user_by_id"
    /\ LET sub == task[t].claims.sub IN
       \/ \E u \in UsersById(sub) :
             Await(t, "store_refresh_token", [task[t] EXCEPT !.user = u])
       \/ UsersById(sub) = {} /\ UserNotFound(t, sub)
    /\ UNCHANGED <<tables, clock, held, ghosts>>

(***************************************************************************)
(* The tail register, login and refresh share: issue_access_token,         *)
(* issue_refresh_token and store_refresh_token read the clock in turn, the *)
(* last one for expires_at, and the INSERT executes.                       *)
(***************************************************************************)
StoreRefreshToken(t) ==
    /\ task[t].pc = "store_refresh_token"
    /\ LET u == task[t].user IN
       \/ /\ ForeignKeyHolds(u.id)
          /\ \E jti \in IssuedJtis(t), iat \in task[t].since..clock :
             \E now \in iat..clock : \E later \in now..clock :
                /\ refresh_tokens' = refresh_tokens \cup
                      {[jti |-> jti, user_id |-> u.id,
                        expires_at |-> ExpiresAt(later)]}
                /\ root' = [root EXCEPT ![jti] = SessionOf(t, jti)]
                /\ Answer(t, Success({IssueAccessToken(u.id, iat),
                                      IssueRefreshToken(u.id, jti, now)}))
       \/ /\ ~ ForeignKeyHolds(u.id)
          /\ Refuse(t, "DB_STORE_REFRESH_TOKEN_FAILED", u.username)
          /\ UNCHANGED <<refresh_tokens, root>>
    /\ UNCHANGED <<users, clock, held, created>>

DeleteRefreshTokensForUser(t) ==
    /\ task[t].pc = "delete_refresh_tokens_for_user"
    /\ refresh_tokens' = AfterLogout(task[t].claims)
    /\ Answer(t, Success({}))
    /\ UNCHANGED <<users, clock, held, ghosts>>

(***************************************************************************)
(* A statement fails without effect, or the crypto before or after it.     *)
(* Each error with the value its constructor is given as identifier: the   *)
(* last call passes claims.sub() on.                                       *)
(***************************************************************************)
Failure(t) ==
    LET r == task[t] IN
    CASE r.pc = "create_user" ->
           {<<"PASSWORD_HASH_FAILED", None>>,
            <<"DB_USER_CREATE_FAILED", r.username>>}
      [] r.pc = "find_user_by_username" ->
           {<<"PASSWORD_HASH_FAILED", None>>,
            <<"DB_USER_FIND_BY_USERNAME_FAILED", r.username>>}
      [] r.pc = "consume_refresh_token" ->
           {<<"DB_CONSUME_REFRESH_TOKEN_FAILED", None>>}
      [] r.pc = "find_user_by_id" ->
           {<<"DB_USER_FIND_BY_ID_FAILED", r.claims.sub>>}
      [] r.pc = "store_refresh_token" ->
           {<<"TOKEN_ENCODE_FAILED", None>>,
            <<"DB_STORE_REFRESH_TOKEN_FAILED", r.user.username>>}
      [] r.pc = "delete_refresh_tokens_for_user" ->
           {<<"DB_DELETE_REFRESH_TOKENS_FOR_USER_FAILED", r.claims.sub>>}
      [] OTHER -> {}

Fail(t) ==
    /\ Faults
    /\ \E f \in Failure(t) : Refuse(t, f[1], f[2])
    /\ UNCHANGED <<tables, clock, held, ghosts>>

Reply(t) ==
    /\ task[t].pc = "reply"
    /\ held' = held \cup task[t].response.tokens
    /\ task' = [task EXCEPT ![t] = Idle]
    /\ UNCHANGED <<tables, clock, ghosts>>

(***************************************************************************)
(* The handler's future is dropped at an await: the client disconnected,   *)
(* or the process died (every handler is then dropped; the tables and the  *)
(* clients' tokens remain, and so does the secret).  A statement already   *)
(* sent may still execute: that is the call's own action, then Drop.       *)
(***************************************************************************)
Drop(t) ==
    /\ task[t].pc # "idle"
    /\ task' = [task EXCEPT ![t] = Idle]
    /\ UNCHANGED <<tables, clock, held, ghosts>>

(* An operator deletes an account; its tokens go with it (ON DELETE CASCADE). *)
RemoveUser ==
    /\ Removals
    /\ \E u \in users :
          /\ users' = users \ {u}
          /\ refresh_tokens' = {r \in refresh_tokens : r.user_id # u.id}
    /\ UNCHANGED <<clock, task, held, ghosts>>

Tick ==
    /\ clock < MaxTime
    /\ clock' = clock + 1
    /\ UNCHANGED <<tables, task, held, ghosts>>

-----------------------------------------------------------------------------
Init ==
    /\ users = {} /\ refresh_tokens = {}
    /\ clock = 0
    /\ task = [t \in Tasks |-> Idle]
    /\ held = {}
    /\ created = {}
    /\ root = [j \in Jtis |-> None]

Request(t) ==
    \/ MalformedBody(t) \/ Register(t) \/ Login(t)
    \/ Refresh(t) \/ Logout(t) \/ Me(t)

Call(t) ==
    \/ CreateUser(t) \/ FindUserByUsername(t)
    \/ ConsumeRefreshToken(t) \/ FindUserById(t)
    \/ StoreRefreshToken(t) \/ DeleteRefreshTokensForUser(t)

Next ==
    \/ \E t \in Tasks :
          Request(t) \/ Call(t) \/ Fail(t) \/ Reply(t) \/ Drop(t)
    \/ RemoveUser
    \/ Tick

Spec == Init /\ [][Next]_vars

-----------------------------------------------------------------------------
(* Properties.                                                             *)

(* The tables, the handlers and the tokens have their types. *)
TypeOK ==
    /\ users \subseteq User
    /\ refresh_tokens \subseteq RefreshToken
    /\ clock \in 0..MaxTime
    /\ task \in [Tasks -> Task]
    /\ held \subseteq Claims
    /\ created \subseteq UserIds
    /\ root \in [Jtis -> Jtis \cup {None}]

(* A handler holds the data of the call it waits for, or its answer. *)
HasItsData(pc, r) ==
    /\ pc = "create_user" => r.username \in Usernames
    /\ pc \in {"create_user", "find_user_by_username"} =>
          r.username \in Names /\ r.password \in Passwords
    /\ pc \in {"consume_refresh_token", "find_user_by_id",
                 "delete_refresh_tokens_for_user"} => r.claims \in Claims
    /\ pc = "store_refresh_token" => r.user \in User
    /\ pc \in {"find_user_by_id", "store_refresh_token"} =>
          r.claims = None \/ r.claims.jti \in Jtis
    /\ pc = "reply" => r.response \in Response

(* Every handler has what the call it is about to make will read: no path  *)
(* through register, login, refresh or logout arrives without it.          *)
DataInv == \A t \in Tasks : HasItsData(task[t].pc, task[t])

TypeInv == TypeOK /\ DataInv

(* A refresh that has consumed its token and not yet stored the next one. *)
InFlight(t) ==
    /\ task[t].pc \in {"find_user_by_id", "store_refresh_token"}
    /\ task[t].claims # None

(***************************************************************************)
(* Rotation never forks a session (consume_refresh_token "atomically       *)
(* consumes", src/src/db/auth.rs:43): of all the tokens that descend from  *)
(* one login, at most one is on file or about to be replaced, whatever     *)
(* requests present the same token at the same time.                       *)
(***************************************************************************)
OneTokenPerSession ==
    /\ \A r, q \in refresh_tokens : root[r.jti] = root[q.jti] => r = q
    /\ \A t \in Tasks : InFlight(t) =>
          /\ \A r \in refresh_tokens : root[r.jti] # Session(t)
          /\ \A o \in Tasks \ {t} : InFlight(o) => Session(o) # Session(t)

(***************************************************************************)
(* What keeps it so, on every step: a session is in use from its first     *)
(* token on and named after that token, so the jti a store_refresh_token   *)
(* picks cannot be one a session in use is known by.                       *)
(***************************************************************************)
RotationInv ==
    /\ OneTokenPerSession
    /\ \A r \in refresh_tokens : root[r.jti] # None
    /\ \A t \in Tasks : InFlight(t) => Session(t) # None
    /\ \A j \in Jtis : root[j] # None => root[root[j]] = root[j]

(***************************************************************************)
(* The tables and the handlers implement SessionLifecycle: no interleaving *)
(* of refresh, logout, failures and crashes revives a session or puts a    *)
(* spent token back on file.  "forked" is a state the abstract             *)
(* specification does not have.                                            *)
(***************************************************************************)
OnFile(s) == {r.jti : r \in {q \in refresh_tokens : root[q.jti] = s}}

RotatingBy(s) == {t \in Tasks : InFlight(t) /\ Session(t) = s}

TokenOf(s) ==
    IF root[s] # s THEN "unborn"
    ELSE IF OnFile(s) = {} /\ RotatingBy(s) = {} THEN "over"
    ELSE IF OnFile(s) = {} THEN "rotating"
    ELSE IF \E j \in OnFile(s) : OnFile(s) = {j} /\ RotatingBy(s) = {}
         THEN CHOOSE j \in OnFile(s) : TRUE
    ELSE "forked"

Lifecycle ==
    INSTANCE SessionLifecycle WITH
        Tokens <- Jtis,
        token <- [s \in Jtis |-> TokenOf(s)],
        used <- {j \in Jtis : root[j] # None}

ImplementsLifecycle == Lifecycle!Spec

(***************************************************************************)
(* A refresh is refused with INVALID_REFRESH_TOKEN only if its token is no *)
(* longer on file or has passed its exp: expires_at is computed from a     *)
(* later clock reading than exp, never an earlier one.                     *)
(***************************************************************************)
Refused(t, error_id) ==
    task[t].pc = "reply" /\ task[t].response.error_id = error_id

OnFileToken(claims) == \E r \in refresh_tokens : r.jti = claims.jti

RefusedOnlyIfSpentOrExpired ==
    \A t \in Tasks :
        Refused(t, "INVALID_REFRESH_TOKEN") /\ OnFileToken(task[t].claims)
            => task[t].claims.exp <= clock

(***************************************************************************)
(* The leeway verify_token grants an expired token does not carry over to  *)
(* the table: a token is consumed only for a request whose call began      *)
(* before expires_at, however late the DELETE executes.                    *)
(***************************************************************************)
ExpiredNeverConsumed ==
    [][\A t \in Tasks : \A r \in refresh_tokens \ refresh_tokens' :
          task[t].pc = "consume_refresh_token" /\ InFlight(t)'
              => task[t].since < r.expires_at]_vars

(***************************************************************************)
(* Every token a client holds of a session, and the token on file, name    *)
(* the same account: refresh looks the account up again by sub.            *)
(***************************************************************************)
OneSubjectPerSession ==
    \A c \in held, r \in refresh_tokens :
        c.kind = "refresh" /\ root[c.jti] = root[r.jti] => c.sub = r.user_id

(***************************************************************************)
(* A token on file belongs to an account that exists, although accounts    *)
(* are deleted while registrations, logins and refreshes that have already *)
(* found them are about to store (0002_refresh_tokens.sql, line 3).        *)
(***************************************************************************)
ReferentialIntegrity ==
    \A r \in refresh_tokens : \E u \in users : u.id = r.user_id

(***************************************************************************)
(* Statements that conflict are not answered with a 5xx: unless the        *)
(* database fails a call (a locked database and the timeout of the pool    *)
(* included), the only internal error is the one of a request whose        *)
(* account is deleted under it.                                            *)
(***************************************************************************)
ServerErrorsHaveCauses ==
    \A t \in Tasks :
        LET r == task[t] IN
        r.pc = "reply" /\ IsServerError(r.response.error_id) =>
            \/ Faults
            \/ /\ r.response.error_id = "DB_STORE_REFRESH_TOKEN_FAILED"
               /\ \A u \in users : u.id # r.user.id

(* Every request is answered or its client gone, whatever other requests   *)
(* and the operator do.                                                    *)
RequestsComplete ==
    \A t \in Tasks : task[t].pc # "idle" ~> task[t].pc = "idle"

(***************************************************************************)
(* What the documentation says and the code does not do.                   *)
(***************************************************************************)

(* src/src/error.rs:521 says of INVALID_REFRESH_TOKEN: "jti is not in the  *)
(* database (already consumed or revoked)".                                *)
InvalidMeansNotOnFile ==
    \A t \in Tasks : ~ (/\ Refused(t, "INVALID_REFRESH_TOKEN")
                        /\ OnFileToken(task[t].claims))

(* src/src/auth/http.rs:83 says AuthUser returns "401 for any missing,     *)
(* malformed, expired, or wrong-kind token".                               *)
ExpiredAccessRefused ==
    [][\A t \in Tasks :
          task[t].pc = "idle" /\ task'[t].pc = "reply" /\ task'[t].claims # None
              => clock <= task'[t].claims.exp]_vars

(***************************************************************************)
(* No path through register, login, refresh or logout comes back to a call *)
(* it has made: whatever fails, races or is deleted in between, each step  *)
(* of a handler leaves it fewer before it is free again.                   *)
(***************************************************************************)
StepsLeft(pc) ==
    CASE pc = "idle" -> 0
      [] pc = "reply" -> 1
      [] pc \in {"store_refresh_token", "delete_refresh_tokens_for_user"} -> 2
      [] pc \in {"create_user", "find_user_by_username", "find_user_by_id"} -> 3
      [] pc = "consume_refresh_token" -> 4

Advances(t) ==
    task'[t] # task[t] => StepsLeft(task'[t].pc) < StepsLeft(task[t].pc)

RequestsAdvance == [][\A t \in Tasks : task[t].pc # "idle" => Advances(t)]_vars

(* src/src/error.rs documents, for each error, the kind of identifier its  *)
(* context carries.                                                        *)
ContextIsOfItsKind ==
    \A t \in Tasks : task[t].pc = "reply" =>
        LET r == task[t].response IN
        /\ IdentifierKind(r.error_id) = "username" => r.context \in Names
        /\ IdentifierKind(r.error_id) = "user_id" => r.context \in UserIds

=============================================================================

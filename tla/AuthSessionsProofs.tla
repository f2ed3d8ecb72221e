------------------------- MODULE AuthSessionsProofs -------------------------
(***************************************************************************)
(* Theorems of AuthSessions, for any number of tasks, accounts, tokens and *)
(* passwords, any lifetimes, leeway and clock bound, with and without      *)
(* faults and removals.                                                    *)
(***************************************************************************)
EXTENDS AuthSessions, TLAPS

USE DEF TokenKind

-----------------------------------------------------------------------------
(* Type correctness.                                                       *)

(* A handler that stops at a call for which it has the data stays one... *)
LEMMA AwaitType ==
    ASSUME TypeInv, NEW t \in Tasks, NEW call \in Calls, NEW fields \in Task,
           HasItsData(call, fields), Await(t, call, fields)
    PROVE  task' \in [Tasks -> Task] /\ DataInv'
<1> DEFINE since == IF call \in ReadsClock THEN clock ELSE 0
           record == [fields EXCEPT !.pc = call, !.since = since]
<1>1. since \in 0..MaxTime /\ task \in [Tasks -> Task]
  BY SessionsAssumption DEF TypeInv, TypeOK
<1>2. task' = [task EXCEPT ![t] = record]
  BY DEF Await
<1> HIDE DEF since
<1>3. record \in Task
  BY <1>1 DEF Task
<1>4. HasItsData(record.pc, record)
  BY DEF Task, HasItsData
<1> HIDE DEF record
<1> QED
  BY <1>1, <1>2, <1>3, <1>4 DEF TypeInv, DataInv

(* ... and so does one that answers, *)
LEMMA AnswerType ==
    ASSUME TypeInv, NEW t \in Tasks, NEW response \in Response,
           Answer(t, response)
    PROVE  task' \in [Tasks -> Task] /\ DataInv'
<1> DEFINE record == [task[t] EXCEPT !.pc = "reply", !.since = 0,
                                     !.response = response]
<1>1. 0 \in 0..MaxTime /\ task \in [Tasks -> Task] /\ task[t] \in Task
  BY SessionsAssumption DEF TypeInv, TypeOK
<1>2. task' = [task EXCEPT ![t] = record]
  BY <1>1 DEF Answer
<1>3. record \in Task
  BY <1>1 DEF Task
<1>4. HasItsData(record.pc, record)
  BY DEF Task, HasItsData
<1> HIDE DEF record
<1> QED
  BY <1>1, <1>2, <1>3, <1>4 DEF TypeInv, DataInv

(* so one that refuses, too, *)
LEMMA RefuseType ==
    ASSUME TypeInv, NEW t \in Tasks, NEW error_id \in ServirError \cup {"OK"},
           NEW context \in Names \cup UserIds \cup {None},
           Refuse(t, error_id, context)
    PROVE  task' \in [Tasks -> Task] /\ DataInv'
BY AnswerType DEF Refuse, Response

(* ... or is idle again. *)
LEMMA IdleType == Idle \in Task
BY SessionsAssumption DEF Idle, Task

(* The end of a handler, with an answer or without, keeps types. *)
LEMMA EndType ==
    ASSUME TypeInv, NEW t \in Tasks, task' = [task EXCEPT ![t] = Idle]
    PROVE  task' \in [Tasks -> Task] /\ DataInv'
<1>1. Idle \in Task /\ HasItsData(Idle.pc, Idle)
  BY IdleType DEF Idle, HasItsData
<1> QED
  BY <1>1 DEF TypeInv, TypeOK, DataInv

(* Tokens are claims, and the errors below are errors. *)
LEMMA IssueType ==
    ASSUME NEW user \in UserIds, NEW jti \in Jtis, NEW now \in Nat
    PROVE  /\ IssueAccessToken(user, now) \in Claims
           /\ IssueRefreshToken(user, jti, now) \in Claims
BY TtlAssumption DEF IssueAccessToken, IssueRefreshToken, Claims

(* What verify_token and the test of kind say is an error or "OK". *)
LEMMA VerdictType ==
    ASSUME NEW token, NEW kind, NEW now
    PROVE  VerifyToken(token, kind, now) \in ServirError \cup {"OK"}
BY DEF VerifyToken, ServirError, AuthTokenError

(* What the map_err of a call makes of a failure is an answer. *)
LEMMA FailureType ==
    ASSUME TypeInv, NEW t \in Tasks, NEW f \in Failure(t)
    PROVE  /\ f[1] \in ServirError
           /\ f[2] \in Names \cup UserIds \cup {None}
BY DEF Failure, TypeInv, TypeOK, DataInv, HasItsData, Task, User, Names,
       Claims, ServirError, DbError, AuthUserError, AuthTokenError

(* GET /me answers from the claims alone. *)
LEMMA MeType ==
    ASSUME TypeInv, NEW t \in Tasks, Me(t)
    PROVE  task' \in [Tasks -> Task] /\ DataInv'
<1>1. CASE Refuse(t, "MISSING_AUTHORIZATION_HEADER", None)
  BY <1>1, RefuseType DEF ServirError, AuthTokenError
<1>2. ASSUME NEW token \in held \cup {None},
             Refuse(t, VerifyToken(token, "access", clock), None)
      PROVE  task' \in [Tasks -> Task] /\ DataInv'
  BY <1>2, VerdictType, RefuseType
<1>3. ASSUME NEW token \in held \cup {None},
             VerifyToken(token, "access", clock) = "OK",
             task' = [task EXCEPT ![t] =
                         [Idle EXCEPT !.pc = "reply", !.claims = token,
                                      !.response = Success({})]]
      PROVE  task' \in [Tasks -> Task] /\ DataInv'
  <2> DEFINE record == [Idle EXCEPT !.pc = "reply", !.claims = token,
                                    !.response = Success({})]
  <2>1. token \in Claims
    BY <1>3 DEF VerifyToken, TypeInv, TypeOK
  <2>2. record \in Task /\ HasItsData(record.pc, record)
    BY <2>1, IdleType DEF Idle, Task, HasItsData, Success, Response
  <2> HIDE DEF record
  <2> QED
    BY <1>3, <2>2 DEF record, TypeInv, TypeOK, DataInv
<1> QED
  BY <1>1, <1>2, <1>3 DEF Me

(* A new server has its types. *)
LEMMA InitType == Init => TypeInv
<1> SUFFICES ASSUME Init PROVE TypeInv
  OBVIOUS
<1>1. TypeOK
  BY IdleType, SessionsAssumption DEF Init, TypeOK
<1>2. DataInv
  BY DEF Init, DataInv, HasItsData, Idle
<1> QED
  BY <1>1, <1>2 DEF TypeInv

(* The steps by which requests begin leave the tables alone. *)
LEMMA RequestType ==
    ASSUME TypeInv, NEW t \in Tasks, Request(t)
    PROVE  TypeInv'
<1> USE DEF tables, ghosts
<1>1. /\ UNCHANGED <<tables, clock, held, ghosts>>
      /\ task' \in [Tasks -> Task] /\ DataInv'
  <2>1. CASE MalformedBody(t)
    BY <2>1, RefuseType DEF MalformedBody, ServirError
  <2>2. CASE Register(t)
    <3>1. PICK name \in Names, password \in Passwords :
             \/ Refuse(t, "EMPTY_USERNAME", None)
             \/ Refuse(t, "WEAK_PASSWORD", None)
             \/ /\ name # EmptyUsername
                /\ Await(t, "create_user", [Idle EXCEPT !.username = name,
                                                        !.password = password])
      BY <2>2 DEF Register
    <3>2. CASE Refuse(t, "EMPTY_USERNAME", None) \/ Refuse(t, "WEAK_PASSWORD", None)
      BY <2>2, <3>2, RefuseType DEF Register, ServirError, AuthUserError
    <3>3. CASE /\ name # EmptyUsername
               /\ Await(t, "create_user", [Idle EXCEPT !.username = name,
                                                       !.password = password])
      <4> DEFINE fields == [Idle EXCEPT !.username = name, !.password = password]
      <4>1. fields \in Task /\ HasItsData("create_user", fields)
        BY <3>3, IdleType DEF Idle, Task, HasItsData, Names
      <4>2. "create_user" \in Calls
        BY DEF Calls, IssuingCalls
      <4> QED
        BY <2>2, <3>3, <4>1, <4>2, AwaitType DEF Register
    <3> QED
      BY <3>1, <3>2, <3>3
  <2>3. CASE Login(t)
    <3>1. PICK name \in Names, password \in Passwords :
             Await(t, "find_user_by_username", [Idle EXCEPT !.username = name,
                                                   !.password = password])
      BY <2>3 DEF Login
    <3> DEFINE fields == [Idle EXCEPT !.username = name, !.password = password]
    <3>2. fields \in Task /\ HasItsData("find_user_by_username", fields)
      BY IdleType DEF Idle, Task, HasItsData
    <3>3. "find_user_by_username" \in Calls
      BY DEF Calls, IssuingCalls
    <3> QED
      BY <2>3, <3>1, <3>2, <3>3, AwaitType DEF Login
  <2>4. ASSUME NEW call \in {"consume_refresh_token",
                             "delete_refresh_tokens_for_user"},
               WithRefreshToken(t, call)
        PROVE  task' \in [Tasks -> Task] /\ DataInv'
    <3>1. PICK token \in held \cup {None} :
             \/ Refuse(t, VerifyToken(token, "refresh", clock), None)
             \/ /\ VerifyToken(token, "refresh", clock) = "OK"
                /\ Await(t, call, [Idle EXCEPT !.claims = token])
      BY <2>4 DEF WithRefreshToken
    <3>2. CASE Refuse(t, VerifyToken(token, "refresh", clock), None)
      BY <3>2, VerdictType, RefuseType
    <3>3. CASE /\ VerifyToken(token, "refresh", clock) = "OK"
               /\ Await(t, call, [Idle EXCEPT !.claims = token])
      <4> DEFINE fields == [Idle EXCEPT !.claims = token]
      <4>1. token \in Claims
        BY <3>3 DEF VerifyToken, TypeInv, TypeOK
      <4>2. fields \in Task /\ HasItsData(call, fields)
        BY <4>1, IdleType DEF Idle, Task, HasItsData
      <4>3. call \in Calls
        BY DEF Calls, IssuingCalls
      <4> QED
        BY <3>3, <4>2, <4>3, AwaitType
    <3> QED
      BY <3>1, <3>2, <3>3
  <2>5. CASE Refresh(t)
    BY <2>4, <2>5 DEF Refresh
  <2>6. CASE Logout(t)
    BY <2>4, <2>6 DEF Logout
  <2>7. CASE Me(t)
    BY <2>7, MeType DEF Me
  <2> QED
    BY <2>1, <2>2, <2>3, <2>5, <2>6, <2>7 DEF Request
<1> QED
  BY <1>1 DEF TypeInv, TypeOK

(* What the tail of register, login and refresh comes to. *)
Stored(t, jti, iat, now, later) ==
    /\ refresh_tokens' = refresh_tokens \cup
          {[jti |-> jti, user_id |-> task[t].user.id,
            expires_at |-> ExpiresAt(later)]}
    /\ root' = [root EXCEPT ![jti] = SessionOf(t, jti)]
    /\ Answer(t, Success({IssueAccessToken(task[t].user.id, iat),
                          IssueRefreshToken(task[t].user.id, jti, now)}))

(* One of two things happens; exp is computed before expires_at. *)
LEMMA StoreOutcome ==
    ASSUME TypeInv, NEW t \in Tasks, StoreRefreshToken(t)
    PROVE  \/ /\ Refuse(t, "DB_STORE_REFRESH_TOKEN_FAILED",
                        task[t].user.username)
              /\ UNCHANGED <<refresh_tokens, root>>
           \/ \E jti \in FreeJtis, iat \in Nat, now \in Nat, later \in Nat :
                 now <= later /\ Stored(t, jti, iat, now, later)
<1>1. task[t].since \in Nat
  BY SessionsAssumption DEF TypeInv, TypeOK, Task
<1>2. clock \in Nat
  BY SessionsAssumption DEF TypeInv, TypeOK
<1>3. ASSUME NEW jti \in FreeJtis, NEW iat \in task[t].since..clock,
             NEW now \in iat..clock, NEW later \in now..clock
      PROVE  iat \in Nat /\ now \in Nat /\ later \in Nat /\ now <= later
  BY <1>1, <1>2
<1>4. \/ /\ Refuse(t, "DB_STORE_REFRESH_TOKEN_FAILED", task[t].user.username)
         /\ UNCHANGED <<refresh_tokens, root>>
      \/ \E jti \in FreeJtis, iat \in task[t].since..clock :
         \E now \in iat..clock : \E later \in now..clock :
            Stored(t, jti, iat, now, later)
  BY Zenon DEF StoreRefreshToken, IssuedJtis, Stored
<1> QED
  BY <1>3, <1>4

(* Each repository call, with the code after it, leaves typed tables. *)
LEMMA CallType ==
    ASSUME TypeInv, NEW t \in Tasks, Call(t)
    PROVE  TypeInv'
<1> USE DEF tables, ghosts
<1>0. task[t] \in Task /\ HasItsData(task[t].pc, task[t])
  BY DEF TypeInv, TypeOK, DataInv
<1>1. CASE CreateUser(t)
  <2> DEFINE name == task[t].username
  <2>0. name \in Usernames /\ task[t].password \in Passwords
    BY <1>0, <1>1 DEF CreateUser, HasItsData
  <2>1. CASE \E x \in users : x.username = name
    <3>1. task' \in [Tasks -> Task] /\ DataInv'
      BY <1>1, <2>0, <2>1, RefuseType
         DEF CreateUser, Names, UniqueViolation, ServirError, AuthUserError
    <3> QED
      BY <1>1, <2>1, <3>1 DEF CreateUser, TypeInv, TypeOK
  <2>2. CASE \A x \in users : x.username # name
    <3> DEFINE u(id) == [id |-> id, username |-> name,
                         password |-> task[t].password]
    <3>1. PICK id \in UserIds \ created :
             /\ users' = users \cup {u(id)}
             /\ created' = created \cup {id}
             /\ Await(t, "store_refresh_token", [Idle EXCEPT !.user = u(id)])
      BY <1>1, <2>2 DEF CreateUser
    <3>2. u(id) \in User
      BY <2>0 DEF User
    <3>3. /\ [Idle EXCEPT !.user = u(id)] \in Task
          /\ HasItsData("store_refresh_token", [Idle EXCEPT !.user = u(id)])
          /\ "store_refresh_token" \in Calls
      BY <3>2, IdleType DEF Idle, Task, HasItsData, Calls, IssuingCalls
    <3>4. task' \in [Tasks -> Task] /\ DataInv'
      BY <3>1, <3>3, AwaitType
    <3> QED
      BY <1>1, <3>1, <3>2, <3>4 DEF CreateUser, TypeInv, TypeOK
  <2> QED
    BY <2>1, <2>2
<1>2. CASE FindUserByUsername(t)
  <2>1. task[t].username \in Names
    BY <1>0, <1>2 DEF FindUserByUsername, HasItsData
  <2>2. CASE Refuse(t, "INVALID_CREDENTIALS", task[t].username)
    BY <1>2, <2>1, <2>2, RefuseType
       DEF FindUserByUsername, ServirError, AuthUserError, TypeInv, TypeOK
  <2>3. ASSUME NEW u \in users,
               Await(t, "store_refresh_token", [Idle EXCEPT !.user = u])
        PROVE  TypeInv'
    <3>1. /\ [Idle EXCEPT !.user = u] \in Task
          /\ HasItsData("store_refresh_token", [Idle EXCEPT !.user = u])
          /\ "store_refresh_token" \in Calls
      BY IdleType
         DEF TypeInv, TypeOK, Idle, Task, HasItsData, Calls, IssuingCalls
    <3> QED
      BY <1>2, <2>3, <3>1, AwaitType DEF FindUserByUsername, TypeInv, TypeOK
  <2> QED
    BY <1>2, <2>2, <2>3 DEF FindUserByUsername
<1>3. CASE ConsumeRefreshToken(t)
  <2>1. task[t].claims \in Claims
    BY <1>0, <1>3 DEF ConsumeRefreshToken, HasItsData
  <2>2. task' \in [Tasks -> Task] /\ DataInv'
    <3>0. ASSUME NEW now, Consumable(task[t].claims.jti, now) # {}
          PROVE  task[t].claims.jti \in Jtis
      BY <3>0 DEF Consumable, TypeInv, TypeOK, RefreshToken
    <3>1. CASE Refuse(t, "INVALID_REFRESH_TOKEN", None)
      BY <3>1, RefuseType DEF ServirError, AuthTokenError
    <3>2. CASE /\ Await(t, "find_user_by_id", task[t])
               /\ task[t].claims.jti \in Jtis
      <4>1. HasItsData("find_user_by_id", task[t])
        BY <2>1, <3>2 DEF HasItsData
      <4> QED
        BY <1>0, <3>2, <4>1, AwaitType DEF Calls, IssuingCalls
    <3> QED
      BY <1>3, <3>0, <3>1, <3>2 DEF ConsumeRefreshToken
  <2>3. refresh_tokens' \subseteq refresh_tokens
    BY <1>3 DEF ConsumeRefreshToken, AfterConsume
  <2> QED
    BY <1>3, <2>2, <2>3 DEF ConsumeRefreshToken, TypeInv, TypeOK
<1>4. CASE FindUserById(t)
  <2>1. task[t].claims \in Claims
    BY <1>0, <1>4 DEF FindUserById, HasItsData
  <2>2. CASE UserNotFound(t, task[t].claims.sub)
    BY <1>4, <2>1, <2>2, RefuseType
       DEF FindUserById, UserNotFound, ServirError, AuthTokenError, Claims,
           TypeInv, TypeOK
  <2>3. ASSUME NEW u \in users,
               Await(t, "store_refresh_token", [task[t] EXCEPT !.user = u])
        PROVE  TypeInv'
    <3>1. /\ [task[t] EXCEPT !.user = u] \in Task
          /\ HasItsData("store_refresh_token", [task[t] EXCEPT !.user = u])
          /\ "store_refresh_token" \in Calls
      BY <1>0, <1>4 DEF FindUserById, TypeInv, TypeOK, Task, HasItsData,
                        Calls, IssuingCalls
    <3> QED
      BY <1>4, <2>3, <3>1, AwaitType DEF FindUserById, TypeInv, TypeOK
  <2> QED
    BY <1>4, <2>2, <2>3 DEF FindUserById, UsersById
<1>5. CASE StoreRefreshToken(t)
  <2> DEFINE u == task[t].user
  <2>0. u.id \in UserIds /\ u.username \in Usernames
    BY <1>0, <1>5 DEF StoreRefreshToken, HasItsData, User
  <2>1. CASE /\ Refuse(t, "DB_STORE_REFRESH_TOKEN_FAILED", u.username)
             /\ UNCHANGED <<refresh_tokens, root>>
    BY <1>5, <2>0, <2>1, RefuseType
       DEF StoreRefreshToken, Names, ServirError, DbError, TypeInv, TypeOK
  <2>2. ASSUME NEW jti \in FreeJtis, NEW iat \in Nat, NEW now \in Nat,
               NEW later \in Nat, Stored(t, jti, iat, now, later)
        PROVE  TypeInv'
    <3>1. jti \in Jtis
      BY DEF FreeJtis
    <3>2. task' \in [Tasks -> Task] /\ DataInv'
      <4>1. Success({IssueAccessToken(u.id, iat),
                     IssueRefreshToken(u.id, jti, now)}) \in Response
        BY <2>0, <3>1, IssueType DEF Success, Response
      <4> QED
        BY <2>2, <4>1, AnswerType DEF Stored
    <3>3. refresh_tokens' \subseteq RefreshToken
      BY <2>0, <2>2, <3>1, TtlAssumption
         DEF Stored, ExpiresAt, RefreshToken, TypeInv, TypeOK
    <3>4. SessionOf(t, jti) \in Jtis \cup {None}
      BY <1>0, <1>5, <3>1
         DEF StoreRefreshToken, HasItsData, SessionOf, Session,
             TypeInv, TypeOK
    <3>5. root' \in [Jtis -> Jtis \cup {None}]
      BY <2>2, <3>1, <3>4 DEF Stored, TypeInv, TypeOK
    <3> QED
      BY <1>5, <3>2, <3>3, <3>5 DEF StoreRefreshToken, TypeInv, TypeOK
  <2> QED
    BY <1>5, <2>1, <2>2, StoreOutcome
<1>6. CASE DeleteRefreshTokensForUser(t)
  <2>1. task' \in [Tasks -> Task] /\ DataInv'
    BY <1>6, AnswerType DEF DeleteRefreshTokensForUser, Success, Response
  <2> QED
    BY <1>6, <2>1 DEF DeleteRefreshTokensForUser, AfterLogout, TypeInv, TypeOK
<1> QED
  BY <1>1, <1>2, <1>3, <1>4, <1>5, <1>6 DEF Call

(* The tables, handlers and tokens always have their types, and every      *)
(* handler of http.rs has what the repository call it awaits will read.    *)
THEOREM TypeCorrect == Spec => []TypeInv
<1>1. TypeInv /\ [Next]_vars => TypeInv'
  <2> SUFFICES ASSUME TypeInv, [Next]_vars PROVE TypeInv'
    OBVIOUS
  <2> USE DEF tables, ghosts
  <2>1. ASSUME NEW t \in Tasks, Fail(t) PROVE TypeInv'
    <3>1. PICK f \in Failure(t) : Refuse(t, f[1], f[2])
      BY <2>1 DEF Fail
    <3>2. task' \in [Tasks -> Task] /\ DataInv'
      BY <3>1, FailureType, RefuseType
    <3> QED
      BY <2>1, <3>2 DEF Fail, TypeInv, TypeOK
  <2>2. ASSUME NEW t \in Tasks, Reply(t) PROVE TypeInv'
    <3>1. task' \in [Tasks -> Task] /\ DataInv'
      BY <2>2, EndType DEF Reply
    <3>2. task[t].response.tokens \subseteq Claims
      BY <2>2 DEF Reply, TypeInv, TypeOK, DataInv, HasItsData,
                  Task, Response
    <3> QED
      BY <2>2, <3>1, <3>2 DEF Reply, TypeInv, TypeOK
  <2>3. ASSUME NEW t \in Tasks, Drop(t) PROVE TypeInv'
    BY <2>3, EndType DEF Drop, TypeInv, TypeOK
  <2>4. CASE RemoveUser
    BY <2>4 DEF RemoveUser, TypeInv, TypeOK, DataInv
  <2>5. CASE Tick
    BY <2>5, SessionsAssumption DEF Tick, TypeInv, TypeOK, DataInv
  <2>6. CASE UNCHANGED vars
    BY <2>6 DEF vars, TypeInv, TypeOK, DataInv
  <2> QED
    BY <2>1, <2>2, <2>3, <2>4, <2>5, <2>6, RequestType, CallType DEF Next
<1> QED
  BY <1>1, InitType, PTL DEF Spec

-----------------------------------------------------------------------------
(* Rotation.                                                               *)

(* A step that neither stores a token nor takes a new one into exchange.   *)
LEMMA QuietStep ==
    ASSUME RotationInv, refresh_tokens' \subseteq refresh_tokens, root' = root,
           \A o \in Tasks : InFlight(o)' =>
              InFlight(o) /\ task'[o].claims = task[o].claims
    PROVE  RotationInv'
BY DEF RotationInv, OneTokenPerSession, Session

(* A step of t alone, after which t is not exchanging a token. *)
Settles(t) ==
    /\ \A o \in Tasks \ {t} : task'[o] = task[o]
    /\ \/ task'[t].pc \notin {"find_user_by_id", "store_refresh_token"}
       \/ task'[t].claims = None

(* Stopping at a call changes its handler alone, which keeps the claims. *)
LEMMA AwaitFlight ==
    ASSUME TypeInv, NEW t \in Tasks, NEW call, NEW fields \in Task,
           Await(t, call, fields)
    PROVE  /\ \A o \in Tasks \ {t} : task'[o] = task[o]
           /\ task'[t].pc = call /\ task'[t].claims = fields.claims
<1> DEFINE since == IF call \in ReadsClock THEN clock ELSE 0
<1>1. task' = [task EXCEPT ![t] = [fields EXCEPT !.pc = call, !.since = since]]
  BY DEF Await
<1> HIDE DEF since
<1> QED
  BY <1>1 DEF TypeInv, TypeOK, Task

(* An answer, ... *)
LEMMA AnswerSettles ==
    ASSUME TypeInv, NEW t \in Tasks, NEW response, Answer(t, response)
    PROVE  Settles(t)
BY DEF Answer, Settles, TypeInv, TypeOK, Task

(* ... a refusal ... *)
LEMMA RefuseSettles ==
    ASSUME TypeInv, NEW t \in Tasks, NEW error_id, NEW context,
           Refuse(t, error_id, context)
    PROVE  Settles(t)
BY AnswerSettles DEF Refuse

(* ... and an end leave the handler with no token in exchange, *)
LEMMA EndSettles ==
    ASSUME TypeInv, NEW t \in Tasks, task' = [task EXCEPT ![t] = Idle]
    PROVE  Settles(t)
BY DEF Settles, Idle, TypeInv, TypeOK

(* so that the session it had, if any, is free of it. *)
LEMMA QuietTask ==
    ASSUME RotationInv, NEW t \in Tasks, Settles(t),
           refresh_tokens' \subseteq refresh_tokens, root' = root
    PROVE  RotationInv'
BY QuietStep DEF InFlight, Settles

(* A request that arrives takes no token into exchange yet. *)
LEMMA RequestSettles ==
    ASSUME TypeInv, NEW t \in Tasks, Request(t)
    PROVE  Settles(t)
<1>2. CASE MalformedBody(t)
  BY <1>2, RefuseSettles DEF MalformedBody
<1>3. CASE Register(t)
  <2>1. ASSUME NEW name, NEW password,
               Await(t, "create_user", [Idle EXCEPT !.username = name,
                                                    !.password = password])
        PROVE  Settles(t)
    BY <2>1 DEF Await, Settles, TypeInv, TypeOK, Idle
  <2> QED
    BY <1>3, <2>1, RefuseSettles DEF Register
<1>4. CASE Login(t)
  BY <1>4 DEF Login, Await, Settles, TypeInv, TypeOK, Idle
<1>5. ASSUME NEW call \in {"consume_refresh_token",
                           "delete_refresh_tokens_for_user"},
             WithRefreshToken(t, call)
      PROVE  Settles(t)
  <2>1. ASSUME NEW token, Await(t, call, [Idle EXCEPT !.claims = token])
        PROVE  Settles(t)
    BY <2>1 DEF Await, Settles, TypeInv, TypeOK, Idle
  <2> QED
    BY <1>5, <2>1, RefuseSettles DEF WithRefreshToken
<1>6. CASE Refresh(t) \/ Logout(t)
  BY <1>5, <1>6 DEF Refresh, Logout
<1>7. CASE Me(t)
  <2>1. ASSUME NEW token,
               task' = [task EXCEPT ![t] =
                           [Idle EXCEPT !.pc = "reply", !.claims = token,
                                        !.response = Success({})]]
        PROVE  Settles(t)
    BY <2>1 DEF Settles, TypeInv, TypeOK, Idle
  <2> QED
    BY <1>7, <2>1, RefuseSettles DEF Me
<1> QED
  BY <1>2, <1>3, <1>4, <1>6, <1>7 DEF Request

(* The token of a row is spent: its session passes from the row to t. *)
LEMMA ConsumeRotation ==
    ASSUME TypeInv, RotationInv, NEW t \in Tasks, ConsumeRefreshToken(t)
    PROVE  RotationInv'
<1> USE DEF ghosts
<1>1. PICK now \in task[t].since..clock :
         /\ refresh_tokens' = AfterConsume(task[t].claims.jti, now)
         /\ \/ Refuse(t, "INVALID_REFRESH_TOKEN", None)
            \/ /\ Consumable(task[t].claims.jti, now) # {}
               /\ Await(t, "find_user_by_id", task[t])
  BY DEF ConsumeRefreshToken
<1>2. root' = root /\ refresh_tokens' \subseteq refresh_tokens
  BY <1>1 DEF ConsumeRefreshToken, AfterConsume
<1>3. CASE Refuse(t, "INVALID_REFRESH_TOKEN", None)
  BY <1>2, <1>3, RefuseSettles, QuietTask
<1>4. CASE /\ Consumable(task[t].claims.jti, now) # {}
           /\ Await(t, "find_user_by_id", task[t])
  <2>1. /\ \A o \in Tasks \ {t} : task'[o] = task[o]
        /\ task'[t].claims = task[t].claims
    BY <1>4, AwaitFlight DEF TypeInv, TypeOK
  <2>2. PICK r \in Consumable(task[t].claims.jti, now) : TRUE
    BY <1>4
  <2>3. r \in refresh_tokens /\ r \notin refresh_tokens'
    BY <1>1, <2>2 DEF Consumable, AfterConsume
  <2>4. Session(t)' = root[r.jti] /\ root[r.jti] # None
    BY <1>2, <2>1, <2>2, <2>3 DEF Session, Consumable, RotationInv
  <2>5. \A q \in refresh_tokens' : root'[q.jti] # Session(t)'
    BY <1>2, <2>3, <2>4 DEF RotationInv, OneTokenPerSession
  <2>6. ASSUME NEW o \in Tasks \ {t}, InFlight(o)'
        PROVE  InFlight(o) /\ Session(o)' = Session(o)
    BY <1>2, <2>1, <2>6 DEF InFlight, Session
  <2>7. ASSUME NEW o \in Tasks \ {t}, InFlight(o)'
        PROVE  Session(o)' # Session(t)'
    BY <2>3, <2>4, <2>6, <2>7 DEF RotationInv, OneTokenPerSession
  <2> QED
    BY <1>2, <2>4, <2>5, <2>6, <2>7 DEF RotationInv, OneTokenPerSession
<1> QED
  BY <1>1, <1>3, <1>4

(* The session of t passes back to a row, or a new session gets its first. *)
LEMMA StoreRotation ==
    ASSUME TypeInv, RotationInv, NEW t \in Tasks, StoreRefreshToken(t)
    PROVE  RotationInv'
<1>1. CASE /\ Refuse(t, "DB_STORE_REFRESH_TOKEN_FAILED", task[t].user.username)
           /\ UNCHANGED <<refresh_tokens, root>>
  BY <1>1, RefuseSettles, QuietTask
<1>2. ASSUME NEW jti \in FreeJtis, NEW iat, NEW now, NEW later,
             Stored(t, jti, iat, now, later)
      PROVE  RotationInv'
  <2> DEFINE row == [jti |-> jti, user_id |-> task[t].user.id,
                     expires_at |-> ExpiresAt(later)]
             session == SessionOf(t, jti)
  <2>1. jti \in Jtis /\ root[jti] = None
    BY DEF FreeJtis
  <2>2. /\ refresh_tokens' = refresh_tokens \cup {row}
        /\ root' = [root EXCEPT ![jti] = session]
        /\ root \in [Jtis -> Jtis \cup {None}]
    BY <1>2 DEF Stored, TypeInv, TypeOK
  <2>3. Settles(t)
    BY <1>2, AnswerSettles DEF Stored
  <2>4. ASSUME NEW q \in refresh_tokens
        PROVE  /\ q.jti # jti /\ root'[q.jti] = root[q.jti]
               /\ root[q.jti] # jti
    BY <2>1, <2>2 DEF RotationInv, TypeInv, TypeOK, RefreshToken
  <2>5. ASSUME NEW o \in Tasks, InFlight(o)
        PROVE  /\ task[o].claims.jti \in Jtis \ {jti}
               /\ Session(o) \in Jtis \ {jti}
               /\ root[Session(o)] = Session(o)
    BY <2>1, <2>2, <2>5 DEF RotationInv, Session, InFlight, TypeInv, DataInv,
                           HasItsData
  <2>6. ASSUME NEW o \in Tasks, InFlight(o)'
        PROVE  o # t /\ InFlight(o) /\ Session(o)' = Session(o)
    <3>1. o # t /\ InFlight(o) /\ task'[o] = task[o]
      BY <2>3, <2>6 DEF InFlight, Settles
    <3> QED
      BY <2>2, <2>5, <3>1 DEF Session
  <2>7. /\ session \in Jtis
        /\ session # jti => root[session] = session
        /\ \A q \in refresh_tokens : root[q.jti] # session
        /\ \A o \in Tasks \ {t} : InFlight(o) => Session(o) # session
    <3>1. CASE task[t].claims = None
      BY <2>1, <2>4, <2>5, <3>1 DEF SessionOf
    <3>2. CASE task[t].claims # None
      <4>1. InFlight(t) /\ session = Session(t)
        BY <3>2 DEF SessionOf, InFlight, StoreRefreshToken
      <4> QED
        BY <2>5, <4>1 DEF RotationInv, OneTokenPerSession
    <3> QED
      BY <3>1, <3>2
  <2>8. session # None
    BY <2>7, NoneAssumption
  <2> HIDE DEF session
  <2>9. root'[jti] = session /\ row.jti = jti
    BY <2>1, <2>2
  <2>10. OneTokenPerSession'
    BY <2>2, <2>4, <2>6, <2>7, <2>9 DEF RotationInv, OneTokenPerSession
  <2>11. \A q \in refresh_tokens' : root'[q.jti] # None
    BY <2>2, <2>4, <2>8, <2>9 DEF RotationInv
  <2>12. \A o \in Tasks : InFlight(o)' => Session(o)' # None
    BY <2>6 DEF RotationInv
  <2>13. ASSUME NEW j \in Jtis, root'[j] # None
         PROVE  root'[root'[j]] = root'[j]
    <3>1. CASE j = jti
      BY <2>2, <2>7, <2>9, <3>1
    <3>2. CASE j # jti
      BY <2>1, <2>2, <2>13, <3>2 DEF RotationInv
    <3> QED
      BY <3>1, <3>2
  <2> QED
    BY <2>10, <2>11, <2>12, <2>13 DEF RotationInv
<1> QED
  BY <1>1, <1>2, StoreOutcome

(* Every repository call, with the code after it, keeps RotationInv. *)
LEMMA CallRotation ==
    ASSUME TypeInv, RotationInv, NEW t \in Tasks, Call(t)
    PROVE  RotationInv'
<1> USE DEF tables, ghosts
<1>1. CASE CreateUser(t)
  <2>1. ASSUME NEW u,
               Await(t, "store_refresh_token", [Idle EXCEPT !.user = u])
        PROVE  Settles(t)
    BY <2>1 DEF Await, Settles, TypeInv, TypeOK, Idle
  <2>2. Settles(t)
    BY <1>1, <2>1, RefuseSettles DEF CreateUser
  <2> QED
    BY <1>1, <2>2, QuietTask DEF CreateUser
<1>2. CASE FindUserByUsername(t)
  <2>1. ASSUME NEW u,
               Await(t, "store_refresh_token", [Idle EXCEPT !.user = u])
        PROVE  Settles(t)
    BY <2>1 DEF Await, Settles, TypeInv, TypeOK, Idle
  <2>2. Settles(t)
    BY <1>2, <2>1, RefuseSettles DEF FindUserByUsername
  <2> QED
    BY <1>2, <2>2, QuietTask DEF FindUserByUsername
<1>3. CASE FindUserById(t)
  <2>1. CASE UserNotFound(t, task[t].claims.sub)
    BY <1>3, <2>1, RefuseSettles, QuietTask DEF FindUserById, UserNotFound
  <2>2. ASSUME NEW u \in users,
               Await(t, "store_refresh_token", [task[t] EXCEPT !.user = u])
        PROVE  RotationInv'
    <3>1. [task[t] EXCEPT !.user = u] \in Task
      BY DEF TypeInv, TypeOK, Task
    <3>2. /\ \A o \in Tasks \ {t} : task'[o] = task[o]
          /\ task'[t].claims = task[t].claims
      BY <2>2, <3>1, AwaitFlight DEF TypeInv, TypeOK, Task
    <3>3. InFlight(t)' => InFlight(t)
      BY <1>3, <3>2 DEF FindUserById, InFlight
    <3> QED
      BY <1>3, <3>2, <3>3, QuietStep DEF FindUserById, InFlight
  <2> QED
    BY <1>3, <2>1, <2>2 DEF FindUserById, UsersById
<1>4. CASE DeleteRefreshTokensForUser(t)
  BY <1>4, AnswerSettles, QuietTask
     DEF DeleteRefreshTokensForUser, AfterLogout
<1> QED
  BY <1>1, <1>2, <1>3, <1>4, ConsumeRotation, StoreRotation DEF Call

(* Rotation keeps RotationInv, hence never forks a session. *)
THEOREM RotationInvariant == Spec => []RotationInv
<1>1. Init => RotationInv
  BY DEF Init, RotationInv, OneTokenPerSession, InFlight, Idle
<1>2. TypeInv /\ RotationInv /\ [Next]_vars => RotationInv'
  <2> SUFFICES ASSUME TypeInv, RotationInv, [Next]_vars PROVE RotationInv'
    OBVIOUS
  <2> USE DEF tables, ghosts
  <2>1. ASSUME NEW t \in Tasks, Request(t) PROVE RotationInv'
    <3>1. UNCHANGED <<refresh_tokens, root>>
      BY <2>1 DEF Request, MalformedBody, Register, Login, Refresh, Logout, Me
    <3> QED
      BY <2>1, <3>1, RequestSettles, QuietTask
  <2>2. ASSUME NEW t \in Tasks, Fail(t) PROVE RotationInv'
    BY <2>2, RefuseSettles, QuietTask DEF Fail
  <2>3. ASSUME NEW t \in Tasks, Reply(t) \/ Drop(t) PROVE RotationInv'
    BY <2>3, EndSettles, QuietTask DEF Reply, Drop
  <2>4. CASE RemoveUser
    BY <2>4, QuietStep DEF RemoveUser, InFlight
  <2>5. CASE Tick \/ UNCHANGED vars
    BY <2>5, QuietStep DEF Tick, vars, InFlight
  <2> QED
    BY <2>1, <2>2, <2>3, <2>4, <2>5, CallRotation DEF Next
<1> QED
  BY <1>1, <1>2, TypeCorrect, PTL DEF Spec

(* Two refreshes of one token never both succeed: at any time a session    *)
(* has one refresh token on file or in exchange, at most.                  *)
THEOREM OneToken == Spec => []OneTokenPerSession
<1>1. RotationInv => OneTokenPerSession
  BY DEF RotationInv
<1> QED
  BY <1>1, RotationInvariant, PTL

(* A refresh token that was issued and has been consumed or revoked. *)
Spent(j) == root[j] # None /\ \A r \in refresh_tokens : r.jti # j

(* No statement puts it back on file: only store_refresh_token inserts     *)
(* rows, and under a jti that nothing was ever issued with.                *)
LEMMA SpentStep ==
    ASSUME TypeInv, [Next]_vars, NEW j \in Jtis, Spent(j)
    PROVE  Spent(j)'
<1>1. CASE refresh_tokens' \subseteq refresh_tokens /\ root' = root
  BY <1>1 DEF Spent
<1>2. ASSUME NEW t \in Tasks, StoreRefreshToken(t) PROVE Spent(j)'
  <2>1. ASSUME NEW jti \in FreeJtis, NEW iat \in Nat, NEW now \in Nat,
               NEW later \in Nat, Stored(t, jti, iat, now, later)
        PROVE  Spent(j)'
    <3>1. jti # j
      BY DEF FreeJtis, Spent
    <3>2. root'[j] = root[j]
      BY <2>1, <3>1 DEF Stored, TypeInv, TypeOK
    <3>3. \A r \in refresh_tokens' : r \in refresh_tokens \/ r.jti = jti
      BY <2>1 DEF Stored
    <3> QED
      BY <3>1, <3>2, <3>3 DEF Spent
  <2>2. CASE UNCHANGED <<refresh_tokens, root>>
    BY <1>1, <2>2
  <2> QED
    BY <1>2, <2>1, <2>2, StoreOutcome
<1>3. ASSUME NEW t \in Tasks,
             \/ Request(t) \/ Fail(t) \/ Reply(t) \/ Drop(t)
             \/ CreateUser(t) \/ FindUserByUsername(t) \/ FindUserById(t)
      PROVE  UNCHANGED <<refresh_tokens, root>>
  BY <1>3 DEF Request, MalformedBody, Register, Login, Refresh, Logout, Me,
              Fail, Reply, Drop, CreateUser, FindUserByUsername, FindUserById,
              tables, ghosts
<1>4. ASSUME NEW t \in Tasks,
             ConsumeRefreshToken(t) \/ DeleteRefreshTokensForUser(t)
      PROVE  refresh_tokens' \subseteq refresh_tokens /\ root' = root
  BY <1>4 DEF ConsumeRefreshToken, AfterConsume, DeleteRefreshTokensForUser,
              AfterLogout, ghosts
<1>5. CASE RemoveUser \/ Tick \/ UNCHANGED vars
  BY <1>1, <1>5 DEF RemoveUser, Tick, vars, tables, ghosts
<1> QED
  BY <1>1, <1>2, <1>3, <1>4, <1>5 DEF Next, Call

(* A refresh token that has been exchanged or revoked is good for nothing  *)
(* for ever after: consume_refresh_token finds no row for it, however many *)
(* clients, retries and crashes follow.                                    *)
THEOREM SpentForGood ==
    ASSUME NEW j \in Jtis PROVE Spec => [](Spent(j) => []Spent(j))
<1>1. TypeInv /\ [Next]_vars /\ Spent(j) => Spent(j)'
  BY SpentStep
<1> QED
  BY <1>1, TypeCorrect, PTL DEF Spec

-----------------------------------------------------------------------------
(* The foreign key.                                                        *)

(* Only create_user adds an account and only a store adds a token, after   *)
(* the check of its foreign key; no other call touches users.              *)
LEMMA CallReferences ==
    ASSUME ReferentialIntegrity, NEW t \in Tasks, Call(t)
    PROVE  ReferentialIntegrity'
<1>1. CASE CreateUser(t)
  BY <1>1 DEF CreateUser, ReferentialIntegrity
<1>2. CASE FindUserByUsername(t) \/ FindUserById(t)
  BY <1>2 DEF FindUserByUsername, FindUserById, ReferentialIntegrity, tables
<1>3. CASE ConsumeRefreshToken(t)
  BY <1>3 DEF ConsumeRefreshToken, AfterConsume, ReferentialIntegrity
<1>4. CASE StoreRefreshToken(t)
  <2>1. users' = users
    BY <1>4 DEF StoreRefreshToken
  <2>2. CASE refresh_tokens' = refresh_tokens
    BY <2>1, <2>2 DEF ReferentialIntegrity
  <2>3. ASSUME NEW jti, NEW later, ForeignKeyHolds(task[t].user.id),
               refresh_tokens' = refresh_tokens \cup
                  {[jti |-> jti, user_id |-> task[t].user.id,
                    expires_at |-> ExpiresAt(later)]}
        PROVE  ReferentialIntegrity'
    BY <2>1, <2>3 DEF ReferentialIntegrity, ForeignKeyHolds, UsersById
  <2> QED
    BY <1>4, <2>2, <2>3 DEF StoreRefreshToken
<1>5. CASE DeleteRefreshTokensForUser(t)
  BY <1>5 DEF DeleteRefreshTokensForUser, AfterLogout, ReferentialIntegrity
<1> QED
  BY <1>1, <1>2, <1>3, <1>4, <1>5 DEF Call

(* A token on file always belongs to an account that exists, however the   *)
(* deletion of accounts falls between the calls of the handlers.           *)
THEOREM References == Spec => []ReferentialIntegrity
<1>1. Init => ReferentialIntegrity
  BY DEF Init, ReferentialIntegrity
<1>2. ReferentialIntegrity /\ [Next]_vars => ReferentialIntegrity'
  <2> SUFFICES ASSUME ReferentialIntegrity, [Next]_vars
               PROVE  ReferentialIntegrity'
    OBVIOUS
  <2>1. ASSUME NEW t \in Tasks,
               Request(t) \/ Fail(t) \/ Reply(t) \/ Drop(t)
        PROVE  UNCHANGED tables
    BY <2>1 DEF Request, MalformedBody, Register, Login, Refresh, Logout, Me,
                Fail, Reply, Drop
  <2>2. CASE RemoveUser
    BY <2>2 DEF RemoveUser, ReferentialIntegrity
  <2>3. CASE Tick \/ UNCHANGED vars
    BY <2>3 DEF Tick, vars, tables, ReferentialIntegrity
  <2>4. CASE UNCHANGED tables
    BY <2>4 DEF tables, ReferentialIntegrity
  <2> QED
    BY <2>1, <2>2, <2>3, <2>4, CallReferences DEF Next
<1> QED
  BY <1>1, <1>2, PTL DEF Spec

-----------------------------------------------------------------------------
(* The leeway.                                                             *)

(* A DELETE that executes late still compares with the time its call read  *)
(* the clock, or a later one: consume_refresh_token never takes a token    *)
(* whose expires_at had passed when the call began.                        *)
THEOREM LeewayEndsAtTheTable == Spec => ExpiredNeverConsumed
<1> DEFINE NotExpired ==
              \A t \in Tasks : \A r \in refresh_tokens \ refresh_tokens' :
                 task[t].pc = "consume_refresh_token" /\ InFlight(t)'
                     => task[t].since < r.expires_at
<1>1. ASSUME TypeInv, [Next]_vars PROVE NotExpired
  <2> SUFFICES ASSUME NEW t \in Tasks, NEW r \in refresh_tokens \ refresh_tokens',
                      task[t].pc = "consume_refresh_token", InFlight(t)'
               PROVE  task[t].since < r.expires_at
    OBVIOUS
  <2>1. ConsumeRefreshToken(t)
    <3>1. task'[t] # task[t] /\ refresh_tokens' # refresh_tokens
      BY DEF InFlight
    <3>2. PICK o \in Tasks : Call(o)
      <4>1. ASSUME NEW o \in Tasks, Request(o) \/ Fail(o) \/ Reply(o) \/ Drop(o)
            PROVE  refresh_tokens' = refresh_tokens
        BY <4>1 DEF Request, MalformedBody, Register, Login, Refresh, Logout,
                    Me, Fail, Reply, Drop, tables
      <4>2. RemoveUser \/ Tick \/ UNCHANGED vars => task' = task
        BY DEF RemoveUser, Tick, vars
      <4> QED
        BY <1>1, <3>1, <4>1, <4>2 DEF Next
    <3>3. CASE ConsumeRefreshToken(o)
      <4>1. o # t => task'[t] = task[t]
        BY <1>1, <3>3 DEF ConsumeRefreshToken, Refuse, Answer, Await,
                          TypeInv, TypeOK
      <4> QED
        BY <3>1, <3>3, <4>1
    <3>4. CASE StoreRefreshToken(o)
      BY <3>4 DEF StoreRefreshToken
    <3>5. CASE DeleteRefreshTokensForUser(o)
      BY <1>1, <3>1, <3>5 DEF DeleteRefreshTokensForUser, Answer, InFlight,
                              TypeInv, TypeOK, Task
    <3> QED
      BY <3>1, <3>2, <3>3, <3>4, <3>5 DEF Call, CreateUser, FindUserByUsername,
                                          FindUserById, tables
  <2>2. PICK now \in task[t].since..clock :
           refresh_tokens' = AfterConsume(task[t].claims.jti, now)
    BY <2>1 DEF ConsumeRefreshToken
  <2>3. r.expires_at > now /\ r \in RefreshToken
    BY <1>1, <2>2 DEF AfterConsume, Consumable, TypeInv, TypeOK
  <2>4. task[t].since \in Int /\ clock \in Int /\ r.expires_at \in Int
    BY <1>1, <2>3, SessionsAssumption DEF TypeInv, TypeOK, Task, RefreshToken
  <2> QED
    BY <2>2, <2>3, <2>4
<1> QED
  BY <1>1, TypeCorrect, PTL DEF Spec, ExpiredNeverConsumed

-----------------------------------------------------------------------------
(* Internal errors.                                                        *)

(* An id is given to one account only, ever; whoever is about to store a   *)
(* token for an account has found or created it, and whoever is refused    *)
(* for the lack of it will never see it again.                             *)
Accountable(r) ==
    /\ r.pc = "store_refresh_token" => r.user.id \in created
    /\ r.pc = "reply" /\ IsServerError(r.response.error_id) =>
          \/ Faults
          \/ /\ r.response.error_id = "DB_STORE_REFRESH_TOKEN_FAILED"
             /\ r.user.id \in created
             /\ \A u \in users : u.id # r.user.id

AccountsInv ==
    /\ \A u \in users : u.id \in created
    /\ \A t \in Tasks : Accountable(task[t])

(* What a handler answers while nothing fails under it is no error of the  *)
(* server's.                                                               *)
LEMMA ClientErrors ==
    \A e \in {"OK", "BAD_REQUEST", "EMPTY_USERNAME", "WEAK_PASSWORD",
              "ALREADY_EXISTS", "INVALID_CREDENTIALS", "TOKEN_INVALID",
              "TOKEN_EXPIRED", "WRONG_TOKEN_KIND", "INVALID_REFRESH_TOKEN",
              "USER_NOT_FOUND", "MISSING_AUTHORIZATION_HEADER"} :
        ~ IsServerError(e)
<1>1. \A e \in {"EMPTY_USERNAME", "WEAK_PASSWORD", "ALREADY_EXISTS",
                "INVALID_CREDENTIALS"} :
         e \notin DbError /\ e \in AuthUserError /\ ~ (AuthUserStatus(e) >= 500)
  BY DEF DbError, AuthUserError, AuthUserStatus
<1>2. \A e \in {"TOKEN_INVALID", "TOKEN_EXPIRED", "WRONG_TOKEN_KIND",
                "INVALID_REFRESH_TOKEN", "USER_NOT_FOUND",
                "MISSING_AUTHORIZATION_HEADER"} :
         /\ e \notin DbError /\ e \notin AuthUserError /\ e \in AuthTokenError
         /\ ~ (AuthTokenStatus(e) >= 500)
  BY DEF DbError, AuthUserError, AuthTokenError, AuthTokenStatus
<1>3. "OK" \notin ServirError
  BY DEF ServirError, DbError, AuthUserError, AuthTokenError
<1>4. /\ "BAD_REQUEST" \notin DbError /\ "BAD_REQUEST" \notin AuthUserError
      /\ "BAD_REQUEST" \notin AuthTokenError
  BY DEF DbError, AuthUserError, AuthTokenError
<1>5. ~ (StatusCode("BAD_REQUEST") >= 500)
  BY <1>4 DEF StatusCode
<1>6. \A e \in AuthUserError \ DbError : StatusCode(e) = AuthUserStatus(e)
  BY DEF StatusCode, DbError, AuthUserError, AuthTokenError
<1>7. \A e \in AuthTokenError \ (DbError \cup AuthUserError) :
         StatusCode(e) = AuthTokenStatus(e)
  BY DEF StatusCode, DbError, AuthUserError, AuthTokenError
<1> QED
  BY <1>1, <1>2, <1>3, <1>5, <1>6, <1>7 DEF IsServerError

(* A step of one handler at most, by which accounts are given new ids.     *)
LEMMA AccountsStep ==
    ASSUME AccountsInv, NEW t \in Tasks,
           \A o \in Tasks \ {t} : task'[o] = task[o],
           created \subseteq created',
           \A u \in users' \ users : u.id \in created' \ created,
           Accountable(task[t])'
    PROVE  AccountsInv'
<1>1. \A o \in Tasks \ {t} : Accountable(task[o])'
  BY DEF AccountsInv, Accountable
<1>2. \A u \in users' : u.id \in created'
  BY DEF AccountsInv
<1> QED
  BY <1>1, <1>2 DEF AccountsInv

(* A handler that is refused, but not with an internal error, ...          *)
LEMMA RefuseAccounts ==
    ASSUME TypeInv, AccountsInv, NEW t \in Tasks, NEW error_id, NEW context,
           Refuse(t, error_id, context), ~ IsServerError(error_id) \/ Faults,
           UNCHANGED <<users, created>>
    PROVE  AccountsInv'
<1>1. /\ task'[t].pc = "reply" /\ task'[t].response.error_id = error_id
      /\ \A o \in Tasks \ {t} : task'[o] = task[o]
  BY DEF Refuse, Answer, TypeInv, TypeOK, Task
<1>2. Accountable(task[t])'
  BY <1>1 DEF Accountable
<1> QED
  BY <1>1, <1>2, AccountsStep

(* or that stops at a call other than store_refresh_token, ...             *)
LEMMA AwaitAccounts ==
    ASSUME TypeInv, AccountsInv, NEW t \in Tasks,
           NEW call \in Calls \ {"store_refresh_token"}, NEW fields \in Task,
           Await(t, call, fields), UNCHANGED <<users, created>>
    PROVE  AccountsInv'
<1>1. /\ \A o \in Tasks \ {t} : task'[o] = task[o]
      /\ task'[t].pc = call
  BY AwaitFlight
<1>2. Accountable(task[t])'
  BY <1>1 DEF Accountable, Calls, IssuingCalls
<1> QED
  BY <1>1, <1>2, AccountsStep

(* or has answered.                                                        *)
LEMMA EndAccounts ==
    ASSUME TypeInv, AccountsInv, NEW t \in Tasks,
           task' = [task EXCEPT ![t] = Idle], UNCHANGED <<users, created>>
    PROVE  AccountsInv'
<1>1. task'[t] = Idle /\ \A o \in Tasks \ {t} : task'[o] = task[o]
  BY DEF TypeInv, TypeOK
<1>2. Accountable(task[t])'
  BY <1>1 DEF Accountable, Idle
<1> QED
  BY <1>1, <1>2, AccountsStep

(* So does a success, *)
LEMMA SuccessAccounts ==
    ASSUME TypeInv, AccountsInv, NEW t \in Tasks, NEW tokens,
           Answer(t, Success(tokens)), UNCHANGED <<users, created>>
    PROVE  AccountsInv'
<1>1. /\ task'[t].pc = "reply" /\ task'[t].response.error_id = "OK"
      /\ \A o \in Tasks \ {t} : task'[o] = task[o]
  BY DEF Success, Answer, TypeInv, TypeOK, Task
<1>2. Accountable(task[t])'
  BY <1>1, ClientErrors DEF Accountable
<1> QED
  BY <1>1, <1>2, AccountsStep

(* and a request that arrives.                                             *)
LEMMA RequestAccounts ==
    ASSUME TypeInv, AccountsInv, NEW t \in Tasks, Request(t)
    PROVE  AccountsInv'
<1> USE DEF tables, ghosts
<1>0. /\ UNCHANGED <<users, created>> /\ Idle \in Task
      /\ {"create_user", "find_user_by_username", "consume_refresh_token",
           "delete_refresh_tokens_for_user"}
             \subseteq Calls \ {"store_refresh_token"}
  BY IdleType DEF Request, MalformedBody, Register, Login, Refresh, Logout, Me,
                  Calls, IssuingCalls
<1>1. CASE MalformedBody(t)
  BY <1>0, <1>1, ClientErrors, RefuseAccounts DEF MalformedBody
<1>2. CASE Register(t)
  <2>1. CASE Refuse(t, "EMPTY_USERNAME", None) \/ Refuse(t, "WEAK_PASSWORD", None)
    BY <1>0, <2>1, ClientErrors, RefuseAccounts
  <2>2. ASSUME NEW name \in Names, NEW password \in Passwords,
               Await(t, "create_user", [Idle EXCEPT !.username = name,
                                                    !.password = password])
        PROVE  AccountsInv'
    <3> DEFINE fields == [Idle EXCEPT !.username = name, !.password = password]
    <3>1. fields \in Task
      BY <1>0 DEF Idle, Task
    <3> QED
      BY <1>0, <2>2, <3>1, AwaitAccounts
  <2> QED
    BY <1>2, <2>1, <2>2 DEF Register
<1>3. CASE Login(t)
  <2>1. PICK name \in Names, password \in Passwords :
           Await(t, "find_user_by_username", [Idle EXCEPT !.username = name,
                                                 !.password = password])
    BY <1>3 DEF Login
  <2> DEFINE fields == [Idle EXCEPT !.username = name, !.password = password]
  <2>2. fields \in Task
    BY <1>0 DEF Idle, Task
  <2> QED
    BY <1>0, <2>1, <2>2, AwaitAccounts
<1>4. ASSUME NEW token, NEW kind, NEW error_id,
             error_id = VerifyToken(token, kind, clock),
             Refuse(t, error_id, None)
      PROVE  AccountsInv'
  BY <1>0, <1>4, ClientErrors, RefuseAccounts DEF VerifyToken
<1>5. ASSUME NEW call \in {"consume_refresh_token",
                           "delete_refresh_tokens_for_user"},
             WithRefreshToken(t, call)
      PROVE  AccountsInv'
  <2>1. PICK token \in held \cup {None} :
           \/ Refuse(t, VerifyToken(token, "refresh", clock), None)
           \/ Await(t, call, [Idle EXCEPT !.claims = token])
    BY <1>5 DEF WithRefreshToken
  <2>2. [Idle EXCEPT !.claims = token] \in Task
    BY <1>0 DEF Idle, Task, TypeInv, TypeOK
  <2> QED
    BY <1>0, <1>4, <2>1, <2>2, AwaitAccounts
<1>6. CASE Refresh(t) \/ Logout(t)
  BY <1>5, <1>6 DEF Refresh, Logout
<1>7. CASE Me(t)
  <2>1. CASE Refuse(t, "MISSING_AUTHORIZATION_HEADER", None)
    BY <1>0, <2>1, ClientErrors, RefuseAccounts
  <2>2. ASSUME NEW token,
               task' = [task EXCEPT ![t] =
                           [Idle EXCEPT !.pc = "reply", !.claims = token,
                                        !.response = Success({})]]
        PROVE  AccountsInv'
    <3>1. /\ task'[t].pc = "reply" /\ task'[t].response.error_id = "OK"
          /\ \A o \in Tasks \ {t} : task'[o] = task[o]
      BY <2>2 DEF Idle, Success, TypeInv, TypeOK
    <3>2. Accountable(task[t])'
      BY <3>1, ClientErrors DEF Accountable
    <3> QED
      BY <1>0, <3>1, <3>2, AccountsStep
  <2> QED
    BY <1>4, <1>7, <2>1, <2>2 DEF Me
<1> QED
  BY <1>1, <1>2, <1>3, <1>6, <1>7 DEF Request

(* Every repository call, with the code after it, keeps AccountsInv.       *)
LEMMA CallAccounts ==
    ASSUME TypeInv, AccountsInv, NEW t \in Tasks, Call(t)
    PROVE  AccountsInv'
<1> USE DEF tables, ghosts
<1>0. ASSUME NEW u \in User, u.id \in created', NEW fields \in Task,
             fields.user = u, Await(t, "store_refresh_token", fields)
      PROVE  /\ Accountable(task[t])'
             /\ \A o \in Tasks \ {t} : task'[o] = task[o]
  <2> DEFINE record == [fields EXCEPT !.pc = "store_refresh_token", !.since = clock]
  <2>1. record.pc = "store_refresh_token" /\ record.user = u
    BY <1>0 DEF Task
  <2>2. task' = [task EXCEPT ![t] = record]
    BY <1>0 DEF Await, ReadsClock
  <2> HIDE DEF record
  <2> QED
    BY <1>0, <2>1, <2>2 DEF Accountable, TypeInv, TypeOK
<1>1. CASE CreateUser(t)
  <2>1. CASE Refuse(t, UniqueViolation, task[t].username) /\ UNCHANGED <<users, created>>
    BY <2>1, ClientErrors, RefuseAccounts DEF UniqueViolation
  <2> DEFINE u(id) == [id |-> id, username |-> task[t].username,
                       password |-> task[t].password]
  <2>2. ASSUME NEW id \in UserIds \ created,
               users' = users \cup {u(id)}, created' = created \cup {id},
               Await(t, "store_refresh_token", [Idle EXCEPT !.user = u(id)])
        PROVE  AccountsInv'
    <3>1. u(id) \in User /\ u(id).id = id
      BY <1>1 DEF CreateUser, TypeInv, DataInv, HasItsData, User
    <3> HIDE DEF u
    <3>2. [Idle EXCEPT !.user = u(id)] \in Task
          /\ [Idle EXCEPT !.user = u(id)].user = u(id)
      BY <3>1, IdleType DEF Idle, Task
    <3>3. Accountable(task[t])' /\ \A o \in Tasks \ {t} : task'[o] = task[o]
      BY <1>0, <2>2, <3>1, <3>2
    <3> QED
      BY <2>2, <3>1, <3>3, AccountsStep
  <2> QED
    BY <1>1, <2>1, <2>2 DEF CreateUser
<1>2. CASE FindUserByUsername(t)
  <2>1. CASE Refuse(t, "INVALID_CREDENTIALS", task[t].username)
    BY <1>2, <2>1, ClientErrors, RefuseAccounts DEF FindUserByUsername
  <2>2. ASSUME NEW u \in users,
               Await(t, "store_refresh_token", [Idle EXCEPT !.user = u])
        PROVE  AccountsInv'
    <3>1. u \in User /\ u.id \in created' /\ UNCHANGED <<users, created>>
      BY <1>2 DEF FindUserByUsername, AccountsInv, TypeInv, TypeOK
    <3>2. [Idle EXCEPT !.user = u] \in Task /\ [Idle EXCEPT !.user = u].user = u
      BY <3>1, IdleType DEF Idle, Task
    <3>3. Accountable(task[t])' /\ \A o \in Tasks \ {t} : task'[o] = task[o]
      BY <1>0, <2>2, <3>1, <3>2
    <3> QED
      BY <3>1, <3>3, AccountsStep
  <2> QED
    BY <1>2, <2>1, <2>2 DEF FindUserByUsername
<1>3. CASE ConsumeRefreshToken(t)
  <2>1. CASE Refuse(t, "INVALID_REFRESH_TOKEN", None)
    BY <1>3, <2>1, ClientErrors, RefuseAccounts DEF ConsumeRefreshToken
  <2>2. CASE Await(t, "find_user_by_id", task[t])
    BY <1>3, <2>2, AwaitAccounts
       DEF ConsumeRefreshToken, Calls, IssuingCalls, TypeInv, TypeOK
  <2> QED
    BY <1>3, <2>1, <2>2 DEF ConsumeRefreshToken
<1>4. CASE FindUserById(t)
  <2>1. CASE UserNotFound(t, task[t].claims.sub)
    BY <1>4, <2>1, ClientErrors, RefuseAccounts DEF FindUserById, UserNotFound
  <2>2. ASSUME NEW u \in users,
               Await(t, "store_refresh_token", [task[t] EXCEPT !.user = u])
        PROVE  AccountsInv'
    <3>1. u \in User /\ u.id \in created' /\ UNCHANGED <<users, created>>
      BY <1>4 DEF FindUserById, AccountsInv, TypeInv, TypeOK
    <3>2. /\ [task[t] EXCEPT !.user = u] \in Task
          /\ [task[t] EXCEPT !.user = u].user = u
      BY <3>1 DEF TypeInv, TypeOK, Task
    <3>3. Accountable(task[t])' /\ \A o \in Tasks \ {t} : task'[o] = task[o]
      BY <1>0, <2>2, <3>1, <3>2
    <3> QED
      BY <3>1, <3>3, AccountsStep
  <2> QED
    BY <1>4, <2>1, <2>2 DEF FindUserById, UsersById
<1>5. CASE StoreRefreshToken(t)
  <2>1. ASSUME ~ ForeignKeyHolds(task[t].user.id),
               Refuse(t, "DB_STORE_REFRESH_TOKEN_FAILED", task[t].user.username)
        PROVE  AccountsInv'
    <3>1. /\ task'[t].pc = "reply" /\ task'[t].user = task[t].user
          /\ task'[t].response.error_id = "DB_STORE_REFRESH_TOKEN_FAILED"
          /\ \A o \in Tasks \ {t} : task'[o] = task[o]
      BY <2>1 DEF Refuse, Answer, TypeInv, TypeOK, Task
    <3>2. UNCHANGED <<users, created>> /\ task[t].user.id \in created
      BY <1>5 DEF StoreRefreshToken, AccountsInv, Accountable
    <3>3. \A u \in users' : u.id # task[t].user.id
      BY <2>1, <3>2 DEF ForeignKeyHolds, UsersById
    <3>4. Accountable(task[t])'
      BY <3>1, <3>2, <3>3 DEF Accountable
    <3> QED
      BY <3>1, <3>2, <3>4, AccountsStep
  <2>2. ASSUME NEW tokens, Answer(t, Success(tokens)) PROVE AccountsInv'
    BY <1>5, <2>2, SuccessAccounts DEF StoreRefreshToken
  <2> QED
    BY <1>5, <2>1, <2>2 DEF StoreRefreshToken
<1>6. CASE DeleteRefreshTokensForUser(t)
  BY <1>6, SuccessAccounts DEF DeleteRefreshTokensForUser
<1> QED
  BY <1>1, <1>2, <1>3, <1>4, <1>5, <1>6 DEF Call

(* Statements that conflict are not answered with a 5xx: unless the        *)
(* database or the crypto fails, the only internal error is that of a      *)
(* request whose account is deleted between its lookup and its INSERT.     *)
THEOREM InternalErrors == Spec => []ServerErrorsHaveCauses
<1>1. Init => AccountsInv
  BY DEF Init, AccountsInv, Accountable, Idle
<1>2. TypeInv /\ AccountsInv /\ [Next]_vars => AccountsInv'
  <2> SUFFICES ASSUME TypeInv, AccountsInv, [Next]_vars PROVE AccountsInv'
    OBVIOUS
  <2> USE DEF tables, ghosts
  <2>1. ASSUME NEW t \in Tasks, Fail(t) PROVE AccountsInv'
    BY <2>1, RefuseAccounts DEF Fail
  <2>2. ASSUME NEW t \in Tasks, Reply(t) \/ Drop(t) PROVE AccountsInv'
    BY <2>2, EndAccounts DEF Reply, Drop
  <2>3. CASE RemoveUser
    BY <2>3 DEF RemoveUser, AccountsInv, Accountable
  <2>4. CASE Tick \/ UNCHANGED vars
    BY <2>4 DEF Tick, vars, AccountsInv, Accountable
  <2> QED
    BY <2>1, <2>2, <2>3, <2>4, RequestAccounts, CallAccounts DEF Next
<1>3. AccountsInv => ServerErrorsHaveCauses
  BY DEF AccountsInv, Accountable, ServerErrorsHaveCauses
<1> QED
  BY <1>1, <1>2, <1>3, TypeCorrect, PTL DEF Spec

-----------------------------------------------------------------------------
(* The two expiries and the subject of a refresh token.                    *)

(* The refresh tokens the server has signed and somebody still has: a      *)
(* client, or a handler that was given it or is about to answer with it.   *)
Carried(r) ==
    (IF r.claims = None THEN {} ELSE {r.claims}) \cup
    (IF r.pc = "reply" THEN r.response.tokens ELSE {})

RefreshTokens ==
    {c \in held \cup UNION {Carried(task[t]) : t \in Tasks} :
        c.kind = "refresh"}

(* A handler exchanges a refresh token for one of the same account, or has *)
(* refused it because its row, if it has one, is past expires_at.          *)
TaskTokens(r) ==
    /\ /\ r.pc \in {"consume_refresh_token", "find_user_by_id",
                    "store_refresh_token"}
       /\ r.claims # None
       => r.claims.kind = "refresh"
    /\ r.pc = "store_refresh_token" /\ r.claims # None =>
          r.user.id = r.claims.sub
    /\ r.pc = "reply" /\ r.response.error_id = "INVALID_REFRESH_TOKEN" =>
          /\ r.claims \in Claims /\ r.claims.kind = "refresh"
          /\ \A q \in refresh_tokens : q.jti = r.claims.jti =>
                                          r.claims.exp <= clock

(* All tokens of one session are of one account, and what is on file of a  *)
(* token expires no earlier than the token.                                *)
TokensInv ==
    /\ \A c \in RefreshTokens : c.jti \in Jtis /\ root[c.jti] # None
    /\ \A c, d \in RefreshTokens : root[c.jti] = root[d.jti] => c.sub = d.sub
    /\ \A c \in RefreshTokens, r \in refresh_tokens :
          /\ root[c.jti] = root[r.jti] => c.sub = r.user_id
          /\ c.jti = r.jti => c.exp <= r.expires_at
    /\ \A t \in Tasks : TaskTokens(task[t])

(* A step that hands out no new token, and of one handler at most.         *)
LEMMA TokensStep ==
    ASSUME TypeInv, TokensInv, NEW t \in Tasks,
           \A o \in Tasks \ {t} : task'[o] = task[o],
           held' \subseteq held \cup Carried(task[t]),
           Carried(task'[t]) \subseteq held \cup Carried(task[t]),
           refresh_tokens' \subseteq refresh_tokens, UNCHANGED <<root, clock>>,
           TaskTokens(task[t])'
    PROVE  TokensInv'
<1>1. RefreshTokens' \subseteq RefreshTokens
  <2> SUFFICES ASSUME NEW c, c \in held' \/ \E o \in Tasks : c \in Carried(task'[o])
               PROVE  c \in held \/ \E o \in Tasks : c \in Carried(task[o])
    BY DEF RefreshTokens
  <2>1. CASE c \in held'
    BY <2>1
  <2>2. ASSUME NEW o \in Tasks, c \in Carried(task'[o])
        PROVE  c \in held \/ c \in Carried(task[o])
    BY <2>2
  <2> QED
    BY <2>1, <2>2
<1>2. \A o \in Tasks \ {t} : TaskTokens(task[o])'
  BY DEF TokensInv, TaskTokens
<1> QED
  BY <1>1, <1>2 DEF TokensInv

(* What a refusal carries it has been given. *)
LEMMA RefuseCarries ==
    ASSUME TypeInv, NEW t \in Tasks, NEW error_id, NEW context,
           Refuse(t, error_id, context)
    PROVE  /\ \A o \in Tasks \ {t} : task'[o] = task[o]
           /\ Carried(task'[t]) \subseteq Carried(task[t])
           /\ task'[t].pc = "reply" /\ task'[t].response.error_id = error_id
           /\ task'[t].claims = task[t].claims
<1> DEFINE response == [error_id |-> error_id, context |-> context, tokens |-> {}]
           record == [task[t] EXCEPT !.pc = "reply", !.since = 0,
                                     !.response = response]
<1>1. task \in [Tasks -> Task] /\ task[t] \in Task
  BY DEF TypeInv, TypeOK
<1>2. task' = [task EXCEPT ![t] = record]
  BY <1>1 DEF Refuse, Answer
<1>3. /\ record.pc = "reply" /\ record.claims = task[t].claims
      /\ record.response = response
  BY <1>1 DEF Task
<1>4. task'[t] = record /\ \A o \in Tasks \ {t} : task'[o] = task[o]
  BY <1>1, <1>2
<1>5. Carried(record) \subseteq Carried(task[t])
  BY <1>3 DEF Carried
<1> QED
  BY <1>3, <1>4, <1>5

(* A refusal with another error says nothing of a refresh token. *)
LEMMA RefuseTokens ==
    ASSUME TypeInv, TokensInv, NEW t \in Tasks, NEW error_id, NEW context,
           Refuse(t, error_id, context), error_id # "INVALID_REFRESH_TOKEN",
           held' = held, refresh_tokens' \subseteq refresh_tokens,
           UNCHANGED <<root, clock>>
    PROVE  TokensInv'
<1>1. TaskTokens(task[t])'
  BY RefuseCarries DEF TaskTokens
<1> QED
  BY <1>1, RefuseCarries, TokensStep

(* What a handler that stops at a call carries it carried before, or it is *)
(* the token it was called with.                                           *)
LEMMA AwaitTokens ==
    ASSUME TypeInv, TokensInv, NEW t \in Tasks, NEW call \in Calls,
           NEW fields \in Task, Await(t, call, fields),
           Carried(fields) \subseteq held \cup Carried(task[t]),
           TaskTokens([fields EXCEPT !.pc = call]),
           held' = held, refresh_tokens' \subseteq refresh_tokens,
           UNCHANGED <<root, clock>>
    PROVE  TokensInv'
<1> DEFINE since == IF call \in ReadsClock THEN clock ELSE 0
           record == [fields EXCEPT !.pc = call, !.since = since]
           stopped == [fields EXCEPT !.pc = call]
<1>1. task' = [task EXCEPT ![t] = record] /\ task \in [Tasks -> Task]
  BY DEF Await, TypeInv, TypeOK
<1> HIDE DEF since
<1>2. /\ record.pc = call /\ record.claims = fields.claims
      /\ record.response = fields.response /\ record.user = fields.user
      /\ stopped.pc = call /\ stopped.claims = fields.claims
      /\ stopped.user = fields.user
      /\ TaskTokens(stopped) /\ call # "reply"
  BY DEF Task, Calls, IssuingCalls
<1> HIDE DEF record, stopped
<1>3. task'[t] = record /\ \A o \in Tasks \ {t} : task'[o] = task[o]
  BY <1>1
<1>4. Carried(task'[t]) \subseteq Carried(fields)
  BY <1>2, <1>3 DEF Carried
<1>5. TaskTokens(task[t])'
  BY <1>2, <1>3 DEF TaskTokens
<1> QED
  BY <1>3, <1>4, <1>5, TokensStep

(* The end of a handler; what it answered with is the client's now. *)
LEMMA EndTokens ==
    ASSUME TypeInv, TokensInv, NEW t \in Tasks,
           task' = [task EXCEPT ![t] = Idle],
           held' \subseteq held \cup Carried(task[t]),
           UNCHANGED <<refresh_tokens, root, clock>>
    PROVE  TokensInv'
<1>1. task'[t] = Idle /\ \A o \in Tasks \ {t} : task'[o] = task[o]
  BY DEF TypeInv, TypeOK
<1>2. Carried(task'[t]) = {} /\ TaskTokens(task[t])'
  BY <1>1 DEF Carried, TaskTokens, Idle
<1> QED
  BY <1>1, <1>2, TokensStep

(* A request that arrives brings a token that a client holds, if any. *)
LEMMA RequestTokens ==
    ASSUME TypeInv, TokensInv, NEW t \in Tasks, Request(t)
    PROVE  TokensInv'
<1> USE DEF tables, ghosts
<1>0. UNCHANGED <<refresh_tokens, held, root, clock>> /\ Idle \in Task
  BY IdleType DEF Request, MalformedBody, Register, Login, Refresh, Logout, Me
<1>1. CASE MalformedBody(t)
  BY <1>0, <1>1, RefuseTokens DEF MalformedBody
<1>2. ASSUME NEW call \in {"create_user", "find_user_by_username"},
             NEW name \in Names, NEW password \in Passwords,
             Await(t, call, [Idle EXCEPT !.username = name,
                                         !.password = password])
      PROVE  TokensInv'
  <2> DEFINE fields == [Idle EXCEPT !.username = name, !.password = password]
  <2>1. /\ fields \in Task /\ Carried(fields) = {}
        /\ TaskTokens([fields EXCEPT !.pc = call]) /\ call \in Calls
    BY <1>0 DEF Idle, Task, Carried, TaskTokens, Calls, IssuingCalls
  <2> QED
    BY <1>0, <1>2, <2>1, AwaitTokens
<1>3. CASE Register(t)
  BY <1>0, <1>2, <1>3, RefuseTokens DEF Register
<1>4. CASE Login(t)
  BY <1>2, <1>4 DEF Login
<1>5. ASSUME NEW token, NEW kind, NEW context,
             Refuse(t, VerifyToken(token, kind, clock), context)
      PROVE  TokensInv'
  <2>1. VerifyToken(token, kind, clock) # "INVALID_REFRESH_TOKEN"
    BY DEF VerifyToken
  <2> QED
    BY <1>0, <1>5, <2>1, RefuseTokens
<1>6. ASSUME NEW call \in {"consume_refresh_token",
                           "delete_refresh_tokens_for_user"},
             WithRefreshToken(t, call)
      PROVE  TokensInv'
  <2>1. PICK token \in held \cup {None} :
           \/ Refuse(t, VerifyToken(token, "refresh", clock), None)
           \/ /\ VerifyToken(token, "refresh", clock) = "OK"
              /\ Await(t, call, [Idle EXCEPT !.claims = token])
    BY <1>6 DEF WithRefreshToken
  <2>2. CASE /\ VerifyToken(token, "refresh", clock) = "OK"
             /\ Await(t, call, [Idle EXCEPT !.claims = token])
    <3> DEFINE fields == [Idle EXCEPT !.claims = token]
    <3>1. token \in held /\ token \in Claims /\ token.kind = "refresh"
      BY <2>2 DEF VerifyToken, TypeInv, TypeOK
    <3>2. fields \in Task /\ Carried(fields) \subseteq held /\ call \in Calls
      BY <1>0, <3>1 DEF Idle, Task, Carried, Calls, IssuingCalls
    <3>3. TaskTokens([fields EXCEPT !.pc = call])
      BY <3>1 DEF Idle, TaskTokens
    <3> QED
      BY <1>0, <2>2, <3>2, <3>3, AwaitTokens
  <2> QED
    BY <1>5, <2>1, <2>2
<1>7. CASE Refresh(t) \/ Logout(t)
  BY <1>6, <1>7 DEF Refresh, Logout
<1>8. CASE Me(t)
  <2>1. CASE Refuse(t, "MISSING_AUTHORIZATION_HEADER", None)
    BY <1>0, <2>1, RefuseTokens
  <2>2. ASSUME NEW token \in held \cup {None},
               VerifyToken(token, "access", clock) = "OK",
               task' = [task EXCEPT ![t] =
                           [Idle EXCEPT !.pc = "reply", !.claims = token,
                                        !.response = Success({})]]
        PROVE  TokensInv'
    <3> DEFINE record == [Idle EXCEPT !.pc = "reply", !.claims = token,
                                      !.response = Success({})]
    <3>1. token \in held
      BY <2>2 DEF VerifyToken
    <3>2. Carried(record) \subseteq held /\ TaskTokens(record)
      BY <3>1 DEF Idle, Carried, TaskTokens, Success
    <3>3. record.pc = "reply" /\ record.response.error_id = "OK"
      BY DEF Idle, Success
    <3>4. task'[t] = record /\ \A o \in Tasks \ {t} : task'[o] = task[o]
      BY <2>2 DEF TypeInv, TypeOK
    <3>5. TaskTokens(task[t])'
      BY <3>3, <3>4 DEF TaskTokens
    <3> QED
      BY <1>0, <3>2, <3>4, <3>5, TokensStep
  <2> QED
    BY <1>5, <1>8, <2>1, <2>2 DEF Me
<1> QED
  BY <1>1, <1>3, <1>4, <1>7, <1>8 DEF Request

(* A refresh is refused because its row, if it has one, is past expires_at, *)
(* and so past exp; otherwise the row is gone.                             *)
LEMMA ConsumeTokens ==
    ASSUME TypeInv, TokensInv, NEW t \in Tasks, ConsumeRefreshToken(t)
    PROVE  TokensInv'
<1> USE DEF ghosts
<1> DEFINE claims == task[t].claims
<1>1. PICK now \in task[t].since..clock :
         /\ refresh_tokens' = AfterConsume(claims.jti, now)
         /\ \/ /\ Consumable(claims.jti, now) = {}
               /\ Refuse(t, "INVALID_REFRESH_TOKEN", None)
            \/ Await(t, "find_user_by_id", task[t])
  BY DEF ConsumeRefreshToken
<1>2. /\ claims \in Claims /\ claims # None /\ claims.kind = "refresh"
      /\ task[t] \in Task
      /\ UNCHANGED <<held, root, clock>> /\ refresh_tokens' \subseteq refresh_tokens
  BY <1>1, NoneAssumption
     DEF ConsumeRefreshToken, AfterConsume, TypeInv, TypeOK, DataInv, HasItsData,
         TokensInv, TaskTokens
<1>3. CASE /\ Consumable(claims.jti, now) = {}
           /\ Refuse(t, "INVALID_REFRESH_TOKEN", None)
  <2>1. claims \in RefreshTokens
    BY <1>2 DEF RefreshTokens, Carried
  <2>2. /\ \A o \in Tasks \ {t} : task'[o] = task[o]
        /\ Carried(task'[t]) \subseteq Carried(task[t])
        /\ task'[t].pc = "reply" /\ task'[t].claims = claims
    BY <1>3, RefuseCarries
  <2>3. ASSUME NEW q \in refresh_tokens, q.jti = claims.jti
        PROVE  claims.exp <= clock
    <3>1. q.expires_at \in Nat /\ clock \in Int /\ task[t].since \in Int
      BY <1>2, SessionsAssumption DEF TypeInv, TypeOK, RefreshToken, Task
    <3>2. ~ (q.expires_at > now)
      BY <1>3, <2>3 DEF Consumable
    <3>3. claims.exp \in Nat /\ claims.exp <= q.expires_at
      BY <1>2, <2>1, <2>3 DEF TokensInv, Claims
    <3> QED
      BY <3>1, <3>2, <3>3
  <2>4. TaskTokens(task[t])'
    BY <1>2, <2>2, <2>3 DEF TaskTokens
  <2> QED
    BY <1>2, <2>2, <2>4, TokensStep
<1>4. CASE Await(t, "find_user_by_id", task[t])
  <2>1. [task[t] EXCEPT !.pc = "find_user_by_id"].claims = claims
        /\ [task[t] EXCEPT !.pc = "find_user_by_id"].pc = "find_user_by_id"
    BY <1>2 DEF Task
  <2>2. TaskTokens([task[t] EXCEPT !.pc = "find_user_by_id"])
    BY <1>2, <2>1 DEF TaskTokens
  <2> QED
    BY <1>2, <1>4, <2>2, AwaitTokens DEF Calls, IssuingCalls
<1> QED
  BY <1>1, <1>3, <1>4

(* The tokens issued are of the account of the session, if it is an old    *)
(* one, and of a session nobody else has a token of, if it is new.         *)
LEMMA StoreTokens ==
    ASSUME TypeInv, RotationInv, TokensInv, NEW t \in Tasks,
           StoreRefreshToken(t)
    PROVE  TokensInv'
<1> DEFINE u == task[t].user
<1>0. UNCHANGED <<held, clock>> /\ task[t].pc = "store_refresh_token"
      /\ u \in User /\ task[t] \in Task
  BY DEF StoreRefreshToken, TypeInv, TypeOK, DataInv, HasItsData
<1>1. CASE /\ Refuse(t, "DB_STORE_REFRESH_TOKEN_FAILED", u.username)
           /\ UNCHANGED <<refresh_tokens, root>>
  BY <1>0, <1>1, RefuseTokens
<1>2. ASSUME NEW jti \in FreeJtis, NEW iat \in Nat, NEW now \in Nat,
             NEW later \in Nat, now <= later, Stored(t, jti, iat, now, later)
      PROVE  TokensInv'
  <2> DEFINE row == [jti |-> jti, user_id |-> u.id, expires_at |-> ExpiresAt(later)]
             access == IssueAccessToken(u.id, iat)
             new == IssueRefreshToken(u.id, jti, now)
             session == SessionOf(t, jti)
  <2>1. jti \in Jtis /\ root[jti] = None /\ None \notin Jtis
    BY NoneAssumption DEF FreeJtis
  <2>2. /\ refresh_tokens' = refresh_tokens \cup {row}
        /\ root' = [root EXCEPT ![jti] = session]
        /\ root \in [Jtis -> Jtis \cup {None}]
    BY <1>2 DEF Stored, TypeInv, TypeOK
  <2>3. /\ \A o \in Tasks \ {t} : task'[o] = task[o]
        /\ task'[t].pc = "reply" /\ task'[t].response = Success({access, new})
        /\ task'[t].claims = task[t].claims
    BY <1>0, <1>2 DEF Stored, Answer, TypeInv, TypeOK, Task
  <2>4. /\ row.jti = jti /\ row.user_id = u.id
        /\ row.expires_at = later + RefreshTtl
        /\ new.jti = jti /\ new.sub = u.id /\ new.exp = now + RefreshTtl
        /\ access.kind = "access" /\ new.exp <= row.expires_at
    BY <1>2, TtlAssumption DEF ExpiresAt, IssueRefreshToken, IssueAccessToken
  <2> HIDE DEF row, access, new
  <2>5. RefreshTokens' \subseteq RefreshTokens \cup {new}
    <3>1. Carried(task'[t]) \subseteq Carried(task[t]) \cup {access, new}
      BY <2>3 DEF Carried, Success
    <3> SUFFICES ASSUME NEW c, c.kind = "refresh",
                        c \in held \/ \E o \in Tasks : c \in Carried(task'[o])
                 PROVE  \/ c = new
                        \/ c \in held \/ \E o \in Tasks : c \in Carried(task[o])
      BY <1>0 DEF RefreshTokens
    <3> QED
      BY <2>3, <2>4, <3>1
  <2>6. ASSUME NEW c \in RefreshTokens
        PROVE  /\ c.jti \in Jtis \ {jti} /\ root'[c.jti] = root[c.jti]
               /\ root[c.jti] # None /\ root[c.jti] # jti
    BY <2>1, <2>2 DEF TokensInv, RotationInv
  <2>7. ASSUME NEW q \in refresh_tokens
        PROVE  /\ q.jti \in Jtis \ {jti} /\ root'[q.jti] = root[q.jti]
               /\ root[q.jti] # jti
    BY <2>1, <2>2 DEF RotationInv, TypeInv, TypeOK, RefreshToken
  <2>8. /\ session \in Jtis
        /\ \A c \in RefreshTokens : root[c.jti] = session => c.sub = u.id
        /\ \A q \in refresh_tokens : root[q.jti] # session
    <3>1. CASE task[t].claims = None
      BY <2>1, <2>6, <2>7, <3>1 DEF SessionOf
    <3>2. CASE task[t].claims # None
      <4>1. InFlight(t) /\ session = root[task[t].claims.jti]
        BY <1>0, <3>2 DEF SessionOf, Session, InFlight
      <4>2. task[t].claims \in RefreshTokens /\ u.id = task[t].claims.sub
        BY <1>0, <3>2 DEF TokensInv, TaskTokens, RefreshTokens, Carried
      <4>3. session \in Jtis
        BY <2>2, <2>6, <4>1, <4>2
      <4> QED
        BY <4>1, <4>2, <4>3
           DEF TokensInv, RotationInv, OneTokenPerSession, Session
    <3> QED
      BY <3>1, <3>2
  <2> HIDE DEF session
  <2>9. root'[jti] = session /\ session # None
    BY <2>1, <2>2, <2>8
  <2>10. \A c \in RefreshTokens' : c.jti \in Jtis /\ root'[c.jti] # None
    BY <2>1, <2>4, <2>5, <2>6, <2>9
  <2>11. \A c, d \in RefreshTokens' : root'[c.jti] = root'[d.jti] => c.sub = d.sub
    <3> SUFFICES ASSUME NEW c \in RefreshTokens \cup {new},
                        NEW d \in RefreshTokens \cup {new},
                        root'[c.jti] = root'[d.jti]
                 PROVE  c.sub = d.sub
      BY <2>5
    <3>1. CASE c = new
      BY <2>4, <2>6, <2>8, <2>9, <3>1
    <3>2. CASE d = new
      BY <2>4, <2>6, <2>8, <2>9, <3>2
    <3>3. CASE c # new /\ d # new
      BY <2>6, <3>3 DEF TokensInv
    <3> QED
      BY <3>1, <3>2, <3>3
  <2>12. \A c \in RefreshTokens', q \in refresh_tokens' :
            /\ root'[c.jti] = root'[q.jti] => c.sub = q.user_id
            /\ c.jti = q.jti => c.exp <= q.expires_at
    <3> SUFFICES ASSUME NEW c \in RefreshTokens \cup {new},
                        NEW q \in refresh_tokens \cup {row}
                 PROVE  /\ root'[c.jti] = root'[q.jti] => c.sub = q.user_id
                        /\ c.jti = q.jti => c.exp <= q.expires_at
      BY <2>2, <2>5
    <3>1. CASE c = new /\ q = row
      BY <2>4, <3>1
    <3>2. CASE c = new /\ q # row
      BY <2>4, <2>7, <2>8, <2>9, <3>2
    <3>3. CASE c # new /\ q = row
      BY <2>4, <2>6, <2>8, <2>9, <3>3
    <3>4. CASE c # new /\ q # row
      BY <2>6, <2>7, <3>4 DEF TokensInv
    <3> QED
      BY <3>1, <3>2, <3>3, <3>4
  <2>13. ASSUME NEW o \in Tasks PROVE TaskTokens(task[o])'
    <3>1. CASE o = t
      BY <2>3, <3>1 DEF TaskTokens, Success
    <3>2. CASE o # t
      <4>1. task'[o] = task[o] /\ TaskTokens(task[o])
        BY <2>3, <3>2 DEF TokensInv
      <4>2. ASSUME Refused(o, "INVALID_REFRESH_TOKEN")
            PROVE  task[o].claims.jti # jti
        <5>1. task[o].claims \in RefreshTokens
          BY <4>1, <4>2, NoneAssumption
             DEF TaskTokens, Refused, RefreshTokens, Carried
        <5> QED
          BY <2>6, <5>1
      <4> QED
        BY <1>0, <2>2, <2>4, <4>1, <4>2 DEF TaskTokens, Refused
    <3> QED
      BY <3>1, <3>2
  <2> QED
    BY <2>10, <2>11, <2>12, <2>13 DEF TokensInv
<1> QED
  BY <1>1, <1>2, StoreOutcome

(* Every repository call, with the code after it, keeps TokensInv. *)
LEMMA CallTokens ==
    ASSUME TypeInv, RotationInv, TokensInv, NEW t \in Tasks, Call(t)
    PROVE  TokensInv'
<1> USE DEF tables, ghosts
<1>0. ASSUME NEW u \in User,
             Await(t, "store_refresh_token", [Idle EXCEPT !.user = u]),
             UNCHANGED <<refresh_tokens, held, root, clock>>
      PROVE  TokensInv'
  <2> DEFINE fields == [Idle EXCEPT !.user = u]
  <2>1. /\ fields \in Task /\ Carried(fields) = {}
        /\ TaskTokens([fields EXCEPT !.pc = "store_refresh_token"])
    BY IdleType DEF Idle, Task, Carried, TaskTokens
  <2> QED
    BY <1>0, <2>1, AwaitTokens DEF Calls, IssuingCalls
<1>1. CASE CreateUser(t)
  <2>1. task[t].username \in Usernames /\ task[t].password \in Passwords
    BY <1>1 DEF CreateUser, TypeInv, DataInv, HasItsData
  <2>2. \A id \in UserIds : [id |-> id, username |-> task[t].username,
                            password |-> task[t].password] \in User
    BY <2>1 DEF User
  <2> QED
    BY <1>0, <1>1, <2>2, RefuseTokens DEF CreateUser, UniqueViolation
<1>2. CASE FindUserByUsername(t)
  <2>1. CASE Refuse(t, "INVALID_CREDENTIALS", task[t].username)
    BY <1>2, <2>1, RefuseTokens DEF FindUserByUsername
  <2>2. ASSUME NEW u \in users,
               Await(t, "store_refresh_token", [Idle EXCEPT !.user = u])
        PROVE  TokensInv'
    BY <1>0, <1>2, <2>2 DEF FindUserByUsername, TypeInv, TypeOK
  <2> QED
    BY <1>2, <2>1, <2>2 DEF FindUserByUsername
<1>3. CASE FindUserById(t)
  <2>1. CASE UserNotFound(t, task[t].claims.sub)
    BY <1>3, <2>1, RefuseTokens DEF FindUserById, UserNotFound
  <2>2. ASSUME NEW u \in UsersById(task[t].claims.sub),
               Await(t, "store_refresh_token", [task[t] EXCEPT !.user = u])
        PROVE  TokensInv'
    <3> DEFINE fields == [task[t] EXCEPT !.user = u]
               stopped == [fields EXCEPT !.pc = "store_refresh_token"]
    <3>1. /\ u \in User /\ u.id = task[t].claims.sub /\ task[t] \in Task
          /\ TaskTokens(task[t]) /\ task[t].pc = "find_user_by_id"
      BY <1>3 DEF FindUserById, UsersById, TypeInv, TypeOK, TokensInv
    <3>2. /\ fields \in Task /\ fields.claims = task[t].claims
          /\ fields.response = task[t].response
          /\ stopped.pc = "store_refresh_token" /\ stopped.user = u
          /\ stopped.claims = task[t].claims
      BY <3>1 DEF Task
    <3>3. Carried(fields) = Carried(task[t]) /\ TaskTokens(stopped)
      BY <3>1, <3>2 DEF Carried, TaskTokens
    <3> QED
      BY <1>3, <2>2, <3>2, <3>3, AwaitTokens DEF FindUserById, Calls, IssuingCalls
  <2> QED
    BY <1>3, <2>1, <2>2 DEF FindUserById
<1>4. CASE DeleteRefreshTokensForUser(t)
  <2>1. /\ \A o \in Tasks \ {t} : task'[o] = task[o]
        /\ task'[t].pc = "reply" /\ task'[t].response = Success({})
        /\ task'[t].claims = task[t].claims
    BY <1>4 DEF DeleteRefreshTokensForUser, Answer, TypeInv, TypeOK, Task
  <2>2. Carried(task'[t]) \subseteq Carried(task[t]) /\ TaskTokens(task[t])'
    BY <2>1 DEF Carried, TaskTokens, Success
  <2> QED
    BY <1>4, <2>1, <2>2, TokensStep DEF DeleteRefreshTokensForUser, AfterLogout
<1> QED
  BY <1>1, <1>2, <1>3, <1>4, ConsumeTokens, StoreTokens DEF Call

(* Whatever handlers run, fail or are dropped, a token never outlives its  *)
(* row, and a session never changes its account.                           *)
THEOREM TokensInvariant == Spec => []TokensInv
<1>1. Init => TokensInv
  BY DEF Init, TokensInv, RefreshTokens, Carried, TaskTokens, Idle
<1>2. TypeInv /\ RotationInv /\ TokensInv /\ [Next]_vars => TokensInv'
  <2> SUFFICES ASSUME TypeInv, RotationInv, TokensInv, [Next]_vars
               PROVE  TokensInv'
    OBVIOUS
  <2> USE DEF tables, ghosts
  <2>1. ASSUME NEW t \in Tasks, Fail(t) PROVE TokensInv'
    <3>1. PICK f \in Failure(t) : Refuse(t, f[1], f[2])
      BY <2>1 DEF Fail
    <3>2. f[1] # "INVALID_REFRESH_TOKEN"
      BY DEF Failure
    <3> QED
      BY <2>1, <3>1, <3>2, RefuseTokens DEF Fail
  <2>2. ASSUME NEW t \in Tasks, Reply(t) PROVE TokensInv'
    <3>1. task[t].response.tokens \subseteq Carried(task[t])
      BY <2>2 DEF Reply, Carried
    <3> QED
      BY <2>2, <3>1, EndTokens DEF Reply
  <2>3. ASSUME NEW t \in Tasks, Drop(t) PROVE TokensInv'
    BY <2>3, EndTokens DEF Drop
  <2>4. CASE RemoveUser
    BY <2>4 DEF RemoveUser, TokensInv, RefreshTokens, TaskTokens
  <2>5. CASE Tick
    <3>1. clock \in Nat /\ clock' = clock + 1
      BY <2>5, SessionsAssumption DEF Tick, TypeInv, TypeOK
    <3>2. \A t \in Tasks : task[t].claims \in Claims =>
                              task[t].claims.exp \in Nat
      BY DEF Claims
    <3> QED
      BY <2>5, <3>1, <3>2 DEF Tick, TokensInv, RefreshTokens, TaskTokens
  <2>6. CASE UNCHANGED vars
    BY <2>6 DEF vars, TokensInv, RefreshTokens, TaskTokens
  <2> QED
    BY <2>1, <2>2, <2>3, <2>4, <2>5, <2>6, RequestTokens, CallTokens DEF Next
<1> QED
  BY <1>1, <1>2, TypeCorrect, RotationInvariant, PTL DEF Spec

(* A refresh is refused with INVALID_REFRESH_TOKEN only if its token is no *)
(* longer on file or has passed its exp, whichever call read the clock     *)
(* first.                                                                  *)
THEOREM RefusalsJustified == Spec => []RefusedOnlyIfSpentOrExpired
<1>1. TokensInv => RefusedOnlyIfSpentOrExpired
  BY DEF TokensInv, TaskTokens, RefusedOnlyIfSpentOrExpired, Refused,
         OnFileToken
<1> QED
  BY <1>1, TokensInvariant, PTL

(* Every refresh token of a session names one account, though refresh      *)
(* looks it up again with find_user_by_id each time.                       *)
THEOREM OneSubject == Spec => []OneSubjectPerSession
<1>1. TokensInv => OneSubjectPerSession
  BY DEF TokensInv, RefreshTokens, OneSubjectPerSession
<1> QED
  BY <1>1, TokensInvariant, PTL

-----------------------------------------------------------------------------
(* Progress.                                                               *)

(* A handler goes to the call it stops at, or to its answer, ... *)
LEMMA GoesTo ==
    ASSUME TypeInv, NEW t \in Tasks
    PROVE  /\ \A call \in Calls, fields \in Task :
                 Await(t, call, fields) => task'[t].pc = call
           /\ \A response : Answer(t, response) => task'[t].pc = "reply"
           /\ \A error_id, context :
                 Refuse(t, error_id, context) => task'[t].pc = "reply"
<1>1. task \in [Tasks -> Task]
  BY DEF TypeInv, TypeOK
<1>2. ASSUME NEW call \in Calls, NEW fields \in Task, Await(t, call, fields)
      PROVE  task'[t].pc = call
  <2> DEFINE since == IF call \in ReadsClock THEN clock ELSE 0
  <2>1. task'[t] = [fields EXCEPT !.pc = call, !.since = since]
    BY <1>1, <1>2 DEF Await
  <2> HIDE DEF since
  <2> QED
    BY <2>1 DEF Task
<1>3. ASSUME NEW response, Answer(t, response) PROVE task'[t].pc = "reply"
  <2>1. task'[t] = [task[t] EXCEPT !.pc = "reply", !.since = 0,
                                   !.response = response]
    BY <1>1, <1>3 DEF Answer
  <2> QED
    BY <1>1, <2>1 DEF Task
<1> QED
  BY <1>2, <1>3 DEF Refuse

(* ... and nobody else moves. *)
LEMMA OthersStay ==
    ASSUME TypeInv, NEW t \in Tasks, NEW o \in Tasks \ {t},
           Request(t) \/ Call(t) \/ Fail(t) \/ Reply(t) \/ Drop(t)
    PROVE  task'[o] = task[o]
<1>1. ASSUME NEW record, task' = [task EXCEPT ![t] = record]
      PROVE  task'[o] = task[o]
  BY <1>1 DEF TypeInv, TypeOK
<1>2. /\ \A call, fields : Await(t, call, fields) => task'[o] = task[o]
      /\ \A response : Answer(t, response) => task'[o] = task[o]
      /\ \A error_id, context :
            Refuse(t, error_id, context) => task'[o] = task[o]
  <2>1. \A call, fields : Await(t, call, fields) => task'[o] = task[o]
    BY <1>1 DEF Await
  <2>2. \A response : Answer(t, response) => task'[o] = task[o]
    BY DEF TypeInv, TypeOK, Answer
  <2> QED
    BY <2>1, <2>2 DEF Refuse
<1>3. CASE Request(t)
  <2>1. CASE MalformedBody(t) \/ Register(t) \/ Login(t)
    BY <1>2, <2>1 DEF MalformedBody, Register, Login
  <2>2. CASE Refresh(t) \/ Logout(t)
    BY <1>2, <2>2 DEF Refresh, Logout, WithRefreshToken
  <2>3. CASE Me(t)
    BY <1>1, <1>2, <2>3 DEF Me
  <2> QED
    BY <1>3, <2>1, <2>2, <2>3 DEF Request
<1>4. CASE Call(t)
  <2>1. CASE CreateUser(t) \/ FindUserByUsername(t) \/ FindUserById(t)
    BY <1>2, <2>1 DEF CreateUser, FindUserByUsername, FindUserById, UserNotFound
  <2>2. CASE ConsumeRefreshToken(t) \/ DeleteRefreshTokensForUser(t)
    BY <1>2, <2>2 DEF ConsumeRefreshToken, DeleteRefreshTokensForUser
  <2>3. CASE StoreRefreshToken(t)
    BY <1>2, <2>3, StoreOutcome DEF Stored
  <2> QED
    BY <1>4, <2>1, <2>2, <2>3 DEF Call
<1>5. CASE Fail(t) \/ Reply(t) \/ Drop(t)
  BY <1>1, <1>2, <1>5 DEF Fail, Reply, Drop
<1> QED
  BY <1>3, <1>4, <1>5

(* Every call, failure, answer or disconnect brings a handler closer to    *)
(* being free again. *)
LEMMA CallAdvances ==
    ASSUME TypeInv, NEW t \in Tasks, Call(t)
    PROVE  Advances(t)
<1>0. /\ task[t] \in Task /\ Idle \in Task
      /\ "find_user_by_id" \in Calls /\ "store_refresh_token" \in Calls
  BY IdleType DEF TypeInv, TypeOK, Calls, IssuingCalls
<1>1. CASE CreateUser(t)
  <2>1. CASE Refuse(t, UniqueViolation, task[t].username)
    BY <1>1, <2>1, GoesTo DEF CreateUser, Advances, StepsLeft
  <2>2. ASSUME NEW id \in UserIds \ created,
               Await(t, "store_refresh_token", [Idle EXCEPT !.user =
                  [id |-> id, username |-> task[t].username,
                   password |-> task[t].password]])
        PROVE  Advances(t)
    <3> DEFINE u == [id |-> id, username |-> task[t].username,
                     password |-> task[t].password]
    <3>1. u \in User
      BY <1>1 DEF CreateUser, User, TypeInv, DataInv, HasItsData
    <3> HIDE DEF u
    <3>2. [Idle EXCEPT !.user = u] \in Task
      BY <1>0, <3>1 DEF Task
    <3>3. task'[t].pc = "store_refresh_token"
      BY <1>0, <2>2, <3>2, GoesTo DEF u
    <3> QED
      BY <1>1, <3>3 DEF CreateUser, Advances, StepsLeft
  <2> QED
    BY <1>1, <2>1, <2>2 DEF CreateUser
<1>2. CASE FindUserByUsername(t)
  <2>1. CASE Refuse(t, "INVALID_CREDENTIALS", task[t].username)
    BY <1>2, <2>1, GoesTo DEF FindUserByUsername, Advances, StepsLeft
  <2>2. ASSUME NEW u \in users,
               Await(t, "store_refresh_token", [Idle EXCEPT !.user = u])
        PROVE  Advances(t)
    <3>1. [Idle EXCEPT !.user = u] \in Task
      BY <1>0 DEF Task, TypeInv, TypeOK
    <3>2. task'[t].pc = "store_refresh_token"
      BY <1>0, <2>2, <3>1, GoesTo
    <3> QED
      BY <1>2, <3>2 DEF FindUserByUsername, Advances, StepsLeft
  <2> QED
    BY <1>2, <2>1, <2>2 DEF FindUserByUsername
<1>3. CASE ConsumeRefreshToken(t)
  <2>1. \/ Refuse(t, "INVALID_REFRESH_TOKEN", None)
        \/ Await(t, "find_user_by_id", task[t])
    BY <1>3 DEF ConsumeRefreshToken
  <2>2. task'[t].pc \in {"reply", "find_user_by_id"}
    BY <1>0, <2>1, GoesTo
  <2> QED
    BY <1>3, <2>2 DEF ConsumeRefreshToken, Advances, StepsLeft
<1>4. CASE FindUserById(t)
  <2>1. CASE UserNotFound(t, task[t].claims.sub)
    BY <1>4, <2>1, GoesTo DEF FindUserById, UserNotFound, Advances, StepsLeft
  <2>2. ASSUME NEW u \in users,
               Await(t, "store_refresh_token", [task[t] EXCEPT !.user = u])
        PROVE  Advances(t)
    <3>1. [task[t] EXCEPT !.user = u] \in Task
      BY <1>0 DEF Task, TypeInv, TypeOK
    <3>2. task'[t].pc = "store_refresh_token"
      BY <1>0, <2>2, <3>1, GoesTo
    <3> QED
      BY <1>4, <3>2 DEF FindUserById, Advances, StepsLeft
  <2> QED
    BY <1>4, <2>1, <2>2 DEF FindUserById, UsersById
<1>5. CASE StoreRefreshToken(t)
  <2>1. task'[t].pc = "reply"
    BY <1>5, GoesTo, StoreOutcome DEF Stored
  <2> QED
    BY <1>5, <2>1 DEF StoreRefreshToken, Advances, StepsLeft
<1>6. CASE DeleteRefreshTokensForUser(t)
  <2>1. task'[t].pc = "reply"
    BY <1>6, GoesTo DEF DeleteRefreshTokensForUser
  <2> QED
    BY <1>6, <2>1 DEF DeleteRefreshTokensForUser, Advances, StepsLeft
<1> QED
  BY <1>1, <1>2, <1>3, <1>4, <1>5, <1>6 DEF Call

(* No path through register, login, refresh or logout comes back to a call *)
(* it has made: whatever fails or is deleted in between, a request is free *)
(* after four steps of its own at most.  It is the safety half of          *)
(* RequestsComplete.                                                       *)
THEOREM RequestsEnd == Spec => RequestsAdvance
<1>1. ASSUME TypeInv, [Next]_vars, NEW t \in Tasks, task[t].pc # "idle"
      PROVE  Advances(t)
  <2>0. task[t] \in Task
    BY <1>1 DEF TypeInv, TypeOK
  <2>1. CASE UNCHANGED task
    BY <2>1 DEF Advances
  <2>2. CASE Call(t)
    BY <1>1, <2>2, CallAdvances
  <2>3. CASE Fail(t)
    <3>1. task'[t].pc = "reply" /\ Failure(t) # {}
      BY <1>1, <2>3, GoesTo DEF Fail
    <3>2. task[t].pc \in Calls
      BY <3>1 DEF Failure, Calls, IssuingCalls
    <3> QED
      BY <3>1, <3>2 DEF Calls, IssuingCalls, Advances, StepsLeft
  <2>4. CASE Reply(t) \/ Drop(t)
    <3>1. task'[t].pc = "idle"
      BY <1>1, <2>4 DEF Reply, Drop, Idle, TypeInv, TypeOK
    <3>2. task[t].pc \in {"reply", "store_refresh_token",
             "delete_refresh_tokens_for_user", "create_user",
             "find_user_by_username", "find_user_by_id",
             "consume_refresh_token"}
      BY <1>1, <2>0 DEF Task, Calls, IssuingCalls
    <3> QED
      BY <3>1, <3>2 DEF Advances, StepsLeft
  <2>5. ASSUME NEW o \in Tasks \ {t},
               Request(o) \/ Call(o) \/ Fail(o) \/ Reply(o) \/ Drop(o)
        PROVE  Advances(t)
    BY <1>1, <2>5, OthersStay DEF Advances
  <2>6. ~ Request(t)
    BY <1>1 DEF Request, MalformedBody, Register, Login, Refresh, Logout, Me
  <2>7. RemoveUser \/ Tick \/ UNCHANGED vars => UNCHANGED task
    BY DEF RemoveUser, Tick, vars
  <2> QED
    BY <1>1, <2>1, <2>2, <2>3, <2>4, <2>5, <2>6, <2>7 DEF Next
<1>2. TypeInv /\ [Next]_vars
        => [\A t \in Tasks : task[t].pc # "idle" => Advances(t)]_vars
  BY <1>1
<1> QED
  BY <1>2, TypeCorrect, PTL DEF Spec, RequestsAdvance

=============================================================================

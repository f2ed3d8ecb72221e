------------------------ MODULE LogoutHistoryProofs ------------------------
(***************************************************************************)
(* Theorems of LogoutHistory: the history variables do not restrict the    *)
(* service, and a logout ends the sessions it finds on file for good.      *)
(***************************************************************************)
EXTENDS LogoutHistory, AuthSessionsProofs

(* With the histories, the service takes no step it would not take without *)
(* them, so that the theorems about it hold here, too.                     *)
THEOREM HistoriesAddNothing == HSpec => Spec
<1>1. HInit => Init
  BY DEF HInit
<1>2. [HNext]_hvars => [Next]_vars
  BY DEF HNext, hvars, Next, Request, Call
<1> QED
  BY <1>1, <1>2, PTL DEF HSpec, Spec

-----------------------------------------------------------------------------
(***************************************************************************)
(* What is inductive: a session that a logout has ended was in use, so no  *)
(* session that begins later has its name.                                 *)
(***************************************************************************)
LogoutInv ==
    /\ LogoutEndsStoredSessions
    /\ \A s \in stored : s \in Jtis /\ root[s] # None

(* A step that logs nobody out and neither stores a token nor takes a new  *)
(* one into exchange.                                                      *)
LEMMA QuietLogout ==
    ASSUME LogoutInv, stored' = stored, root' = root,
           refresh_tokens' \subseteq refresh_tokens,
           \A o \in Tasks : InFlight(o)' =>
              InFlight(o) /\ task'[o].claims = task[o].claims
    PROVE  LogoutInv'
BY DEF LogoutInv, LogoutEndsStoredSessions, Session

(* A handler that goes on without a token in exchange. *)
LEMMA SettlesLogout ==
    ASSUME LogoutInv, NEW t \in Tasks, Settles(t), stored' = stored,
           root' = root, refresh_tokens' \subseteq refresh_tokens
    PROVE  LogoutInv'
BY QuietLogout DEF InFlight, Settles

(* The session of a row was not ended, so it may pass to the handler. *)
LEMMA ConsumeLogout ==
    ASSUME TypeInv, LogoutInv, NEW t \in Tasks, ConsumeRefreshToken(t),
           stored' = stored
    PROVE  LogoutInv'
<1> USE DEF ghosts
<1>1. PICK now \in task[t].since..clock :
         /\ refresh_tokens' = AfterConsume(task[t].claims.jti, now)
         /\ \/ Refuse(t, "INVALID_REFRESH_TOKEN", None)
            \/ /\ Consumable(task[t].claims.jti, now) # {}
               /\ Await(t, "find_user_by_id", task[t])
  BY DEF ConsumeRefreshToken
<1>2. root' = root /\ refresh_tokens' \subseteq refresh_tokens
  BY <1>1 DEF ConsumeRefreshToken, AfterConsume
<1>3. CASE Refuse(t, "INVALID_REFRESH_TOKEN", None)
  BY <1>2, <1>3, RefuseSettles, SettlesLogout
<1>4. CASE /\ Consumable(task[t].claims.jti, now) # {}
           /\ Await(t, "find_user_by_id", task[t])
  <2>1. /\ \A o \in Tasks \ {t} : task'[o] = task[o]
        /\ task'[t].claims = task[t].claims
    BY <1>4, AwaitFlight DEF TypeInv, TypeOK
  <2>2. PICK r \in refresh_tokens : r.jti = task[t].claims.jti
    BY <1>4 DEF Consumable
  <2>3. Session(t)' \notin stored
    BY <1>2, <2>1, <2>2 DEF Session, LogoutInv, LogoutEndsStoredSessions
  <2>4. ASSUME NEW o \in Tasks \ {t}, InFlight(o)'
        PROVE  Session(o)' \notin stored
    BY <1>2, <2>1, <2>4 DEF Session, InFlight, LogoutInv,
                            LogoutEndsStoredSessions
  <2> QED
    BY <1>2, <2>3, <2>4 DEF LogoutInv, LogoutEndsStoredSessions
<1> QED
  BY <1>1, <1>3, <1>4

(* The session of t passes back to a row, or one begins that is new. *)
LEMMA StoreLogout ==
    ASSUME TypeInv, RotationInv, LogoutInv, NEW t \in Tasks,
           StoreRefreshToken(t), stored' = stored
    PROVE  LogoutInv'
<1>1. CASE /\ Refuse(t, "DB_STORE_REFRESH_TOKEN_FAILED", task[t].user.username)
           /\ UNCHANGED <<refresh_tokens, root>>
  BY <1>1, RefuseSettles, SettlesLogout
<1>2. ASSUME NEW jti \in FreeJtis, NEW iat, NEW now, NEW later,
             Stored(t, jti, iat, now, later)
      PROVE  LogoutInv'
  <2> DEFINE row == [jti |-> jti, user_id |-> task[t].user.id,
                     expires_at |-> ExpiresAt(later)]
             session == SessionOf(t, jti)
  <2>1. jti \in Jtis /\ root[jti] = None /\ jti \notin stored
    BY DEF FreeJtis, LogoutInv
  <2>2. /\ refresh_tokens' = refresh_tokens \cup {row} /\ row.jti = jti
        /\ root' = [root EXCEPT ![jti] = session]
        /\ root \in [Jtis -> Jtis \cup {None}]
    BY <1>2 DEF Stored, TypeInv, TypeOK
  <2>3. Settles(t)
    BY <1>2, AnswerSettles DEF Stored
  <2>4. session \notin stored /\ session # None
    <3>1. CASE task[t].claims = None
      BY <2>1, <3>1, NoneAssumption DEF SessionOf
    <3>2. CASE task[t].claims # None
      <4>1. InFlight(t) /\ session = Session(t)
        BY <3>2 DEF SessionOf, InFlight, StoreRefreshToken
      <4> QED
        BY <4>1 DEF LogoutInv, LogoutEndsStoredSessions, RotationInv
    <3> QED
      BY <3>1, <3>2
  <2> HIDE DEF session, row
  <2>5. ASSUME NEW q \in refresh_tokens'
        PROVE  root'[q.jti] \notin stored
    <3>1. CASE q.jti = jti
      BY <2>1, <2>2, <2>4, <3>1
    <3>2. CASE q.jti # jti
      <4>1. q \in refresh_tokens
        BY <2>2, <2>5, <3>2
      <4>2. q.jti \in Jtis
        BY <4>1 DEF TypeInv, TypeOK, RefreshToken
      <4> QED
        BY <2>2, <3>2, <4>1, <4>2 DEF LogoutInv, LogoutEndsStoredSessions
    <3> QED
      BY <3>1, <3>2
  <2>6. ASSUME NEW o \in Tasks, InFlight(o)'
        PROVE  Session(o)' \notin stored
    <3>1. InFlight(o) /\ task'[o] = task[o]
      BY <2>3, <2>6 DEF InFlight, Settles
    <3>2. task[o].claims.jti \in Jtis \ {jti}
      BY <2>1, <3>1 DEF RotationInv, Session, InFlight, TypeInv, DataInv,
                       HasItsData
    <3> QED
      BY <2>2, <3>1, <3>2 DEF Session, LogoutInv, LogoutEndsStoredSessions
  <2>7. ASSUME NEW s \in stored
        PROVE  s \in Jtis /\ root'[s] # None
    BY <2>1, <2>2, <2>4, <2>7 DEF LogoutInv
  <2> QED
    BY <2>5, <2>6, <2>7 DEF LogoutInv, LogoutEndsStoredSessions
<1> QED
  BY <1>1, <1>2, StoreOutcome

(***************************************************************************)
(* The logout itself: no session it finds on file has a second token there *)
(* or in exchange, since rotation does not fork sessions.                  *)
(***************************************************************************)
LEMMA DeleteLogout ==
    ASSUME TypeInv, RotationInv, LogoutInv, NEW t \in Tasks,
           DeleteRefreshTokensForUser(t),
           stored' = stored \cup StoredSessions(t)
    PROVE  LogoutInv'
<1> USE DEF ghosts
<1>1. /\ root' = root
      /\ refresh_tokens' = AfterLogout(task[t].claims)
      /\ Settles(t)
  BY AnswerSettles DEF DeleteRefreshTokensForUser
<1>2. ASSUME NEW r \in refresh_tokens'
      PROVE  root[r.jti] \notin stored'
  <2>1. r \in refresh_tokens /\ r.user_id # task[t].claims.sub
    BY <1>1, <1>2 DEF AfterLogout
  <2>2. root[r.jti] \notin StoredSessions(t)
    BY <2>1 DEF StoredSessions, RotationInv, OneTokenPerSession
  <2> QED
    BY <2>1, <2>2 DEF LogoutInv, LogoutEndsStoredSessions
<1>3. ASSUME NEW o \in Tasks, InFlight(o)'
      PROVE  Session(o)' \notin stored'
  <2>1. InFlight(o) /\ Session(o)' = Session(o)
    BY <1>1, <1>3 DEF InFlight, Settles, Session
  <2>2. Session(o) \notin StoredSessions(t)
    BY <2>1 DEF StoredSessions, RotationInv, OneTokenPerSession
  <2> QED
    BY <2>1, <2>2 DEF LogoutInv, LogoutEndsStoredSessions
<1>4. ASSUME NEW s \in StoredSessions(t)
      PROVE  s \in Jtis /\ root[s] # None
  <2>1. PICK q \in refresh_tokens : s = root[q.jti]
    BY <1>4 DEF StoredSessions
  <2>2. s \in Jtis
    BY <2>1 DEF RotationInv, TypeInv, TypeOK, RefreshToken
  <2>3. root[s] = s
    BY <2>1, <2>2 DEF RotationInv, TypeInv, TypeOK, RefreshToken
  <2> QED
    BY <2>2, <2>3, NoneAssumption
<1> QED
  BY <1>1, <1>2, <1>3, <1>4 DEF LogoutInv, LogoutEndsStoredSessions

(* No other step stores a token, or takes one into exchange. *)
LEMMA OtherCallsLogout ==
    ASSUME TypeInv, LogoutInv, NEW t \in Tasks, stored' = stored,
           CreateUser(t) \/ FindUserByUsername(t) \/ FindUserById(t)
    PROVE  LogoutInv'
<1> USE DEF tables, ghosts
<1>1. ASSUME NEW u, Await(t, "store_refresh_token", [Idle EXCEPT !.user = u])
      PROVE  Settles(t)
  BY <1>1 DEF Await, Settles, TypeInv, TypeOK, Idle
<1>2. CASE CreateUser(t) \/ FindUserByUsername(t)
  <2>1. Settles(t)
    BY <1>1, <1>2, RefuseSettles DEF CreateUser, FindUserByUsername
  <2> QED
    BY <1>2, <2>1, SettlesLogout DEF CreateUser, FindUserByUsername
<1>3. CASE FindUserById(t)
  <2>1. CASE UserNotFound(t, task[t].claims.sub)
    BY <1>3, <2>1, RefuseSettles, SettlesLogout DEF FindUserById, UserNotFound
  <2>2. ASSUME NEW u \in users,
               Await(t, "store_refresh_token", [task[t] EXCEPT !.user = u])
        PROVE  LogoutInv'
    <3>1. [task[t] EXCEPT !.user = u] \in Task
      BY DEF TypeInv, TypeOK, Task
    <3>2. /\ \A o \in Tasks \ {t} : task'[o] = task[o]
          /\ task'[t].claims = task[t].claims
      BY <2>2, <3>1, AwaitFlight DEF TypeInv, TypeOK, Task
    <3>3. InFlight(t)' => InFlight(t)
      BY <1>3, <3>2 DEF FindUserById, InFlight
    <3> QED
      BY <1>3, <3>2, <3>3, QuietLogout DEF FindUserById, InFlight
  <2> QED
    BY <1>3, <2>1, <2>2 DEF FindUserById, UsersById
<1> QED
  BY <1>2, <1>3

-----------------------------------------------------------------------------
(* A session a logout found on file is over: none of its tokens is on file *)
(* again, nor being exchanged, whatever refreshes race with the logout.    *)
THEOREM LogoutIsFinal == HSpec => []LogoutEndsStoredSessions
<1>1. HInit => LogoutInv
  BY DEF HInit, Init, LogoutInv, LogoutEndsStoredSessions
<1>2. TypeInv /\ RotationInv /\ LogoutInv /\ [HNext]_hvars => LogoutInv'
  <2> SUFFICES ASSUME TypeInv, RotationInv, LogoutInv, [HNext]_hvars
               PROVE  LogoutInv'
    OBVIOUS
  <2> USE DEF tables, ghosts, history
  <2>1. ASSUME NEW t \in Tasks, DeleteRefreshTokensForUser(t),
               stored' = stored \cup StoredSessions(t)
        PROVE  LogoutInv'
    BY <2>1, DeleteLogout
  <2>2. ASSUME NEW t \in Tasks, Request(t), UNCHANGED history
        PROVE  LogoutInv'
    <3>1. UNCHANGED <<refresh_tokens, root>>
      BY <2>2 DEF Request, MalformedBody, Register, Login, Refresh, Logout, Me
    <3> QED
      BY <2>2, <3>1, RequestSettles, SettlesLogout
  <2>3. ASSUME NEW t \in Tasks, Fail(t), UNCHANGED history
        PROVE  LogoutInv'
    BY <2>3, RefuseSettles, SettlesLogout DEF Fail
  <2>4. ASSUME NEW t \in Tasks, Reply(t) \/ Drop(t), UNCHANGED history
        PROVE  LogoutInv'
    BY <2>4, EndSettles, SettlesLogout DEF Reply, Drop
  <2>5. ASSUME NEW t \in Tasks, UNCHANGED history,
               \/ CreateUser(t) \/ FindUserByUsername(t) \/ FindUserById(t)
               \/ ConsumeRefreshToken(t) \/ StoreRefreshToken(t)
        PROVE  LogoutInv'
    BY <2>5, OtherCallsLogout, ConsumeLogout, StoreLogout
  <2>6. CASE RemoveUser /\ UNCHANGED history
    BY <2>6, QuietLogout DEF RemoveUser, InFlight
  <2>7. CASE (Tick /\ UNCHANGED history) \/ UNCHANGED hvars
    BY <2>7, QuietLogout DEF Tick, hvars, vars, InFlight
  <2> QED
    BY <2>1, <2>2, <2>3, <2>4, <2>5, <2>6, <2>7 DEF HNext
<1>3. LogoutInv => LogoutEndsStoredSessions
  BY DEF LogoutInv
<1> QED
  BY <1>1, <1>2, <1>3, HistoriesAddNothing, TypeCorrect, RotationInvariant, PTL
     DEF HSpec

=============================================================================

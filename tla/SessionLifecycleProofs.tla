----------------------- MODULE SessionLifecycleProofs -----------------------
(***************************************************************************)
(* AuthSessions implements SessionLifecycle: the tables and the handlers   *)
(* of the code, whatever they do, keep the promise about sessions.         *)
(***************************************************************************)
EXTENDS AuthSessionsProofs

-----------------------------------------------------------------------------
(* What the tables and the handlers stand for.                             *)

AToken == [s \in Jtis |-> TokenOf(s)]
AUsed == {j \in Jtis : root[j] # None}

HasRow(s) == \E r \in refresh_tokens : root[r.jti] = s
HasFlight(s) == \E t \in Tasks : InFlight(t) /\ Session(t) = s

(* By RotationInv a session is in one of four states, never "forked". *)
Represented ==
    \A s \in Jtis :
        /\ root[s] # s => TokenOf(s) = "unborn"
        /\ root[s] = s =>
              /\ \A r \in refresh_tokens : root[r.jti] = s => TokenOf(s) = r.jti
              /\ HasFlight(s) => TokenOf(s) = "rotating"
              /\ ~ HasRow(s) /\ ~ HasFlight(s) => TokenOf(s) = "over"

(* The mapping is well defined... *)
LEMMA Representation == TypeInv /\ RotationInv => Represented
<1> SUFFICES ASSUME TypeInv, RotationInv, NEW s \in Jtis, root[s] = s
             PROVE  /\ \A r \in refresh_tokens : root[r.jti] = s => TokenOf(s) = r.jti
                    /\ HasFlight(s) => TokenOf(s) = "rotating"
                    /\ ~ HasRow(s) /\ ~ HasFlight(s) => TokenOf(s) = "over"
  BY DEF Represented, TokenOf
<1>1. (RotatingBy(s) = {}) = (~ HasFlight(s))
  BY DEF RotatingBy, HasFlight
<1>2. (OnFile(s) = {}) = (~ HasRow(s))
  <2>1. ASSUME HasRow(s) PROVE OnFile(s) # {}
    <3>1. PICK r \in refresh_tokens : root[r.jti] = s
      BY <2>1 DEF HasRow
    <3>2. r.jti \in OnFile(s)
      BY <3>1 DEF OnFile
    <3> QED
      BY <3>2
  <2>2. ASSUME ~ HasRow(s) PROVE OnFile(s) = {}
    BY <2>2 DEF OnFile, HasRow
  <2> QED
    BY <2>1, <2>2
<1>3. ASSUME NEW r \in refresh_tokens, root[r.jti] = s PROVE TokenOf(s) = r.jti
  <2>1. OnFile(s) = {r.jti}
    BY <1>3 DEF OnFile, RotationInv, OneTokenPerSession
  <2>2. ~ HasFlight(s)
    BY <1>3 DEF HasFlight, RotationInv, OneTokenPerSession
  <2>3. (CHOOSE j \in {r.jti} : TRUE) = r.jti
    OBVIOUS
  <2> QED
    BY <1>1, <2>1, <2>2, <2>3 DEF TokenOf
<1>4. ASSUME HasFlight(s) PROVE TokenOf(s) = "rotating"
  <2>1. ~ HasRow(s)
    BY <1>4 DEF HasRow, HasFlight, RotationInv, OneTokenPerSession
  <2> QED
    BY <1>1, <1>2, <1>4, <2>1 DEF TokenOf
<1>5. ~ HasRow(s) /\ ~ HasFlight(s) => TokenOf(s) = "over"
  BY <1>1, <1>2 DEF TokenOf
<1> QED
  BY <1>3, <1>4, <1>5

(* ... before a step and after it. *)
LEMMA RepresentationAfter ==
    TypeInv' /\ RotationInv' => Represented'
BY Representation, PTL

(* What the lemmas below take for granted of a step. *)
Sound ==
    /\ TypeInv /\ RotationInv /\ Represented
    /\ TypeInv' /\ RotationInv' /\ Represented'

(* A session whose name, row and exchange are what they were is what it    *)
(* was.                                                                    *)
LEMMA SameSession ==
    ASSUME Sound, NEW s \in Jtis,
           root'[s] = s <=> root[s] = s,
           HasFlight(s)' <=> HasFlight(s),
           \A r \in refresh_tokens : root[r.jti] = s =>
              r \in refresh_tokens' /\ root'[r.jti] = s,
           \A r \in refresh_tokens' : root'[r.jti] = s => HasRow(s)
    PROVE  TokenOf(s)' = TokenOf(s)
<1>1. CASE root[s] # s
  BY <1>1 DEF Sound, Represented
<1>2. CASE root[s] = s /\ HasRow(s)
  BY <1>2 DEF Sound, Represented, HasRow
<1>3. CASE root[s] = s /\ ~ HasRow(s)
  BY <1>3 DEF Sound, Represented, HasRow
<1> QED
  BY <1>1, <1>2, <1>3

-----------------------------------------------------------------------------
(* The steps.                                                              *)

(* The session of a row, or of a token in exchange, has that name. *)
LEMMA SessionName ==
    ASSUME TypeInv, RotationInv
    PROVE  /\ \A r \in refresh_tokens :
                 /\ r.jti \in Jtis /\ root[r.jti] \in Jtis
                 /\ root[root[r.jti]] = root[r.jti]
           /\ \A t \in Tasks : InFlight(t) =>
                 /\ task[t].claims.jti \in Jtis /\ Session(t) \in Jtis
                 /\ root[Session(t)] = Session(t)
<1>1. \A r \in refresh_tokens : r.jti \in Jtis
  BY DEF TypeInv, TypeOK, RefreshToken
<1>2. \A t \in Tasks : InFlight(t) => task[t].claims.jti \in Jtis
  BY DEF TypeInv, DataInv, HasItsData, InFlight
<1> QED
  BY <1>1, <1>2 DEF RotationInv, Session, TypeInv, TypeOK

(* A step that touches neither the tokens nor those in exchange stutters.  *)
LEMMA Stutter ==
    ASSUME Sound, UNCHANGED <<refresh_tokens, root>>,
           \A t \in Tasks : /\ InFlight(t)' <=> InFlight(t)
                            /\ InFlight(t) => task'[t].claims = task[t].claims
    PROVE  UNCHANGED <<AToken, AUsed>>
<1>1. \A s : HasFlight(s)' <=> HasFlight(s)
  BY DEF HasFlight, Session
<1>2. \A s \in Jtis : TokenOf(s)' = TokenOf(s)
  BY <1>1, SameSession DEF HasRow
<1> QED
  BY <1>2 DEF AToken, AUsed

(* A handler that stops exchanging, or never did: Abandon, or a stutter.   *)
LEMMA AbandonStep ==
    ASSUME Sound, NEW t \in Tasks, Settles(t),
           UNCHANGED <<refresh_tokens, root>>
    PROVE  [Lifecycle!Next]_<<AToken, AUsed>>
<1>1. \A o \in Tasks \ {t} : /\ InFlight(o)' <=> InFlight(o)
                             /\ Session(o)' = Session(o)
                             /\ task'[o].claims = task[o].claims
  BY DEF Settles, InFlight, Session
<1>2. ~ InFlight(t)'
  BY DEF Settles, InFlight
<1>3. CASE ~ InFlight(t)
  BY <1>1, <1>2, <1>3, Stutter
<1>4. CASE InFlight(t)
  <2>1. PICK s \in Jtis : s = Session(t) /\ root[s] = s
    BY <1>4, SessionName DEF Sound
  <2>2. HasFlight(s) /\ TokenOf(s) = "rotating"
    BY <1>4, <2>1 DEF HasFlight, Sound, Represented
  <2>3. ~ HasFlight(s)'
    BY <1>1, <1>2, <1>4, <2>1
       DEF HasFlight, Sound, RotationInv, OneTokenPerSession
  <2>4. ~ HasRow(s)'
    BY <1>4, <2>1 DEF HasRow, Sound, RotationInv, OneTokenPerSession
  <2>5. TokenOf(s)' = "over"
    BY <2>1, <2>3, <2>4 DEF Sound, Represented
  <2>6. ASSUME NEW x \in Jtis \ {s} PROVE TokenOf(x)' = TokenOf(x)
    <3>1. HasFlight(x)' <=> HasFlight(x)
      BY <1>1, <1>2, <2>1, <2>6 DEF HasFlight
    <3> QED
      BY <3>1, SameSession DEF HasRow
  <2>7. AToken' = [AToken EXCEPT ![s] = "over"] /\ AUsed' = AUsed
    BY <2>1, <2>5, <2>6 DEF AToken, AUsed
  <2>8. Lifecycle!Abandon(s)
    BY <2>1, <2>2, <2>7
       DEF Lifecycle!Abandon, Lifecycle!Rotating, Lifecycle!Over, AToken, AUsed
  <2> QED
    BY <2>1, <2>8 DEF Lifecycle!Next
<1> QED
  BY <1>3, <1>4

(* Rows are deleted, by a logout or with their account: End.               *)
LEMMA EndStep ==
    ASSUME Sound, refresh_tokens' \subseteq refresh_tokens, UNCHANGED root,
           \A t \in Tasks : /\ InFlight(t)' <=> InFlight(t)
                            /\ InFlight(t) => task'[t].claims = task[t].claims
    PROVE  Lifecycle!Next
<1> DEFINE S == {root[r.jti] : r \in refresh_tokens \ refresh_tokens'}
<1>1. \A s : HasFlight(s)' <=> HasFlight(s)
  BY DEF HasFlight, Session
<1>2. ASSUME NEW r \in refresh_tokens \ refresh_tokens'
      PROVE  LET s == root[r.jti] IN
             /\ s \in Jtis /\ TokenOf(s) \in Jtis /\ TokenOf(s)' = "over"
  <2> DEFINE s == root[r.jti]
  <2>1. s \in Jtis /\ root[s] = s /\ r.jti \in Jtis
    BY SessionName DEF Sound
  <2>2. TokenOf(s) = r.jti
    BY <2>1 DEF Sound, Represented
  <2>3. ~ HasRow(s)'
    <3>1. \A q \in refresh_tokens : root[q.jti] = s => q = r
      BY DEF Sound, RotationInv, OneTokenPerSession
    <3> QED
      BY <3>1 DEF HasRow
  <2>4. ~ HasFlight(s)'
    <3>1. ~ HasFlight(s)
      BY DEF HasFlight, Sound, RotationInv, OneTokenPerSession
    <3> QED
      BY <1>1, <3>1
  <2>5. TokenOf(s)' = "over"
    BY <2>1, <2>3, <2>4 DEF Sound, Represented
  <2> QED
    BY <2>1, <2>2, <2>5
<1>3. ASSUME NEW x \in Jtis \ S PROVE TokenOf(x)' = TokenOf(x)
  BY <1>1, SameSession DEF HasRow
<1>4. S \subseteq Jtis /\ \A s \in S : TokenOf(s) \in Jtis /\ TokenOf(s)' = "over"
  BY <1>2
<1> HIDE DEF S
<1>5. AToken' = [s \in Jtis |-> IF s \in S THEN "over" ELSE AToken[s]]
  BY <1>3, <1>4 DEF AToken
<1>6. Lifecycle!End(S)
  BY <1>4, <1>5 DEF Lifecycle!End, Lifecycle!Over, AToken
<1> QED
  BY <1>4, <1>6 DEF Lifecycle!Next

(* consume_refresh_token takes the row of the token, and t exchanges it:   *)
(* Spend.                                                                  *)
LEMMA SpendStep ==
    ASSUME Sound, NEW t \in Tasks, NEW now,
           ~ InFlight(t), InFlight(t)', task'[t].claims = task[t].claims,
           \A o \in Tasks \ {t} : task'[o] = task[o],
           Consumable(task[t].claims.jti, now) # {},
           refresh_tokens' = AfterConsume(task[t].claims.jti, now),
           UNCHANGED root
    PROVE  Lifecycle!Next
<1>1. PICK r \in refresh_tokens : /\ r \notin refresh_tokens'
                                 /\ r.jti = task[t].claims.jti
  BY DEF Consumable, AfterConsume
<1>2. PICK s \in Jtis : s = root[r.jti] /\ root[s] = s /\ r.jti \in Jtis
  BY SessionName DEF Sound
<1>3. TokenOf(s) = r.jti
  BY <1>2 DEF Sound, Represented
<1>4. Session(t)' = s
  BY <1>1, <1>2 DEF Session
<1>5. TokenOf(s)' = "rotating"
  BY <1>2, <1>4 DEF HasFlight, Sound, Represented
<1>6. ASSUME NEW x \in Jtis \ {s} PROVE TokenOf(x)' = TokenOf(x)
  <2>1. HasFlight(x)' <=> HasFlight(x)
    BY <1>4, <1>6 DEF HasFlight, InFlight, Session
  <2>2. \A q \in refresh_tokens : root[q.jti] = x => q \in refresh_tokens'
    BY <1>1, <1>2, <1>6 DEF Consumable, AfterConsume
  <2>3. refresh_tokens' \subseteq refresh_tokens
    BY DEF AfterConsume
  <2> QED
    BY <2>1, <2>2, <2>3, SameSession DEF HasRow
<1>7. AToken' = [AToken EXCEPT ![s] = "rotating"] /\ AUsed' = AUsed
  BY <1>5, <1>6 DEF AToken, AUsed
<1>8. Lifecycle!Spend(s)
  BY <1>2, <1>3, <1>7 DEF Lifecycle!Spend, Lifecycle!Rotating, AToken, AUsed
<1> QED
  BY <1>8 DEF Lifecycle!Next

(* store_refresh_token begins a session, or replaces the token of one.     *)
LEMMA StoreStep ==
    ASSUME Sound, NEW t \in Tasks, StoreRefreshToken(t)
    PROVE  [Lifecycle!Next]_<<AToken, AUsed>>
<1>1. CASE /\ Refuse(t, "DB_STORE_REFRESH_TOKEN_FAILED", task[t].user.username)
           /\ UNCHANGED <<refresh_tokens, root>>
  BY <1>1, RefuseSettles, AbandonStep DEF Sound
<1>2. ASSUME NEW jti \in FreeJtis, NEW iat, NEW now, NEW later,
             Stored(t, jti, iat, now, later)
      PROVE  Lifecycle!Next
  <2> DEFINE row == [jti |-> jti, user_id |-> task[t].user.id,
                     expires_at |-> ExpiresAt(later)]
  <2>1. jti \in Jtis /\ root[jti] = None /\ None \notin Jtis
    BY NoneAssumption DEF FreeJtis
  <2>2. PICK session : session = SessionOf(t, jti)
    OBVIOUS
  <2>3. /\ refresh_tokens' = refresh_tokens \cup {row} /\ row.jti = jti
        /\ root' = [root EXCEPT ![jti] = session]
        /\ root \in [Jtis -> Jtis \cup {None}]
        /\ Settles(t) /\ task[t].pc = "store_refresh_token"
    BY <1>2, <2>2, AnswerSettles
       DEF Stored, Sound, TypeInv, TypeOK, StoreRefreshToken
  <2> HIDE DEF row
  <2>4. /\ \A q \in refresh_tokens : q.jti # jti /\ root'[q.jti] = root[q.jti]
        /\ \A o \in Tasks : InFlight(o) => task[o].claims.jti # jti
    BY <2>1, <2>3, SessionName DEF Sound, RotationInv, Session
  <2>5. /\ ~ InFlight(t)'
        /\ \A o \in Tasks \ {t} : /\ InFlight(o)' <=> InFlight(o)
                                  /\ InFlight(o) => Session(o)' = Session(o)
    <3>1. \A o \in Tasks : InFlight(o) =>
             task[o].claims.jti \in Jtis /\ task[o].claims.jti # jti
      BY <2>4, SessionName DEF Sound
    <3> QED
      BY <2>1, <2>3, <3>1 DEF Settles, InFlight, Session
  <2>6. CASE task[t].claims = None
    <3>1. session = jti /\ ~ InFlight(t)
      BY <2>2, <2>6 DEF SessionOf, InFlight
    <3>2. TokenOf(jti)' = jti
      BY <2>1, <2>3, <3>1 DEF Sound, Represented
    <3>3. ASSUME NEW x \in Jtis \ {jti} PROVE TokenOf(x)' = TokenOf(x)
      <4>1. HasFlight(x)' <=> HasFlight(x)
        BY <2>5, <3>1 DEF HasFlight
      <4>2. root'[x] = x <=> root[x] = x
        BY <2>3
      <4>3. \A r \in refresh_tokens' : root'[r.jti] = x => HasRow(x)
        BY <2>1, <2>3, <2>4, <3>1, <3>3 DEF HasRow
      <4> QED
        BY <2>3, <2>4, <4>1, <4>2, <4>3, SameSession
    <3>4. AToken' = [AToken EXCEPT ![jti] = jti] /\ AUsed' = AUsed \cup {jti}
      BY <2>1, <2>3, <3>1, <3>2, <3>3 DEF AToken, AUsed
    <3>5. jti \notin AUsed
      BY <2>1 DEF AUsed
    <3>6. Lifecycle!Begin(jti)
      BY <3>4, <3>5 DEF Lifecycle!Begin, AToken, AUsed
    <3> QED
      BY <2>1, <3>6 DEF Lifecycle!Next
  <2>7. CASE task[t].claims # None
    <3>1. InFlight(t) /\ session = Session(t)
      BY <2>2, <2>3, <2>7 DEF SessionOf, InFlight
    <3>2. session \in Jtis /\ root[session] = session /\ session # jti
      BY <2>1, <3>1, SessionName DEF Sound
    <3>3. TokenOf(session) = "rotating"
      BY <3>1, <3>2 DEF HasFlight, Sound, Represented
    <3>4. TokenOf(session)' = jti
      BY <2>1, <2>3, <3>2 DEF Sound, Represented
    <3>5. ASSUME NEW x \in Jtis \ {session} PROVE TokenOf(x)' = TokenOf(x)
      <4>1. HasFlight(x)' <=> HasFlight(x)
        BY <2>5, <3>1, <3>5 DEF HasFlight
      <4>2. root'[x] = x <=> root[x] = x
        BY <2>1, <2>3, <3>5
      <4>3. \A r \in refresh_tokens' : root'[r.jti] = x => HasRow(x)
        BY <2>1, <2>3, <2>4, <3>5 DEF HasRow
      <4> QED
        BY <2>3, <2>4, <4>1, <4>2, <4>3, SameSession
    <3>6. AToken' = [AToken EXCEPT ![session] = jti] /\ AUsed' = AUsed \cup {jti}
      BY <2>1, <2>3, <3>2, <3>4, <3>5 DEF AToken, AUsed
    <3>7. jti \in Jtis \ AUsed
      BY <2>1 DEF AUsed
    <3>8. Lifecycle!Replace(session)
      BY <3>2, <3>3, <3>6, <3>7
         DEF Lifecycle!Replace, Lifecycle!Rotating, AToken, AUsed
    <3> QED
      BY <3>2, <3>8 DEF Lifecycle!Next
  <2> QED
    BY <2>6, <2>7
<1> QED
  BY <1>1, <1>2, StoreOutcome DEF Sound

(* Every repository call, with the code after it, is a step of a session   *)
(* or none.                                                                *)
LEMMA CallStep ==
    ASSUME Sound, NEW t \in Tasks, Call(t)
    PROVE  [Lifecycle!Next]_<<AToken, AUsed>>
<1> USE DEF tables, ghosts
<1>0. TypeInv /\ task[t] \in Task /\ task \in [Tasks -> Task]
  BY DEF Sound, TypeInv, TypeOK
<1>1. CASE CreateUser(t)
  <2>1. ASSUME NEW u,
               Await(t, "store_refresh_token", [Idle EXCEPT !.user = u])
        PROVE  Settles(t)
    BY <1>0, <2>1 DEF Await, Settles, Idle
  <2>2. Settles(t)
    BY <1>0, <1>1, <2>1, RefuseSettles DEF CreateUser
  <2> QED
    BY <1>1, <2>2, AbandonStep DEF CreateUser
<1>2. CASE FindUserByUsername(t)
  <2>1. ASSUME NEW u,
               Await(t, "store_refresh_token", [Idle EXCEPT !.user = u])
        PROVE  Settles(t)
    BY <1>0, <2>1 DEF Await, Settles, Idle
  <2>2. Settles(t)
    BY <1>0, <1>2, <2>1, RefuseSettles DEF FindUserByUsername
  <2> QED
    BY <1>2, <2>2, AbandonStep DEF FindUserByUsername
<1>3. CASE ConsumeRefreshToken(t)
  <2>1. PICK now \in task[t].since..clock :
           /\ refresh_tokens' = AfterConsume(task[t].claims.jti, now)
           /\ \/ /\ Consumable(task[t].claims.jti, now) = {}
                 /\ Refuse(t, "INVALID_REFRESH_TOKEN", None)
              \/ /\ Consumable(task[t].claims.jti, now) # {}
                 /\ Await(t, "find_user_by_id", task[t])
    BY <1>3 DEF ConsumeRefreshToken
  <2>2. UNCHANGED root /\ task[t].pc = "consume_refresh_token"
    BY <1>3 DEF ConsumeRefreshToken
  <2>3. CASE /\ Consumable(task[t].claims.jti, now) = {}
             /\ Refuse(t, "INVALID_REFRESH_TOKEN", None)
    <3>1. refresh_tokens' = refresh_tokens
      BY <2>1, <2>3 DEF AfterConsume
    <3> QED
      BY <1>0, <2>2, <2>3, <3>1, RefuseSettles, AbandonStep
  <2>4. CASE /\ Consumable(task[t].claims.jti, now) # {}
             /\ Await(t, "find_user_by_id", task[t])
    <3>1. /\ \A o \in Tasks \ {t} : task'[o] = task[o]
          /\ task'[t].pc = "find_user_by_id" /\ task'[t].claims = task[t].claims
      BY <1>0, <2>4, AwaitFlight
    <3>2. task[t].claims # None
      BY <2>2, NoneAssumption DEF Sound, TypeInv, DataInv, HasItsData
    <3>3. ~ InFlight(t) /\ InFlight(t)'
      BY <2>2, <3>1, <3>2 DEF InFlight
    <3> QED
      BY <2>1, <2>2, <2>4, <3>1, <3>3, SpendStep
  <2> QED
    BY <2>1, <2>3, <2>4
<1>4. CASE FindUserById(t)
  <2>0. UNCHANGED <<refresh_tokens, root>> /\ task[t].pc = "find_user_by_id"
    BY <1>4 DEF FindUserById
  <2>1. CASE UserNotFound(t, task[t].claims.sub)
    BY <1>0, <2>0, <2>1, RefuseSettles, AbandonStep DEF UserNotFound
  <2>2. ASSUME NEW u \in users,
               Await(t, "store_refresh_token", [task[t] EXCEPT !.user = u])
        PROVE  UNCHANGED <<AToken, AUsed>>
    <3> DEFINE fields == [task[t] EXCEPT !.user = u]
    <3>1. fields \in Task /\ fields.claims = task[t].claims
      BY <1>0 DEF TypeInv, TypeOK, Task
    <3>2. /\ \A o \in Tasks \ {t} : task'[o] = task[o]
          /\ task'[t].pc = "store_refresh_token"
          /\ task'[t].claims = task[t].claims
      BY <1>0, <2>2, <3>1, AwaitFlight
    <3> QED
      BY <2>0, <3>2, Stutter DEF InFlight
  <2> QED
    BY <1>4, <2>1, <2>2 DEF FindUserById, UsersById
<1>5. CASE StoreRefreshToken(t)
  BY <1>5, StoreStep
<1>6. CASE DeleteRefreshTokensForUser(t)
  <2>1. /\ Settles(t) /\ ~ InFlight(t) /\ UNCHANGED root
        /\ refresh_tokens' \subseteq refresh_tokens
    BY <1>0, <1>6, AnswerSettles
       DEF DeleteRefreshTokensForUser, AfterLogout, InFlight
  <2> QED
    BY <2>1, EndStep DEF Settles, InFlight
<1> QED
  BY <1>1, <1>2, <1>3, <1>4, <1>5, <1>6 DEF Call

-----------------------------------------------------------------------------
(* No interleaving of refresh, logout, failures and crashes forks or       *)
(* revives a session or puts a spent token back on file: the handlers of   *)
(* http.rs over the tables of db/auth.rs implement SessionLifecycle.       *)
THEOREM Implementation == Spec => ImplementsLifecycle
<1>1. Init => Lifecycle!Init
  <2> SUFFICES ASSUME Init PROVE Lifecycle!Init
    OBVIOUS
  <2>1. \A s \in Jtis : root[s] = None /\ TokenOf(s) = "unborn"
    BY NoneAssumption DEF Init, TokenOf
  <2> QED
    BY <2>1 DEF Lifecycle!Init, Lifecycle!Unborn
<1>2. Sound /\ [Next]_vars => [Lifecycle!Next]_<<AToken, AUsed>>
  <2> SUFFICES ASSUME Sound, [Next]_vars
               PROVE  [Lifecycle!Next]_<<AToken, AUsed>>
    OBVIOUS
  <2> USE DEF tables, ghosts
  <2>1. ASSUME NEW t \in Tasks, Request(t)
        PROVE  [Lifecycle!Next]_<<AToken, AUsed>>
    <3>1. UNCHANGED <<refresh_tokens, root>>
      BY <2>1 DEF Request, MalformedBody, Register, Login, Refresh, Logout, Me
    <3> QED
      BY <2>1, <3>1, RequestSettles, AbandonStep DEF Sound
  <2>2. ASSUME NEW t \in Tasks, Fail(t)
        PROVE  [Lifecycle!Next]_<<AToken, AUsed>>
    BY <2>2, RefuseSettles, AbandonStep DEF Fail, Sound
  <2>3. ASSUME NEW t \in Tasks, Reply(t) \/ Drop(t)
        PROVE  [Lifecycle!Next]_<<AToken, AUsed>>
    BY <2>3, EndSettles, AbandonStep DEF Reply, Drop, Sound
  <2>4. CASE RemoveUser
    BY <2>4, EndStep DEF RemoveUser, InFlight
  <2>5. CASE Tick \/ UNCHANGED vars
    BY <2>5, Stutter DEF Tick, vars, InFlight
  <2> QED
    BY <2>1, <2>2, <2>3, <2>4, <2>5, CallStep DEF Next
<1>3. TypeInv /\ RotationInv /\ TypeInv' /\ RotationInv' => Sound
  BY Representation, RepresentationAfter DEF Sound
<1>4. Spec => [][Lifecycle!Next]_<<AToken, AUsed>>
  BY <1>2, <1>3, TypeCorrect, RotationInvariant, PTL DEF Spec
<1> QED
  BY <1>1, <1>4, PTL
     DEF ImplementsLifecycle, Lifecycle!Spec, Spec, AToken, AUsed

=============================================================================

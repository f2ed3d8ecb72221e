--------------------------- MODULE LogoutHistory ---------------------------
(***************************************************************************)
(* AuthSessions with two history variables: the sessions a logout has met. *)
(* They do not restrict the service: every step of AuthSessions is a step  *)
(* here, and only the DELETE of a logout that succeeds changes them.       *)
(***************************************************************************)
EXTENDS AuthSessions

VARIABLES
    stored,    \* sessions with a token on file when a logout of theirs ran
    exchanged  \* sessions whose token was being exchanged when it ran

history == <<stored, exchanged>>
hvars == <<vars, history>>

(* Sessions of the account whose refresh token the logout t was given. *)
StoredSessions(t) ==
    {root[r.jti] : r \in {q \in refresh_tokens :
                             q.user_id = task[t].claims.sub}}

ExchangedSessions(t) ==
    {Session(o) : o \in {p \in Tasks : InFlight(p) /\
                             task[p].claims.sub = task[t].claims.sub}}

HInit == Init /\ stored = {} /\ exchanged = {}

HNext ==
    \/ \E t \in Tasks :
          /\ DeleteRefreshTokensForUser(t)
          /\ stored' = stored \cup StoredSessions(t)
          /\ exchanged' = exchanged \cup ExchangedSessions(t)
    \/ /\ \/ \E t \in Tasks :
                \/ Request(t) \/ Fail(t) \/ Reply(t) \/ Drop(t)
                \/ CreateUser(t) \/ FindUserByUsername(t)
                \/ ConsumeRefreshToken(t) \/ FindUserById(t)
                \/ StoreRefreshToken(t)
          \/ RemoveUser
          \/ Tick
       /\ UNCHANGED history

HSpec == HInit /\ [][HNext]_hvars

(***************************************************************************)
(* A session that had a token on file when its user logged out never has   *)
(* one again, nor is one being issued for it: the DELETE takes the tokens  *)
(* of all the user's sessions, and the token the logout presented need not *)
(* be on file for that.                                                    *)
(***************************************************************************)
LogoutEndsStoredSessions ==
    /\ \A r \in refresh_tokens : root[r.jti] \notin stored
    /\ \A t \in Tasks : InFlight(t) => Session(t) \notin stored

(***************************************************************************)
(* The whole of what the README and the handler's comment say of logout    *)
(* ("Revoke all refresh tokens for the user"): also a session whose token  *)
(* was being exchanged has none on file afterwards.                        *)
(***************************************************************************)
LogoutEndsSessions ==
    \A r \in refresh_tokens : root[r.jti] \notin stored \cup exchanged

=============================================================================

------------------------------ MODULE Profiles ------------------------------
(***************************************************************************)
(* The consumer template: GET /user finds or creates the profile of the    *)
(* user its access token names (src/consumer/src/lib.rs and db/mod.rs).    *)
(* The table is in the consumer's own database: deleting an account does   *)
(* not touch it.  As in AuthSessions, a handler stops at every await, one  *)
(* SQL statement is one action, and its future may be dropped there.       *)
(***************************************************************************)
EXTENDS Integers, ServirErrors

CONSTANTS
    Tasks,    \* request handlers that can be running at one time
    UserIds,  \* subjects of valid access tokens
    None,     \* no value
    MaxTime   \* bound of the clock

ASSUME ProfilesAssumption ==
    None \notin UserIds /\ MaxTime \in Nat

VARIABLES
    user_profiles,  \* table user_profiles
    clock,          \* seconds since the epoch
    task,           \* the handlers
    returned        \* history: what find_or_create_profile has returned

vars == <<user_profiles, clock, task, returned>>

(* username is a function of id: it is copied from the claims. *)
UserProfile == [id : UserIds, created_at : 0..MaxTime]

ASSUME NoProfileAssumption == None \notin UserProfile

Task ==
    [pc       : {"idle", "find", "insert", "reply"},
     sub      : UserIds \cup {None},
     since    : 0..MaxTime,  \* when the SELECT returned
     error_id : ServirError \cup {"OK", None},
     profile  : UserProfile \cup {None},
     faulted  : BOOLEAN,     \* history: the database failed the request
     retry    : BOOLEAN]     \* history: it began when a call had returned

(* Of a call for the user sub that the database did not fail. *)
Result ==
    [sub : UserIds, error_id : {"OK", "DB_UNKNOWN"},
     profile : UserProfile \cup {None}]

Idle ==
    [pc |-> "idle", sub |-> None, since |-> 0, error_id |-> None,
     profile |-> None, faulted |-> FALSE, retry |-> FALSE]

ProfilesOf(sub) == {p \in user_profiles : p.id = sub}

(* Of the profile, the body shows id and username, not created_at. *)
Answer(t, error_id, profile) ==
    task' = [task EXCEPT ![t].pc = "reply", ![t].since = 0,
                         ![t].error_id = error_id, ![t].profile = profile]

(* What find_or_create_profile returns when no statement of it failed. *)
Return(t, error_id, profile) ==
    /\ Answer(t, error_id, profile)
    /\ returned' = returned \cup {[sub |-> task[t].sub, error_id |-> error_id,
                                   profile |-> profile]}

-----------------------------------------------------------------------------
(* The AuthUser extractor accepts the token, or refuses it before the      *)
(* handler runs: which, is the subject of AuthSessions.                    *)
GetUser(t) ==
    /\ task[t].pc = "idle"
    /\ \/ \E sub \in UserIds :
             task' = [task EXCEPT ![t] =
                         [Idle EXCEPT !.pc = "find", !.sub = sub,
                                      !.retry = \E r \in returned : r.sub = sub]]
       \/ \E e \in {"MISSING_AUTHORIZATION_HEADER", "TOKEN_INVALID",
                    "TOKEN_EXPIRED", "WRONG_TOKEN_KIND"} : Answer(t, e, None)
    /\ UNCHANGED <<user_profiles, clock, returned>>

FindProfile(t) ==
    /\ task[t].pc = "find"
    /\ \/ \E p \in ProfilesOf(task[t].sub) : Return(t, "OK", p)
       \/ /\ ProfilesOf(task[t].sub) = {}
          /\ task' = [task EXCEPT ![t].pc = "insert", ![t].since = clock]
          /\ UNCHANGED returned
    /\ UNCHANGED <<user_profiles, clock>>

(* PRIMARY KEY (id): an INSERT for a user who has a profile fails.  The    *)
(* faulty variants of Conflict are INSERT OR IGNORE and INSERT OR REPLACE, *)
(* with what was made up returned all the same.                            *)
CanInsert(sub) == ProfilesOf(sub) = {}

FaultyIgnore(t, p) == Return(t, "OK", p) /\ UNCHANGED user_profiles
FaultyReplace(t, p) ==
    /\ user_profiles' = (user_profiles \ ProfilesOf(p.id)) \cup {p}
    /\ Return(t, "OK", p)
Conflict(t, p) == Return(t, "DB_UNKNOWN", None) /\ UNCHANGED user_profiles

(* as_secs(); in milliseconds, no test would tell. *)
FaultyCreatedAt(now) == now * 1000
CreatedAt(now) == now

(* created_at is read between the SELECT and the INSERT. *)
InsertProfile(t) ==
    /\ task[t].pc = "insert"
    /\ \E now \in task[t].since..clock :
          LET p == [id |-> task[t].sub, created_at |-> CreatedAt(now)] IN
          \/ /\ CanInsert(p.id)
             /\ user_profiles' = user_profiles \cup {p}
             /\ Return(t, "OK", p)
          \/ ~ CanInsert(p.id) /\ Conflict(t, p)
    /\ UNCHANGED clock

(* Either statement fails: DbError::unknown. *)
Fail(t) ==
    /\ task[t].pc \in {"find", "insert"}
    /\ task' = [task EXCEPT ![t].pc = "reply", ![t].since = 0,
                            ![t].error_id = "DB_UNKNOWN", ![t].faulted = TRUE]
    /\ UNCHANGED <<user_profiles, clock, returned>>

(* The answer is sent; or the future is dropped, wherever it is. *)
End(t) ==
    /\ task[t].pc # "idle"
    /\ task' = [task EXCEPT ![t] = Idle]
    /\ UNCHANGED <<user_profiles, clock, returned>>

Tick ==
    /\ clock < MaxTime
    /\ clock' = clock + 1
    /\ UNCHANGED <<user_profiles, task, returned>>

Init ==
    /\ user_profiles = {}
    /\ clock = 0
    /\ task = [t \in Tasks |-> Idle]
    /\ returned = {}

Next ==
    \/ \E t \in Tasks :
          GetUser(t) \/ FindProfile(t) \/ InsertProfile(t) \/ Fail(t) \/ End(t)
    \/ Tick

Spec == Init /\ [][Next]_vars

-----------------------------------------------------------------------------
(* The table, the clock and the handlers have their types. *)
TypeOK ==
    /\ user_profiles \subseteq UserProfile
    /\ clock \in 0..MaxTime
    /\ task \in [Tasks -> Task]
    /\ returned \subseteq Result

(***************************************************************************)
(* find_or_create_profile only ever returns the one profile that is on     *)
(* file: of the requests that race to create it, only the one whose row    *)
(* was inserted returns what it made up.                                   *)
(***************************************************************************)
AnswersShowTheStoredProfile ==
    \A t \in Tasks :
        task[t].pc = "reply" /\ task[t].error_id = "OK" =>
            ProfilesOf(task[t].sub) = {task[t].profile}

(***************************************************************************)
(* Whatever has raced, failed or been dropped before: once a call for a    *)
(* user has returned, the loser's DB_UNKNOWN included, every request that  *)
(* begins later is answered OK unless the database fails it, and no two    *)
(* calls ever return different profiles of one user.  So the refused user  *)
(* need only ask again, and gets what the others were shown.               *)
(***************************************************************************)
LaterRequestsAgree ==
    \A t \in Tasks :
        LET r == task[t] IN
        r.pc = "reply" /\ r.sub # None /\ ~ r.faulted =>
            /\ r.retry => r.error_id = "OK"
            /\ r.error_id = "OK" =>
                  \A q \in returned :
                      q.sub = r.sub /\ q.error_id = "OK" => q.profile = r.profile

(***************************************************************************)
(* What the handler's comment says ("creating it on first access",         *)
(* src/consumer/src/lib.rs:21): the profile is found or created, and no    *)
(* request is answered with an internal error while the database works.    *)
(***************************************************************************)
FirstAccessCreates ==
    \A t \in Tasks :
        task[t].pc = "reply" /\ ~ task[t].faulted
            => ~ IsServerError(task[t].error_id)

=============================================================================

--------------------------- MODULE ProfilesProofs ---------------------------
(***************************************************************************)
(* Theorems of Profiles, for any number of handlers and users and any      *)
(* bound of the clock.                                                     *)
(***************************************************************************)
EXTENDS Profiles, TLAPS

(* The primary key: a user has one profile at most. *)
OneProfile == \A p, q \in user_profiles : p.id = q.id => p = q

(* Whoever a call has returned for has a profile, and if it returned one   *)
(* that is the one.                                                        *)
Recorded(q) ==
    /\ ProfilesOf(q.sub) # {}
    /\ q.error_id = "OK" => ProfilesOf(q.sub) = {q.profile}

(* What a handler has seen or done by where it is: one that retries finds  *)
(* the profile, and does not come to the INSERT.                           *)
Honest(r) ==
    /\ r.pc = "idle" => ~ r.retry
    /\ r.pc \in {"find", "insert"} => r.sub \in UserIds
    /\ r.pc = "reply" /\ r.error_id = "OK" => ProfilesOf(r.sub) = {r.profile}
    /\ r.retry => /\ ProfilesOf(r.sub) # {} /\ r.pc # "insert"
                  /\ r.pc = "reply" => r.faulted \/ r.error_id = "OK"

(* The inductive invariant. *)
ProfilesInv ==
    /\ TypeOK
    /\ OneProfile
    /\ \A q \in returned : Recorded(q)
    /\ \A t \in Tasks : Honest(task[t])

-----------------------------------------------------------------------------
(* The errors a handler answers with are errors of error.rs. *)
LEMMA ErrorType ==
    {"MISSING_AUTHORIZATION_HEADER", "TOKEN_INVALID", "TOKEN_EXPIRED",
     "WRONG_TOKEN_KIND", "DB_UNKNOWN"} \subseteq ServirError
BY DEF ServirError, AuthTokenError, DbError

(* The clock starts within its bound. *)
LEMMA StartOfTime == 0 \in 0..MaxTime
BY ProfilesAssumption

(* A step of one handler that leaves the table alone keeps the invariant   *)
(* if what becomes of the handler does, and what it returns is on file.    *)
LEMMA TaskStep ==
    ASSUME ProfilesInv, NEW t \in Tasks, NEW r \in Task,
           task' = [task EXCEPT ![t] = r], UNCHANGED <<user_profiles, clock>>,
           Honest(r),
           \A q \in returned' \ returned : q \in Result /\ Recorded(q)
    PROVE  ProfilesInv'
<1>1. /\ task' \in [Tasks -> Task] /\ task'[t] = r
      /\ \A o \in Tasks \ {t} : task'[o] = task[o]
  BY DEF ProfilesInv, TypeOK
<1>2. TypeOK' /\ OneProfile'
  BY <1>1 DEF ProfilesInv, TypeOK, OneProfile
<1>3. \A sub : ProfilesOf(sub)' = ProfilesOf(sub)
  BY DEF ProfilesOf
<1>4. \A q \in returned' : Recorded(q)'
  BY <1>3 DEF ProfilesInv, Recorded
<1>5. \A o \in Tasks : Honest(task[o])'
  BY <1>1, <1>3 DEF ProfilesInv, Honest
<1> QED
  BY <1>2, <1>4, <1>5 DEF ProfilesInv

(* A step that returns nothing. *)
LEMMA QuietStep ==
    ASSUME ProfilesInv, NEW t \in Tasks, NEW r \in Task,
           task' = [task EXCEPT ![t] = r],
           UNCHANGED <<user_profiles, clock, returned>>, Honest(r)
    PROVE  ProfilesInv'
BY TaskStep

(* A refusal of the extractor, which no property is about. *)
LEMMA RefusalStep ==
    ASSUME ProfilesInv, NEW t \in Tasks, task[t].pc = "idle",
           NEW e \in {"MISSING_AUTHORIZATION_HEADER", "TOKEN_INVALID",
                      "TOKEN_EXPIRED", "WRONG_TOKEN_KIND"},
           Answer(t, e, None), UNCHANGED <<user_profiles, clock, returned>>
    PROVE  ProfilesInv'
<1> DEFINE n == [task[t] EXCEPT !.pc = "reply", !.since = 0, !.error_id = e,
                                !.profile = None]
<1>1. task[t] \in Task /\ task \in [Tasks -> Task] /\ task[t].retry = FALSE
  BY DEF ProfilesInv, TypeOK, Honest, Task
<1>2. n \in Task /\ Honest(n)
  BY <1>1, ErrorType, StartOfTime DEF Task, Honest
<1>3. task' = [task EXCEPT ![t] = n]
  BY <1>1 DEF Answer
<1> HIDE DEF n
<1> QED
  BY <1>2, <1>3, QuietStep

(* A request arrives: if a call has returned for its user before, there is *)
(* a profile.                                                              *)
LEMMA GetUserStep ==
    ASSUME ProfilesInv, NEW t \in Tasks, GetUser(t)
    PROVE  ProfilesInv'
<1>1. ASSUME NEW sub \in UserIds,
             task' = [task EXCEPT ![t] =
                         [Idle EXCEPT !.pc = "find", !.sub = sub,
                                      !.retry = \E q \in returned : q.sub = sub]]
      PROVE  ProfilesInv'
  <2> DEFINE again == \E q \in returned : q.sub = sub
             n == [Idle EXCEPT !.pc = "find", !.sub = sub, !.retry = again]
  <2>1. again \in BOOLEAN /\ (again => ProfilesOf(sub) # {})
    BY DEF ProfilesInv, Recorded
  <2>2. task' = [task EXCEPT ![t] = n]
    BY <1>1
  <2> HIDE DEF again
  <2>3. n \in Task /\ Honest(n)
    BY <2>1, StartOfTime DEF Idle, Task, Honest
  <2>4. UNCHANGED <<user_profiles, clock, returned>>
    BY DEF GetUser
  <2> HIDE DEF n
  <2> QED
    BY <2>2, <2>3, <2>4, QuietStep
<1> QED
  BY <1>1, RefusalStep DEF GetUser

(* The SELECT returns the one profile of the user, or none. *)
LEMMA FindStep ==
    ASSUME ProfilesInv, NEW t \in Tasks, FindProfile(t)
    PROVE  ProfilesInv'
<1> DEFINE r == task[t]
<1>0. /\ r \in Task /\ r.pc = "find" /\ r.sub \in UserIds
      /\ task \in [Tasks -> Task] /\ clock \in 0..MaxTime
      /\ user_profiles \subseteq UserProfile /\ UNCHANGED <<user_profiles, clock>>
      /\ r.retry => ProfilesOf(r.sub) # {}
  BY DEF FindProfile, ProfilesInv, TypeOK, Honest
<1>1. ASSUME NEW p \in ProfilesOf(r.sub), Return(t, "OK", p)
      PROVE  ProfilesInv'
  <2> DEFINE n == [r EXCEPT !.pc = "reply", !.since = 0, !.error_id = "OK",
                            !.profile = p]
             q == [sub |-> r.sub, error_id |-> "OK", profile |-> p]
  <2>1. p \in UserProfile /\ ProfilesOf(r.sub) = {p}
    BY <1>0 DEF ProfilesOf, ProfilesInv, OneProfile
  <2>2. n \in Task
    BY <1>0, <2>1, StartOfTime DEF Task
  <2>3. Honest(n)
    BY <1>0, <2>1 DEF Task, Honest
  <2>4. task' = [task EXCEPT ![t] = n] /\ returned' = returned \cup {q}
    BY <1>0, <1>1 DEF Return, Answer
  <2>5. q \in Result /\ Recorded(q)
    BY <1>0, <2>1 DEF Result, Recorded
  <2> HIDE DEF n, q
  <2> QED
    BY <1>0, <2>2, <2>3, <2>4, <2>5, TaskStep
<1>2. CASE /\ ProfilesOf(r.sub) = {}
           /\ task' = [task EXCEPT ![t].pc = "insert", ![t].since = clock]
           /\ UNCHANGED returned
  <2> DEFINE n == [r EXCEPT !.pc = "insert", !.since = clock]
  <2>1. n \in Task /\ Honest(n)
    BY <1>0, <1>2 DEF Task, Honest
  <2>2. task' = [task EXCEPT ![t] = n]
    BY <1>0, <1>2
  <2> HIDE DEF n
  <2> QED
    BY <1>0, <1>2, <2>1, <2>2, QuietStep
<1> QED
  BY <1>1, <1>2 DEF FindProfile

(* The INSERT adds the only profile of its user, and no call has returned  *)
(* another, nor any profile of theirs.                                     *)
LEMMA CreatedStep ==
    ASSUME ProfilesInv, NEW t \in Tasks, NEW p \in UserProfile,
           task[t].pc = "insert", p.id = task[t].sub, ProfilesOf(p.id) = {},
           user_profiles' = user_profiles \cup {p}, UNCHANGED clock,
           Return(t, "OK", p)
    PROVE  ProfilesInv'
<1> DEFINE n == [task[t] EXCEPT !.pc = "reply", !.since = 0, !.error_id = "OK",
                                !.profile = p]
           q == [sub |-> p.id, error_id |-> "OK", profile |-> p]
<1>0. task[t] \in Task /\ task \in [Tasks -> Task] /\ p.id \in UserIds
  BY DEF ProfilesInv, TypeOK, UserProfile
<1>1. n \in Task /\ n.pc = "reply" /\ n.error_id = "OK" /\ n.profile = p
      /\ n.sub = p.id
  BY <1>0, StartOfTime DEF Task
<1>2. task' = [task EXCEPT ![t] = n] /\ returned' = returned \cup {q}
  BY <1>0 DEF Return, Answer
<1>3. /\ task' \in [Tasks -> Task] /\ task'[t] = n
      /\ \A o \in Tasks \ {t} : task'[o] = task[o]
  BY <1>0, <1>1, <1>2
<1>4. TypeOK' /\ OneProfile'
  <2>1. q \in Result
    BY <1>0 DEF Result
  <2> QED
    BY <1>2, <1>3, <2>1 DEF ProfilesInv, TypeOK, OneProfile, ProfilesOf
<1>5. /\ ProfilesOf(p.id)' = {p}
      /\ \A sub : sub # p.id => ProfilesOf(sub)' = ProfilesOf(sub)
  BY DEF ProfilesOf
<1>6. Honest(task[t])'
  BY <1>1, <1>3, <1>5 DEF Honest
<1>7. ASSUME NEW o \in Tasks \ {t} PROVE Honest(task[o])'
  BY <1>3, <1>5 DEF ProfilesInv, Honest
<1>8. ASSUME NEW x \in returned' PROVE Recorded(x)'
  <2>1. CASE x = q
    BY <1>5, <2>1 DEF Recorded
  <2>2. CASE x \in returned
    BY <1>5, <2>2 DEF ProfilesInv, Recorded
  <2> QED
    BY <1>2, <2>1, <2>2
<1> QED
  BY <1>4, <1>6, <1>7, <1>8 DEF ProfilesInv

(* A request that loses the race finds a profile on file. *)
LEMMA InsertStep ==
    ASSUME ProfilesInv, NEW t \in Tasks, InsertProfile(t)
    PROVE  ProfilesInv'
<1> DEFINE r == task[t]
           row(now) == [id |-> r.sub, created_at |-> CreatedAt(now)]
<1>0. /\ r \in Task /\ r.pc = "insert" /\ r.sub \in UserIds /\ ~ r.retry
      /\ task \in [Tasks -> Task] /\ clock \in 0..MaxTime /\ clock' = clock
  BY DEF InsertProfile, ProfilesInv, TypeOK, Honest
<1>1. PICK now \in r.since..clock :
         \/ /\ CanInsert(r.sub)
            /\ user_profiles' = user_profiles \cup {row(now)}
            /\ Return(t, "OK", row(now))
         \/ ~ CanInsert(r.sub) /\ Conflict(t, row(now))
  BY DEF InsertProfile
<1>2. row(now) \in UserProfile /\ row(now).id = r.sub
  BY <1>0, ProfilesAssumption DEF UserProfile, CreatedAt, Task
<1>3. CASE /\ CanInsert(r.sub)
           /\ user_profiles' = user_profiles \cup {row(now)}
           /\ Return(t, "OK", row(now))
  <2> HIDE DEF row
  <2> QED
    BY <1>0, <1>2, <1>3, CreatedStep DEF CanInsert
<1>4. CASE ~ CanInsert(r.sub) /\ Conflict(t, row(now))
  <2> DEFINE n == [r EXCEPT !.pc = "reply", !.since = 0,
                            !.error_id = "DB_UNKNOWN", !.profile = None]
             q == [sub |-> r.sub, error_id |-> "DB_UNKNOWN", profile |-> None]
  <2>1. n \in Task
    BY <1>0, ErrorType, StartOfTime DEF Task
  <2>2. Honest(n)
    BY <1>0 DEF Task, Honest
  <2>3. /\ task' = [task EXCEPT ![t] = n] /\ returned' = returned \cup {q}
        /\ UNCHANGED user_profiles
    BY <1>0, <1>4 DEF Conflict, Return, Answer
  <2>4. q \in Result /\ Recorded(q)
    BY <1>0, <1>4 DEF Result, Recorded, CanInsert
  <2> HIDE DEF n, q
  <2> QED
    BY <1>0, <2>1, <2>2, <2>3, <2>4, TaskStep
<1> QED
  BY <1>1, <1>3, <1>4

-----------------------------------------------------------------------------
(* Requests that race, fail or are dropped keep the inductive invariant of *)
(* find_or_create_profile.                                                 *)
THEOREM ProfilesInvariant == Spec => []ProfilesInv
<1>0. Idle \in Task /\ Honest(Idle)
  BY StartOfTime DEF Idle, Task, Honest
<1>1. Init => ProfilesInv
  BY <1>0, ProfilesAssumption DEF Init, ProfilesInv, TypeOK, OneProfile
<1>2. ProfilesInv /\ [Next]_vars => ProfilesInv'
  <2> SUFFICES ASSUME ProfilesInv, [Next]_vars PROVE ProfilesInv'
    OBVIOUS
  <2>1. ASSUME NEW t \in Tasks, Fail(t) PROVE ProfilesInv'
    <3> DEFINE n == [task[t] EXCEPT !.pc = "reply", !.since = 0,
                                    !.error_id = "DB_UNKNOWN", !.faulted = TRUE]
    <3>1. task[t] \in Task /\ task \in [Tasks -> Task] /\ Honest(task[t])
      BY DEF ProfilesInv, TypeOK
    <3>2. n \in Task /\ Honest(n)
      BY <3>1, ErrorType, StartOfTime DEF Task, Honest
    <3>3. /\ task' = [task EXCEPT ![t] = n]
          /\ UNCHANGED <<user_profiles, clock, returned>>
      BY <2>1, <3>1 DEF Fail
    <3> HIDE DEF n
    <3> QED
      BY <3>2, <3>3, QuietStep
  <2>2. ASSUME NEW t \in Tasks, End(t) PROVE ProfilesInv'
    BY <1>0, <2>2, QuietStep DEF End
  <2>3. CASE Tick
    BY <2>3, ProfilesAssumption
       DEF Tick, ProfilesInv, TypeOK, OneProfile, Honest, Recorded, ProfilesOf
  <2>4. CASE UNCHANGED vars
    BY <2>4 DEF vars, ProfilesInv, TypeOK, OneProfile, Honest, Recorded,
                ProfilesOf
  <2> QED
    BY <2>1, <2>2, <2>3, <2>4, GetUserStep, FindStep, InsertStep DEF Next
<1> QED
  BY <1>1, <1>2, PTL DEF Spec

(* The table, the clock and the handlers have their types. *)
THEOREM ProfileTypes == Spec => []TypeOK
<1>1. ProfilesInv => TypeOK
  BY DEF ProfilesInv
<1> QED
  BY <1>1, ProfilesInvariant, PTL

(* GET /user only ever answers with the one profile that is on file. *)
THEOREM StoredProfileShown == Spec => []AnswersShowTheStoredProfile
<1>1. ProfilesInv => AnswersShowTheStoredProfile
  BY DEF ProfilesInv, Honest, AnswersShowTheStoredProfile
<1> QED
  BY <1>1, ProfilesInvariant, PTL

(* Once find_or_create_profile has returned for a user, every later GET    *)
(* /user that the database does not fail is answered OK, and no two of its *)
(* calls return different profiles of one user.                            *)
THEOREM LaterRequestsFindIt == Spec => []LaterRequestsAgree
<1>1. ProfilesInv => LaterRequestsAgree
  <2> SUFFICES ASSUME ProfilesInv, NEW t \in Tasks, task[t].pc = "reply",
                      ~ task[t].faulted
               PROVE  /\ task[t].retry => task[t].error_id = "OK"
                      /\ task[t].error_id = "OK" =>
                            \A q \in returned :
                               q.sub = task[t].sub /\ q.error_id = "OK"
                                  => q.profile = task[t].profile
    BY DEF LaterRequestsAgree
  <2> QED
    BY DEF ProfilesInv, Honest, Recorded
<1> QED
  BY <1>1, ProfilesInvariant, PTL

=============================================================================

------------------------ MODULE PooledSessionsProofs ------------------------
(***************************************************************************)
(* Theorems of PooledSessions, for any number of handlers and connections: *)
(* the pool only delays the service, and loses none of its connections.    *)
(***************************************************************************)
EXTENDS PooledSessions, AuthSessionsProofs, FiniteSetTheorems, SequenceTheorems

(* Behind the pool, the service takes no step it would not take without    *)
(* one, so that the theorems about it hold here, too.                      *)
THEOREM PoolOnlyDelays == PSpec => Spec
<1>1. PInit => Init
  BY DEF PInit
<1>2. [PNext]_pvars => [Next]_vars
  BY DEF PNext, pvars, Next, Arrive, Acquire, Execute, CallFails, Answered,
         Dropped
<1> QED
  BY <1>1, <1>2, PTL DEF PSpec, Spec

-----------------------------------------------------------------------------
(* Queues in which nobody waits twice.                                     *)

(* Such a queue is as long as the set of those that wait in it, *)
LEMMA InjectiveLength ==
    ASSUME NEW S, NEW q \in Seq(S), IsInjective(q)
    PROVE  Len(q) = Cardinality(Range(q))
<1>1. q \in [1..Len(q) -> Range(q)] /\ Len(q) \in Nat
  BY DEF Range
<1>2. q \in Injection(1..Len(q), Range(q))
  BY <1>1 DEF Injection
<1>3. q \in Surjection(1..Len(q), Range(q))
  BY <1>1 DEF Surjection, Range
<1>4. ExistsBijection(1..Len(q), Range(q))
  BY <1>2, <1>3 DEF Bijection, ExistsBijection
<1> QED
  BY <1>1, <1>4, FS_CountingElements

(* ... stays one when its first element is taken, *)
LEMMA TailInjective ==
    ASSUME NEW S, NEW q \in Seq(S), IsInjective(q), q # <<>>
    PROVE  /\ Tail(q) \in Seq(S) /\ IsInjective(Tail(q))
           /\ Head(q) \in Range(q)
           /\ Range(Tail(q)) = Range(q) \ {Head(q)}
<1>1. /\ Len(q) \in Nat \ {0} /\ DOMAIN q = 1..Len(q)
      /\ Tail(q) \in Seq(S) /\ DOMAIN Tail(q) = 1..(Len(q) - 1)
      /\ \A i \in 1..(Len(q) - 1) : Tail(q)[i] = q[i + 1]
      /\ Head(q) = q[1]
  OBVIOUS
<1>2. IsInjective(Tail(q))
  <2> SUFFICES ASSUME NEW i \in 1..(Len(q) - 1), NEW j \in 1..(Len(q) - 1),
                      q[i + 1] = q[j + 1]
               PROVE  i = j
    BY <1>1 DEF IsInjective
  <2>1. i + 1 \in DOMAIN q /\ j + 1 \in DOMAIN q
    BY <1>1
  <2> QED
    BY <2>1 DEF IsInjective
<1>3. Range(Tail(q)) = {q[i + 1] : i \in 1..(Len(q) - 1)}
  BY <1>1 DEF Range
<1>4. Range(q) = {q[i] : i \in 1..Len(q)}
  BY <1>1 DEF Range
<1>5. ASSUME NEW x \in Range(Tail(q)) PROVE x \in Range(q) \ {Head(q)}
  <2>1. PICK i \in 1..(Len(q) - 1) : x = q[i + 1]
    BY <1>3
  <2>2. i + 1 \in DOMAIN q /\ 1 \in DOMAIN q /\ i + 1 # 1
    BY <1>1
  <2> QED
    BY <1>1, <2>1, <2>2 DEF IsInjective, Range
<1>6. ASSUME NEW x \in Range(q) \ {Head(q)} PROVE x \in Range(Tail(q))
  <2>1. PICK i \in 1..Len(q) : x = q[i]
    BY <1>4
  <2>2. i - 1 \in 1..(Len(q) - 1) /\ (i - 1) + 1 = i
    BY <1>1, <2>1
  <2> QED
    BY <1>3, <2>1, <2>2
<1>7. Range(Tail(q)) = Range(q) \ {Head(q)}
  BY <1>5, <1>6
<1>8. Head(q) \in Range(q)
  BY <1>1 DEF Range
<1> QED
  BY <1>1, <1>2, <1>7, <1>8

(* ... or one that did not wait in it is appended, *)
LEMMA AppendInjection ==
    ASSUME NEW S, NEW q \in Seq(S), IsInjective(q), NEW x \in S \ Range(q)
    PROVE  /\ Append(q, x) \in Seq(S) /\ IsInjective(Append(q, x))
           /\ Range(Append(q, x)) = Range(q) \cup {x}
<1>1. /\ Len(q) \in Nat /\ DOMAIN q = 1..Len(q)
      /\ Append(q, x) \in Seq(S) /\ DOMAIN Append(q, x) = 1..(Len(q) + 1)
      /\ \A i \in 1..Len(q) : Append(q, x)[i] = q[i]
      /\ Append(q, x)[Len(q) + 1] = x
  OBVIOUS
<1>2. \A i \in 1..Len(q) : q[i] # x
  BY <1>1 DEF Range
<1>3. \A i \in 1..(Len(q) + 1) : i \in 1..Len(q) \/ i = Len(q) + 1
  BY <1>1
<1>4. IsInjective(Append(q, x))
  BY <1>1, <1>2, <1>3 DEF IsInjective
<1>5. \A i \in 1..Len(q) : i \in 1..(Len(q) + 1)
  BY <1>1
<1>6. Len(q) + 1 \in 1..(Len(q) + 1)
  BY <1>1
<1>7. Range(Append(q, x)) = Range(q) \cup {x}
  BY <1>1, <1>3, <1>5, <1>6 DEF Range
<1> QED
  BY <1>1, <1>4, <1>7

(* ... or one leaves it from wherever it stands. *)
LEMMA RemoveInjective ==
    ASSUME NEW S, NEW q \in Seq(S), IsInjective(q), NEW x
    PROVE  /\ RemoveFirst(q, x) \in Seq(S) /\ IsInjective(RemoveFirst(q, x))
           /\ Range(RemoveFirst(q, x)) = Range(q) \ {x}
<1>1. Len(q) \in Nat /\ DOMAIN q = 1..Len(q)
  OBVIOUS
<1>2. CASE x \notin Range(q)
  <2>1. RemoveFirst(q, x) = q
    BY <1>1, <1>2 DEF RemoveFirst, Range
  <2> QED
    BY <1>2, <2>1
<1>3. CASE x \in Range(q)
  <2>1. PICK i \in 1..Len(q) : q[i] = x
    BY <1>1, <1>3 DEF Range
  <2>2. {j \in 1..Len(q) : q[j] = x} = {i}
    BY <1>1, <2>1 DEF IsInjective
  <2>3. Min({i}) = i
    BY <2>1 DEF Min
  <2>4. RemoveFirst(q, x) = RemoveAt(q, i)
    BY <2>1, <2>2, <2>3 DEF RemoveFirst, SelectInSeq
  <2> DEFINE p == RemoveAt(q, i)
  <2>5. /\ p \in Seq(S) /\ DOMAIN p = 1..(Len(q) - 1)
        /\ \A j \in 1..(Len(q) - 1) : p[j] = IF j < i THEN q[j] ELSE q[j + 1]
    <3> DEFINE front == SubSeq(q, 1, i - 1)
               back == SubSeq(q, i + 1, Len(q))
    <3>1. /\ front \in Seq(S) /\ Len(front) = i - 1
          /\ \A j \in 1..(i - 1) : front[j] = q[j]
      BY <1>1, <2>1
    <3>2. /\ back \in Seq(S) /\ Len(back) = Len(q) - i
          /\ \A j \in 1..(Len(q) - i) : back[j] = q[j + i]
      <4>1. i \in Int /\ Len(q) \in Int /\ 1 <= i /\ i <= Len(q)
        BY <1>1, <2>1
      <4>2. \A k \in (i + 1)..Len(q) : q[k] \in S
        BY <1>1, <4>1
      <4>3. /\ back \in Seq(S)
            /\ Len(back) = IF i + 1 <= Len(q) THEN Len(q) - (i + 1) + 1 ELSE 0
            /\ \A j \in 1..(Len(q) - (i + 1) + 1) : back[j] = q[i + 1 + j - 1]
        BY <4>1, <4>2, SubSeqProperties
      <4> HIDE DEF back
      <4>4. Len(q) - (i + 1) + 1 = Len(q) - i
        BY <4>1
      <4>5. Len(back) = Len(q) - i
        <5>1. CASE i + 1 <= Len(q)
          BY <4>3, <4>4, <5>1
        <5>2. CASE ~ (i + 1 <= Len(q))
          <6>1. Len(q) - i = 0
            BY <4>1, <5>2
          <6> QED
            BY <4>3, <5>2, <6>1
        <5> QED
          BY <5>1, <5>2
      <4>6. ASSUME NEW j \in 1..(Len(q) - i) PROVE i + 1 + j - 1 = j + i
        BY <4>1
      <4> QED
        BY <4>3, <4>4, <4>5, <4>6
    <3>3. p = front \o back
      BY DEF RemoveAt
    <3> HIDE DEF front, back, p
    <3>4. /\ p \in Seq(S) /\ Len(p) = Len(q) - 1
          /\ \A j \in 1..(Len(q) - 1) :
                p[j] = IF j <= i - 1 THEN front[j] ELSE back[j - (i - 1)]
      <4>1. Len(front) + Len(back) = Len(q) - 1
        BY <1>1, <2>1, <3>1, <3>2
      <4>2. /\ p \in Seq(S) /\ Len(p) = Len(front) + Len(back)
            /\ \A j \in 1..(Len(front) + Len(back)) :
                  p[j] = IF j <= Len(front) THEN front[j]
                         ELSE back[j - Len(front)]
        BY <3>1, <3>2, <3>3, ConcatProperties
      <4> QED
        BY <3>1, <4>1, <4>2
    <3>5. ASSUME NEW j \in 1..(Len(q) - 1)
          PROVE  p[j] = IF j < i THEN q[j] ELSE q[j + 1]
      <4>1. CASE j < i
        <5>1. j \in 1..(i - 1) /\ j <= i - 1
          BY <1>1, <2>1, <3>5, <4>1
        <5> QED
          BY <3>1, <3>4, <3>5, <4>1, <5>1
      <4>2. CASE ~ (j < i)
        <5>1. /\ j - (i - 1) \in 1..(Len(q) - i) /\ ~ (j <= i - 1)
              /\ (j - (i - 1)) + i = j + 1
          BY <1>1, <2>1, <3>5, <4>2
        <5> QED
          BY <3>2, <3>4, <3>5, <4>2, <5>1
      <4> QED
        BY <4>1, <4>2
    <3> QED
      BY <3>4, <3>5
  <2> HIDE DEF p
  <2> DEFINE from(j) == IF j < i THEN j ELSE j + 1
  <2>6. \A j \in 1..(Len(q) - 1) :
           p[j] = q[from(j)] /\ from(j) \in (1..Len(q)) \ {i}
    BY <1>1, <2>1, <2>5
  <2>7. \A j, k \in 1..(Len(q) - 1) : from(j) = from(k) => j = k
    BY <1>1, <2>1
  <2>8. \A k \in (1..Len(q)) \ {i} :
           \E j \in 1..(Len(q) - 1) : from(j) = k
    <3> SUFFICES ASSUME NEW k \in (1..Len(q)) \ {i}
                 PROVE  \E j \in 1..(Len(q) - 1) : from(j) = k
      OBVIOUS
    <3>1. CASE k < i
      <4>1. k \in 1..(Len(q) - 1) /\ from(k) = k
        BY <1>1, <2>1, <3>1
      <4> QED
        BY <4>1
    <3>2. CASE ~ (k < i)
      <4>1. k - 1 \in 1..(Len(q) - 1) /\ from(k - 1) = k
        BY <1>1, <2>1, <3>2
      <4> QED
        BY <4>1
    <3> QED
      BY <3>1, <3>2
  <2> HIDE DEF from
  <2>9. IsInjective(p)
    <3>1. DOMAIN p = 1..(Len(q) - 1) /\ DOMAIN q = 1..Len(q)
      BY <1>1, <2>5
    <3>2. ASSUME NEW j \in DOMAIN p, NEW k \in DOMAIN p, p[j] = p[k]
          PROVE  j = k
      <4>1. from(j) \in DOMAIN q /\ from(k) \in DOMAIN q /\ q[from(j)] = q[from(k)]
        BY <2>6, <3>1, <3>2
      <4>2. from(j) = from(k)
        BY <1>1, <4>1 DEF IsInjective
      <4> QED
        BY <2>7, <3>1, <4>2
    <3> QED
      BY <3>2 DEF IsInjective
  <2>10. ASSUME NEW y \in Range(p) PROVE y \in Range(q) \ {x}
    <3>1. PICK j \in 1..(Len(q) - 1) : y = p[j]
      BY <2>5 DEF Range
    <3>2. y = q[from(j)] /\ from(j) \in DOMAIN q /\ from(j) # i
      BY <1>1, <2>6, <3>1
    <3> QED
      BY <1>1, <2>1, <3>2 DEF Range, IsInjective
  <2>11. ASSUME NEW y \in Range(q) \ {x} PROVE y \in Range(p)
    <3>1. PICK k \in 1..Len(q) : y = q[k]
      BY <1>1 DEF Range
    <3>2. PICK j \in 1..(Len(q) - 1) : from(j) = k
      BY <2>1, <2>8, <3>1
    <3> QED
      BY <2>5, <2>6, <3>1, <3>2 DEF Range
  <2> QED
    BY <2>4, <2>5, <2>9, <2>10, <2>11 DEF p
<1> QED
  BY <1>2, <1>3

-----------------------------------------------------------------------------
(***************************************************************************)
(* What is inductive: ConnectionsComeBack, with the queue a sequence of    *)
(* different handlers.                                                     *)
(***************************************************************************)
AtACall == {t \in Tasks : task[t].pc \in Calls}

PoolInv ==
    /\ queue \in Seq(Tasks) /\ IsInjective(queue)
    /\ IsFiniteSet(busy) /\ Cardinality(busy) <= MaxConnections
    /\ busy \cap Range(queue) = {}
    /\ busy \cup Range(queue) = AtACall

(* A step of t leaves the other handlers where they are. *)
Alone(t) == \A o \in Tasks \ {t} : task'[o] = task[o]

LEMMA StepsAlone ==
    ASSUME TypeInv, NEW t \in Tasks, Request(t) \/ Call(t) \/ Fail(t) \/ Drop(t)
    PROVE  Alone(t)
<1>1. ASSUME NEW error_id, NEW context, Refuse(t, error_id, context)
      PROVE  Alone(t)
  BY <1>1, RefuseSettles DEF Settles, Alone
<1>2. ASSUME NEW call, NEW fields, Await(t, call, fields)
      PROVE  Alone(t)
  BY <1>2 DEF Await, Alone, TypeInv, TypeOK
<1>3. CASE Request(t)
  BY <1>3, RequestSettles DEF Settles, Alone
<1>4. CASE CreateUser(t) \/ FindUserByUsername(t) \/ ConsumeRefreshToken(t)
  BY <1>1, <1>2, <1>4 DEF CreateUser, FindUserByUsername, ConsumeRefreshToken
<1>5. CASE FindUserById(t)
  BY <1>1, <1>2, <1>5 DEF FindUserById, UserNotFound
<1>6. CASE StoreRefreshToken(t) \/ DeleteRefreshTokensForUser(t)
  BY <1>1, <1>6, AnswerSettles
     DEF StoreRefreshToken, DeleteRefreshTokensForUser, Settles, Alone
<1>7. CASE Fail(t)
  BY <1>1, <1>7 DEF Fail
<1>8. CASE Drop(t)
  BY <1>8, EndSettles DEF Drop, Settles, Alone
<1> QED
  BY <1>3, <1>4, <1>5, <1>6, <1>7, <1>8 DEF Call

(***************************************************************************)
(* A handler that gives back what it holds, leaves the queue, and queues   *)
(* anew if it is at a call: what every step of the service does with the   *)
(* pool.                                                                   *)
(***************************************************************************)
LEMMA ReleaseAndEnqueue ==
    ASSUME PoolInv, NEW t \in Tasks, Alone(t), Enqueue(t), busy' = busy \ {t}
    PROVE  PoolInv'
<1> DEFINE rest == RemoveFirst(queue, t)
<1>1. /\ rest \in Seq(Tasks) /\ IsInjective(rest)
      /\ Range(rest) = Range(queue) \ {t}
  BY RemoveInjective DEF PoolInv
<1>2. queue' = IF task'[t].pc \in Calls THEN Append(rest, t) ELSE rest
  BY DEF Enqueue
<1> HIDE DEF rest
<1>3. /\ queue' \in Seq(Tasks) /\ IsInjective(queue')
      /\ Range(queue') = (Range(queue) \ {t})
             \cup (IF task'[t].pc \in Calls THEN {t} ELSE {})
  <2>1. CASE task'[t].pc \in Calls
    BY <1>1, <1>2, <2>1, AppendInjection
  <2>2. CASE task'[t].pc \notin Calls
    BY <1>1, <1>2, <2>2
  <2> QED
    BY <2>1, <2>2
<1>4. IsFiniteSet(busy') /\ Cardinality(busy') <= MaxConnections
  <2>1. Cardinality(busy) \in Nat
    BY FS_CardinalityType DEF PoolInv
  <2>2. /\ IsFiniteSet(busy')
        /\ Cardinality(busy') = IF t \in busy THEN Cardinality(busy) - 1
                                ELSE Cardinality(busy)
    BY FS_RemoveElement DEF PoolInv
  <2> QED
    BY <2>1, <2>2, PoolAssumption DEF PoolInv
<1>5. AtACall' = (AtACall \ {t}) \cup (IF task'[t].pc \in Calls THEN {t} ELSE {})
  BY DEF AtACall, Alone
<1> QED
  BY <1>3, <1>4, <1>5 DEF PoolInv

(* The first in the queue gets a connection that is free. *)
LEMMA AcquireKeeps ==
    ASSUME PoolInv, NEW t \in Tasks, Acquire(t)
    PROVE  PoolInv'
<1>1. /\ queue' \in Seq(Tasks) /\ IsInjective(queue')
      /\ t \in Range(queue) /\ Range(queue') = Range(queue) \ {t}
  BY TailInjective DEF Acquire, PoolInv
<1>2. IsFiniteSet(busy') /\ Cardinality(busy') <= MaxConnections
  <2>1. Cardinality(busy) \in Nat
    BY FS_CardinalityType DEF PoolInv
  <2>2. /\ IsFiniteSet(busy')
        /\ Cardinality(busy') = IF t \in busy THEN Cardinality(busy)
                                ELSE Cardinality(busy) + 1
    BY FS_AddElement DEF PoolInv, Acquire
  <2> QED
    BY <2>1, <2>2, PoolAssumption DEF Acquire
<1>3. AtACall' = AtACall
  BY DEF AtACall, Acquire, vars
<1> QED
  BY <1>1, <1>2, <1>3 DEF PoolInv, Acquire

-----------------------------------------------------------------------------
(* The handlers at a call are at all times those that hold a connection or *)
(* wait for one, no more hold one than there are, and none does both.      *)
THEOREM PoolInvariant == PSpec => []PoolInv
<1>1. PInit => PoolInv
  <2> SUFFICES ASSUME PInit PROVE PoolInv
    OBVIOUS
  <2>1. queue \in Seq(Tasks) /\ IsInjective(queue) /\ Range(queue) = {}
    BY DEF PInit, IsInjective, Range
  <2>2. IsFiniteSet(busy) /\ Cardinality(busy) <= MaxConnections
    BY FS_EmptySet, PoolAssumption DEF PInit
  <2>3. AtACall = {}
    BY DEF PInit, Init, AtACall, Idle, Calls, IssuingCalls
  <2> QED
    BY <2>1, <2>2, <2>3 DEF PInit, PoolInv
<1>2. TypeInv /\ PoolInv /\ [PNext]_pvars => PoolInv'
  <2> SUFFICES ASSUME TypeInv, PoolInv, [PNext]_pvars PROVE PoolInv'
    OBVIOUS
  <2>1. ASSUME NEW t \in Tasks, Arrive(t) PROVE PoolInv'
    <3>1. task[t].pc = "idle"
      BY <2>1 DEF Arrive, Request, MalformedBody, Register, Login, Refresh,
                  Logout, Me
    <3>2. busy' = busy \ {t}
      BY <2>1, <3>1 DEF Arrive, PoolInv, AtACall, Calls, IssuingCalls
    <3> QED
      BY <2>1, <3>2, StepsAlone, ReleaseAndEnqueue DEF Arrive
  <2>2. ASSUME NEW t \in Tasks, Execute(t) \/ CallFails(t) \/ Dropped(t)
        PROVE  PoolInv'
    BY <2>2, StepsAlone, ReleaseAndEnqueue
       DEF Execute, CallFails, Dropped, Release, ReleaseOnDrop
  <2>3. ASSUME NEW t \in Tasks, Answered(t) PROVE PoolInv'
    <3>1. Alone(t) /\ task[t].pc = "reply" /\ task'[t].pc = "idle"
      BY <2>3 DEF Answered, Reply, Alone, Idle, TypeInv, TypeOK
    <3>2. AtACall' = AtACall
      BY <3>1 DEF AtACall, Alone, Calls, IssuingCalls
    <3> QED
      BY <2>3, <3>2 DEF Answered, pool, PoolInv
  <2>4. CASE (RemoveUser \/ Tick) /\ UNCHANGED pool
    BY <2>4 DEF RemoveUser, Tick, pool, PoolInv, AtACall
  <2>5. CASE UNCHANGED pvars
    BY <2>5 DEF pvars, vars, pool, PoolInv, AtACall
  <2> QED
    BY <2>1, <2>2, <2>3, <2>4, <2>5, AcquireKeeps DEF PNext
<1> QED
  BY <1>1, <1>2, PoolOnlyDelays, TypeCorrect, PTL DEF PSpec

(* No failure, answer, disconnect or crash loses a connection or leaves a  *)
(* handler in the queue twice, or holding one while it waits for another.  *)
THEOREM NoConnectionLost == PSpec => []ConnectionsComeBack
<1>1. PoolInv => ConnectionsComeBack
  BY InjectiveLength DEF PoolInv, ConnectionsComeBack, AtACall
<1> QED
  BY <1>1, PoolInvariant, PTL

=============================================================================

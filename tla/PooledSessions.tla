--------------------------- MODULE PooledSessions ---------------------------
(***************************************************************************)
(* AuthSessions behind the connection pool of Db (src/src/db/mod.rs): each *)
(* repository call first takes a connection and gives it back when its     *)
(* statement has returned, so a handler queues anew for every call it      *)
(* makes.  Waiters are served in order of arrival.  One that waits too     *)
(* long fails with the error of its call: that is a Fail of AuthSessions.  *)
(***************************************************************************)
EXTENDS AuthSessions, SequencesExt

CONSTANT MaxConnections  \* PoolOptions::max_connections

ASSUME PoolAssumption == MaxConnections \in Nat \ {0}

VARIABLES
    queue,  \* handlers that wait for a connection, in order of arrival
    busy    \* handlers that hold one

pool == <<queue, busy>>
pvars == <<vars, pool>>

(* The handler is now at a call, and waits, or at none.  Faulty variants   *)
(* let the newest overtake the others, and keep the connection while the   *)
(* handler goes on to its next call (as a transaction around both would).  *)
FaultyEnqueue(t) ==
    queue' = IF task'[t].pc \in Calls THEN <<t>> \o RemoveFirst(queue, t)
                                      ELSE RemoveFirst(queue, t)
Enqueue(t) ==
    queue' = IF task'[t].pc \in Calls THEN Append(RemoveFirst(queue, t), t)
                                      ELSE RemoveFirst(queue, t)

FaultyRelease(t) ==
    busy' = IF task'[t].pc \in Calls THEN busy ELSE busy \ {t}
Release(t) == busy' = busy \ {t}

(* A dropped future gives its connection back, too, or leaks it. *)
FaultyReleaseOnDrop(t) == busy' = busy
ReleaseOnDrop(t) == busy' = busy \ {t}

-----------------------------------------------------------------------------
Arrive(t) ==
    /\ Request(t)
    /\ Enqueue(t)
    /\ UNCHANGED busy

Acquire(t) ==
    /\ queue # <<>> /\ Head(queue) = t
    /\ Cardinality(busy) < MaxConnections
    /\ busy' = busy \cup {t}
    /\ queue' = Tail(queue)
    /\ UNCHANGED vars

Execute(t) ==
    /\ t \in busy \ Range(queue)
    /\ Call(t)
    /\ Release(t)
    /\ Enqueue(t)

(* The call of a handler that holds a connection fails, or that of one     *)
(* that waits.                                                             *)
CallFails(t) ==
    /\ Fail(t)
    /\ Release(t)
    /\ Enqueue(t)

Answered(t) ==
    /\ Reply(t)
    /\ UNCHANGED pool

Dropped(t) ==
    /\ Drop(t)
    /\ ReleaseOnDrop(t)
    /\ Enqueue(t)

PInit == Init /\ queue = <<>> /\ busy = {}

PNext ==
    \/ \E t \in Tasks :
          \/ Arrive(t) \/ Acquire(t) \/ Execute(t)
          \/ CallFails(t) \/ Answered(t) \/ Dropped(t)
    \/ (RemoveUser \/ Tick) /\ UNCHANGED pool

PSpec == PInit /\ [][PNext]_pvars

(* The pool hands out what is free, and the runtime polls every task whose *)
(* future can make progress; nothing makes a client send, disconnect or an *)
(* operator act.  Nor need a timeout come: no request depends on one.      *)
PFairSpec ==
    /\ PSpec
    /\ \A t \in Tasks :
          WF_pvars(Acquire(t)) /\ WF_pvars(Execute(t)) /\ WF_pvars(Answered(t))

-----------------------------------------------------------------------------
(***************************************************************************)
(* No connection is lost, and none is held by a handler that waits for     *)
(* one: the handlers that hold or wait are exactly those at a call,        *)
(* however requests fail, end or are dropped.                              *)
(***************************************************************************)
ConnectionsComeBack ==
    /\ Cardinality(busy) <= MaxConnections
    /\ busy \cap Range(queue) = {}
    /\ busy \cup Range(queue) = {t \in Tasks : task[t].pc \in Calls}
    /\ Len(queue) = Cardinality(Range(queue))

=============================================================================

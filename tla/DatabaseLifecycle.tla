------------------------- MODULE DatabaseLifecycle -------------------------
(***************************************************************************)
(* What starting servers promises about the databases, however many        *)
(* processes start, crash and start again.  The schemas only go forward,   *)
(* one migration at a time and in order, the data database before the auth *)
(* database.  On complete schemas a signing secret is set, once and for    *)
(* good, whether or not whoever set it lives to use it; and only then is   *)
(* anything served, under that secret.                                     *)
(***************************************************************************)
EXTENDS Integers

CONSTANTS
    Secrets,
    None,   \* no secret
    Last    \* the last migration of each database

VARIABLES
    schema,  \* the migrations applied to each database
    secret,  \* the signing secret, or None
    served   \* the secrets that have been served under

Complete(d) == schema[d] = 1..Last[d]

Init ==
    /\ schema = [d \in {"data", "auth"} |-> {}]
    /\ secret = None /\ served = {}

Migrate(d) ==
    /\ d = "auth" => Complete("data")
    /\ \E v \in 1..Last[d] :
          /\ schema[d] = 1..(v - 1)
          /\ schema' = [schema EXCEPT ![d] = 1..v]
    /\ UNCHANGED <<secret, served>>

SetSecret ==
    /\ Complete("data") /\ Complete("auth")
    /\ secret = None /\ secret' \in Secrets
    /\ UNCHANGED <<schema, served>>

Serve ==
    /\ Complete("data") /\ Complete("auth")
    /\ secret # None /\ served' = served \cup {secret}
    /\ UNCHANGED <<schema, secret>>

Next == Migrate("data") \/ Migrate("auth") \/ SetSecret \/ Serve

Spec == Init /\ [][Next]_<<schema, secret, served>>

=============================================================================

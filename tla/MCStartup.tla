----------------------------- MODULE MCStartup -----------------------------
EXTENDS Startup, TLC

CONSTANTS p1, p2, p3

(* p1 and p2 are set up to serve.  p3 is given p2's address and started    *)
(* with all its options, with no address, so that it panics after it has   *)
(* migrated and stored a secret, or with nothing.  The migrations are the  *)
(* repository's.                                                           *)
MCProcesses == {p1, p2, p3}
MCOptions ==
    (p1 :> {RequiredOptions}) @@ (p2 :> {RequiredOptions})
        @@ (p3 :> {RequiredOptions, {"routes", "auth_database_url"}, {}})
MCAddr == (p1 :> 1) @@ (p2 :> 2) @@ (p3 :> 2)
MCLast == ("data" :> 1) @@ ("auth" :> 3)
=============================================================================

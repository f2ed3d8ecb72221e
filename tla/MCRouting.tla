----------------------------- MODULE MCRouting -----------------------------
EXTENDS Routing

(* A route of its own, one beside and one on a route of the library. *)
MCConsumerEndpoints ==
    {<<"GET", "/user">>, <<"GET", "/auth/login">>, <<"POST", "/auth/login">>,
     <<"GET", "/health">>}

MCEndpoints ==
    MCConsumerEndpoints \cup DOMAIN AuthRoutes
        \cup {<<"POST", "/user">>, <<"GET", "/nowhere">>}
=============================================================================

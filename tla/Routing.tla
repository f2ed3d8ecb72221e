------------------------------ MODULE Routing ------------------------------
(***************************************************************************)
(* The router that ServerBuilder::build assembles from whatever router the *)
(* consumer passes in (src/src/server.rs), and the way of a request        *)
(* through it: the middleware, the route, AuthUser or AppJson, the handler *)
(* and the middleware again.  axum's part is modelled as it documents it.  *)
(***************************************************************************)
EXTENDS Integers, Sequences

CONSTANTS
    ConsumerEndpoints,  \* what the consumer may route, <<method, path>>
    Endpoints,          \* what clients ask for
    ClientIds,          \* request ids that clients choose
    Uuid,               \* a request id that is made here
    None                \* no value

(* What a handler extracts besides its state. *)
Extractors == {"AuthUser", "AppJson", "nothing"}

(* The errors of the library that are made on the way to a handler. *)
Refusals ==
    {"NOT_FOUND", "BAD_REQUEST", "AUTH_LAYER_MISSING",
     "MISSING_AUTHORIZATION_HEADER", "TOKEN_EXPIRED", "TOKEN_INVALID",
     "WRONG_TOKEN_KIND"}

ASSUME RoutingAssumption ==
    /\ ConsumerEndpoints \subseteq Endpoints /\ Endpoints # {}
    /\ {None, Uuid} \cap ClientIds = {} /\ None # Uuid
    /\ None \notin Extractors \cup Refusals

VARIABLES
    consumer,  \* the consumer's routes and fallback, and the auth feature
    pc,        \* what build() does next, or the request in flight
    api,       \* the router under construction
    stack,     \* the middleware around it, outermost first
    request,   \* the request in flight
    call,      \* what the middleware and the router know of it
    answer     \* its answer, on the way out

built == <<consumer, api, stack>>
vars == <<built, pc, request, call, answer>>

Owners ==
    {"consumer", "consumer_fallback", "register", "login", "refresh", "logout",
     "me", "health", "not_found", "method_not_allowed"}

Handlers == [by : Owners, takes : Extractors, auth_layer : BOOLEAN]

Handler(by, takes) == [by |-> by, takes |-> takes, auth_layer |-> FALSE]

(* The library exports AuthUser only with the auth feature. *)
Consumer ==
    {c \in [routes : UNION {[E -> Extractors] : E \in SUBSET ConsumerEndpoints},
            fallback : Extractors \cup {None},
            auth : BOOLEAN] :
        ~ c.auth => /\ c.fallback # "AuthUser"
                    /\ \A e \in DOMAIN c.routes : c.routes[e] # "AuthUser"}

AuthRoutes ==
    [e \in {"POST"} \X {"/auth/register", "/auth/login", "/auth/refresh",
                        "/auth/logout"} \cup {<<"GET", "/auth/me">>} |->
        CASE e[2] = "/auth/register" -> Handler("register", "AppJson")
          [] e[2] = "/auth/login"    -> Handler("login", "AppJson")
          [] e[2] = "/auth/refresh"  -> Handler("refresh", "AppJson")
          [] e[2] = "/auth/logout"   -> Handler("logout", "AppJson")
          [] e[2] = "/auth/me"       -> Handler("me", "AuthUser")]

HealthRoute ==
    [e \in {<<"GET", "/health">>} |-> Handler("health", "nothing")]

NotFound == Handler("not_found", "nothing")
MethodNotAllowed == Handler("method_not_allowed", "nothing")

Request ==
    [nested   : BOOLEAN,         \* whether the path is below /api/v1
     endpoint : Endpoints,
     id       : ClientIds \cup {None},
     bearer   : {None, "access", "refresh", "expired", "invalid"},
     json     : BOOLEAN]         \* whether the body is what AppJson expects

-----------------------------------------------------------------------------
(***************************************************************************)
(* build().  Router::merge and Router::route panic when a method of a path *)
(* has a handler already; the faulty variant lets the first one win.       *)
(***************************************************************************)
FaultyOverlap(routes) == FALSE
Overlap(routes) == DOMAIN api.routes \cap DOMAIN routes # {}

Merged(routes) ==
    [e \in DOMAIN api.routes \cup DOMAIN routes |->
        IF e \in DOMAIN api.routes THEN api.routes[e] ELSE routes[e]]

Add(stage, routes, next) ==
    /\ pc = stage
    /\ \/ /\ Overlap(routes)
          /\ pc' = "panic"
          /\ UNCHANGED api
       \/ /\ ~ Overlap(routes)
          /\ api' = [api EXCEPT !.routes = Merged(routes)]
          /\ pc' = next
    /\ UNCHANGED <<consumer, stack, request, call, answer>>

TakeRoutes ==
    /\ pc = "routes"
    /\ api' = [routes   |-> [e \in DOMAIN consumer.routes |->
                                Handler("consumer", consumer.routes[e])],
               fallback |-> IF consumer.fallback = None THEN NotFound
                            ELSE Handler("consumer_fallback", consumer.fallback)]
    /\ pc' = IF consumer.auth THEN "merge" ELSE "health"
    /\ UNCHANGED <<consumer, stack, request, call, answer>>

MergeAuthRoutes == Add("merge", AuthRoutes, "health")
AddHealth == Add("health", HealthRoute, "layer")

(* Router::layer covers the routes and the fallback the router has so far. *)
FaultyLayered ==
    [api EXCEPT !.routes = [e \in DOMAIN api.routes |->
                               [api.routes[e] EXCEPT !.auth_layer = TRUE]]]
Layered ==
    [routes   |-> [e \in DOMAIN api.routes |->
                      [api.routes[e] EXCEPT !.auth_layer = TRUE]],
     fallback |-> [api.fallback EXCEPT !.auth_layer = (api.fallback # NotFound)]]

ApplyAuthLayer ==
    /\ pc = "layer"
    /\ api' = IF consumer.auth THEN Layered ELSE api
    /\ pc' = "middleware"
    /\ UNCHANGED <<consumer, stack, request, call, answer>>

(* The layer added last is the outermost; the faulty order is theirs in    *)
(* the text.                                                               *)
FaultyMiddleware == <<"trace", "propagate_request_id", "set_request_id">>
Middleware == <<"set_request_id", "propagate_request_id", "trace">>

(* Router::nest keeps the fallback of the consumer, if it has one. *)
StandardMiddleware ==
    /\ pc = "middleware"
    /\ stack' = Middleware
    /\ pc' = "serving"
    /\ UNCHANGED <<consumer, api, request, call, answer>>

(* The supervisor starts the same program again. *)
Restart ==
    /\ pc = "panic"
    /\ pc' = "routes"
    /\ UNCHANGED <<built, request, call, answer>>

-----------------------------------------------------------------------------
(***************************************************************************)
(* A request passes the layers inwards; "depth" of them have seen it.      *)
(***************************************************************************)
NoCall == [depth |-> 0, header |-> None, propagated |-> None, route |-> NotFound]
NoAnswer == [by |-> "nobody", error |-> None, id |-> None]

Receive ==
    /\ pc = "serving"
    /\ \E r \in Request :
          /\ request' = r
          /\ call' = [NoCall EXCEPT !.header = r.id]
    /\ pc' = "inwards"
    /\ UNCHANGED <<built, answer>>

(* MakeRequestUuid, only for a request that has no id. *)
FaultyAssign(header) == Uuid
Assign(header) == IF header = None THEN Uuid ELSE header

Inwards ==
    /\ pc = "inwards" /\ call.depth < Len(stack)
    /\ LET layer == stack[call.depth + 1]
       IN  call' = [call EXCEPT
              !.depth = @ + 1,
              !.header = IF layer = "set_request_id" THEN Assign(@) ELSE @,
              !.propagated = IF layer = "propagate_request_id" THEN call.header ELSE @]
    /\ UNCHANGED <<built, pc, request, answer>>

Matched(routes, endpoint) ==
    IF endpoint \in DOMAIN routes THEN routes[endpoint]
    ELSE IF \E e \in DOMAIN routes : e[2] = endpoint[2] THEN MethodNotAllowed
    ELSE api.fallback

Dispatch ==
    /\ pc = "inwards" /\ call.depth = Len(stack)
    /\ call' = [call EXCEPT !.route =
                   IF request.nested THEN Matched(api.routes, request.endpoint)
                                     ELSE NotFound]
    /\ pc' = "extract"
    /\ UNCHANGED <<built, request, answer>>

(* AuthUser::from_request_parts; faulty is the error of a token handler.   *)
FaultyWrongKind == "INVALID_REFRESH_TOKEN"
WrongKind == "WRONG_TOKEN_KIND"

AuthUser ==
    CASE ~ call.route.auth_layer -> "AUTH_LAYER_MISSING"
      [] call.route.auth_layer /\ request.bearer = None -> "MISSING_AUTHORIZATION_HEADER"
      [] call.route.auth_layer /\ request.bearer = "expired" -> "TOKEN_EXPIRED"
      [] call.route.auth_layer /\ request.bearer = "invalid" -> "TOKEN_INVALID"
      [] call.route.auth_layer /\ request.bearer = "refresh" -> WrongKind
      [] OTHER -> None

Rejection ==
    CASE call.route.takes = "AuthUser" -> AuthUser
      [] call.route.takes = "AppJson" -> IF request.json THEN None ELSE "BAD_REQUEST"
      [] call.route.by = "not_found" -> "NOT_FOUND"
      [] OTHER -> None

Handle ==
    /\ pc = "extract"
    /\ answer' = [by |-> call.route.by, error |-> Rejection, id |-> None]
    /\ pc' = "outwards"
    /\ UNCHANGED <<built, request, call>>

Outwards ==
    /\ pc = "outwards" /\ call.depth > 0
    /\ call' = [call EXCEPT !.depth = @ - 1]
    /\ answer' = IF stack[call.depth] = "propagate_request_id"
                 THEN [answer EXCEPT !.id = call.propagated] ELSE answer
    /\ UNCHANGED <<built, pc, request>>

Respond ==
    /\ pc = "outwards" /\ call.depth = 0
    /\ call' = NoCall /\ answer' = NoAnswer
    /\ pc' = "serving"
    /\ UNCHANGED <<built, request>>

-----------------------------------------------------------------------------
NoRequest == [nested |-> FALSE, endpoint |-> CHOOSE e \in Endpoints : TRUE,
              id |-> None, bearer |-> None, json |-> FALSE]

Init ==
    /\ consumer \in Consumer
    /\ pc = "routes"
    /\ api = [routes |-> <<>>, fallback |-> NotFound]
    /\ stack = <<>>
    /\ request = NoRequest /\ call = NoCall /\ answer = NoAnswer

Next ==
    \/ TakeRoutes \/ MergeAuthRoutes \/ AddHealth \/ ApplyAuthLayer
    \/ StandardMiddleware \/ Restart
    \/ Receive \/ Inwards \/ Dispatch \/ Handle \/ Outwards \/ Respond

Spec == Init /\ [][Next]_vars

-----------------------------------------------------------------------------
Answered == pc = "outwards" /\ call.depth = 0

(* The router, the request and its answer have their types. *)
Ids == ClientIds \cup {Uuid, None}

TypeOK ==
    /\ consumer \in Consumer
    /\ pc \in {"routes", "merge", "health", "layer", "middleware", "panic",
              "serving", "inwards", "extract", "outwards"}
    /\ api \in [routes : [DOMAIN api.routes -> Handlers], fallback : Handlers]
    /\ stack \in {<<>>, Middleware}
    /\ request \in Request
    /\ call \in [depth : 0..Len(stack), header : Ids, propagated : Ids,
                route : Handlers]
    /\ answer \in [by : Owners \cup {"nobody"},
                  error : Refusals \cup {None}, id : Ids]

(***************************************************************************)
(* Whatever the consumer routes, once the server serves every endpoint is  *)
(* answered by the one who owns it: the consumer its own, the library      *)
(* /auth/* and /health; none is shadowed.  A consumer that claims one of   *)
(* the library's is refused at the start.                                  *)
(***************************************************************************)
EndpointsReachTheirOwner ==
    Answered /\ request.nested =>
        /\ request.endpoint \in DOMAIN consumer.routes => answer.by = "consumer"
        /\ request.endpoint \in DOMAIN HealthRoute => answer.by = "health"
        /\ consumer.auth /\ request.endpoint \in DOMAIN AuthRoutes =>
              answer.by = AuthRoutes[request.endpoint].by

(***************************************************************************)
(* The misconfiguration AuthUser reports cannot be reached through the     *)
(* builder: wherever the consumer extracts AuthUser, its fallback          *)
(* included, the layer is there.                                           *)
(***************************************************************************)
AuthLayerNeverMissing == answer.error # "AUTH_LAYER_MISSING"

(***************************************************************************)
(* Every answer, refused and unmatched requests included, carries the      *)
(* request id the client chose, or one made for it if it chose none.       *)
(***************************************************************************)
AnswersCarryRequestId ==
    Answered => answer.id = IF request.id = None THEN Uuid ELSE request.id

=============================================================================

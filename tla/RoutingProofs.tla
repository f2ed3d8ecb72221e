--------------------------- MODULE RoutingProofs ---------------------------
(***************************************************************************)
(* Theorems of Routing, for whatever the consumer may route, clients may   *)
(* ask for and request ids they may choose.                                *)
(***************************************************************************)
EXTENDS Routing, TLAPS

(* The handlers of the library are what they are said to be. *)
LEMMA LibraryRoutes ==
    /\ \A e \in DOMAIN AuthRoutes :
          /\ AuthRoutes[e] \in Handlers /\ AuthRoutes[e].auth_layer = FALSE
          /\ AuthRoutes[e].by \in {"register", "login", "refresh", "logout", "me"}
    /\ \A e \in DOMAIN HealthRoute :
          /\ HealthRoute[e] = Handler("health", "nothing")
          /\ e \notin DOMAIN AuthRoutes
    /\ HealthRoute \in [DOMAIN HealthRoute -> Handlers]
    /\ AuthRoutes \in [DOMAIN AuthRoutes -> Handlers]
<1>1. \A by \in Owners, takes \in Extractors :
         /\ Handler(by, takes) \in Handlers
         /\ Handler(by, takes).by = by /\ Handler(by, takes).auth_layer = FALSE
  BY DEF Handler, Handlers
<1> DEFINE posts == {"POST"} \X {"/auth/register", "/auth/login",
                                 "/auth/refresh", "/auth/logout"}
           paths == posts \cup {<<"GET", "/auth/me">>}
<1>2. DOMAIN AuthRoutes = paths /\ DOMAIN HealthRoute = {<<"GET", "/health">>}
  BY DEF AuthRoutes, HealthRoute
<1>3. \A e \in paths :
         e[2] \in {"/auth/register", "/auth/login", "/auth/refresh",
                   "/auth/logout", "/auth/me"}
  OBVIOUS
<1>4. ASSUME NEW e \in paths
      PROVE  \E takes \in Extractors,
                by \in {"register", "login", "refresh", "logout", "me"} :
                   AuthRoutes[e] = Handler(by, takes)
  <2>1. CASE e[2] = "/auth/register"
    BY <1>4, <2>1 DEF AuthRoutes, Extractors
  <2>2. CASE e[2] = "/auth/login"
    BY <1>4, <2>2 DEF AuthRoutes, Extractors
  <2>3. CASE e[2] = "/auth/refresh"
    BY <1>4, <2>3 DEF AuthRoutes, Extractors
  <2>4. CASE e[2] = "/auth/logout"
    BY <1>4, <2>4 DEF AuthRoutes, Extractors
  <2>5. CASE e[2] = "/auth/me"
    BY <1>4, <2>5 DEF AuthRoutes, Extractors
  <2> QED
    BY <1>3, <1>4, <2>1, <2>2, <2>3, <2>4, <2>5
<1>5. <<"GET", "/health">> \notin paths
  OBVIOUS
<1>6. {"register", "login", "refresh", "logout", "me"} \subseteq Owners
  BY DEF Owners
<1> HIDE DEF paths
<1>7. \A e \in DOMAIN AuthRoutes :
          /\ AuthRoutes[e] \in Handlers /\ AuthRoutes[e].auth_layer = FALSE
          /\ AuthRoutes[e].by \in {"register", "login", "refresh", "logout", "me"}
  BY <1>1, <1>2, <1>4, <1>6
<1>8. \A e \in DOMAIN HealthRoute :
          /\ HealthRoute[e] = Handler("health", "nothing")
          /\ HealthRoute[e] \in Handlers
          /\ e \notin DOMAIN AuthRoutes
  BY <1>1, <1>2, <1>5 DEF HealthRoute, Owners, Extractors
<1>9. /\ HealthRoute = [e \in DOMAIN HealthRoute |-> HealthRoute[e]]
      /\ AuthRoutes = [e \in DOMAIN AuthRoutes |-> AuthRoutes[e]]
  BY DEF HealthRoute, AuthRoutes
<1> QED
  BY <1>7, <1>8, <1>9

-----------------------------------------------------------------------------
(* The router.                                                             *)

(* Whose endpoint it is, and what answers when it is nobody's. *)
Owner(e) ==
    IF e \in DOMAIN consumer.routes THEN Handler("consumer", consumer.routes[e])
    ELSE IF e \in DOMAIN AuthRoutes THEN AuthRoutes[e]
    ELSE HealthRoute[e]

Fallback ==
    IF consumer.fallback = None THEN NotFound
    ELSE Handler("consumer_fallback", consumer.fallback)

AuthEndpoints == IF consumer.auth THEN DOMAIN AuthRoutes ELSE {}

(* The router while its routes are put together, ... *)
Router(endpoints) ==
    [routes |-> [e \in endpoints |-> Owner(e)], fallback |-> Fallback]

Complete == DOMAIN consumer.routes \cup AuthEndpoints \cup DOMAIN HealthRoute

NoneShadowed ==
    DOMAIN consumer.routes \cap (AuthEndpoints \cup DOMAIN HealthRoute) = {}

(* ... and when the layer is there for those that need it. *)
Serves(h, wanted) ==
    /\ h.by = wanted.by /\ h.takes = wanted.takes
    /\ h.takes = "AuthUser" => h.auth_layer

(***************************************************************************)
(* What is inductive about build(): each stage has the endpoints of all    *)
(* the stages before, each of its owner.                                   *)
(***************************************************************************)
RouterInv ==
    /\ pc = "merge" =>
          consumer.auth /\ api = Router(DOMAIN consumer.routes)
    /\ pc = "health" =>
          /\ api = Router(DOMAIN consumer.routes \cup AuthEndpoints)
          /\ DOMAIN consumer.routes \cap AuthEndpoints = {}
    /\ pc = "layer" =>
          api = Router(Complete) /\ NoneShadowed
    /\ pc \in {"middleware", "serving", "inwards", "extract", "outwards"} =>
          /\ NoneShadowed
          /\ DOMAIN api.routes = Complete
          /\ \A e \in Complete : Serves(api.routes[e], Owner(e))
          /\ Serves(api.fallback, Fallback)

-----------------------------------------------------------------------------
(* The request.                                                            *)

(* The id a request is to have, and the handler it is to be given to. *)
Wanted == IF request.id = None THEN Uuid ELSE request.id

Chosen ==
    IF request.nested THEN Matched(api.routes, request.endpoint) ELSE NotFound

(***************************************************************************)
(* What is inductive about a request: the id is assigned by the first      *)
(* layer, seen by the second and set by it on the way out, and the answer  *)
(* is the one the chosen handler gives.                                    *)
(***************************************************************************)
CallInv ==
    /\ pc \in {"serving", "inwards", "extract", "outwards"} => stack = Middleware
    /\ pc = "inwards" =>
          /\ call.header = IF call.depth = 0 THEN request.id ELSE Wanted
          /\ call.depth > 1 => call.propagated = Wanted
    /\ pc \in {"extract", "outwards"} =>
          call.propagated = Wanted /\ call.route = Chosen
    /\ pc = "extract" => call.depth = 3
    /\ pc = "outwards" =>
          /\ call.depth < 2 => answer.id = Wanted
          /\ answer.by = call.route.by
          /\ answer.error = Rejection
    /\ pc # "outwards" => answer = NoAnswer

RoutingInv == TypeOK /\ RouterInv /\ CallInv

-----------------------------------------------------------------------------
(* Types.                                                                  *)

(* axum's own handlers are handlers. *)
LEMMA NotFoundType ==
    /\ NotFound \in Handlers /\ MethodNotAllowed \in Handlers
    /\ NotFound.by = "not_found" /\ NotFound.takes = "nothing"
    /\ MethodNotAllowed.by = "method_not_allowed"
    /\ MethodNotAllowed.takes = "nothing"
    /\ NotFound.auth_layer = FALSE /\ MethodNotAllowed.auth_layer = FALSE
<1>1. /\ "not_found" \in Owners /\ "method_not_allowed" \in Owners
      /\ "nothing" \in Extractors
  BY DEF Owners, Extractors
<1>2. NotFound \in Handlers /\ MethodNotAllowed \in Handlers
  BY <1>1 DEF NotFound, MethodNotAllowed, Handler, Handlers
<1> QED
  BY <1>2 DEF NotFound, MethodNotAllowed, Handler

LEMMA ConsumerType ==
    ASSUME consumer \in Consumer
    PROVE  /\ consumer.routes \in [DOMAIN consumer.routes -> Extractors]
           /\ DOMAIN consumer.routes \subseteq ConsumerEndpoints
           /\ consumer.fallback \in Extractors \cup {None}
           /\ consumer.auth \in BOOLEAN
           /\ ~ consumer.auth =>
                 /\ consumer.fallback # "AuthUser"
                 /\ \A e \in DOMAIN consumer.routes : consumer.routes[e] # "AuthUser"
BY DEF Consumer

(* So are all the router is given. *)
LEMMA OwnerType ==
    ASSUME consumer \in Consumer
    PROVE  /\ Fallback \in Handlers /\ Fallback.auth_layer = FALSE
           /\ \A e \in Complete :
                 Owner(e) \in Handlers /\ Owner(e).auth_layer = FALSE
<1>1. /\ Fallback \in Handlers /\ Fallback.auth_layer = FALSE
  <2>1. CASE consumer.fallback = None
    BY <2>1, NotFoundType DEF Fallback
  <2>2. CASE consumer.fallback # None
    <3>1. consumer.fallback \in Extractors /\ "consumer_fallback" \in Owners
      BY <2>2, ConsumerType DEF Owners
    <3>2. Fallback = [by |-> "consumer_fallback", takes |-> consumer.fallback,
                      auth_layer |-> FALSE]
      BY <2>2 DEF Fallback, Handler
    <3> QED
      BY <3>1, <3>2 DEF Handlers
  <2> QED
    BY <2>1, <2>2
<1>2. ASSUME NEW e \in Complete
      PROVE  Owner(e) \in Handlers /\ Owner(e).auth_layer = FALSE
  <2>1. CASE e \in DOMAIN consumer.routes
    <3>1. consumer.routes[e] \in Extractors /\ "consumer" \in Owners
      BY <2>1, ConsumerType DEF Owners
    <3>2. Owner(e) = Handler("consumer", consumer.routes[e])
      BY <2>1 DEF Owner
    <3> QED
      BY <3>1, <3>2 DEF Handler, Handlers
  <2>2. CASE e \notin DOMAIN consumer.routes /\ e \in DOMAIN AuthRoutes
    BY <2>2, LibraryRoutes DEF Owner
  <2>3. CASE e \notin DOMAIN consumer.routes /\ e \notin DOMAIN AuthRoutes
    <3>1. e \in DOMAIN HealthRoute
      BY <1>2, <2>3 DEF Complete, AuthEndpoints
    <3>2. "health" \in Owners /\ "nothing" \in Extractors
      BY DEF Owners, Extractors
    <3>3. Owner(e) = Handler("health", "nothing")
      BY <2>3, <3>1, LibraryRoutes DEF Owner
    <3> QED
      BY <3>2, <3>3 DEF Handler, Handlers
  <2> QED
    BY <2>1, <2>2, <2>3
<1> QED
  BY <1>1, <1>2

LEMMA RouterType ==
    ASSUME consumer \in Consumer, NEW E \in SUBSET Complete
    PROVE  /\ Router(E) \in [routes : [E -> Handlers], fallback : Handlers]
           /\ DOMAIN Router(E).routes = E
           /\ \A e \in E : Router(E).routes[e] = Owner(e)
           /\ Router(E).fallback = Fallback
BY OwnerType DEF Router

(* Nothing of this depends on anything but the consumer. *)
LEMMA SameConsumer ==
    ASSUME consumer' = consumer
    PROVE  /\ Fallback' = Fallback /\ AuthEndpoints' = AuthEndpoints
           /\ Complete' = Complete /\ (NoneShadowed' <=> NoneShadowed)
           /\ \A e : Owner(e)' = Owner(e)
           /\ \A E : Router(E)' = Router(E)
BY DEF Fallback, AuthEndpoints, Complete, NoneShadowed, Owner, Router

-----------------------------------------------------------------------------
(* build().                                                                *)

(* The routes of a further part that are not there yet are merged in. *)
LEMMA MergedRouter ==
    ASSUME consumer \in Consumer, NEW D \in SUBSET Complete, NEW routes,
           D \cup DOMAIN routes \subseteq Complete,
           api = Router(D), ~ Overlap(routes),
           \A e \in DOMAIN routes : e \notin D => routes[e] = Owner(e)
    PROVE  [api EXCEPT !.routes = Merged(routes)] = Router(D \cup DOMAIN routes)
<1>1. DOMAIN api.routes = D /\ \A e \in D : api.routes[e] = Owner(e)
  BY RouterType
<1>2. Merged(routes) = [e \in D \cup DOMAIN routes |-> Owner(e)]
  BY <1>1 DEF Merged
<1> QED
  BY <1>2 DEF Router

(* A part that overlaps stops the program. *)
LEMMA AddStep ==
    ASSUME RoutingInv, MergeAuthRoutes \/ AddHealth
    PROVE  RoutingInv'
<1>1. consumer' = consumer /\ consumer \in Consumer
      /\ UNCHANGED <<stack, request, call, answer>>
  BY DEF MergeAuthRoutes, AddHealth, Add, RoutingInv, TypeOK
<1>2. CallInv' /\ pc' \in {"panic", "health", "layer"}
  BY <1>1 DEF RoutingInv, CallInv, MergeAuthRoutes, AddHealth, Add, Middleware
<1>3. CASE pc' = "panic"
  <2>1. api' = api
    BY <1>3 DEF MergeAuthRoutes, AddHealth, Add
  <2>2. TypeOK'
    BY <1>1, <1>3, <2>1 DEF RoutingInv, TypeOK
  <2>3. RouterInv'
    BY <1>3 DEF RouterInv
  <2> QED
    BY <1>2, <2>2, <2>3 DEF RoutingInv
<1>4. CASE pc' = "health"
  <2>1. /\ pc = "merge" /\ ~ Overlap(AuthRoutes)
        /\ api' = [api EXCEPT !.routes = Merged(AuthRoutes)]
    BY <1>4 DEF MergeAuthRoutes, AddHealth, Add
  <2>2. consumer.auth /\ api = Router(DOMAIN consumer.routes)
    BY <2>1 DEF RoutingInv, RouterInv
  <2>3. /\ DOMAIN consumer.routes \in SUBSET Complete
        /\ AuthEndpoints = DOMAIN AuthRoutes
        /\ DOMAIN consumer.routes \cup DOMAIN AuthRoutes \in SUBSET Complete
    BY <2>2 DEF Complete, AuthEndpoints
  <2>4. api' = Router(DOMAIN consumer.routes \cup AuthEndpoints)
    BY <1>1, <2>1, <2>2, <2>3, MergedRouter DEF Owner
  <2>5. DOMAIN consumer.routes \cap AuthEndpoints = {}
    BY <1>1, <2>1, <2>2, <2>3, RouterType DEF Overlap
  <2>6. RouterInv'
    BY <1>1, <1>4, <2>4, <2>5, SameConsumer DEF RouterInv
  <2>7. TypeOK'
    BY <1>1, <1>4, <2>3, <2>4, RouterType DEF RoutingInv, TypeOK
  <2> QED
    BY <1>2, <2>6, <2>7 DEF RoutingInv
<1>5. CASE pc' = "layer"
  <2> DEFINE taken == DOMAIN consumer.routes \cup AuthEndpoints
  <2>1. /\ pc = "health" /\ ~ Overlap(HealthRoute)
        /\ api' = [api EXCEPT !.routes = Merged(HealthRoute)]
    BY <1>5 DEF MergeAuthRoutes, AddHealth, Add
  <2>2. api = Router(taken) /\ DOMAIN consumer.routes \cap AuthEndpoints = {}
    BY <2>1 DEF RoutingInv, RouterInv
  <2>3. /\ taken \in SUBSET Complete /\ Complete \in SUBSET Complete
        /\ taken \cup DOMAIN HealthRoute = Complete
    BY DEF Complete
  <2>4. \A e \in DOMAIN HealthRoute : e \notin taken => HealthRoute[e] = Owner(e)
    BY LibraryRoutes DEF Owner
  <2>5. taken \cap DOMAIN HealthRoute = {}
    BY <1>1, <2>1, <2>2, <2>3, RouterType DEF Overlap
  <2>6. NoneShadowed
    BY <2>2, <2>5 DEF NoneShadowed
  <2> HIDE DEF taken
  <2>7. api' = Router(Complete)
    BY <1>1, <2>1, <2>2, <2>3, <2>4, MergedRouter
  <2>8. RouterInv'
    BY <1>1, <1>5, <2>6, <2>7, SameConsumer DEF RouterInv
  <2>9. TypeOK'
    BY <1>1, <1>5, <2>3, <2>7, RouterType DEF RoutingInv, TypeOK
  <2> QED
    BY <1>2, <2>8, <2>9 DEF RoutingInv
<1> QED
  BY <1>2, <1>3, <1>4, <1>5

(* The routes of the consumer come first, whatever was there before. *)
LEMMA TakeStep ==
    ASSUME RoutingInv, TakeRoutes
    PROVE  RoutingInv'
<1>1. /\ consumer' = consumer /\ consumer \in Consumer
      /\ UNCHANGED <<stack, request, call, answer>>
      /\ pc = "routes" /\ pc' = IF consumer.auth THEN "merge" ELSE "health"
  BY DEF TakeRoutes, RoutingInv, TypeOK
<1>2. DOMAIN consumer.routes \in SUBSET Complete
  BY DEF Complete
<1>3. api' = Router(DOMAIN consumer.routes)
  BY DEF TakeRoutes, Router, Owner, Fallback
<1>4. CallInv'
  BY <1>1 DEF RoutingInv, CallInv
<1>5. RouterInv'
  <2>1. CASE consumer.auth
    BY <1>1, <1>3, <2>1, SameConsumer DEF RouterInv
  <2>2. CASE ~ consumer.auth
    <3>1. /\ AuthEndpoints = {} /\ pc' = "health"
          /\ DOMAIN consumer.routes \cup AuthEndpoints = DOMAIN consumer.routes
      BY <1>1, <2>2 DEF AuthEndpoints
    <3> QED
      BY <1>1, <1>3, <3>1, SameConsumer DEF RouterInv
  <2> QED
    BY <2>1, <2>2
<1>6. TypeOK'
  BY <1>1, <1>2, <1>3, RouterType DEF RoutingInv, TypeOK
<1> QED
  BY <1>4, <1>5, <1>6 DEF RoutingInv

(* The layer is put around all that extracts AuthUser; without it, there   *)
(* is no AuthUser to extract.                                              *)
LEMMA LayerStep ==
    ASSUME RoutingInv, ApplyAuthLayer
    PROVE  RoutingInv'
<1>1. /\ consumer' = consumer /\ consumer \in Consumer
      /\ UNCHANGED <<stack, request, call, answer>>
      /\ pc = "layer" /\ pc' = "middleware"
      /\ api' = IF consumer.auth THEN Layered ELSE api
  BY DEF ApplyAuthLayer, RoutingInv, TypeOK
<1>2. /\ Complete \in SUBSET Complete /\ NoneShadowed
      /\ api = Router(Complete)
  BY <1>1 DEF RoutingInv, RouterInv
<1>3. /\ DOMAIN api.routes = Complete /\ api.fallback = Fallback
      /\ \A e \in Complete : api.routes[e] = Owner(e)
  BY <1>1, <1>2, RouterType
<1>4. /\ api' \in [routes : [Complete -> Handlers], fallback : Handlers]
      /\ \A e \in Complete : Serves(api'.routes[e], Owner(e))
      /\ Serves(api'.fallback, Fallback)
  <2>1. CASE consumer.auth
    <3> DEFINE layered(e) == [Owner(e) EXCEPT !.auth_layer = TRUE]
               fallback == [Fallback EXCEPT !.auth_layer = (Fallback # NotFound)]
    <3>1. api' = [routes |-> [e \in Complete |-> layered(e)],
                  fallback |-> fallback]
      BY <1>1, <1>3, <2>1 DEF Layered
    <3>2. \A e \in Complete : layered(e) \in Handlers
                                /\ Serves(layered(e), Owner(e))
      BY <1>1, OwnerType DEF Handlers, Serves
    <3>3. fallback \in Handlers /\ Serves(fallback, Fallback)
      <4>1. Fallback \in Handlers
        BY <1>1, OwnerType
      <4>2. CASE Fallback = NotFound
        <5>1. fallback = [Fallback EXCEPT !.auth_layer = FALSE]
          BY <4>2
        <5> HIDE DEF fallback
        <5> QED
          BY <4>1, <4>2, <5>1, NotFoundType DEF Handlers, Serves
      <4>3. CASE Fallback # NotFound
        <5>1. fallback = [Fallback EXCEPT !.auth_layer = TRUE]
          BY <4>3
        <5> HIDE DEF fallback
        <5> QED
          BY <4>1, <5>1 DEF Handlers, Serves
      <4> QED
        BY <4>2, <4>3
    <3> HIDE DEF layered, fallback
    <3> QED
      BY <3>1, <3>2, <3>3
  <2>2. CASE ~ consumer.auth
    <3>1. api' = api
      BY <1>1, <2>2
    <3>2. ASSUME NEW e \in Complete
          PROVE  Owner(e).takes # "AuthUser"
      <4>1. CASE e \in DOMAIN consumer.routes
        <5>1. consumer.routes[e] \in Extractors \ {"AuthUser"}
          BY <1>1, <2>2, <4>1, ConsumerType
        <5> QED
          BY <4>1, <5>1 DEF Owner, Handler
      <4>2. CASE e \notin DOMAIN consumer.routes
        <5>1. e \in DOMAIN HealthRoute
          BY <2>2, <3>2, <4>2 DEF Complete, AuthEndpoints
        <5>2. Owner(e) = Handler("health", "nothing")
          BY <4>2, <5>1, LibraryRoutes DEF Owner
        <5> QED
          BY <5>2 DEF Handler
      <4> QED
        BY <4>1, <4>2
    <3>3. Fallback.takes # "AuthUser"
      <4>1. CASE consumer.fallback = None
        BY <4>1, NotFoundType DEF Fallback
      <4>2. CASE consumer.fallback # None
        <5>1. consumer.fallback \in Extractors \ {"AuthUser"}
          BY <1>1, <2>2, <4>2, ConsumerType
        <5> QED
          BY <4>2, <5>1 DEF Fallback, Handler
      <4> QED
        BY <4>1, <4>2
    <3>4. api' \in [routes : [Complete -> Handlers], fallback : Handlers]
      BY <1>1, <1>2, <3>1, RouterType
    <3> QED
      BY <1>3, <3>1, <3>2, <3>3, <3>4 DEF Serves
  <2> QED
    BY <2>1, <2>2
<1>5. DOMAIN api'.routes = Complete
  BY <1>4
<1>6. CallInv'
  BY <1>1 DEF RoutingInv, CallInv
<1>7. RouterInv'
  BY <1>1, <1>2, <1>4, <1>5, SameConsumer DEF RouterInv, Serves
<1>8. TypeOK'
  BY <1>1, <1>4, <1>5 DEF RoutingInv, TypeOK
<1> QED
  BY <1>6, <1>7, <1>8 DEF RoutingInv

(* The middleware goes around the whole; after a panic all begins again. *)
LEMMA MiddlewareStep ==
    ASSUME RoutingInv, StandardMiddleware \/ Restart
    PROVE  RoutingInv'
<1>1. UNCHANGED <<consumer, api, request, call, answer>>
  BY DEF StandardMiddleware, Restart, built
<1>2. CASE StandardMiddleware
  <2>1. pc = "middleware" /\ pc' = "serving" /\ stack' = Middleware
    BY <1>2 DEF StandardMiddleware
  <2>2. CallInv'
    BY <1>1, <2>1 DEF RoutingInv, CallInv, NoAnswer, Middleware
  <2>3. RouterInv'
    BY <1>1, <2>1, SameConsumer DEF RoutingInv, RouterInv, Serves
  <2>4. call.depth \in 0..Len(stack')
    <3>1. Len(stack) \in {0, 3} /\ Len(stack') = 3
      BY <2>1 DEF RoutingInv, TypeOK, Middleware
    <3>2. call.depth \in 0..Len(stack)
      BY DEF RoutingInv, TypeOK
    <3>3. CASE Len(stack) = 0
      BY <3>1, <3>2, <3>3
    <3>4. CASE Len(stack) = 3
      BY <3>1, <3>2, <3>4
    <3> QED
      BY <3>1, <3>3, <3>4
  <2>5. TypeOK'
    BY <1>1, <2>1, <2>4 DEF RoutingInv, TypeOK, Middleware
  <2> QED
    BY <2>2, <2>3, <2>5 DEF RoutingInv
<1>3. CASE Restart
  BY <1>1, <1>3 DEF Restart, built, RoutingInv, CallInv, RouterInv, TypeOK,
                    NoAnswer, Middleware
<1> QED
  BY <1>2, <1>3

-----------------------------------------------------------------------------
(* A request and its answer.                                               *)

(* No step after build() changes the router. *)
LEMMA RouterStays ==
    ASSUME RoutingInv, UNCHANGED built,
           pc \in {"serving", "inwards", "extract", "outwards"},
           pc' \in {"serving", "inwards", "extract", "outwards"}
    PROVE  RouterInv'
<1>1. consumer' = consumer /\ api' = api
  BY DEF built
<1> QED
  BY <1>1, SameConsumer DEF RoutingInv, RouterInv, Serves

(* What is chosen and rejected depends on the router and the request. *)
LEMMA SameChoice ==
    ASSUME UNCHANGED <<api, request>>
    PROVE  Wanted' = Wanted /\ Chosen' = Chosen
BY DEF Wanted, Chosen, Matched

LEMMA SameRejection ==
    ASSUME request' = request, call'.route = call.route
    PROVE  Rejection' = Rejection
BY DEF Rejection, AuthUser

LEMMA RejectionType ==
    Rejection \in Refusals \cup {None}
BY DEF Rejection, AuthUser, WrongKind, Refusals

LEMMA WantedType ==
    ASSUME TypeOK
    PROVE  Wanted \in ClientIds \cup {Uuid}
BY DEF TypeOK, Wanted, Request

LEMMA ChosenType ==
    ASSUME TypeOK
    PROVE  Chosen \in Handlers
BY NotFoundType DEF TypeOK, Chosen, Matched

LEMMA ReceiveStep ==
    ASSUME RoutingInv, Receive
    PROVE  RoutingInv'
<1>1. PICK r \in Request : request' = r /\ call' = [NoCall EXCEPT !.header = r.id]
  BY DEF Receive
<1>2. pc = "serving" /\ pc' = "inwards" /\ UNCHANGED <<consumer, api, stack, answer>>
  BY DEF Receive, built
<1>3. /\ call'.depth = 0 /\ call'.header = r.id
      /\ call' \in [depth : {0}, header : Ids, propagated : Ids, route : Handlers]
  BY <1>1, NotFoundType DEF NoCall, Ids, Request
<1>4. stack = Middleware /\ Len(stack) = 3
  BY <1>2 DEF RoutingInv, CallInv, Middleware
<1>5. CallInv'
  BY <1>1, <1>2, <1>3, <1>4 DEF RoutingInv, CallInv, NoAnswer, Middleware
<1>6. call' \in [depth : 0..Len(stack), header : Ids, propagated : Ids,
                 route : Handlers]
  <2>1. 0 \in 0..Len(stack)
    BY <1>4
  <2> QED
    BY <1>3, <2>1
<1>7. TypeOK'
  BY <1>1, <1>2, <1>4, <1>6 DEF RoutingInv, TypeOK, Middleware
<1>8. RouterInv'
  BY <1>2, RouterStays DEF built
<1> QED
  BY <1>5, <1>7, <1>8 DEF RoutingInv

LEMMA InwardsStep ==
    ASSUME RoutingInv, Inwards
    PROVE  RoutingInv'
<1>1. /\ pc = "inwards" /\ call.depth < Len(stack) /\ pc' = pc
      /\ UNCHANGED <<consumer, api, stack, request, answer>>
  BY DEF Inwards, built
<1>2. stack = <<"set_request_id", "propagate_request_id", "trace">>
  BY <1>1 DEF RoutingInv, CallInv, Middleware
<1>3. /\ call \in [depth : 0..3, header : Ids, propagated : Ids,
                    route : Handlers]
      /\ call.depth \in 0..2
  BY <1>1, <1>2 DEF RoutingInv, TypeOK
<1> DEFINE layer == stack[call.depth + 1]
           header == IF layer = "set_request_id" THEN Assign(call.header)
                     ELSE call.header
           propagated == IF layer = "propagate_request_id" THEN call.header
                         ELSE call.propagated
<1>4. call' = [call EXCEPT !.depth = call.depth + 1, !.header = header,
                          !.propagated = propagated]
  BY <1>1, <1>3 DEF Inwards
<1>5. /\ layer = "set_request_id" <=> call.depth = 0
      /\ layer = "propagate_request_id" <=> call.depth = 1
  BY <1>2, <1>3
<1>6. /\ header = Wanted
      /\ call.depth + 1 > 1 => propagated = Wanted
      /\ call.depth = 0 => propagated = call.propagated
  <2>1. /\ call.header = IF call.depth = 0 THEN request.id ELSE Wanted
        /\ call.depth > 1 => call.propagated = Wanted
    BY <1>1 DEF RoutingInv, CallInv
  <2>2. CASE call.depth = 0
    BY <1>5, <2>1, <2>2 DEF Assign, Wanted
  <2>3. CASE call.depth = 1
    BY <1>5, <2>1, <2>3
  <2>4. CASE call.depth = 2
    BY <1>5, <2>1, <2>4
  <2> QED
    BY <1>3, <2>2, <2>3, <2>4
<1>7. header \in Ids /\ propagated \in Ids /\ call.depth + 1 \in 1..3
  <2>1. Wanted \in Ids
    BY WantedType DEF RoutingInv, Ids
  <2> QED
    BY <1>3, <1>6, <2>1
<1> HIDE DEF header, propagated
<1>8. /\ call'.depth = call.depth + 1 /\ call'.header = header
      /\ call'.propagated = propagated
      /\ call' \in [depth : 0..3, header : Ids, propagated : Ids,
                     route : Handlers]
  <2>1. call.depth + 1 \in 0..3
    BY <1>7
  <2> QED
    BY <1>3, <1>4, <1>7, <2>1
<1>9. CallInv'
  <2>1. Wanted' = Wanted
    BY <1>1, SameChoice
  <2>2. call'.depth # 0
    BY <1>7, <1>8
  <2> QED
    BY <1>1, <1>6, <1>8, <2>1, <2>2 DEF RoutingInv, CallInv, NoAnswer, Middleware
<1>10. TypeOK'
  <2>1. Len(stack') = 3
    BY <1>1, <1>2
  <2> QED
    BY <1>1, <1>8, <2>1 DEF RoutingInv, TypeOK, Middleware
<1>11. RouterInv'
  BY <1>1, RouterStays DEF built
<1> QED
  BY <1>9, <1>10, <1>11 DEF RoutingInv

LEMMA DispatchStep ==
    ASSUME RoutingInv, Dispatch
    PROVE  RoutingInv'
<1>1. /\ pc = "inwards" /\ call.depth = Len(stack) /\ pc' = "extract"
      /\ call' = [call EXCEPT !.route = Chosen]
      /\ UNCHANGED <<consumer, api, stack, request, answer>>
  BY DEF Dispatch, built, Chosen
<1>2. stack = Middleware /\ Len(stack) = 3
  BY <1>1 DEF RoutingInv, CallInv, Middleware
<1>3. /\ call \in [depth : 0..Len(stack), header : Ids, propagated : Ids,
                    route : Handlers]
      /\ Chosen \in Handlers
  BY ChosenType DEF RoutingInv, TypeOK
<1>4. /\ call' \in [depth : 0..Len(stack), header : Ids, propagated : Ids,
                     route : Handlers]
      /\ call'.depth = 3 /\ call'.propagated = call.propagated
      /\ call'.route = Chosen
  BY <1>1, <1>2, <1>3
<1>5. call.propagated = Wanted
  BY <1>1, <1>2 DEF RoutingInv, CallInv
<1>6. CallInv'
  BY <1>1, <1>2, <1>4, <1>5, SameChoice DEF RoutingInv, CallInv, NoAnswer, Middleware
<1>7. TypeOK'
  BY <1>1, <1>4 DEF RoutingInv, TypeOK, Middleware
<1>8. RouterInv'
  BY <1>1, RouterStays DEF built
<1> QED
  BY <1>6, <1>7, <1>8 DEF RoutingInv

LEMMA HandleStep ==
    ASSUME RoutingInv, Handle
    PROVE  RoutingInv'
<1>1. /\ pc = "extract" /\ pc' = "outwards"
      /\ UNCHANGED <<consumer, api, stack, request, call>>
      /\ answer' = [by |-> call.route.by, error |-> Rejection, id |-> None]
  BY DEF Handle, built
<1>2. /\ answer'.by = call.route.by /\ answer'.error = Rejection
      /\ answer' \in [by : Owners \cup {"nobody"}, error : Refusals \cup {None}, id : Ids]
  BY <1>1, RejectionType DEF RoutingInv, TypeOK, Handlers, Ids
<1>3. CallInv'
  <2>1. call.depth = 3 /\ call.propagated = Wanted /\ call.route = Chosen
        /\ stack = Middleware
    BY <1>1 DEF RoutingInv, CallInv
  <2>2. Wanted' = Wanted /\ Chosen' = Chosen
    BY <1>1, SameChoice
  <2>3. answer'.error = Rejection'
    BY <1>1, <1>2, SameRejection
  <2> QED
    BY <1>1, <1>2, <2>1, <2>2, <2>3 DEF CallInv, Middleware
<1>4. TypeOK'
  BY <1>1, <1>2 DEF RoutingInv, TypeOK, Middleware
<1>5. RouterInv'
  BY <1>1, RouterStays DEF built
<1> QED
  BY <1>3, <1>4, <1>5 DEF RoutingInv

LEMMA OutwardsStep ==
    ASSUME RoutingInv, Outwards
    PROVE  RoutingInv'
<1>1. /\ pc = "outwards" /\ pc' = pc /\ call.depth > 0
      /\ UNCHANGED <<consumer, api, stack, request>>
      /\ call' = [call EXCEPT !.depth = call.depth - 1]
      /\ answer' = IF stack[call.depth] = "propagate_request_id"
                   THEN [answer EXCEPT !.id = call.propagated] ELSE answer
  BY DEF Outwards, built
<1>2. stack = <<"set_request_id", "propagate_request_id", "trace">>
  BY <1>1 DEF RoutingInv, CallInv, Middleware
<1>3. call.depth \in 1..3 /\ Len(stack) = 3
  BY <1>1, <1>2 DEF RoutingInv, TypeOK
<1>4. /\ call' \in [depth : 0..3, header : Ids, propagated : Ids,
                     route : Handlers]
      /\ call'.depth = call.depth - 1 /\ call'.route = call.route
      /\ call'.propagated = call.propagated
  <2>1. call.depth - 1 \in 0..3
    BY <1>3
  <2> QED
    BY <1>1, <1>3, <2>1 DEF RoutingInv, TypeOK
<1>5. /\ call.propagated = Wanted /\ call.route = Chosen
      /\ call.depth < 2 => answer.id = Wanted
      /\ answer.by = call.route.by /\ answer.error = Rejection
  BY <1>1 DEF RoutingInv, CallInv
<1>6. stack[call.depth] = "propagate_request_id" <=> call.depth = 2
  BY <1>2, <1>3
<1>7. /\ answer' \in [by : Owners \cup {"nobody"}, error : Refusals \cup {None}, id : Ids]
      /\ answer'.by = answer.by /\ answer'.error = answer.error
      /\ answer'.id = IF call.depth = 2 THEN Wanted ELSE answer.id
  <2>1. Wanted \in Ids
    BY WantedType DEF RoutingInv, Ids
  <2> QED
    BY <1>1, <1>5, <1>6, <2>1 DEF RoutingInv, TypeOK
<1>8. call'.depth < 2 => answer'.id = Wanted
  <2>1. CASE call.depth = 2
    BY <1>7, <2>1
  <2>2. CASE call.depth # 2
    <3>1. call'.depth < 2 => call.depth < 2
      BY <1>3, <1>4, <2>2
    <3> QED
      BY <1>5, <1>7, <2>2, <3>1
  <2> QED
    BY <2>1, <2>2
<1>9. CallInv'
  <2>1. Wanted' = Wanted /\ Chosen' = Chosen
    BY <1>1, SameChoice
  <2>2. answer'.error = Rejection'
    BY <1>1, <1>4, <1>5, <1>7, SameRejection
  <2>3. stack' = Middleware
    BY <1>1, <1>2 DEF Middleware
  <2> QED
    BY <1>1, <1>4, <1>5, <1>7, <1>8, <2>1, <2>2, <2>3 DEF CallInv, Middleware
<1>10. TypeOK'
  <2>1. Len(stack') = 3
    BY <1>1, <1>3
  <2> QED
    BY <1>1, <1>4, <1>7, <2>1 DEF RoutingInv, TypeOK, Middleware
<1>11. RouterInv'
  BY <1>1, RouterStays DEF built
<1> QED
  BY <1>9, <1>10, <1>11 DEF RoutingInv

LEMMA RespondStep ==
    ASSUME RoutingInv, Respond
    PROVE  RoutingInv'
<1>1. /\ pc = "outwards" /\ pc' = "serving" /\ call' = NoCall
      /\ answer' = NoAnswer
      /\ UNCHANGED <<consumer, api, stack, request>>
  BY DEF Respond, built
<1>2. CallInv'
  BY <1>1 DEF RoutingInv, CallInv, NoAnswer, Middleware
<1>3. TypeOK'
  <2>1. /\ NoCall \in [depth : {0}, header : Ids, propagated : Ids,
                        route : Handlers]
        /\ NoAnswer \in [by : Owners \cup {"nobody"},
                          error : Refusals \cup {None}, id : Ids]
    BY NotFoundType DEF NoCall, NoAnswer, Ids
  <2>2. 0 \in 0..Len(stack')
    BY <1>1 DEF RoutingInv, TypeOK, Middleware
  <2> QED
    BY <1>1, <2>1, <2>2 DEF RoutingInv, TypeOK, Middleware
<1>4. RouterInv'
  BY <1>1, RouterStays DEF built
<1> QED
  BY <1>2, <1>3, <1>4 DEF RoutingInv

-----------------------------------------------------------------------------
(* The theorems.                                                           *)

(* A new program has the types, and no router yet. *)
LEMMA InitRouting == Init => RoutingInv
<1> SUFFICES ASSUME Init PROVE RoutingInv
  OBVIOUS
<1>1. api.routes \in [DOMAIN api.routes -> Handlers]
  BY DEF Init
<1>2. NoRequest \in Request
  BY RoutingAssumption DEF NoRequest, Request
<1>3. NoCall \in [depth : 0..0, header : Ids, propagated : Ids, route : Handlers]
  BY NotFoundType DEF NoCall, Ids
<1>4. NoAnswer \in [by : Owners \cup {"nobody"}, error : Refusals \cup {None}, id : Ids]
  BY DEF NoAnswer, Ids
<1>5. api \in [routes : [DOMAIN api.routes -> Handlers], fallback : Handlers]
  BY <1>1, NotFoundType DEF Init
<1>6. Len(stack) = 0
  BY DEF Init
<1>7. TypeOK
  BY <1>2, <1>3, <1>4, <1>5, <1>6 DEF Init, TypeOK
<1>8. RouterInv /\ CallInv
  BY DEF Init, RouterInv, CallInv
<1> QED
  BY <1>7, <1>8 DEF RoutingInv

(* Every step of build() and of a request keeps all of it. *)
THEOREM RoutingInvariant == Spec => []RoutingInv
<1>1. RoutingInv /\ [Next]_vars => RoutingInv'
  <2> SUFFICES ASSUME RoutingInv, [Next]_vars PROVE RoutingInv'
    OBVIOUS
  <2>1. CASE UNCHANGED vars
    <3>1. UNCHANGED <<consumer, api, stack, pc, request, call, answer>>
      BY <2>1 DEF vars, built
    <3>2. TypeOK'
      BY <3>1 DEF RoutingInv, TypeOK, Middleware
    <3>3. RouterInv'
      BY <3>1, SameConsumer DEF RoutingInv, RouterInv, Serves
    <3>4. CallInv'
      BY <3>1, SameChoice, SameRejection
         DEF RoutingInv, CallInv, NoAnswer, Middleware
    <3> QED
      BY <3>2, <3>3, <3>4 DEF RoutingInv
  <2> QED
    BY <2>1, TakeStep, AddStep, LayerStep, MiddlewareStep, ReceiveStep,
       InwardsStep, DispatchStep, HandleStep, OutwardsStep, RespondStep
       DEF Next
<1> QED
  BY <1>1, InitRouting, PTL DEF Spec

(* The router, the request and its answer have their types, with errors    *)
(* of the library only.                                                    *)
THEOREM RoutingTypes == Spec => []TypeOK
<1>1. RoutingInv => TypeOK
  BY DEF RoutingInv
<1> QED
  BY <1>1, RoutingInvariant, PTL

(* Who answers for an endpoint that is routed. *)
LEMMA ChosenOwner ==
    ASSUME RoutingInv, Answered, request.nested, request.endpoint \in Complete
    PROVE  /\ answer.by = Owner(request.endpoint).by
           /\ NoneShadowed
BY DEF RoutingInv, Answered, CallInv, RouterInv, Chosen, Matched, Serves

(* No endpoint is answered by another than its owner: build() refuses a    *)
(* router that claims one of the library's.                                *)
THEOREM OwnersAnswer == Spec => []EndpointsReachTheirOwner
<1>1. RoutingInv => EndpointsReachTheirOwner
  <2> SUFFICES ASSUME RoutingInv, Answered, request.nested
               PROVE  EndpointsReachTheirOwner
    BY DEF EndpointsReachTheirOwner
  <2> DEFINE e == request.endpoint
  <2>1. ASSUME e \in DOMAIN consumer.routes
        PROVE  answer.by = "consumer"
    BY <2>1, ChosenOwner DEF Complete, Owner, Handler
  <2>2. ASSUME e \in DOMAIN HealthRoute
        PROVE  answer.by = "health"
    <3>1. e \in Complete
      BY <2>2 DEF Complete
    <3>2. answer.by = Owner(e).by /\ e \notin DOMAIN consumer.routes
      BY <2>2, <3>1, ChosenOwner DEF NoneShadowed
    <3>3. Owner(e) = Handler("health", "nothing")
      BY <2>2, <3>2, LibraryRoutes DEF Owner
    <3> QED
      BY <3>2, <3>3 DEF Handler
  <2>3. ASSUME consumer.auth, e \in DOMAIN AuthRoutes
        PROVE  answer.by = AuthRoutes[e].by
    <3>1. e \in Complete /\ e \in AuthEndpoints
      BY <2>3 DEF Complete, AuthEndpoints
    <3>2. answer.by = Owner(e).by /\ e \notin DOMAIN consumer.routes
      BY <3>1, ChosenOwner DEF NoneShadowed
    <3> QED
      BY <2>3, <3>2 DEF Owner
  <2> QED
    BY <2>1, <2>2, <2>3 DEF EndpointsReachTheirOwner
<1> QED
  BY <1>1, RoutingInvariant, PTL

(* What is chosen has the layer if it needs it. *)
LEMMA ChosenServes ==
    ASSUME RoutingInv,
           pc \in {"middleware", "serving", "inwards", "extract", "outwards"}
    PROVE  Chosen.takes = "AuthUser" => Chosen.auth_layer
<1>1. CASE ~ request.nested
  BY <1>1, NotFoundType DEF Chosen
<1>2. CASE request.nested /\ request.endpoint \in DOMAIN api.routes
  BY <1>2 DEF Chosen, Matched, RoutingInv, RouterInv, Serves
<1>3. CASE request.nested /\ request.endpoint \notin DOMAIN api.routes
  BY <1>3, NotFoundType DEF Chosen, Matched, RoutingInv, RouterInv, Serves
<1> QED
  BY <1>1, <1>2, <1>3

(* AuthUser finds its configuration wherever it is extracted. *)
THEOREM LayerWhereNeeded == Spec => []AuthLayerNeverMissing
<1>1. RoutingInv => AuthLayerNeverMissing
  <2> SUFFICES ASSUME RoutingInv PROVE answer.error # "AUTH_LAYER_MISSING"
    BY DEF AuthLayerNeverMissing
  <2>1. None # "AUTH_LAYER_MISSING"
    BY RoutingAssumption DEF Refusals
  <2>2. CASE pc # "outwards"
    BY <2>1, <2>2 DEF RoutingInv, CallInv, NoAnswer
  <2>3. CASE pc = "outwards"
    <3>1. answer.error = Rejection /\ call.route = Chosen
      BY <2>3 DEF RoutingInv, CallInv
    <3>2. call.route.takes = "AuthUser" => call.route.auth_layer
      BY <2>3, <3>1, ChosenServes
    <3>3. call.route.auth_layer => AuthUser # "AUTH_LAYER_MISSING"
      BY <2>1 DEF AuthUser, WrongKind
    <3> QED
      BY <2>1, <3>1, <3>2, <3>3 DEF Rejection
  <2> QED
    BY <2>2, <2>3
<1> QED
  BY <1>1, RoutingInvariant, PTL

(* The id is there in every answer that leaves, whoever gave it. *)
THEOREM RequestIdsReturn == Spec => []AnswersCarryRequestId
<1>1. RoutingInv => AnswersCarryRequestId
  BY DEF RoutingInv, CallInv, Answered, AnswersCarryRequestId, Wanted
<1> QED
  BY <1>1, RoutingInvariant, PTL

=============================================================================

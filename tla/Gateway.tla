---- MODULE Gateway ----
(***************************************************************************)
(* From a configuration to the handler of a request: the configuration is  *)
(* loaded, the routes it asks for are registered one after the other, and  *)
(* requests are routed, authenticated and allowed or refused, by the       *)
(* worker (src/index.js) with the keys in KV and by the Durable Object     *)
(* with its own.                                                           *)
(*                                                                         *)
(* One request is under way at a time, as the table does not change while  *)
(* requests are served; keys are revoked meanwhile.  What handlers do is   *)
(* in the other modules.                                                   *)
(***************************************************************************)
EXTENDS Configuration, Permissions, Router

CONSTANTS
  ValueOf,     \* what each layer gives for the settings routing reads
  Asked,       \* the methods and paths asked for
  Extra,       \* the routes an embedding program may add: kind and path
  ScopeSets,   \* the scopes a key may have
  None         \* no key, no source

VARIABLES
  stage,     \* of the start: "new", "configured", "routed", "serving"
  source,    \* what the configuration is made from, until the first route
  config,    \* where each setting comes from, until the last route
  routes,    \* the table, in the order of registration
  req        \* the request

vars == <<stage, source, config, routes, req>>

\* The holder of a key, or of none.  A key is in KV or in the object, never in both:
\* their values are drawn at random.
Holder == [place : {"kv", "object"}, scopes : ScopeSets, live : BOOLEAN]

Request == [pc : {"idle", "worker", "object", "handler", "done"},
            method : Methods, path : {a[2] : a \in Asked} \union {<<>>},
            who : Holder \union {None}, route : Nat, allow : SUBSET Methods,
            answer : {"none", "401", "403", "404", "405", "preflight", "setup", "forwarded",
                      "handled", "error"}]
Idle == [pc |-> "idle", method |-> "GET", path |-> <<>>, who |-> None, route |-> 0,
         allow |-> {}, answer |-> "none"]

\* The settings routing reads are among the settings, and lists of versions are lists;
\* requests are made of methods the router knows, and routes added are of its kinds.
ASSUME GatewayAssumption ==
  /\ {"versioning", "supported", "format"} \subseteq Settings
  /\ \A layer \in Layers \ {"unset"} : ValueOf.supported[layer] \in Seq(Segments)
  /\ \A asked \in Asked : asked[1] \in Methods
  /\ \A x \in Extra : x.kind \in Kinds
  /\ \A scopes \in ScopeSets : scopes \subseteq Seq(STRING)
  /\ None \notin Holder

Versioning == ValueOf.versioning[config.versioning]
Supported == ValueOf.supported[config.supported]
Prefix == ValueOf.format[config.format]
Table == setupRoutes(Versioning, Supported, Prefix)

----------------------------------------------------------------------------
(* The start *)

Configure ==
  /\ stage = "new"
  /\ source' \in Source
  /\ config' = setupConfig(source')
  /\ stage' = "configured"
  /\ UNCHANGED <<routes, req>>

\* The constructor of the Durable Object registers the next route.
Register ==
  /\ stage = "configured"
  /\ source' = None
  /\ routes' = Append(routes, Table[Len(routes) + 1])
  /\ stage' = IF Len(routes) + 1 = Len(Table) THEN "routed" ELSE "configured"
  /\ config' = IF Len(routes) + 1 = Len(Table) THEN Unset ELSE config
  /\ UNCHANGED req

\* A program that embeds the router adds routes to upstreams.
Extend ==
  /\ stage = "routed"
  /\ \E x \in Extra : routes' = routes \o addProxy(x.kind, x.path)
  /\ stage' = "serving"
  /\ UNCHANGED <<source, config, req>>

Serve ==
  /\ stage = "routed"
  /\ stage' = "serving"
  /\ UNCHANGED <<source, config, routes, req>>

\* A new deployment, or an eviction.
Restart ==
  /\ stage = "serving"
  /\ stage' = "new" /\ routes' = <<>> /\ req' = Idle
  /\ UNCHANGED <<source, config>>

----------------------------------------------------------------------------
(* The worker *)

Done(r, answer) == req' = [r EXCEPT !.pc = "done", !.answer = answer]

NeedsAdmin(path) == path[1] \in {"keys", "keys-cursor", "admin", "logs", "maintenance"}

\* fetch of index.js, in the order of its tests, with both bindings there (without one of
\* them it answers everything with an error).  For /health it reads config before it
\* is declared; fetch of the object, which asks the container for a method it does not
\* have, answers every request with an error: "forwarded" is all that is known.
AskWorker(method, path, who) ==
  LET r == [Idle EXCEPT !.method = method, !.path = path, !.who = who]
  IN CASE path = <<"health">> -> Done(r, "error")
       [] path = <<"setup">> /\ method = "POST" -> Done(r, "setup")
       [] method = "OPTIONS" /\ path # <<"health">> -> Done(r, "preflight")
       [] path = <<"validate">> /\ method # "OPTIONS" -> Done(r, "forwarded")
       [] NeedsAdmin(path) /\ method # "OPTIONS" /\ who = None -> Done(r, "401")
       [] NeedsAdmin(path) /\ method # "OPTIONS" /\ who # None -> req' = [r EXCEPT !.pc = "worker"]
       [] OTHER -> Done(r, "error")

\* authenticate: what the storage answered about the key.
Known(place) == req.who.place = place /\ req.who.live /\ hasAdminScope(req.who.scopes)

\* The authentication of older versions, in src/auth/index.js, tells a key that is not an
\* administrator's from one that is not valid.
authMiddleware(who) ==
  IF who = None \/ ~who.live THEN "401" ELSE IF ~hasAdminScope(who.scopes) THEN "403" ELSE "none"

\* handleAdminRequest, with the key looked up in KV.
WorkerValidates ==
  /\ req.pc = "worker"
  /\ Done(req, IF Known("kv") THEN "forwarded" ELSE "401")

----------------------------------------------------------------------------
(* The router of the object *)

\* handle: a route, or which methods there would be one for.
AskObject(method, path, who) ==
  LET r == [Idle EXCEPT !.method = method, !.path = path, !.who = who]
      found == findRoute(routes, method, path)
      allowed == allowedMethods(routes, path)
  IN CASE found = 0 /\ allowed = {} -> Done(r, "404")
       [] found = 0 /\ allowed # {} -> Done([r EXCEPT !.allow = allowed], "405")
       [] found # 0 /\ routes[found].permission = Public ->
            req' = [r EXCEPT !.route = found, !.pc = "handler"]
       [] found # 0 /\ routes[found].permission # Public /\ who = None -> Done(r, "401")
       [] OTHER -> req' = [r EXCEPT !.route = found, !.pc = "object"]

\* The authentication of a route, with the key looked up in the object's storage.
ObjectValidates ==
  /\ req.pc = "object"
  /\ CASE ~Known("object") -> Done(req, "401")
       [] Known("object") /\ hasPermission(req.who.scopes, routes[req.route].permission) ->
            req' = [req EXCEPT !.pc = "handler"]
       [] OTHER -> Done(req, "403")

\* The handler, or the controller it belongs to, answers in any way.
Handle ==
  /\ req.pc = "handler"
  /\ Done(req, "handled")

Ask ==
  /\ stage = "serving" /\ req.pc = "idle"
  /\ \E asked \in Asked, who \in {h \in Holder : h.live} \union {None} :
       AskWorker(asked[1], asked[2], who) \/ AskObject(asked[1], asked[2], who)
  /\ UNCHANGED <<stage, source, config, routes>>

Continue ==
  /\ WorkerValidates \/ ObjectValidates \/ Handle
  /\ UNCHANGED <<stage, source, config, routes>>

\* The key of the request is revoked, or expires.
Revoke ==
  /\ req.who # None /\ req.who.live
  /\ req.pc \in {"worker", "object", "handler"}
  /\ req' = [req EXCEPT !.who.live = FALSE]
  /\ UNCHANGED <<stage, source, config, routes>>

Answered ==
  /\ req.pc = "done"
  /\ req' = Idle
  /\ UNCHANGED <<stage, source, config, routes>>

Init ==
  /\ stage = "new"
  /\ source = None
  /\ config = Unset
  /\ routes = <<>>
  /\ req = Idle

Next == Configure \/ Register \/ Extend \/ Serve \/ Restart
          \/ Ask \/ Continue \/ Revoke \/ Answered

Spec == Init /\ [][Next]_vars

----------------------------------------------------------------------------
(* Properties *)

TypeOK ==
  /\ stage \in {"new", "configured", "routed", "serving"}
  /\ source \in Source \union {None}
  /\ config \in [Settings -> Layers]
  /\ \A i \in DOMAIN routes : /\ routes[i].method \in Methods /\ routes[i].kind \in Kinds
                             /\ routes[i].permission \in PERMISSION_SCOPES \union {Public}
  /\ req \in Request
  /\ req.route \in DOMAIN routes \union {0}

\* Where the guide and the code agree on the layers: CONFIG_ variables win over the file,
\* and the file over what is built in.  Each of the two is taken as a whole or dropped as
\* a whole, the file with the variables, so the configuration is never half of one that
\* was refused, and only production refuses one; there no secret in effect is one of
\* theirs for development.  About settings with an older variable or with a default in
\* the schema, on which the two disagree, it says no more than that.
LayersRespected ==
  source # None => \A s \in Settings :
    /\ config[s] = "env" => s \in source.env
    /\ config[s] = "file" => s \in source.file \ source.env /\ source.readable
    /\ s \in source.env \ source.legacy =>
         \/ config[s] = "env"
         \/ source.production /\ \A t \in Settings : config[t] \in {"builtin", "legacy"}
    /\ /\ s \in source.file \ (source.env \union source.legacy) /\ source.readable
       /\ ~(source.schema /\ s \in WithDefault)
       => \/ config[s] = "file"
          \/ source.production /\ \A t \in Settings : config[t] # "file"
    /\ source.production /\ s \in Secrets => config[s] \notin source.development

\* A route registered later takes a request from one registered earlier only if it is of
\* a kind with priority; with the router of older versions it never does.
Rank == [exact |-> 1, parameter |-> 2, regex |-> 3]
StableRoutes ==
  [][routes' # routes /\ stage' # "new" => \A a \in Asked :
       LET was == findRoute(routes, a[1], a[2])
           is == findRoute(routes', a[1], a[2])
           old == findRouteOld(routes, a[1], a[2])
       IN /\ was # 0 => is = was \/ (/\ is > Len(routes)
                                     /\ Rank[routes'[is].kind] < Rank[routes[was].kind])
          /\ old # 0 => findRouteOld(routes', a[1], a[2]) = old]_vars

\* What starts with the words of a scope up to its wildcard is covered by it.
Covers(scope, permission) ==
  \/ scope = permission
  \/ /\ Len(scope) > 1 /\ scope[Len(scope)] = "*" /\ Len(permission) >= Len(scope)
     /\ SubSeq(permission, 1, Len(scope) - 1) = SubSeq(scope, 1, Len(scope) - 1)

\* A handler is reached by way of the route that has priority over every other that
\* matches, and, if it has a permission, exactly by those a scope covers, the three ways
\* to match scopes being wider one after the other.  A response 405 allows exactly the
\* methods for which the path would find a route (whether there should be others is not
\* asked here).  The worker forwards nothing else than validations and requests of
\* administrators in KV, for whom the authentication of older versions stands too.
AnswerJustified ==
  LET permission == routes[req.route].permission
      covered == \E scope \in req.who.scopes : Covers(lower(scope), permission)
  IN /\ req.answer = "405" =>
          req.allow = {m \in Methods : findRoute(routes, m, req.path) # 0}
     /\ req.pc = "handler" => \A i \in DOMAIN routes \ {req.route} :
          routes[i].method = req.method /\ Matches(routes[i].path, req.path) =>
            \/ Rank[routes[req.route].kind] < Rank[routes[i].kind]
            \/ Rank[routes[req.route].kind] = Rank[routes[i].kind] /\ req.route < i
     /\ req.pc = "handler" /\ permission # Public =>
          /\ req.who # None /\ req.who.place = "object" /\ covered
          /\ hasScope(req.who.scopes, permission)
     /\ req.answer = "403" =>
          ~covered /\ ~hasRequiredScopes(req.who.scopes, {permission})
     /\ req.answer = "forwarded" =>
          \/ req.path = <<"validate">>
          \/ req.who # None /\ req.who.place = "kv" /\ authMiddleware(req.who) = "none"

----------------------------------------------------------------------------
(* Why they hold *)

\* Routes are registered from a complete configuration, and not all of them yet; until
\* they are, nothing is asked.
StartInv ==
  /\ stage = "new" => routes = <<>>
  /\ stage = "configured" =>
       config \in [Settings -> Layers \ {"unset"}] /\ Len(routes) < Len(Table)
  /\ stage # "serving" => req = Idle

\* There is no answer before the end; what is authenticated has a holder; and the route
\* of a request is the one found for it, as long as it is under way.
RequestInv ==
  /\ req.pc # "done" => req.answer = "none"
  /\ req.pc = "worker" => req.who # None
  /\ req.pc \in {"object", "handler"} =>
       /\ req.route # 0 /\ req.route = findRoute(routes, req.method, req.path)
       /\ routes[req.route].permission # Public => req.who # None
  /\ req.pc = "object" => routes[req.route].permission # Public

IndInv == TypeOK /\ StartInv /\ RequestInv /\ AnswerJustified

====

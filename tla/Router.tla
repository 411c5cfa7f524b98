---- MODULE Router ----
(***************************************************************************)
(* Routing by method and path: src/infrastructure/http/Router.js with the  *)
(* routes the Durable Object registers (src/lib/KeyManagerDurableObject.js *)
(* setupRoutes), and the router of older versions, src/lib/router.js.      *)
(*                                                                         *)
(* A path is the sequence of its segments.  A segment of a pattern is the  *)
(* set of the segments it matches: one for a literal, all for ":name", the *)
(* valid ones for a name whose pattern is in the configuration.            *)
(***************************************************************************)
EXTENDS Naturals, Sequences

CONSTANT Segments   \* the segments paths are made of

MethodsInOrder == <<"GET", "POST", "PUT", "DELETE", "PATCH", "HEAD", "OPTIONS">>
Methods == {MethodsInOrder[i] : i \in DOMAIN MethodsInOrder}

\* add, addRegex, addValidated: what is known of a route.  A pattern without names is
\* compared as a whole, one with ":name" segment by segment, and one with a validated
\* name has become a regular expression.
Kinds == {"exact", "parameter", "regex"}
Route(method, kind, path, permission) ==
  [method |-> method, kind |-> kind, path |-> path, permission |-> permission]
Literal(words) == [i \in DOMAIN words |-> {words[i]}]

Matches(pattern, path) ==
  Len(pattern) = Len(path) /\ \A i \in DOMAIN path : path[i] \in pattern[i]

\* FAULT (stands in for the next definition to show a property can fail): the table is
\* a map by method and path, in which a route replaces an earlier one.
Last(indexes) == CHOOSE i \in indexes : \A j \in indexes : i >= j

First(indexes) == CHOOSE i \in indexes : \A j \in indexes : i <= j

\* The routes of a kind that match, by their place in the table.
Hits(routes, method, path, kind) ==
  {i \in DOMAIN routes : /\ routes[i].method = method /\ routes[i].kind = kind
                         /\ Matches(routes[i].path, path)}

\* FAULT (stands in for the next definition to show a property can fail): regular
\* expressions are tried before parameters.
findRouteRegexFirst(routes, method, path) ==
  LET hits(kind) == Hits(routes, method, path, kind)
  IN IF hits("exact") # {} THEN First(hits("exact"))
     ELSE IF hits("regex") # {} THEN First(hits("regex"))
     ELSE IF hits("parameter") # {} THEN First(hits("parameter"))
     ELSE 0

\* findRoute: the first exact one, else the first with parameters, else the first
\* regular expression, else none.
findRoute(routes, method, path) ==
  LET hits(kind) == Hits(routes, method, path, kind)
  IN IF hits("exact") # {} THEN First(hits("exact"))
     ELSE IF hits("parameter") # {} THEN First(hits("parameter"))
     ELSE IF hits("regex") # {} THEN First(hits("regex"))
     ELSE 0

\* FAULT (stands in for the next definition to show a property can fail): regular
\* expressions are not asked.
pathMatchesNoRegex(route, path) == route.kind # "regex" /\ Matches(route.path, path)

\* handle, pathMatchesWithParams: does the path match, whatever the method?
pathMatches(route, path) == Matches(route.path, path)

\* The methods a response 405 allows; none, and the response is 404.
allowedMethods(routes, path) ==
  {routes[i].method : i \in {j \in DOMAIN routes : pathMatches(routes[j], path)}}

\* The older router has no regular expressions, and takes the first route that matches.
findRouteOld(routes, method, path) ==
  LET hits == {i \in DOMAIN routes : /\ routes[i].method = method /\ routes[i].kind # "regex"
                                     /\ Matches(routes[i].path, path)}
  IN IF hits = {} THEN 0 ELSE First(hits)

----------------------------------------------------------------------------
(* The table of the Durable Object *)

Public == <<>>
Any == Segments
Valid == [id |-> {"uuid"}, date |-> {"2024-01-31"}, status |-> {"active", "revoked", "expired"}]

\* addVersioned takes what precedes a version from the configuration, ...
addVersioned(versions, prefix, method, words, permission) ==
  [i \in DOMAIN versions |->
     Route(method, "exact", Literal(prefix \o <<versions[i]>> \o words), permission)]

\* ... addVersionedValidated has it written out.
addVersionedValidated(versions, method, word, valid, permission) ==
  [i \in DOMAIN versions |->
     Route(method, "regex", <<{versions[i]}, {word}, valid>>, permission)]

\* addProxy: every method, to an upstream that checks what it wants.
addProxy(kind, path) ==
  [i \in DOMAIN MethodsInOrder |-> Route(MethodsInOrder[i], kind, path, Public)]

\* setupRoutes, in order.  Without versions, versioning is off, and the path is plain.
setupRoutes(versioning, versions, prefix) ==
  LET keys(action) == <<"admin", "keys", action>>
      system(action) == <<"admin", "system", action>>
  IN << Route("OPTIONS", "exact", Literal(<<"*">>), Public),
        Route("GET", "exact", Literal(<<"health">>), Public),
        Route("POST", "exact", Literal(<<"maintenance", "cleanup">>), system("maintenance")),
        Route("POST", "exact", Literal(<<"validate">>), Public),
        Route("GET", "exact", Literal(<<"keys">>), keys("read")) >>
     \o (IF versioning THEN addVersioned(versions, prefix, "GET", <<"keys">>, keys("read"))
                       ELSE <<Route("GET", "exact", Literal(<<"keys">>), keys("read"))>>)
     \o << Route("POST", "exact", Literal(<<"keys">>), keys("create")),
           Route("GET", "regex", <<{"keys"}, Valid.id>>, keys("read")) >>
     \o (IF versioning THEN addVersionedValidated(versions, "DELETE", "keys", Valid.id, keys("revoke"))
                       ELSE <<Route("DELETE", "regex", <<{"keys"}, Valid.id>>, keys("revoke"))>>)
     \o << Route("POST", "parameter", <<{"keys"}, Any, {"rotate"}>>, keys("update")),
           Route("GET", "regex", <<{"keys"}, {"filter"}, {"status"}, Valid.status>>, keys("read")),
           Route("GET", "exact", Literal(<<"keys-cursor">>), keys("read")),
           Route("GET", "exact", Literal(<<"logs", "admin">>), system("logs")),
           Route("GET", "regex", <<{"logs"}, {"admin"}, Valid.date>>, system("logs")) >>

====

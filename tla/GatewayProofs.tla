---- MODULE GatewayProofs ----
(***************************************************************************)
(* Theorems about Gateway, for every set of settings, every table and      *)
(* every request: how the layers of a configuration are taken, which route *)
(* a request finds while the table grows, and that who reaches a handler   *)
(* agrees with the table and with the scopes of the key.                   *)
(***************************************************************************)
EXTENDS Gateway, SequenceTheorems, WellFoundedInduction, TLAPS

\* The layer a setting comes from, with the source as a parameter.
Sound(src, layer, settings) ==
  src.production => /\ Secrets \subseteq settings
                    /\ Secrets # {} => layer \notin src.development
Origin(src, s) ==
  CASE s \in src.legacy -> "legacy"
    [] s \notin src.legacy /\ ~Sound(src, "env", src.env) -> "builtin"
    [] OTHER -> IF s \in src.env THEN "env"
                ELSE IF src.schema /\ s \in WithDefault THEN "schema"
                ELSE IF /\ s \in src.file /\ src.readable
                        /\ Sound(src, "file", src.file) THEN "file"
                ELSE "builtin"

\* A layer fails the validation exactly if it is not sound: the secrets have no default.
LEMMA LayerCritical ==
  ASSUME NEW src \in Source, NEW settings \in SUBSET Settings, NEW layer \in {"file", "env"}
  PROVE  Critical(src, applyDefaults(src, Given(settings, layer)))
           <=> ~Sound(src, layer, settings)
<1> DEFINE c == applyDefaults(src, Given(settings, layer))
<1>1. \A s \in Secrets : c[s] = IF s \in settings THEN layer ELSE "unset"
  BY SettingsAssumption DEF applyDefaults, Given
<1>2. src.development \subseteq {"file", "env"} /\ src.production \in BOOLEAN
  BY DEF Source
<1> HIDE DEF c
<1>3. Critical(src, c) <=> ~Sound(src, layer, settings)
  BY <1>1, <1>2 DEF Critical, Sound
<1> QED BY <1>3 DEF c

\* The two layers merged fail the validation only if the variables do: they have all the
\* secrets if they pass.
LEMMA LoadFailsAlone ==
  ASSUME NEW src \in Source PROVE LoadFails(src) <=> ~Sound(src, "env", src.env)
<1>1. src.env \in SUBSET Settings
  BY SettingsAssumption DEF Source
<1>2. Critical(src, loadFromEnv(src)) <=> ~Sound(src, "env", src.env)
  BY <1>1, LayerCritical DEF loadFromEnv
<1>3. ASSUME Sound(src, "env", src.env), src.production PROVE ~Critical(src, load(src))
  <2>1. \A s \in Secrets : loadFromEnv(src)[s] = "env"
    BY <1>3, SettingsAssumption DEF loadFromEnv, applyDefaults, Given, Sound
  <2>2. \A s \in Secrets : load(src)[s] = "env"
    BY <2>1, SettingsAssumption DEF load, applyDefaults, mergeConfigs
  <2> QED BY <1>3, <2>2 DEF Critical, Sound
<1>4. ~src.production => ~Critical(src, load(src))
  BY DEF Critical
<1> QED BY <1>2, <1>3, <1>4 DEF LoadFails

LEMMA SetupConfig ==
  ASSUME NEW src \in Source, NEW s \in Settings PROVE setupConfig(src)[s] = Origin(src, s)
<1>1. src.file \in SUBSET Settings /\ src.env \in SUBSET Settings /\ src.readable \in BOOLEAN
      /\ src.schema \in BOOLEAN
  BY SettingsAssumption DEF Source
<1>2. \A d : Config(src, d)[s] = IF s \in src.legacy THEN "legacy"
                                 ELSE IF d[s] = "unset" THEN "builtin" ELSE d[s]
  BY DEF Config, applyLegacyEnvironmentOverrides, mergeValues, mergeConfigs
<1>3. Unset[s] = "unset"
  BY DEF Unset
<1>4. loadFromEnv(src)[s] = IF s \in src.env THEN "env"
                            ELSE IF src.schema /\ s \in WithDefault THEN "schema" ELSE "unset"
  BY DEF loadFromEnv, applyDefaults, Given
<1>5. loadFromFile(src)[s] =
        IF src.readable /\ Sound(src, "file", src.file)
          THEN IF s \in src.file THEN "file"
               ELSE IF src.schema /\ s \in WithDefault THEN "schema" ELSE "unset"
          ELSE "unset"
  <2>1. Critical(src, applyDefaults(src, Given(src.file, "file")))
          <=> ~Sound(src, "file", src.file)
    BY <1>1, LayerCritical
  <2>2. applyDefaults(src, Given(src.file, "file"))[s] =
          IF s \in src.file THEN "file"
          ELSE IF src.schema /\ s \in WithDefault THEN "schema" ELSE "unset"
    BY DEF applyDefaults, Given
  <2> QED BY <1>3, <2>1, <2>2 DEF loadFromFile
<1>6. load(src)[s] = IF s \in src.env THEN "env"
                     ELSE IF src.schema /\ s \in WithDefault THEN "schema"
                     ELSE IF /\ s \in src.file /\ src.readable
                             /\ Sound(src, "file", src.file) THEN "file" ELSE "unset"
  BY <1>4, <1>5 DEF load, applyDefaults, mergeConfigs
<1>7. setupConfig(src)[s] = IF s \in src.legacy THEN "legacy"
                            ELSE IF LoadFails(src) \/ load(src)[s] = "unset" THEN "builtin"
                            ELSE load(src)[s]
  BY <1>2, <1>3 DEF setupConfig
<1> QED BY <1>6, <1>7, LoadFailsAlone DEF Origin

ConfigInv == source # None => source \in Source /\ config = setupConfig(source)

LEMMA InitConfig == Init => ConfigInv
BY DEF Init, ConfigInv

LEMMA NextConfig == ConfigInv /\ [Next]_vars => ConfigInv'
<1> SUFFICES ASSUME ConfigInv, [Next]_vars PROVE ConfigInv'
  OBVIOUS
<1>1. CASE Configure
  BY <1>1 DEF Configure, ConfigInv
<1>2. CASE Register
  BY <1>2 DEF Register, ConfigInv
<1>3. CASE UNCHANGED <<source, config>>
  BY <1>3 DEF ConfigInv
<1> QED BY <1>1, <1>2, <1>3 DEF Next, Extend, Serve, Restart, Ask, Continue, Revoke,
                                 Answered, vars

LEMMA ConfigLayers == ConfigInv => LayersRespected
<1> SUFFICES ASSUME ConfigInv, source # None PROVE LayersRespected
  BY DEF LayersRespected
<1>1. source \in Source /\ \A s \in Settings : config[s] = Origin(source, s)
  BY SetupConfig DEF ConfigInv
<1>2. /\ source.env \subseteq Settings /\ source.development \subseteq {"file", "env"}
      /\ source.production \in BOOLEAN
  BY <1>1, SettingsAssumption DEF Source
<1>3. ~Sound(source, "env", source.env) =>
        source.production /\ \A t \in Settings : config[t] \in {"builtin", "legacy"}
  BY <1>1 DEF Origin, Sound
<1>4. ~Sound(source, "file", source.file) =>
        source.production /\ \A t \in Settings : config[t] # "file"
  BY <1>1 DEF Origin, Sound
<1>5. ASSUME NEW s \in Settings
      PROVE  /\ config[s] = "env" => s \in source.env /\ Sound(source, "env", source.env)
             /\ config[s] = "file" => /\ s \in source.file \ source.env /\ source.readable
                                      /\ Sound(source, "file", source.file)
             /\ s \in source.env \ source.legacy /\ Sound(source, "env", source.env) =>
                  config[s] = "env"
             /\ /\ s \in source.file \ (source.env \union source.legacy) /\ source.readable
                /\ ~(source.schema /\ s \in WithDefault)
                /\ Sound(source, "env", source.env) /\ Sound(source, "file", source.file)
                => config[s] = "file"
  BY <1>1 DEF Origin
<1>6. ASSUME NEW s \in Secrets, source.production PROVE config[s] \notin source.development
  <2>1. s \in Settings /\ Secrets # {}
    BY SettingsAssumption
  <2> QED BY <1>2, <1>5, <1>6, <2>1 DEF Sound
<1> QED BY <1>3, <1>4, <1>5, <1>6 DEF LayersRespected

\* Whatever the file, the variables and the schema give, the configuration setupConfig
\* returns takes CONFIG_ variables before the file and each of them as a whole or not at
\* all, and has no development secret of theirs in production.
THEOREM LayersAreRespected == Spec => []LayersRespected
<1> QED BY InitConfig, NextConfig, ConfigLayers, PTL DEF Spec

----------------------------------------------------------------------------
(* Routes registered later *)

LEMMA FirstIsLeast ==
  ASSUME NEW S \in SUBSET Nat, S # {}
  PROVE  First(S) \in S /\ \A j \in S : First(S) <= j
<1>1. PICK x \in S : \A y \in S : ~ (<<y, x>> \in OpToRel(<, Nat))
  <2>1. IsWellFoundedOn(OpToRel(<, Nat), Nat)
    BY NatLessThanWellFounded
  <2> HIDE DEF OpToRel
  <2> QED BY <2>1, WFMin
<1>2. \A y \in S : x <= y
  <2> SUFFICES ASSUME NEW y \in S, ~(x <= y) PROVE FALSE
    OBVIOUS
  <2>1. y < x /\ x \in Nat /\ y \in Nat
    OBVIOUS
  <2>2. <<y, x>> \in OpToRel(<, Nat)
    BY <2>1 DEF OpToRel
  <2> QED BY <1>1, <2>2
<1> QED BY <1>2 DEF First

\* Elements added above those of a set leave its first one the first.
LEMMA FirstStays ==
  ASSUME NEW S \in SUBSET Nat, NEW T \in SUBSET Nat, S # {}, S \subseteq T,
         \A i \in T \ S : \A j \in S : j < i
  PROVE  First(T) = First(S)
<1>1. First(S) \in S /\ \A j \in S : First(S) <= j
  BY FirstIsLeast
<1>2. First(T) \in T /\ \A j \in T : First(T) <= j
  BY FirstIsLeast
<1>3. PICK s \in Nat, t \in Nat : s = First(S) /\ t = First(T)
  BY <1>1, <1>2
<1>4. t <= s
  BY <1>1, <1>2, <1>3
<1>5. t \in S
  <2> SUFFICES ASSUME t \notin S PROVE FALSE
    OBVIOUS
  <2>1. s < t
    BY <1>1, <1>2, <1>3
  <2> QED BY <1>4, <2>1
<1>6. s <= t
  BY <1>1, <1>3, <1>5
<1> QED BY <1>3, <1>4, <1>6

\* A table and the same table with routes added at its end.
Prolongs(new, old) ==
  \E n \in Nat, m \in Nat :
    /\ n <= m /\ DOMAIN old = 1 .. n /\ DOMAIN new = 1 .. m
    /\ Len(old) = n
    /\ \A i \in 1 .. n : new[i] = old[i]

\* A larger table keeps the places of the routes of a kind, and puts others after them.
LEMMA HitsProlong ==
  ASSUME NEW old, NEW new, Prolongs(new, old), NEW method, NEW path, NEW kind
  PROVE  LET S == Hits(old, method, path, kind)
             T == Hits(new, method, path, kind)
         IN /\ S \in SUBSET Nat /\ T \in SUBSET Nat /\ S \subseteq T
            /\ \A i \in T \ S : i > Len(old) /\ \A j \in S : j < i
            /\ S # {} => First(T) = First(S)
            /\ \A i \in T : new[i].kind = kind
            /\ \A i \in S : old[i].kind = kind
<1> DEFINE S == Hits(old, method, path, kind)
           T == Hits(new, method, path, kind)
<1>1. PICK n \in Nat, m \in Nat :
        /\ n <= m /\ DOMAIN old = 1 .. n /\ DOMAIN new = 1 .. m /\ Len(old) = n
        /\ \A i \in 1 .. n : new[i] = old[i]
  BY DEF Prolongs
<1>2. /\ S \in SUBSET Nat /\ T \in SUBSET Nat
      /\ \A i \in 1 .. n : i \in S <=> i \in T
      /\ \A i \in S : i \in 1 .. n /\ old[i].kind = kind
      /\ \A i \in T : i \in 1 .. m /\ new[i].kind = kind
  BY <1>1 DEF Hits
<1> HIDE DEF S, T
<1>3. S \subseteq T /\ \A i \in T \ S : i > n /\ \A j \in S : j < i
  <2>1. S \subseteq T
    BY <1>2
  <2>2. ASSUME NEW i \in T \ S PROVE i \in Nat /\ i > n
    BY <1>1, <1>2
  <2>3. ASSUME NEW i \in T \ S, NEW j \in S PROVE j < i
    <3>1. i \in Nat /\ i > n /\ j \in 1 .. n
      BY <1>2, <2>2
    <3> QED BY <1>1, <3>1
  <2> QED BY <2>1, <2>2, <2>3
<1>4. S # {} => First(T) = First(S)
  BY <1>2, <1>3, FirstStays
<1> QED BY <1>1, <1>2, <1>3, <1>4 DEF S, T

LEMMA FindProlonged ==
  ASSUME NEW old, NEW new, Prolongs(new, old), NEW method, NEW path,
         findRoute(old, method, path) # 0
  PROVE  LET was == findRoute(old, method, path)
             is == findRoute(new, method, path)
         IN is = was \/ (is > Len(old) /\ Rank[new[is].kind] < Rank[old[was].kind])
<1> DEFINE O(kind) == Hits(old, method, path, kind)
           N(kind) == Hits(new, method, path, kind)
           was == findRoute(old, method, path)
           is == findRoute(new, method, path)
<1> SUFFICES is = was \/ (is > Len(old) /\ Rank[new[is].kind] < Rank[old[was].kind])
  OBVIOUS
<1>0. was # 0
  OBVIOUS
<1>1. \A kind : /\ O(kind) \in SUBSET Nat /\ N(kind) \in SUBSET Nat /\ O(kind) \subseteq N(kind)
                /\ \A i \in N(kind) \ O(kind) : i > Len(old)
                /\ O(kind) # {} => First(N(kind)) = First(O(kind))
                /\ \A i \in N(kind) : new[i].kind = kind
                /\ \A i \in O(kind) : old[i].kind = kind
  BY HitsProlong
<1>2. \A kind : /\ O(kind) # {} => First(O(kind)) \in O(kind)
                /\ N(kind) # {} => First(N(kind)) \in N(kind)
  BY <1>1, FirstIsLeast
<1>3. /\ was = IF O("exact") # {} THEN First(O("exact"))
               ELSE IF O("parameter") # {} THEN First(O("parameter"))
               ELSE IF O("regex") # {} THEN First(O("regex")) ELSE 0
      /\ is = IF N("exact") # {} THEN First(N("exact"))
              ELSE IF N("parameter") # {} THEN First(N("parameter"))
              ELSE IF N("regex") # {} THEN First(N("regex")) ELSE 0
  BY DEF findRoute
<1>4. Rank["exact"] = 1 /\ Rank["parameter"] = 2 /\ Rank["regex"] = 3
  BY DEF Rank
<1> HIDE DEF O, N, was, is
<1>5. CASE O("exact") # {}
  BY <1>1, <1>3, <1>5
<1>6. CASE O("exact") = {} /\ O("parameter") # {}
  <2>1. CASE N("exact") # {}
    <3>1. is \in N("exact") /\ is > Len(old) /\ new[is].kind = "exact"
      BY <1>1, <1>2, <1>3, <1>6, <2>1
    <3>2. old[was].kind = "parameter"
      BY <1>1, <1>2, <1>3, <1>6
    <3> QED BY <1>4, <3>1, <3>2
  <2>2. CASE N("exact") = {}
    BY <1>1, <1>3, <1>6, <2>2
  <2> QED BY <2>1, <2>2
<1>7. CASE O("exact") = {} /\ O("parameter") = {} /\ O("regex") # {}
  <2>0. old[was].kind = "regex"
    BY <1>1, <1>2, <1>3, <1>7
  <2>1. CASE N("exact") # {}
    <3>1. is > Len(old) /\ new[is].kind = "exact"
      BY <1>1, <1>2, <1>3, <1>7, <2>1
    <3> QED BY <1>4, <2>0, <3>1
  <2>2. CASE N("exact") = {} /\ N("parameter") # {}
    <3>1. is > Len(old) /\ new[is].kind = "parameter"
      BY <1>1, <1>2, <1>3, <1>7, <2>2
    <3> QED BY <1>4, <2>0, <3>1
  <2>3. CASE N("exact") = {} /\ N("parameter") = {}
    BY <1>1, <1>3, <1>7, <2>3
  <2> QED BY <2>1, <2>2, <2>3
<1>8. O("exact") # {} \/ O("parameter") # {} \/ O("regex") # {}
  BY <1>0, <1>3
<1> QED BY <1>5, <1>6, <1>7, <1>8

LEMMA FindOldProlonged ==
  ASSUME NEW old, NEW new, Prolongs(new, old), NEW method, NEW path,
         findRouteOld(old, method, path) # 0
  PROVE  findRouteOld(new, method, path) = findRouteOld(old, method, path)
<1> DEFINE H(routing) == {i \in DOMAIN routing :
                            /\ routing[i].method = method /\ routing[i].kind # "regex"
                            /\ Matches(routing[i].path, path)}
<1>1. PICK n \in Nat, m \in Nat :
        /\ n <= m /\ DOMAIN old = 1 .. n /\ DOMAIN new = 1 .. m
        /\ \A i \in 1 .. n : new[i] = old[i]
  BY DEF Prolongs
<1>2. /\ H(old) \in SUBSET Nat /\ H(new) \in SUBSET Nat
      /\ \A i \in 1 .. n : i \in H(old) <=> i \in H(new)
      /\ \A i \in H(old) : i \in 1 .. n
      /\ \A i \in H(new) : i \in 1 .. m
  BY <1>1
<1>3. /\ findRouteOld(old, method, path) = IF H(old) = {} THEN 0 ELSE First(H(old))
      /\ findRouteOld(new, method, path) = IF H(new) = {} THEN 0 ELSE First(H(new))
  BY DEF findRouteOld
<1> HIDE DEF H
<1>4. H(old) # {} /\ H(old) \subseteq H(new) /\ \A i \in H(new) \ H(old) : \A j \in H(old) : j < i
  BY <1>1, <1>2, <1>3
<1> QED BY <1>2, <1>3, <1>4, FirstStays

IsTable(table) == \E S : table \in Seq(S)

LEMMA ConcatProlongs ==
  ASSUME NEW s, NEW t, IsTable(s), IsTable(t)
  PROVE  IsTable(s \o t) /\ Prolongs(s \o t, s)
<1>1. PICK S, T : s \in Seq(S) /\ t \in Seq(T)
  BY DEF IsTable
<1>2. s \in Seq(S \union T) /\ t \in Seq(S \union T)
  BY <1>1, SeqMonotonic
<1>3. /\ s \o t \in Seq(S \union T) /\ Len(s \o t) = Len(s) + Len(t)
      /\ \A i \in 1 .. Len(s) + Len(t) : (s \o t)[i] = IF i <= Len(s) THEN s[i]
                                                       ELSE t[i - Len(s)]
  BY <1>2, ConcatProperties
<1>4. /\ Len(s) \in Nat /\ Len(t) \in Nat /\ DOMAIN s = 1 .. Len(s)
      /\ DOMAIN (s \o t) = 1 .. Len(s \o t)
  BY <1>2, <1>3, LenProperties
<1>5. Prolongs(s \o t, s)
  <2>1. Len(s \o t) \in Nat /\ Len(s) <= Len(s \o t) /\ \A i \in 1 .. Len(s) : (s \o t)[i] = s[i]
    BY <1>3, <1>4
  <2> QED BY <1>4, <2>1 DEF Prolongs
<1> QED BY <1>3, <1>5 DEF IsTable

LEMMA AppendProlongs ==
  ASSUME NEW s, NEW x, IsTable(s)
  PROVE  IsTable(Append(s, x)) /\ Prolongs(Append(s, x), s)
<1>1. PICK S : s \in Seq(S)
  BY DEF IsTable
<1>2. s \in Seq(S \union {x})
  BY <1>1, SeqMonotonic
<1>3. /\ Append(s, x) \in Seq(S \union {x}) /\ Len(Append(s, x)) = Len(s) + 1
      /\ \A i \in 1 .. Len(s) : Append(s, x)[i] = s[i]
      /\ Len(s) \in Nat /\ DOMAIN s = 1 .. Len(s)
      /\ DOMAIN Append(s, x) = 1 .. Len(s) + 1
  BY <1>2
<1>4. Prolongs(Append(s, x), s)
  <2>1. Len(s) + 1 \in Nat /\ Len(s) <= Len(s) + 1
    BY <1>3
  <2> QED BY <1>3, <2>1 DEF Prolongs
<1> QED BY <1>3, <1>4 DEF IsTable

LEMMA ProxyIsTable == ASSUME NEW kind, NEW path PROVE IsTable(addProxy(kind, path))
<1> DEFINE S == {Route(MethodsInOrder[i], kind, path, Public) : i \in DOMAIN MethodsInOrder}
<1>1. DOMAIN MethodsInOrder = 1 .. 7
  BY DEF MethodsInOrder
<1>2. addProxy(kind, path) \in [1 .. 7 -> S]
  BY <1>1 DEF addProxy
<1>3. 7 \in Nat
  OBVIOUS
<1>4. [1 .. 7 -> S] \subseteq Seq(S)
  BY <1>3, SeqDef
<1> QED BY <1>2, <1>4 DEF IsTable

Stable ==
  routes' # routes /\ stage' # "new" => \A a \in Asked :
    LET was == findRoute(routes, a[1], a[2])
        is == findRoute(routes', a[1], a[2])
        old == findRouteOld(routes, a[1], a[2])
    IN /\ was # 0 => is = was \/ (/\ is > Len(routes)
                                  /\ Rank[routes'[is].kind] < Rank[routes[was].kind])
       /\ old # 0 => findRouteOld(routes', a[1], a[2]) = old

LEMMA ProlongedIsStable == ASSUME Prolongs(routes', routes) PROVE Stable
BY FindProlonged, FindOldProlonged DEF Stable

LEMMA NextTable == IsTable(routes) /\ [Next]_vars => IsTable(routes)' /\ Stable
<1> SUFFICES ASSUME IsTable(routes), [Next]_vars PROVE IsTable(routes)' /\ Stable
  OBVIOUS
<1>1. CASE Register
  <2>1. PICK x : routes' = Append(routes, x)
    BY <1>1 DEF Register
  <2> QED BY <2>1, AppendProlongs, ProlongedIsStable
<1>2. CASE Extend
  <2>1. PICK t : routes' = routes \o t /\ IsTable(t)
    BY <1>2, ProxyIsTable DEF Extend
  <2> QED BY <2>1, ConcatProlongs, ProlongedIsStable
<1>3. CASE Restart
  <2>1. routes' = <<>> /\ stage' = "new" /\ <<>> \in Seq({})
    BY <1>3, EmptySeq DEF Restart
  <2> QED BY <2>1 DEF IsTable, Stable
<1>4. CASE UNCHANGED routes
  BY <1>4 DEF IsTable, Stable
<1> QED BY <1>1, <1>2, <1>3, <1>4 DEF Next, Configure, Serve, Ask, Continue, Revoke,
                                      Answered, vars

\* Whatever routes the constructor of the Durable Object registers, and whatever an
\* embedding program adds, findRoute takes a request from an earlier route only for a
\* later one of a kind it tries before, and the router of older versions never does.
THEOREM RoutesAreStable == Spec => StableRoutes
<1>1. Init => IsTable(routes)
  <2>1. <<>> \in Seq({})
    BY EmptySeq
  <2> QED BY <2>1 DEF Init, IsTable
<1>2. IsTable(routes) /\ [Next]_vars => IsTable(routes)' /\ [Stable]_vars
  BY NextTable
<1> QED BY <1>1, <1>2, PTL DEF Spec, StableRoutes, Stable
----------------------------------------------------------------------------
(* The table of the Durable Object, and the route found in it *)

RouteOK(route) ==
  /\ route.method \in Methods /\ route.kind \in Kinds
  /\ route.permission \in PERMISSION_SCOPES \union {Public}
TableOK(table) == IsTable(table) /\ \A i \in DOMAIN table : RouteOK(table[i])

LEMMA AppendOK ==
  ASSUME NEW t, TableOK(t), NEW route, RouteOK(route)
  PROVE  TableOK(Append(t, route)) /\ Len(Append(t, route)) = Len(t) + 1 /\ Len(t) \in Nat
<1>1. PICK S : t \in Seq(S)
  BY DEF TableOK, IsTable
<1>2. t \in Seq(S \union {route})
  BY <1>1, SeqMonotonic
<1>3. /\ Append(t, route) \in Seq(S \union {route}) /\ Len(Append(t, route)) = Len(t) + 1
      /\ Len(t) \in Nat /\ DOMAIN t = 1 .. Len(t)
      /\ DOMAIN Append(t, route) = 1 .. Len(t) + 1
      /\ \A i \in 1 .. Len(t) : Append(t, route)[i] = t[i]
      /\ Append(t, route)[Len(t) + 1] = route
  BY <1>2
<1>4. ASSUME NEW i \in 1 .. Len(t) + 1 PROVE RouteOK(Append(t, route)[i])
  <2>1. CASE i = Len(t) + 1
    BY <1>3, <2>1
  <2>2. CASE i # Len(t) + 1
    <3>1. i \in DOMAIN t
      BY <1>3, <2>2
    <3>2. Append(t, route)[i] = t[i]
      BY <1>3, <3>1
    <3> QED BY <3>1, <3>2 DEF TableOK
  <2> QED BY <2>1, <2>2
<1> QED BY <1>3, <1>4 DEF TableOK, IsTable

LEMMA ConcatOK ==
  ASSUME NEW s, NEW t, TableOK(s), TableOK(t)
  PROVE  TableOK(s \o t) /\ Len(s) \in Nat /\ Len(t) \in Nat /\ Len(s \o t) = Len(s) + Len(t)
<1>1. PICK S, T : s \in Seq(S) /\ t \in Seq(T)
  BY DEF TableOK, IsTable
<1>2. s \in Seq(S \union T) /\ t \in Seq(S \union T)
  BY <1>1, SeqMonotonic
<1>3. /\ s \o t \in Seq(S \union T) /\ Len(s \o t) = Len(s) + Len(t)
      /\ \A i \in 1 .. Len(s) + Len(t) : (s \o t)[i] = IF i <= Len(s) THEN s[i]
                                                       ELSE t[i - Len(s)]
  BY <1>2, ConcatProperties
<1>4. /\ Len(s) \in Nat /\ Len(t) \in Nat /\ DOMAIN s = 1 .. Len(s) /\ DOMAIN t = 1 .. Len(t)
      /\ DOMAIN (s \o t) = 1 .. Len(s) + Len(t)
  BY <1>2, <1>3, LenProperties
<1>5. ASSUME NEW i \in 1 .. Len(s) + Len(t) PROVE RouteOK((s \o t)[i])
  <2>1. CASE i <= Len(s)
    <3>1. i \in DOMAIN s /\ (s \o t)[i] = s[i]
      BY <1>3, <1>4, <2>1
    <3> QED BY <3>1 DEF TableOK
  <2>2. CASE ~(i <= Len(s))
    <3>1. i - Len(s) \in DOMAIN t /\ (s \o t)[i] = t[i - Len(s)]
      BY <1>3, <1>4, <2>2
    <3> QED BY <3>1 DEF TableOK
  <2> QED BY <2>1, <2>2
<1> QED BY <1>3, <1>4, <1>5 DEF TableOK, IsTable

\* A route for each element of a list makes a table.
LEMMA EachOK ==
  ASSUME NEW list, IsTable(list), NEW t,
         DOMAIN t = DOMAIN list, t = [i \in DOMAIN list |-> t[i]],
         \A i \in DOMAIN list : RouteOK(t[i])
  PROVE  TableOK(t)
<1>1. PICK S : list \in Seq(S)
  BY DEF IsTable
<1>2. Len(list) \in Nat /\ DOMAIN list = 1 .. Len(list)
  BY <1>1, LenProperties
<1> DEFINE T == {t[i] : i \in DOMAIN list}
<1>3. t \in [1 .. Len(list) -> T]
  BY <1>2
<1>4. t \in Seq(T)
  BY <1>2, <1>3, SeqDef
<1> QED BY <1>4 DEF TableOK, IsTable

LEMMA RouteIsOK ==
  ASSUME NEW method \in Methods, NEW kind \in Kinds, NEW path,
         NEW permission \in PERMISSION_SCOPES \union {Public}
  PROVE  RouteOK(Route(method, kind, path, permission))
BY DEF RouteOK, Route

LEMMA MethodsKnown ==
  /\ "GET" \in Methods /\ "POST" \in Methods /\ "DELETE" \in Methods /\ "OPTIONS" \in Methods
  /\ DOMAIN MethodsInOrder = 1 .. 7 /\ \A i \in 1 .. 7 : MethodsInOrder[i] \in Methods
<1>1. DOMAIN MethodsInOrder = 1 .. 7
  BY DEF MethodsInOrder
<1>2. /\ MethodsInOrder[1] = "GET" /\ MethodsInOrder[2] = "POST"
      /\ MethodsInOrder[4] = "DELETE" /\ MethodsInOrder[7] = "OPTIONS"
  BY DEF MethodsInOrder
<1> QED BY <1>1, <1>2 DEF Methods

LEMMA PermissionsKnown ==
  /\ \A a \in {"create", "read", "update", "revoke"} : <<"admin", "keys", a>> \in PERMISSION_SCOPES
  /\ \A a \in {"logs", "maintenance"} : <<"admin", "system", a>> \in PERMISSION_SCOPES
BY DEF PERMISSION_SCOPES, Scopes

LEMMA ProxyOK == ASSUME NEW kind \in Kinds, NEW path PROVE TableOK(addProxy(kind, path))
<1>1. IsTable(MethodsInOrder)
  <2>1. MethodsInOrder \in Seq({"GET", "POST", "PUT", "DELETE", "PATCH", "HEAD", "OPTIONS"})
    BY DEF MethodsInOrder
  <2> QED BY <2>1 DEF IsTable
<1>2. \A i \in DOMAIN MethodsInOrder : RouteOK(addProxy(kind, path)[i])
  BY MethodsKnown, RouteIsOK DEF addProxy
<1> QED BY <1>1, <1>2, EachOK DEF addProxy

LEMMA VersionedOK ==
  ASSUME NEW versions, IsTable(versions), NEW prefix, NEW method \in Methods, NEW words,
         NEW valid, NEW permission \in PERMISSION_SCOPES
  PROVE  /\ TableOK(addVersioned(versions, prefix, method, words, permission))
         /\ TableOK(addVersionedValidated(versions, method, words, valid, permission))
<1>1. "exact" \in Kinds /\ "regex" \in Kinds
  BY DEF Kinds
<1>2. /\ \A i \in DOMAIN versions :
           RouteOK(addVersioned(versions, prefix, method, words, permission)[i])
      /\ \A i \in DOMAIN versions :
           RouteOK(addVersionedValidated(versions, method, words, valid, permission)[i])
  BY <1>1, RouteIsOK DEF addVersioned, addVersionedValidated
<1> QED BY <1>2, EachOK DEF addVersioned, addVersionedValidated

LEMMA ListsOK ==
  /\ \A r : RouteOK(r) => TableOK(<<r>>)
  /\ \A r, s : RouteOK(r) /\ RouteOK(s) => TableOK(<<r, s>>)
  /\ \A r, s, t, u, v : RouteOK(r) /\ RouteOK(s) /\ RouteOK(t) /\ RouteOK(u) /\ RouteOK(v) =>
       TableOK(<<r, s, t, u, v>>) /\ Len(<<r, s, t, u, v>>) = 5
<1>1. ASSUME NEW r, RouteOK(r) PROVE TableOK(<<r>>)
  <2>1. <<r>> \in Seq({r}) /\ \A i \in DOMAIN <<r>> : <<r>>[i] = r
    OBVIOUS
  <2> QED BY <1>1, <2>1 DEF TableOK, IsTable
<1>2. ASSUME NEW r, NEW s, RouteOK(r), RouteOK(s) PROVE TableOK(<<r, s>>)
  <2>1. <<r, s>> \in Seq({r, s}) /\ \A i \in DOMAIN <<r, s>> : <<r, s>>[i] \in {r, s}
    OBVIOUS
  <2> QED BY <1>2, <2>1 DEF TableOK, IsTable
<1>3. ASSUME NEW r, NEW s, NEW t, NEW u, NEW v,
             RouteOK(r), RouteOK(s), RouteOK(t), RouteOK(u), RouteOK(v)
      PROVE  TableOK(<<r, s, t, u, v>>) /\ Len(<<r, s, t, u, v>>) = 5
  <2> DEFINE l == <<r, s, t, u, v>>
  <2>1. l \in Seq({r, s, t, u, v}) /\ Len(l) = 5 /\ \A i \in DOMAIN l : l[i] \in {r, s, t, u, v}
    OBVIOUS
  <2>2. \A x \in {r, s, t, u, v} : RouteOK(x)
    BY <1>3
  <2> HIDE DEF l
  <2>3. TableOK(l)
    BY <2>1, <2>2 DEF TableOK, IsTable
  <2> QED BY <2>1, <2>3 DEF l
<1> QED BY <1>1, <1>2, <1>3

LEMMA SetupOK ==
  ASSUME NEW versioning, NEW versions, IsTable(versions), NEW prefix
  PROVE  LET t == setupRoutes(versioning, versions, prefix) IN TableOK(t) /\ Len(t) > 0
<1> DEFINE keys(action) == <<"admin", "keys", action>>
           system(action) == <<"admin", "system", action>>
           a == << Route("OPTIONS", "exact", Literal(<<"*">>), Public),
                   Route("GET", "exact", Literal(<<"health">>), Public),
                   Route("POST", "exact", Literal(<<"maintenance", "cleanup">>), system("maintenance")),
                   Route("POST", "exact", Literal(<<"validate">>), Public),
                   Route("GET", "exact", Literal(<<"keys">>), keys("read")) >>
           b == IF versioning THEN addVersioned(versions, prefix, "GET", <<"keys">>, keys("read"))
                              ELSE <<Route("GET", "exact", Literal(<<"keys">>), keys("read"))>>
           c == << Route("POST", "exact", Literal(<<"keys">>), keys("create")),
                   Route("GET", "regex", <<{"keys"}, Valid.id>>, keys("read")) >>
           d == IF versioning
                  THEN addVersionedValidated(versions, "DELETE", "keys", Valid.id, keys("revoke"))
                  ELSE <<Route("DELETE", "regex", <<{"keys"}, Valid.id>>, keys("revoke"))>>
           e == << Route("POST", "parameter", <<{"keys"}, Any, {"rotate"}>>, keys("update")),
                   Route("GET", "regex", <<{"keys"}, {"filter"}, {"status"}, Valid.status>>,
                         keys("read")),
                   Route("GET", "exact", Literal(<<"keys-cursor">>), keys("read")),
                   Route("GET", "exact", Literal(<<"logs", "admin">>), system("logs")),
                   Route("GET", "regex", <<{"logs"}, {"admin"}, Valid.date>>, system("logs")) >>
<1>1. /\ "exact" \in Kinds /\ "parameter" \in Kinds /\ "regex" \in Kinds
      /\ "GET" \in Methods /\ "POST" \in Methods /\ "DELETE" \in Methods /\ "OPTIONS" \in Methods
  BY MethodsKnown DEF Kinds
<1>2. /\ \A x \in {"create", "read", "update", "revoke"} : keys(x) \in PERMISSION_SCOPES
      /\ \A x \in {"logs", "maintenance"} : system(x) \in PERMISSION_SCOPES
  BY PermissionsKnown
<1> HIDE DEF keys, system
<1>3. \A path : \A method \in {"GET", "POST", "DELETE", "OPTIONS"},
                   kind \in {"exact", "parameter", "regex"},
                   permission \in PERMISSION_SCOPES \union {Public} :
        RouteOK(Route(method, kind, path, permission))
  BY <1>1, RouteIsOK
<1>4. TableOK(a) /\ Len(a) = 5
  BY <1>2, <1>3, ListsOK
<1>5. TableOK(b)
  BY <1>1, <1>2, <1>3, ListsOK, VersionedOK
<1>6. TableOK(c)
  BY <1>2, <1>3, ListsOK
<1>7. TableOK(d)
  BY <1>1, <1>2, <1>3, ListsOK, VersionedOK
<1>8. TableOK(e)
  BY <1>2, <1>3, ListsOK
<1>9. setupRoutes(versioning, versions, prefix) = a \o b \o c \o d \o e
  BY DEF setupRoutes, keys, system
<1> HIDE DEF a, b, c, d, e
<1>10. TableOK(a \o b) /\ Len(a \o b) >= 5
  <2>1. TableOK(a \o b) /\ Len(b) \in Nat /\ Len(a \o b) = Len(a) + Len(b)
    BY <1>4, <1>5, ConcatOK
  <2> QED BY <1>4, <2>1
<1>11. TableOK(a \o b \o c) /\ Len(a \o b \o c) >= 5
  BY <1>6, <1>10, ConcatOK
<1>12. TableOK(a \o b \o c \o d) /\ Len(a \o b \o c \o d) >= 5
  BY <1>7, <1>11, ConcatOK
<1>13. TableOK(a \o b \o c \o d \o e) /\ Len(a \o b \o c \o d \o e) >= 5
  BY <1>8, <1>12, ConcatOK
<1> QED BY <1>9, <1>13, ConcatOK

\* The route found is the first, among those that match, of the kind tried first; when
\* none is found, none matches.
LEMMA Found ==
  ASSUME NEW table, TableOK(table), NEW method, NEW path
  PROVE  LET r == findRoute(table, method, path)
             hit(i) == table[i].method = method /\ Matches(table[i].path, path)
         IN /\ r = 0 => \A i \in DOMAIN table : ~hit(i)
            /\ r # 0 => /\ r \in DOMAIN table /\ hit(r)
                        /\ \A i \in DOMAIN table \ {r} : hit(i) =>
                             \/ Rank[table[r].kind] < Rank[table[i].kind]
                             \/ Rank[table[r].kind] = Rank[table[i].kind] /\ r < i
<1> DEFINE r == findRoute(table, method, path)
           hit(i) == table[i].method = method /\ Matches(table[i].path, path)
           H(kind) == Hits(table, method, path, kind)
<1>1. PICK n \in Nat : DOMAIN table = 1 .. n
  <2>1. PICK S : table \in Seq(S)
    BY DEF TableOK, IsTable
  <2> QED BY <2>1, LenProperties
<1>2. \A i \in DOMAIN table : table[i].kind \in {"exact", "parameter", "regex"}
  BY DEF TableOK, RouteOK, Kinds
<1>3. \A kind, i : i \in H(kind) <=> i \in DOMAIN table /\ table[i].kind = kind /\ hit(i)
  BY DEF Hits
<1>4. \A kind : H(kind) \in SUBSET Nat
  BY <1>1, <1>3
<1>5. r = IF H("exact") # {} THEN First(H("exact"))
          ELSE IF H("parameter") # {} THEN First(H("parameter"))
          ELSE IF H("regex") # {} THEN First(H("regex")) ELSE 0
  BY DEF findRoute
<1>6. Rank["exact"] = 1 /\ Rank["parameter"] = 2 /\ Rank["regex"] = 3
  BY DEF Rank
<1> HIDE DEF r, H, hit
<1>7. \A kind : H(kind) # {} =>
        First(H(kind)) \in H(kind) /\ \A i \in H(kind) : First(H(kind)) <= i
  BY <1>4, FirstIsLeast
<1>8. ASSUME NEW kind \in {"exact", "parameter", "regex"}, H(kind) # {}, r = First(H(kind)),
             \A k \in {"exact", "parameter", "regex"} : Rank[k] < Rank[kind] => H(k) = {}
      PROVE  /\ r \in DOMAIN table /\ r # 0 /\ hit(r)
             /\ \A i \in DOMAIN table \ {r} : hit(i) =>
                  \/ Rank[table[r].kind] < Rank[table[i].kind]
                  \/ Rank[table[r].kind] = Rank[table[i].kind] /\ r < i
  <2>1. r \in H(kind) /\ \A i \in H(kind) : r <= i
    BY <1>7, <1>8
  <2>2. r \in DOMAIN table /\ hit(r) /\ table[r].kind = kind
    BY <1>3, <2>1
  <2>3. ASSUME NEW i \in DOMAIN table \ {r}, hit(i)
        PROVE  \/ Rank[kind] < Rank[table[i].kind]
               \/ Rank[kind] = Rank[table[i].kind] /\ r < i
    <3>1. PICK k \in {"exact", "parameter", "regex"} : k = table[i].kind
      BY <1>2
    <3>2. i \in H(k)
      BY <1>3, <2>3, <3>1
    <3>3. ~(Rank[k] < Rank[kind])
      BY <1>8, <3>2
    <3>4. CASE k = kind
      <4>1. r <= i /\ r # i
        BY <2>1, <2>3, <3>2, <3>4
      <4>2. r \in Nat /\ i \in Nat
        BY <1>1, <2>2, <2>3
      <4> QED BY <3>1, <3>4, <4>1, <4>2
    <3>5. CASE k # kind
      BY <1>6, <3>1, <3>3, <3>5
    <3> QED BY <3>4, <3>5
  <2> QED BY <1>1, <2>2, <2>3
<1>9. CASE H("exact") # {}
  BY <1>5, <1>6, <1>8, <1>9 DEF hit, r
<1>10. CASE H("exact") = {} /\ H("parameter") # {}
  BY <1>5, <1>6, <1>8, <1>10 DEF hit, r
<1>11. CASE H("exact") = {} /\ H("parameter") = {} /\ H("regex") # {}
  BY <1>5, <1>6, <1>8, <1>11 DEF hit, r
<1>12. CASE H("exact") = {} /\ H("parameter") = {} /\ H("regex") = {}
  <2>1. r = 0
    BY <1>5, <1>12
  <2>2. \A i \in DOMAIN table : ~hit(i)
    BY <1>2, <1>3, <1>12
  <2> QED BY <2>1, <2>2 DEF hit, r
<1> QED BY <1>9, <1>10, <1>11, <1>12

----------------------------------------------------------------------------
(* Scopes *)

LEMMA PermissionShape ==
  ASSUME NEW p \in PERMISSION_SCOPES
  PROVE  Len(p) = 3 /\ \E S : p \in Seq(S)
<1>1. PICK resource, a : p = <<"admin", resource, a>>
  BY DEF PERMISSION_SCOPES, Scopes
<1>2. p \in Seq({"admin", resource, a}) /\ Len(p) = 3
  BY <1>1
<1> QED BY <1>2

LEMMA PrefixElements ==
  ASSUME NEW S, NEW s \in Seq(S), NEW n \in Nat, n <= Len(s)
  PROVE  /\ SubSeq(s, 1, n) \in Seq(S) /\ Len(SubSeq(s, 1, n)) = n
         /\ \A i \in 1 .. n : SubSeq(s, 1, n)[i] = s[i]
<1>1. 1 \in Int /\ n \in Int /\ \A i \in 1 .. n : s[i] \in S
  BY LenProperties
<1>2. /\ SubSeq(s, 1, n) \in Seq(S)
      /\ Len(SubSeq(s, 1, n)) = IF 1 <= n THEN n - 1 + 1 ELSE 0
      /\ \A i \in 1 .. n - 1 + 1 : SubSeq(s, 1, n)[i] = s[1 + i - 1]
  BY <1>1, SubSeqProperties
<1> QED BY <1>2

\* A scope matches a permission in the code, comparing it up to the wildcard, exactly if
\* it covers it.
LEMMA PermissionCovers ==
  ASSUME NEW scopes, scopes \subseteq Seq(STRING), NEW p \in PERMISSION_SCOPES
  PROVE  hasPermission(scopes, p) <=> \E scope \in scopes : Covers(lower(scope), p)
<1> DEFINE Words == STRING \union {"admin"}
<1>1. ASSUME NEW scope \in Seq(Words), Len(scope) > 1, Len(p) >= Len(scope)
      PROVE  (\A i \in 1 .. Len(scope) - 1 : p[i] = scope[i])
               <=> SubSeq(p, 1, Len(scope) - 1) = SubSeq(scope, 1, Len(scope) - 1)
  <2> DEFINE n == Len(scope) - 1
             a == SubSeq(p, 1, n)
             b == SubSeq(scope, 1, n)
  <2>1. PICK S : p \in Seq(S)
    BY PermissionShape
  <2>2. n \in Nat /\ n <= Len(p) /\ n <= Len(scope) /\ Len(scope) \in Nat /\ Len(p) \in Nat
    BY <1>1, <2>1, LenProperties
  <2>3. p \in Seq(S \union Words) /\ scope \in Seq(S \union Words)
    BY <2>1, SeqMonotonic
  <2>4. a \in Seq(S \union Words) /\ Len(a) = n /\ \A i \in 1 .. n : a[i] = p[i]
    BY <2>2, <2>3, PrefixElements
  <2>5. b \in Seq(S \union Words) /\ Len(b) = n /\ \A i \in 1 .. n : b[i] = scope[i]
    BY <2>2, <2>3, PrefixElements
  <2> HIDE DEF a, b, n
  <2>6. a = b <=> \A i \in 1 .. n : a[i] = b[i]
    BY <2>4, <2>5, SeqEqual
  <2> QED BY <2>4, <2>5, <2>6 DEF a, b, n
<1>2. ASSUME NEW scope \in Seq(Words)
      PROVE  Covers(scope, p) <=> scope = p \/ (EndsInWildcard(scope) /\ StartsAs(p, scope))
  BY <1>1, <1>2 DEF Covers, EndsInWildcard, StartsAs
<1>3. ASSUME NEW scope \in scopes
      PROVE  /\ lower(scope) \in Seq(Words)
             /\ EndsInWildcard(scope) <=> EndsInWildcard(lower(scope))
  <2>1. scope \in Seq(STRING) /\ Len(scope) \in Nat /\ DOMAIN scope = 1 .. Len(scope)
        /\ \A i \in DOMAIN scope : scope[i] \in STRING
    BY LenProperties, ElementOfSeq
  <2>2. lower(scope) \in [1 .. Len(scope) -> Words]
    <3>1. \A i \in 1 .. Len(scope) :
            (IF scope[i] = "Admin" THEN "admin" ELSE scope[i]) \in Words
      BY <2>1
    <3>2. lower(scope) = [i \in 1 .. Len(scope) |->
                            IF scope[i] = "Admin" THEN "admin" ELSE scope[i]]
      BY <2>1 DEF lower
    <3> QED BY <3>1, <3>2
  <2>3. lower(scope) \in Seq(Words) /\ Len(lower(scope)) = Len(scope)
    BY <2>1, <2>2, SeqDef, LenProperties
  <2>4. Len(scope) > 1 => (lower(scope)[Len(scope)] = "*" <=> scope[Len(scope)] = "*")
    BY <2>1 DEF lower
  <2> QED BY <2>3, <2>4 DEF EndsInWildcard
<1> QED BY <1>2, <1>3 DEF hasPermission

LEMMA PermittedIsCovered ==
  ASSUME NEW scopes, scopes \subseteq Seq(STRING), NEW p \in PERMISSION_SCOPES
  PROVE  LET covered == \E scope \in scopes : Covers(lower(scope), p)
         IN /\ hasPermission(scopes, p) => covered /\ hasScope(scopes, p)
            /\ ~hasPermission(scopes, p) => ~covered /\ ~hasRequiredScopes(scopes, {p})
<1>1. hasPermission(scopes, p) => hasScope(scopes, p)
  BY DEF hasScope
<1>2. hasRequiredScopes(scopes, {p}) => hasPermission(scopes, p)
  BY DEF hasRequiredScopes, hasPermission
<1> QED BY <1>1, <1>2, PermissionCovers

----------------------------------------------------------------------------
(* Requests *)

\* What is known of a request: the part of the invariant a step of the request changes.
RequestOK ==
  req \in Request /\ req.route \in DOMAIN routes \union {0} /\ RequestInv /\ AnswerJustified

LEMMA IdleTyped == Idle \in Request
BY MethodsKnown DEF Idle, Request

LEMMA IdleIsOK == req = Idle => RequestOK
<1> SUFFICES ASSUME req = Idle PROVE RequestOK
  OBVIOUS
<1>1. req.pc = "idle" /\ req.answer = "none" /\ req.route = 0
  BY DEF Idle
<1> QED BY <1>1, IdleTyped DEF RequestOK, RequestInv, AnswerJustified

LEMMA RequestFields ==
  ASSUME NEW r \in Request
  PROVE  /\ r.method \in Methods /\ r.who \in Holder \union {None} /\ r.route \in Nat
         /\ r.pc \in {"idle", "worker", "object", "handler", "done"}
BY DEF Request

LEMMA RequestChanged ==
  ASSUME NEW r \in Request, NEW route \in Nat, NEW allow \in SUBSET Methods,
         NEW pc \in {"idle", "worker", "object", "handler", "done"},
         NEW answer \in {"none", "401", "403", "404", "405", "preflight", "setup",
                         "forwarded", "handled", "error"}
  PROVE  [r EXCEPT !.pc = pc, !.answer = answer, !.route = route, !.allow = allow] \in Request
BY DEF Request

LEMMA RequestAsked ==
  ASSUME NEW asked \in Asked, NEW who \in Holder \union {None}
  PROVE  [Idle EXCEPT !.method = asked[1], !.path = asked[2], !.who = who] \in Request
BY GatewayAssumption, IdleTyped DEF Request

LEMMA AskWorkerOK ==
  ASSUME NEW asked \in Asked, NEW who \in Holder \union {None},
         AskWorker(asked[1], asked[2], who)
  PROVE  RequestOK'
<1> DEFINE r == [Idle EXCEPT !.method = asked[1], !.path = asked[2], !.who = who]
<1>1. /\ r \in Request /\ r.path = asked[2] /\ r.who = who /\ r.route = 0
  BY RequestAsked DEF Idle
<1>2. PICK pc \in {"worker", "done"},
           answer \in {"none", "error", "setup", "preflight", "forwarded", "401"} :
        /\ req' = [r EXCEPT !.pc = pc, !.answer = answer]
        /\ pc = "worker" => who # None /\ answer = "none"
        /\ answer = "forwarded" => asked[2] = <<"validate">>
  BY DEF AskWorker, Done, Idle
<1> HIDE DEF r
<1>3. /\ req'.pc = pc /\ req'.answer = answer /\ req'.path = asked[2] /\ req'.who = who
      /\ req'.route = 0
  BY <1>1, <1>2 DEF Request
<1>4. req' \in Request
  BY <1>1, <1>2 DEF Request
<1>5. RequestInv'
  BY <1>2, <1>3 DEF RequestInv
<1>6. AnswerJustified'
  BY <1>2, <1>3 DEF AnswerJustified
<1> QED BY <1>3, <1>4, <1>5, <1>6 DEF RequestOK

\* What the router answers without a handler, and what it finds, agree with the table.
LEMMA AskObjectOK ==
  ASSUME TableOK(routes), routes' = routes, NEW asked \in Asked, NEW who \in Holder \union {None},
         AskObject(asked[1], asked[2], who)
  PROVE  RequestOK'
<1> DEFINE method == asked[1]
           path == asked[2]
           r == [Idle EXCEPT !.method = method, !.path = path, !.who = who]
           found == findRoute(routes, method, path)
           allowed == allowedMethods(routes, path)
           hit(i) == routes[i].method = method /\ Matches(routes[i].path, path)
<1>1. /\ r \in Request /\ r.method = method /\ r.path = path /\ r.who = who /\ r.route = 0
      /\ r.answer = "none"
  BY RequestAsked DEF Idle
<1>2. /\ found = 0 => \A i \in DOMAIN routes : ~hit(i)
      /\ found # 0 => found \in DOMAIN routes /\ hit(found)
                      /\ \A i \in DOMAIN routes \ {found} : hit(i) =>
                           \/ Rank[routes[found].kind] < Rank[routes[i].kind]
                           \/ Rank[routes[found].kind] = Rank[routes[i].kind] /\ found < i
  BY Found
<1>3. DOMAIN routes \subseteq Nat /\ 0 \notin DOMAIN routes
  <2>1. PICK S : routes \in Seq(S)
    BY DEF TableOK, IsTable
  <2> QED BY <2>1, LenProperties
<1>4. allowed = {routes[i].method : i \in {j \in DOMAIN routes : Matches(routes[j].path, path)}}
  BY DEF allowedMethods, pathMatches
<1>5. allowed \subseteq Methods /\ allowed = {m \in Methods : findRoute(routes, m, path) # 0}
  <2>1. allowed \subseteq Methods
    BY <1>4 DEF TableOK, RouteOK
  <2>2. ASSUME NEW m PROVE m \in allowed <=> findRoute(routes, m, path) # 0
    <3>1. findRoute(routes, m, path) = 0 =>
            \A i \in DOMAIN routes : ~(routes[i].method = m /\ Matches(routes[i].path, path))
      BY Found
    <3>2. findRoute(routes, m, path) # 0 =>
            \E i \in DOMAIN routes : routes[i].method = m /\ Matches(routes[i].path, path)
      BY Found
    <3> QED BY <1>4, <3>1, <3>2
  <2> QED BY <2>1, <2>2
<1>6. \/ found = 0 /\ allowed = {} /\ Done(r, "404")
      \/ found = 0 /\ allowed # {} /\ Done([r EXCEPT !.allow = allowed], "405")
      \/ /\ found # 0 /\ routes[found].permission = Public
         /\ req' = [r EXCEPT !.route = found, !.pc = "handler"]
      \/ found # 0 /\ Done(r, "401")
      \/ /\ found # 0 /\ routes[found].permission # Public /\ who # None
         /\ req' = [r EXCEPT !.route = found, !.pc = "object"]
  BY DEF AskObject
<1> HIDE DEF r, found, allowed, hit, method, path
<1>7. CASE found = 0 /\ allowed = {} /\ Done(r, "404")
  <2>1. /\ req' \in Request /\ req'.pc = "done" /\ req'.answer = "404" /\ req'.route = 0
    BY <1>1, <1>7 DEF Done, Request
  <2>2. RequestInv'
    BY <2>1 DEF RequestInv
  <2>3. AnswerJustified'
    BY <2>1 DEF AnswerJustified
  <2> QED BY <2>1, <2>2, <2>3 DEF RequestOK
<1>8. CASE found = 0 /\ allowed # {} /\ Done([r EXCEPT !.allow = allowed], "405")
  <2>1. /\ req' \in Request /\ req'.pc = "done" /\ req'.answer = "405" /\ req'.route = 0
        /\ req'.path = path /\ req'.allow = allowed
    BY <1>1, <1>5, <1>8 DEF Done, Request
  <2>2. RequestInv'
    BY <2>1 DEF RequestInv
  <2>3. AnswerJustified'
    BY <1>5, <2>1 DEF AnswerJustified
  <2> QED BY <2>1, <2>2, <2>3 DEF RequestOK
<1>9. CASE found # 0 /\ Done(r, "401")
  <2>1. req' \in Request /\ req'.pc = "done" /\ req'.answer = "401" /\ req'.route = 0
    BY <1>1, <1>9 DEF Done, Request
  <2>2. RequestInv' /\ AnswerJustified'
    BY <2>1 DEF RequestInv, AnswerJustified
  <2> QED BY <2>1, <2>2 DEF RequestOK
<1>10. ASSUME found # 0, NEW pc \in {"handler", "object"},
              req' = [r EXCEPT !.route = found, !.pc = pc],
              pc = "handler" <=> routes[found].permission = Public,
              routes[found].permission # Public => who # None
       PROVE  RequestOK'
  <2>1. found \in DOMAIN routes /\ found \in Nat
    BY <1>2, <1>3, <1>10
  <2>2. /\ req' \in Request /\ req'.pc = pc /\ req'.answer = "none" /\ req'.route = found
        /\ req'.path = path /\ req'.method = method /\ req'.who = who
    BY <1>1, <1>10, <2>1 DEF Request
  <2>3. found = findRoute(routes, method, path)
    BY DEF found
  <2>4. RequestInv'
    BY <1>10, <2>2, <2>3 DEF RequestInv
  <2>5. AnswerJustified'
    BY <1>2, <1>10, <2>2 DEF AnswerJustified, hit
  <2> QED BY <2>1, <2>2, <2>4, <2>5 DEF RequestOK
<1> QED BY <1>6, <1>7, <1>8, <1>9, <1>10

LEMMA AnsweredTyped ==
  ASSUME NEW r \in Request, NEW answer \in {"401", "403", "forwarded", "handled"}, Done(r, answer)
  PROVE  /\ req' \in Request /\ req'.pc = "done" /\ req'.answer = answer
         /\ req'.method = r.method /\ req'.path = r.path /\ req'.who = r.who /\ req'.route = r.route
BY DEF Done, Request

LEMMA WorkerOK ==
  ASSUME RequestOK, routes' = routes, WorkerValidates
  PROVE  RequestOK'
<1>1. PICK answer \in {"401", "forwarded"} :
        Done(req, answer) /\ (answer = "forwarded" => Known("kv"))
  BY DEF WorkerValidates
<1>2. /\ req' \in Request /\ req'.pc = "done" /\ req'.answer = answer
      /\ req'.who = req.who /\ req'.route = req.route
  BY <1>1, AnsweredTyped DEF RequestOK
<1>3. req.who # None
  BY DEF WorkerValidates, RequestOK, RequestInv
<1>4. answer = "forwarded" => req.who.place = "kv" /\ authMiddleware(req.who) = "none"
  BY <1>1, <1>3 DEF Known, authMiddleware
<1>5. RequestInv' /\ AnswerJustified'
  BY <1>1, <1>2, <1>3, <1>4 DEF RequestInv, AnswerJustified
<1> QED BY <1>2, <1>5 DEF RequestOK

\* The object lets a key pass exactly if one of its scopes covers the permission of the
\* route found before.
LEMMA ObjectOK ==
  ASSUME RequestOK, TableOK(routes), routes' = routes, ObjectValidates
  PROVE  RequestOK'
<1> DEFINE p == routes[req.route].permission
           covered == \E scope \in req.who.scopes : Covers(lower(scope), p)
           found == findRoute(routes, req.method, req.path)
<1>1. /\ req \in Request /\ req.pc = "object" /\ req.answer = "none"
      /\ req.route # 0 /\ req.route \in DOMAIN routes /\ req.route = found
      /\ p # Public /\ req.who # None
  BY DEF ObjectValidates, RequestOK, RequestInv
<1>2. p \in PERMISSION_SCOPES /\ req.who.scopes \subseteq Seq(STRING)
  <2>1. req.who.scopes \in ScopeSets
    BY <1>1, RequestFields DEF Holder
  <2> QED BY <1>1, <2>1, GatewayAssumption DEF TableOK, RouteOK
<1>3. /\ hasPermission(req.who.scopes, p) => covered /\ hasScope(req.who.scopes, p)
      /\ ~hasPermission(req.who.scopes, p) =>
           ~covered /\ ~hasRequiredScopes(req.who.scopes, {p})
  BY <1>2, PermittedIsCovered
<1>4. \A i \in DOMAIN routes \ {found} :
        routes[i].method = req.method /\ Matches(routes[i].path, req.path) =>
          \/ Rank[routes[found].kind] < Rank[routes[i].kind]
          \/ Rank[routes[found].kind] = Rank[routes[i].kind] /\ found < i
  BY <1>1, Found
<1>5. \/ ~Known("object") /\ Done(req, "401")
      \/ /\ Known("object") /\ hasPermission(req.who.scopes, p)
         /\ req' = [req EXCEPT !.pc = "handler"]
      \/ Known("object") /\ ~hasPermission(req.who.scopes, p) /\ Done(req, "403")
  BY DEF ObjectValidates
<1> HIDE DEF p, covered, found
<1>6. CASE ~Known("object") /\ Done(req, "401")
  <2>1. /\ req' \in Request /\ req'.pc = "done" /\ req'.answer = "401"
        /\ req'.route = req.route
    BY <1>1, <1>6, AnsweredTyped
  <2>2. RequestInv' /\ AnswerJustified'
    BY <2>1 DEF RequestInv, AnswerJustified
  <2> QED BY <1>1, <2>1, <2>2 DEF RequestOK
<1>7. CASE /\ Known("object") /\ hasPermission(req.who.scopes, p)
           /\ req' = [req EXCEPT !.pc = "handler"]
  <2>1. /\ req' \in Request /\ req'.pc = "handler" /\ req'.answer = "none"
        /\ req'.route = req.route /\ req'.who = req.who
        /\ req'.method = req.method /\ req'.path = req.path
    BY <1>1, <1>7 DEF Request
  <2>2. RequestInv'
    BY <1>1, <2>1 DEF RequestInv, found
  <2>3. req.who.place = "object" /\ covered /\ hasScope(req.who.scopes, p)
    BY <1>3, <1>7 DEF Known
  <2>4. AnswerJustified'
    BY <1>1, <1>4, <2>1, <2>3 DEF AnswerJustified, p, covered
  <2> QED BY <1>1, <2>1, <2>2, <2>4 DEF RequestOK
<1>8. CASE ~hasPermission(req.who.scopes, p) /\ Done(req, "403")
  <2>1. /\ req' \in Request /\ req'.pc = "done" /\ req'.answer = "403"
        /\ req'.route = req.route /\ req'.who = req.who
    BY <1>1, <1>8, AnsweredTyped
  <2>2. RequestInv'
    BY <2>1 DEF RequestInv
  <2>3. AnswerJustified'
    BY <1>3, <1>8, <2>1 DEF AnswerJustified, p, covered
  <2> QED BY <1>1, <2>1, <2>2, <2>3 DEF RequestOK
<1> QED BY <1>5, <1>6, <1>7, <1>8

LEMMA HandleOK ==
  ASSUME RequestOK, routes' = routes, Handle
  PROVE  RequestOK'
<1>1. /\ req' \in Request /\ req'.pc = "done" /\ req'.answer = "handled"
      /\ req'.route = req.route
  BY AnsweredTyped DEF Handle, RequestOK
<1>2. RequestInv' /\ AnswerJustified'
  BY <1>1 DEF RequestInv, AnswerJustified
<1> QED BY <1>1, <1>2 DEF RequestOK

\* A key revoked while its request is under way keeps its scopes and its place.
LEMMA RevokeOK ==
  ASSUME RequestOK, Revoke
  PROVE  RequestOK'
<1> DEFINE who == [req.who EXCEPT !.live = FALSE]
<1>1. req \in Request /\ req.who \in Holder
  BY RequestFields DEF RequestOK, Revoke
<1>2. who \in Holder /\ who.place = req.who.place /\ who.scopes = req.who.scopes
  BY <1>1 DEF Holder
<1>3. req' = [req EXCEPT !.who = who]
  BY DEF Revoke
<1> HIDE DEF who
<1>4. /\ req' \in Request /\ req'.pc = req.pc /\ req'.answer = req.answer
      /\ req'.route = req.route /\ req'.who = who /\ req'.method = req.method
      /\ req'.path = req.path /\ req'.allow = req.allow
  BY <1>1, <1>2, <1>3 DEF Request
<1>5. who # None /\ req.answer = "none" /\ routes' = routes
  BY <1>2, GatewayAssumption DEF RequestOK, RequestInv, Revoke
<1>6. RequestInv'
  BY <1>4, <1>5 DEF RequestInv, RequestOK
<1>7. AnswerJustified'
  BY <1>2, <1>4, <1>5 DEF AnswerJustified, RequestOK
<1> QED BY <1>4, <1>5, <1>6, <1>7 DEF RequestOK

----------------------------------------------------------------------------
(* The whole gateway *)

Complete(c) == c \in [Settings -> Layers \ {"unset"}]

LEMMA SetupComplete ==
  ASSUME NEW src \in Source
  PROVE  Complete(setupConfig(src))
<1>1. \A s \in Settings : setupConfig(src)[s] \in Layers \ {"unset"}
  <2>1. \A s : Origin(src, s) \in Layers \ {"unset"}
    BY DEF Origin, Layers
  <2> QED BY <2>1, SetupConfig
<1>2. setupConfig(src) = [s \in Settings |-> setupConfig(src)[s]]
  BY DEF setupConfig, Config, applyLegacyEnvironmentOverrides
<1> QED BY <1>1, <1>2 DEF Complete

LEMMA TableFromConfig == Complete(config) => TableOK(Table) /\ Len(Table) > 0
<1> SUFFICES ASSUME Complete(config) PROVE TableOK(Table) /\ Len(Table) > 0
  OBVIOUS
<1>1. Supported \in Seq(Segments)
  BY GatewayAssumption DEF Supported, Complete
<1> QED BY <1>1, SetupOK DEF Table, IsTable

GateInv == IndInv /\ IsTable(routes)

LEMMA GateParts ==
  GateInv => /\ TableOK(routes) /\ RequestOK /\ StartInv
             /\ stage \in {"new", "configured", "routed", "serving"}
             /\ source \in Source \union {None} /\ config \in [Settings -> Layers]
BY DEF GateInv, IndInv, TypeOK, TableOK, RouteOK, RequestOK

LEMMA PartsGate ==
  /\ TableOK(routes) /\ RequestOK /\ StartInv
  /\ stage \in {"new", "configured", "routed", "serving"}
  /\ source \in Source \union {None} /\ config \in [Settings -> Layers]
  => GateInv
BY DEF GateInv, IndInv, TypeOK, TableOK, RouteOK, RequestOK

LEMMA EmptyOK == TableOK(<<>>)
BY EmptySeq DEF TableOK, IsTable

LEMMA UnsetTyped == Unset \in [Settings -> Layers]
BY DEF Unset, Layers

LEMMA InitGate == Init => GateInv
<1> SUFFICES ASSUME Init PROVE GateInv
  OBVIOUS
<1>1. TableOK(routes) /\ RequestOK /\ config \in [Settings -> Layers]
  BY EmptyOK, IdleIsOK, UnsetTyped DEF Init
<1>2. StartInv
  BY DEF Init, StartInv
<1> QED BY <1>1, <1>2, PartsGate DEF Init

LEMMA NextGate == GateInv /\ [Next]_vars => GateInv'
<1> SUFFICES ASSUME GateInv, [Next]_vars PROVE GateInv'
  OBVIOUS
<1>1. /\ TableOK(routes) /\ RequestOK /\ StartInv
      /\ stage \in {"new", "configured", "routed", "serving"}
      /\ source \in Source \union {None} /\ config \in [Settings -> Layers]
  BY GateParts
<1>2. ASSUME TableOK(routes)', RequestOK', StartInv',
             stage' \in {"new", "configured", "routed", "serving"},
             source' \in Source \union {None}, config' \in [Settings -> Layers]
      PROVE  GateInv'
  BY <1>2 DEF GateInv, IndInv, TypeOK, TableOK, RouteOK, RequestOK
<1>3. (req = Idle)' => RequestOK'
  BY IdleIsOK, PTL
<1>4. CASE Configure
  <2>1. Complete(config')
    BY <1>4, SetupComplete DEF Configure
  <2>2. routes' = <<>> /\ req' = Idle /\ config' \in [Settings -> Layers]
    BY <1>1, <1>4, <2>1 DEF Configure, StartInv, Complete
  <2>3. Len(Table') > 0
    <3>1. Complete(config)' => (TableOK(Table) /\ Len(Table) > 0)'
      BY TableFromConfig, PTL
    <3> QED BY <2>1, <3>1
  <2>4. StartInv'
    BY <1>4, <2>1, <2>2, <2>3, EmptySeq DEF Configure, StartInv, Complete
  <2> QED BY <1>2, <1>3, <1>4, <2>2, <2>4, EmptyOK DEF Configure
<1>5. CASE Register
  <2> DEFINE n == Len(routes)
             route == Table[n + 1]
  <2>1. TableOK(Table) /\ n < Len(Table) /\ req = Idle /\ Complete(config)
    BY <1>1, <1>5, TableFromConfig DEF Register, StartInv, Complete
  <2>2. RouteOK(route)
    <3>1. PICK S : Table \in Seq(S)
      BY <2>1 DEF TableOK, IsTable
    <3>2. PICK T : routes \in Seq(T)
      BY <1>1 DEF TableOK, IsTable
    <3>3. n + 1 \in DOMAIN Table
      BY <2>1, <3>1, <3>2, LenProperties
    <3> QED BY <2>1, <3>3 DEF TableOK
  <2>3. TableOK(routes') /\ Len(routes') = n + 1 /\ n \in Nat
    BY <1>1, <1>5, <2>2, AppendOK DEF Register
  <2>4. config' \in [Settings -> Layers]
    BY <1>1, <1>5, UnsetTyped DEF Register
  <2>5. StartInv'
    <3>1. CASE n + 1 = Len(Table)
      BY <1>5, <2>1, <3>1 DEF Register, StartInv
    <3>2. CASE n + 1 # Len(Table)
      <4>1. stage' = "configured" /\ config' = config /\ req' = Idle
        BY <1>5, <2>1, <3>2 DEF Register
      <4>2. Table' = Table
        BY <4>1 DEF Table, Versioning, Supported, Prefix
      <4>3. Len(Table) \in Nat
        <5>1. PICK S : Table \in Seq(S)
          BY <2>1 DEF TableOK, IsTable
        <5> QED BY <5>1, LenProperties
      <4>4. n + 1 < Len(Table)
        BY <2>1, <2>3, <3>2, <4>3
      <4> QED BY <2>1, <2>3, <4>1, <4>2, <4>4 DEF StartInv, Complete
    <3> QED BY <3>1, <3>2
  <2>6. req' = Idle /\ source' = None /\ stage' \in {"configured", "routed"}
    BY <1>5, <2>1 DEF Register
  <2> QED BY <1>2, <1>3, <2>3, <2>4, <2>5, <2>6
<1>6. CASE Extend
  <2>1. req' = Idle /\ stage' = "serving" /\ UNCHANGED <<source, config>>
    BY <1>1, <1>6 DEF Extend, StartInv
  <2>2. PICK x \in Extra : routes' = routes \o addProxy(x.kind, x.path)
    BY <1>6 DEF Extend
  <2>3. TableOK(routes')
    <3>1. TableOK(addProxy(x.kind, x.path))
      BY ProxyOK, GatewayAssumption
    <3> QED BY <1>1, <2>2, <3>1, ConcatOK
  <2>4. StartInv'
    BY <2>1 DEF StartInv
  <2> QED BY <1>1, <1>2, <1>3, <2>1, <2>3, <2>4
<1>7. CASE Serve
  <2>1. req' = Idle /\ stage' = "serving" /\ UNCHANGED <<source, config, routes>>
    BY <1>1, <1>7 DEF Serve, StartInv
  <2> QED BY <1>1, <1>2, <1>3, <2>1 DEF StartInv
<1>8. CASE Restart
  <2>1. req' = Idle /\ stage' = "new" /\ routes' = <<>> /\ UNCHANGED <<source, config>>
    BY <1>8 DEF Restart
  <2> QED BY <1>1, <1>2, <1>3, <2>1, EmptyOK DEF StartInv
\* The steps of a request, which happen while the table stands.
<1>9. ASSUME RequestOK', stage = "serving", UNCHANGED <<stage, source, config, routes>>
      PROVE  GateInv'
  BY <1>1, <1>2, <1>9 DEF StartInv
<1>10. req.pc # "idle" => stage = "serving"
  BY <1>1 DEF StartInv, Idle
<1>11. CASE Ask
  <2>1. PICK asked \in Asked, who \in Holder \union {None} :
          AskWorker(asked[1], asked[2], who) \/ AskObject(asked[1], asked[2], who)
    BY <1>11 DEF Ask
  <2>2. RequestOK'
    BY <1>1, <1>11, <2>1, AskWorkerOK, AskObjectOK DEF Ask
  <2> QED BY <1>9, <1>11, <2>2 DEF Ask
<1>12. CASE Continue
  <2>1. RequestOK'
    BY <1>1, <1>12, WorkerOK, ObjectOK, HandleOK DEF Continue
  <2>2. req.pc # "idle"
    BY <1>12 DEF Continue, WorkerValidates, ObjectValidates, Handle
  <2> QED BY <1>9, <1>10, <1>12, <2>1, <2>2 DEF Continue
<1>13. CASE Revoke
  <2>1. RequestOK'
    BY <1>1, <1>13, RevokeOK
  <2> QED BY <1>9, <1>10, <1>13, <2>1 DEF Revoke
<1>14. CASE Answered
  BY <1>3, <1>9, <1>10, <1>14 DEF Answered
<1>15. CASE UNCHANGED vars
  <2>1. UNCHANGED <<stage, source, config, routes, req>>
    BY <1>15 DEF vars
  <2>2. RequestOK'
    BY <1>1, <2>1 DEF RequestOK, RequestInv, AnswerJustified
  <2>3. Table' = Table
    BY <2>1 DEF Table, Versioning, Supported, Prefix
  <2>4. StartInv'
    BY <1>1, <2>1, <2>3 DEF StartInv
  <2> QED BY <1>1, <1>2, <2>1, <2>2, <2>4
<1> QED BY <1>4, <1>5, <1>6, <1>7, <1>8, <1>11, <1>12, <1>13, <1>14, <1>15 DEF Next

THEOREM GateInductive == Spec => []GateInv
<1> QED BY InitGate, NextGate, PTL DEF Spec

\* At every stage of the start, with any configuration and any routes added, every route
\* of the table has a method, a kind and a permission of the gateway, and a request
\* under way the number of one of its routes.
THEOREM GatewayTyped == Spec => []TypeOK
<1>1. GateInv => TypeOK
  BY DEF GateInv, IndInv
<1> QED BY <1>1, GateInductive, PTL

\* The handler reached, the keys refused and the requests forwarded agree with the table
\* and with the scopes of the key, and so do the methods a response 405 allows.
THEOREM AnswersAreJustified == Spec => []AnswerJustified
<1>1. GateInv => AnswerJustified
  BY DEF GateInv, IndInv
<1> QED BY <1>1, GateInductive, PTL

====

---- MODULE Permissions ----
(***************************************************************************)
(* Who may do what: the roles of src/auth/roles.js, and the three ways in  *)
(* which scopes are held against a permission.  A scope is the sequence of *)
(* its parts: "admin:keys:*" is <<"admin", "keys", "*">>.  Permissions are *)
(* in lower case; a scope may be in any, of which "Admin" is an example.   *)
(***************************************************************************)
EXTENDS Naturals, Sequences

Scopes(resource, actions) == {<<"admin", resource, a>> : a \in actions}

\* ADMIN_ROLES.
Roles ==
  [SUPER_ADMIN |-> UNION {Scopes(r, {"*"}) : r \in {"keys", "users", "system"}},
   KEY_ADMIN   |-> Scopes("keys", {"create", "read", "revoke"}),
   KEY_VIEWER  |-> Scopes("keys", {"read"}),
   USER_ADMIN  |-> Scopes("users", {"create", "read", "revoke"}),
   SUPPORT     |-> Scopes("keys", {"read"}) \union Scopes("users", {"read"}),
   CUSTOM      |-> {}]

\* PERMISSION_SCOPES.
PERMISSION_SCOPES ==
  Scopes("keys", {"create", "read", "update", "revoke", "*"})
    \union Scopes("users", {"create", "read", "update", "revoke", "*"})
    \union Scopes("system", {"logs", "config", "maintenance", "security", "*"})

\* toLowerCase.
lower(scope) == [i \in DOMAIN scope |-> IF scope[i] = "Admin" THEN "admin" ELSE scope[i]]

\* "a:b:*" stands for whatever starts with "a:b:".
EndsInWildcard(scope) == Len(scope) > 1 /\ scope[Len(scope)] = "*"
StartsAs(required, scope) ==
  /\ Len(required) >= Len(scope)
  /\ \A i \in 1 .. Len(scope) - 1 : required[i] = scope[i]

\* FAULT (stands in for the next definition to show a property can fail): the part
\* before the wildcard is not compared.
hasPermissionLoose(scopes, required) ==
  \E scope \in scopes : lower(scope) = required \/ EndsInWildcard(scope)

\* AuthService.hasPermission, and its copies in index.js, roles.js and setupContainer.js;
\* its last case, "admin:*", is one of the wildcards at the end.
hasPermission(scopes, required) ==
  \E scope \in scopes : \/ lower(scope) = required
                        \/ EndsInWildcard(scope) /\ StartsAs(required, lower(scope))

\* hasScope of keyValidator.js: a wildcard may stand between two parts as well.
PartByPart(required, scope) ==
  /\ EndsInWildcard(scope) \/ \E i \in 2 .. Len(scope) - 1 : scope[i] = "*"
  /\ Len(scope) = Len(required)
  /\ \A i \in 1 .. Len(scope) : scope[i] \in {"*", required[i]}
hasScope(scopes, required) ==
  hasPermission(scopes, required) \/ \E scope \in scopes : PartByPart(required, lower(scope))

\* The scopes asked of a key when it is validated must be among its own, wildcards or not.
hasRequiredScopes(scopes, required) == required \subseteq {lower(scope) : scope \in scopes}

\* AuthService.authenticate: a valid key without a scope "admin:...", in lower case, is no
\* administrator's.
hasAdminScope(scopes) == \E scope \in scopes : Len(scope) > 1 /\ scope[1] = "admin"

====

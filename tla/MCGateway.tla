---- MODULE MCGateway ----
(* A small instance of Gateway for TLC. *)
EXTENDS Gateway

MCValueOf ==
  [versioning |-> [builtin |-> TRUE, schema |-> TRUE, file |-> FALSE, env |-> FALSE, legacy |-> FALSE],
   supported |-> [builtin |-> <<"v1">>, schema |-> <<"v1">>, file |-> <<"v1", "v2">>,
                  env |-> <<"v2">>, legacy |-> <<"v2", "v1">>],
   format |-> [builtin |-> <<>>, file |-> <<"api">>, env |-> <<"api">>]]

MCSegments == {"keys", "keys-cursor", "health", "setup", "validate", "v1", "v2", "api", "uuid",
               "nobody", "rotate", "filter", "status", "active", "logs", "admin", "2024-01-31"}

MCAsked ==
  {<<"GET", <<"health">>>>, <<"POST", <<"setup">>>>, <<"POST", <<"validate">>>>,
   <<"GET", <<"validate">>>>, <<"GET", <<"keys">>>>, <<"PUT", <<"keys">>>>, <<"GET", <<"v2", "keys">>>>,
   <<"GET", <<"api", "v2", "keys">>>>, <<"GET", <<"keys", "uuid">>>>, <<"DELETE", <<"keys", "uuid">>>>,
   <<"DELETE", <<"v1", "keys", "uuid">>>>, <<"GET", <<"keys", "nobody">>>>,
   <<"POST", <<"keys", "uuid", "rotate">>>>, <<"OPTIONS", <<"keys">>>>,
   <<"GET", <<"keys", "filter", "status", "active">>>>, <<"GET", <<"logs", "admin", "2024-01-31">>>>}

\* One that is exact where a validated route is not, one that is not where another is.
MCExtra ==
  {[kind |-> "exact", path |-> Literal(<<"keys", "uuid">>)],
   [kind |-> "parameter", path |-> <<{"keys"}, Any>>],
   [kind |-> "parameter", path |-> <<Any>>]}

MCScopeSets ==
  {Roles.SUPER_ADMIN, Roles.KEY_VIEWER, Roles.CUSTOM, {<<"admin", "users", "*">>}, {<<"admin", "*">>},
   {<<"admin", "*", "read">>}, {<<"read", "data">>},
   {<<"Admin", "keys", "*">>}, {<<"Admin", "keys", "*">>, <<"admin", "users", "read">>}}
====

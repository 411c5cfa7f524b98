---- MODULE MCAuditedCommands ----
(* Small instances of AuditedCommands for TLC. *)
EXTENDS AuditedCommands, TLC

\* Ids are random, and administrators and handlers are alike.
Symmetry == Permutations(Admins) \union Permutations(Targets) \union Permutations(LogIds)
              \union Permutations(Handlers)
====

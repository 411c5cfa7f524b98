---- MODULE MCKeyManager ----
(* Small instances of KeyManager for TLC. *)
EXTENDS KeyManager, TLC

\* Ids are random and handlers are alike.
Symmetry == Permutations(Keys) \union Permutations(Handlers)

====

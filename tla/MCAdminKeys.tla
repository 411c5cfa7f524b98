---- MODULE MCAdminKeys ----
EXTENDS AdminKeys, TLC

\* Keys and requests are interchangeable.
Symmetry == Permutations(Admins) \union Permutations(Handlers)
====

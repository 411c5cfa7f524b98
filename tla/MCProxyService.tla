---- MODULE MCProxyService ----
EXTENDS ProxyService, TLC

\* Requests are interchangeable.
Symmetry == Permutations(Requests)
====

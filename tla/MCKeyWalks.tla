---- MODULE MCKeyWalks ----
(* A small instance of KeyWalks for TLC. *)
EXTENDS KeyWalks

\* Two keys while secrets are rotated and entries cleaned up, neither of which a listing
\* looks at; the clock, which only a listing looks at, does not move then.  All of Ids,
\* and one rotation at a time, in the listings.  At most two copies are held at once.
Drawn == {k \in Ids : created[k] # 0}
Held == {<<"rotating", k>> : k \in {j \in Ids : rotating[j] # Absent}}
          \union {<<"expiring", k>> : k \in {j \in Ids : expiring[j] # Absent}}
Listing(w) == walk[w].kind \in {"cursor", "offset"}
FewUnlessListing ==
  \/ /\ Cardinality(Drawn) <= 2 /\ now = 1 /\ Cardinality(Held) <= 2
     /\ \A w \in Walkers : ~Listing(w)
  \/ /\ lookup = Stored
     /\ Cardinality(Held) <= 1 /\ \A k \in Ids : expiring[k] = Absent
     /\ \A w \in Walkers : walk[w].kind = "none" \/ Listing(w)
     /\ \A k \in Stored : record[k].sealed = "old"
====

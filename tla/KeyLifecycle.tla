---- MODULE KeyLifecycle ----
(***************************************************************************)
(* What ApiKeyManager promises of the life of its keys, without handlers,  *)
(* reads or copies: a key is created active, is retired by a rotation, a   *)
(* revocation or its expiry, and never becomes active again.  Its expiry   *)
(* is fixed when it is created; its predecessor when it takes over from    *)
(* it.  KeyManager implements it while its input gates hold.               *)
(*                                                                         *)
(* Two things the code does are part of the promise, as they stand: a      *)
(* rotation begun before a revocation still completes after it, and the    *)
(* value of a rotated key may be dropped within its grace period.          *)
(***************************************************************************)
EXTENDS Naturals

CONSTANTS Keys, None, Expiries

VARIABLES
  now,         \* the time
  life,        \* of each key, its status, its expiry and its predecessor
  findable,    \* the keys whose values can be looked up
  rotating     \* the keys a rotation of which has begun

vars == <<now, life, findable, rotating>>

Unborn == [status |-> "absent", expiresAt |-> 0, from |-> None]

Init ==
  /\ now = 1
  /\ life = [k \in Keys |-> Unborn]
  /\ findable = {}
  /\ rotating = {}

\* A successor may inherit the expiry of a key whose rotation has begun.
Create(k) ==
  /\ life[k].status = "absent"
  /\ \E e \in Expiries \union {life[old].expiresAt : old \in rotating} :
       life' = [life EXCEPT ![k] = [status |-> "active", expiresAt |-> e, from |-> None]]
  /\ findable' = findable \union {k}
  /\ UNCHANGED <<now, rotating>>

BeginRotation(k) ==
  /\ life[k].status = "active"
  /\ rotating' = rotating \union {k}
  /\ UNCHANGED <<now, life, findable>>

\* A key no other key has been replaced by takes the place of the old one.
Replace(old, new) ==
  /\ old \in rotating /\ new # old
  /\ life[new].status = "active" /\ life[new].from = None
  /\ life' = [life EXCEPT ![old].status = "rotated", ![new].from = old]
  /\ rotating' \in {rotating, rotating \ {old}}
  /\ UNCHANGED <<now, findable>>

\* Rotations end without a successor: refused, failed or lost.
GiveUp ==
  /\ rotating' \in SUBSET rotating
  /\ UNCHANGED <<now, life, findable>>

Revoke(k) ==
  /\ life[k].status \in {"active", "rotated"}
  /\ life' = [life EXCEPT ![k].status = "revoked"]
  /\ UNCHANGED <<now, findable, rotating>>

\* Keys past their expiry are revoked, and values dropped that are not of active keys.
Expired(k) == life[k].expiresAt > 0 /\ life[k].expiresAt < now
Retire ==
  /\ \E dead \in SUBSET {k \in Keys : life[k].status # "absent" /\ Expired(k)} :
       life' = [k \in Keys |-> IF k \in dead THEN [life[k] EXCEPT !.status = "revoked"]
                               ELSE life[k]]
  /\ findable' \in SUBSET findable
  /\ \A k \in findable \ findable' : life'[k].status \in {"rotated", "revoked"}
  /\ UNCHANGED <<now, rotating>>

Tick ==
  /\ now' = now + 1
  /\ UNCHANGED <<life, findable, rotating>>

Next ==
  \/ \E k \in Keys : Create(k) \/ BeginRotation(k) \/ Revoke(k)
  \/ \E old, new \in Keys : Replace(old, new)
  \/ Retire \/ GiveUp \/ Tick

Spec == Init /\ [][Next]_vars

====

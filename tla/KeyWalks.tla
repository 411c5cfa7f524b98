---- MODULE KeyWalks ----
(***************************************************************************)
(* Walks over all the API keys of a Durable Object that last longer than   *)
(* one event, while requests create, rotate, revoke and clean up keys:     *)
(*                                                                         *)
(*  - a client lists the keys page after page, by cursor or by offset      *)
(*    (src/models/ApiKeyManager.js);                                       *)
(*  - the rotation of the encryption secret re-encrypts every record, and  *)
(*    that of the HMAC secret signs every key again (src/utils/security.js *)
(*    rotateEncryptionMaterial, rotateHmacMaterial): they list once and    *)
(*    wait for cryptography at every entry.                                *)
(*                                                                         *)
(* KeyManager models the requests in full; here each is what a walk sees   *)
(* of it.  Input gates hold other events back while storage is waited for, *)
(* so a request is one action unless it waits for cryptography with a copy *)
(* in hand (createKey, rotateKey, the expired keys of a cleanup, here one  *)
(* by one).  The secrets in use stay the old ones:                         *)
(* a change of the environment restarts the object, and ends its walks.    *)
(***************************************************************************)
EXTENDS KeyListing

CONSTANTS
  Ids,       \* the key ids that may be drawn, as naturals
  Walkers,   \* walks under way at once
  Limits,    \* page sizes a client may ask for
  MaxTime    \* the clock stops here

ASSUME WalkAssumption ==
  /\ Ids \subseteq Nat \ {0} /\ IsFiniteSet(Ids)
  /\ Limits \subseteq Nat \ {0}
  /\ MaxTime \in Nat

VARIABLES
  now,        \* Date.now()
  created,    \* createdAt, from when it is drawn; 0 before
  record,     \* "key:<id>" entries: status, and the secret encryptedKey is under
  lookup,     \* ids with a "lookup:<value>" entry
  hmac,       \* the secret the "hmac:<value>" entry is signed with
  rotating,   \* the copy of its key a rotation holds while it waits
  expiring,   \* the copy of an expired key a cleanup holds while it waits
  walk        \* the walks and their locals

vars == <<now, created, record, lookup, hmac, rotating, expiring, walk>>

Secrets == {"old", "new"}
Record == [status : {"absent", "active", "rotated", "revoked"}, sealed : Secrets]
Absent == [status |-> "absent", sealed |-> "old"]

Stored == {k \in Ids : record[k].status # "absent"}

Cursor == [id : Nat, ts : Nat]
Walk == [kind : {"none", "cursor", "offset", "reseal", "resign"}, done : BOOLEAN,
         cursor : Cursor, offset : Nat, rotatedToo : BOOLEAN,
         due : SUBSET Ids, listed : [Ids -> Nat], came : Nat,
         copies : [Ids -> Record], todo : SUBSET Ids, at : Ids \union {0}]
NoWalk == [kind |-> "none", done |-> FALSE, cursor |-> NoCursor, offset |-> 0,
           rotatedToo |-> FALSE, due |-> {}, listed |-> [k \in Ids |-> 0], came |-> 0,
           copies |-> [k \in Ids |-> Absent], todo |-> {}, at |-> 0]

Under(w, kind) == walk[w].kind = kind /\ ~walk[w].done

\* A ciphertext and a signature are known by the secret they were made with, whatever
\* salt and format: only that secret decrypts the one and verifies the other.
encryptData(rec, secret) == [rec EXCEPT !.sealed = secret]
decryptData(rec, secret) == rec.sealed = secret
generateHmac(hmacs, k, secret) == [hmacs EXCEPT ![k] = secret]
verifyHmac(k, secret) == hmac[k] = secret

\* No request holds a copy of the key under the old secret.
Uncopied(k) == \A copy \in {rotating[k], expiring[k]} : copy = Absent \/ copy.sealed = "new"

----------------------------------------------------------------------------
(* What requests do to the keys meanwhile *)

\* createKey draws the id and createdAt, then waits for the HMAC and the ciphertext.
DrawKey(k) ==
  /\ created[k] = 0
  /\ created' = [created EXCEPT ![k] = now]
  /\ UNCHANGED <<now, record, lookup, hmac, rotating, expiring, walk>>

\* Its transaction: record, HMAC, lookup and index entry.
StoreKey(k) ==
  /\ created[k] # 0 /\ k \notin Stored
  /\ record' = [record EXCEPT ![k] = encryptData([Absent EXCEPT !.status = "active"], "old")]
  /\ lookup' = lookup \union {k}
  /\ hmac' = generateHmac(hmac, k, "old")
  /\ walk' = [w \in Walkers |-> IF Under(w, "offset") THEN [walk[w] EXCEPT !.came = @ + 1]
                                                     ELSE walk[w]]
  /\ UNCHANGED <<now, created, rotating, expiring>>

\* rotateKey reads an active key and waits for its successor's cryptography, ...
RotateBegin(k) ==
  /\ record[k].status = "active" /\ rotating[k] = Absent
  /\ rotating' = [rotating EXCEPT ![k] = record[k]]
  /\ UNCHANGED <<now, created, record, lookup, hmac, expiring, walk>>

\* ... and writes back the copy it read, marked rotated.
RotateEnd(k) ==
  /\ rotating[k] # Absent
  /\ record' = [record EXCEPT ![k] = [rotating[k] EXCEPT !.status = "rotated"]]
  /\ rotating' = [rotating EXCEPT ![k] = Absent]
  /\ UNCHANGED <<now, created, lookup, hmac, expiring, walk>>

\* revokeKey, and the expiry found by a validation.
Revoke(k) ==
  /\ record[k].status \in {"active", "rotated"}
  /\ record' = [record EXCEPT ![k].status = "revoked"]
  /\ UNCHANGED <<now, created, lookup, hmac, rotating, expiring, walk>>

\* cleanupExpiredKeys drops the lookup entry of a key that is not active, with the HMAC
\* or before it.
Clean(k) ==
  /\ k \in Stored /\ record[k].status # "active"
  /\ lookup' = lookup \ {k}
  /\ \/ UNCHANGED hmac
     \/ hmac' = [hmac EXCEPT ![k] = "none"]
  /\ UNCHANGED <<now, created, record, rotating, expiring, walk>>

\* cleanupExpiredKeys lists the keys, and waits for the decryption of an expired one, ...
ExpireBegin(k) ==
  /\ record[k].status = "active" /\ expiring[k] = Absent
  /\ expiring' = [expiring EXCEPT ![k] = record[k]]
  /\ UNCHANGED <<now, created, record, lookup, hmac, rotating, walk>>

\* ... and writes back the copy it listed, marked revoked; its other entries are deleted
\* if it was decrypted.
ExpireEnd(k) ==
  /\ expiring[k] # Absent
  /\ record' = [record EXCEPT ![k] = [expiring[k] EXCEPT !.status = "revoked"]]
  /\ expiring' = [expiring EXCEPT ![k] = Absent]
  /\ \/ /\ decryptData(expiring[k], "old")
        /\ lookup' = lookup \ {k}
        /\ hmac' = [hmac EXCEPT ![k] = "none"]
     \/ UNCHANGED <<lookup, hmac>>
  /\ UNCHANGED <<now, created, rotating, walk>>

\* The commit of either fails: its copy is lost.
GiveUp(k) ==
  /\ \/ /\ rotating[k] # Absent
        /\ rotating' = [rotating EXCEPT ![k] = Absent] /\ UNCHANGED expiring
     \/ /\ expiring[k] # Absent
        /\ expiring' = [expiring EXCEPT ![k] = Absent] /\ UNCHANGED rotating
  /\ UNCHANGED <<now, created, record, lookup, hmac, walk>>

----------------------------------------------------------------------------
(* Listing page after page *)

ListBegin(w) ==
  /\ walk[w].kind = "none"
  /\ \E kind \in {"cursor", "offset"}, all \in BOOLEAN :
       /\ kind = "offset" => all
       /\ walk' = [walk EXCEPT ![w] = [NoWalk EXCEPT !.kind = kind, !.rotatedToo = all,
                                                     !.due = Stored]]
  /\ UNCHANGED <<now, created, record, lookup, hmac, rotating, expiring>>

Count(listed, page) == [k \in Ids |-> IF k \in page THEN listed[k] + 1 ELSE listed[k]]

\* listKeysWithCursor: a rotated key is left out of the page it falls on, unless asked
\* for, and the client goes on while told that there is more.
Shown(page, all) == {k \in page : all \/ record[k].status # "rotated"}
CursorNext(w) ==
  /\ Under(w, "cursor")
  /\ \E n \in Limits :
       LET c == walk[w].cursor
           page == CursorPage(Stored, created, c, n)
           more == HasMore(Stored, created, c, n)
       IN walk' = [walk EXCEPT
            ![w].listed = Count(@, Shown(page, walk[w].rotatedToo)),
            ![w].due = @ \ (page \ Shown(page, walk[w].rotatedToo)),
            ![w].done = ~more,
            ![w].cursor = IF more THEN NextCursor(page, created) ELSE c]
  /\ UNCHANGED <<now, created, record, lookup, hmac, rotating, expiring>>

\* listKeys: the client goes on until the offset reaches the total it is told.
OffsetNext(w) ==
  /\ Under(w, "offset")
  /\ \E n \in Limits :
       walk' = [walk EXCEPT
         ![w].listed = Count(@, OffsetPage(Stored, created, walk[w].offset, n)),
         ![w].offset = @ + n,
         ![w].done = walk[w].offset + n >= Cardinality(Stored)]
  /\ UNCHANGED <<now, created, record, lookup, hmac, rotating, expiring>>

----------------------------------------------------------------------------
(* Rotating the secrets *)

\* rotateEncryptionMaterial lists the records, a copy of each.
ResealBegin(w) ==
  /\ walk[w].kind = "none"
  /\ walk' = [walk EXCEPT ![w] = [NoWalk EXCEPT !.kind = "reseal", !.todo = Stored,
                                                !.copies = record]]
  /\ UNCHANGED <<now, created, record, lookup, hmac, rotating, expiring>>

\* One record after the other is decrypted with the old secret and encrypted with the
\* new one.  A copy under the new secret does not decrypt, and is passed over; so is
\* one whose cryptography fails.
ResealOne(w, k) ==
  /\ Under(w, "reseal") /\ walk[w].at = 0 /\ k \in walk[w].todo
  /\ \/ /\ decryptData(walk[w].copies[k], "old")
        /\ walk' = [walk EXCEPT ![w].at = k]
     \/ walk' = [walk EXCEPT ![w].todo = @ \ {k}]
  /\ UNCHANGED <<now, created, record, lookup, hmac, rotating, expiring>>

\* FAULT (stands in for the next definition to show a property can fail): the copies
\* listed are put back all at once when the last one is sealed.
ResealPutBatch(w) ==
  /\ Under(w, "reseal") /\ walk[w].at # 0
  /\ LET k == walk[w].at
     IN /\ record' = [j \in Ids |-> IF walk[w].copies[j] # Absent /\ walk[w].todo = {k}
                                      THEN [walk[w].copies[j] EXCEPT !.sealed = "new"]
                                      ELSE record[j]]
        /\ walk' = [walk EXCEPT ![w].todo = @ \ {k}, ![w].at = 0]
  /\ UNCHANGED <<now, created, lookup, hmac, rotating, expiring>>

\* FAULT (as above): the ciphertext is not awaited, and a promise is stored.
ResealPutPromise(w) ==
  /\ Under(w, "reseal") /\ walk[w].at # 0
  /\ LET k == walk[w].at
     IN /\ record' = [record EXCEPT ![k] = [walk[w].copies[k] EXCEPT !.sealed = "promise"]]
        /\ walk' = [walk EXCEPT ![w].todo = @ \ {k}, ![w].at = 0]
  /\ UNCHANGED <<now, created, lookup, hmac, rotating, expiring>>

\* FAULT (as above): the ciphertext made is not the one that is put back.
ResealPutUnsealed(w) ==
  /\ Under(w, "reseal") /\ walk[w].at # 0
  /\ LET k == walk[w].at
     IN /\ record' = [record EXCEPT ![k] = walk[w].copies[k]]
        /\ walk' = [walk EXCEPT ![w].todo = @ \ {k}, ![w].at = 0,
                                ![w].due = IF Uncopied(k) THEN @ \union {k} ELSE @]
  /\ UNCHANGED <<now, created, lookup, hmac, rotating, expiring>>

\* The whole copy listed is put back, under the new secret.  From here on it is due
\* under that secret, unless a request has an older copy in hand.
ResealPut(w) ==
  /\ Under(w, "reseal") /\ walk[w].at # 0
  /\ LET k == walk[w].at
     IN /\ record' = [record EXCEPT ![k] = encryptData(walk[w].copies[k], "new")]
        /\ walk' = [walk EXCEPT ![w].todo = @ \ {k}, ![w].at = 0,
                                ![w].due = IF Uncopied(k) THEN @ \union {k} ELSE @]
  /\ UNCHANGED <<now, created, lookup, hmac, rotating, expiring>>

\* rotateHmacMaterial lists the HMAC entries.
ResignBegin(w) ==
  /\ walk[w].kind = "none"
  /\ LET signed == {k \in Ids : hmac[k] # "none"}
     IN walk' = [walk EXCEPT ![w] = [NoWalk EXCEPT !.kind = "resign", !.due = signed,
                                                   !.todo = signed]]
  /\ UNCHANGED <<now, created, record, lookup, hmac, rotating, expiring>>

\* FAULT (stands in for the next definition to show a property can fail): an entry is
\* passed over unless its key is active.
ResignActive(w, k) ==
  /\ Under(w, "resign") /\ walk[w].at = 0 /\ k \in walk[w].todo
  /\ IF record[k].status = "active"
       THEN walk' = [walk EXCEPT ![w].at = k]
       ELSE walk' = [walk EXCEPT ![w].todo = @ \ {k}]
  /\ UNCHANGED <<now, created, record, lookup, hmac, rotating, expiring>>

\* The id of each comes from its lookup entry; without one it is passed over, and so is
\* one whose signing fails.
ResignOne(w, k) ==
  /\ Under(w, "resign") /\ walk[w].at = 0 /\ k \in walk[w].todo
  /\ \/ k \in lookup /\ walk' = [walk EXCEPT ![w].at = k]
     \/ k \notin lookup /\ walk' = [walk EXCEPT ![w].todo = @ \ {k}]
     \/ walk' = [walk EXCEPT ![w].todo = @ \ {k}, ![w].due = @ \ {k}]
  /\ UNCHANGED <<now, created, record, lookup, hmac, rotating, expiring>>

\* The new signature is put, even if a cleanup has dropped the old one meanwhile.
ResignPut(w) ==
  /\ Under(w, "resign") /\ walk[w].at # 0
  /\ hmac' = generateHmac(hmac, walk[w].at, "new")
  /\ walk' = [walk EXCEPT ![w].todo = @ \ {walk[w].at}, ![w].at = 0]
  /\ UNCHANGED <<now, created, record, lookup, rotating, expiring>>

SecretsDone(w) ==
  /\ Under(w, "reseal") \/ Under(w, "resign")
  /\ walk[w].todo = {}
  /\ walk' = [walk EXCEPT ![w].done = TRUE]
  /\ UNCHANGED <<now, created, record, lookup, hmac, rotating, expiring>>

\* A walk ends, or is given up: the object restarts, the client loses its cursor.
WalkEnd(w) ==
  /\ walk[w].kind # "none"
  /\ walk' = [walk EXCEPT ![w] = NoWalk]
  /\ UNCHANGED <<now, created, record, lookup, hmac, rotating, expiring>>

Tick ==
  /\ now < MaxTime
  /\ now' = now + 1
  /\ UNCHANGED <<created, record, lookup, hmac, rotating, expiring, walk>>

Init ==
  /\ now = 1
  /\ created = [k \in Ids |-> 0]
  /\ record = [k \in Ids |-> Absent]
  /\ lookup = {}
  /\ hmac = [k \in Ids |-> "none"]
  /\ rotating = [k \in Ids |-> Absent] /\ expiring = [k \in Ids |-> Absent]
  /\ walk = [w \in Walkers |-> NoWalk]

Next ==
  \/ \E k \in Ids : DrawKey(k) \/ StoreKey(k) \/ RotateBegin(k) \/ RotateEnd(k)
                      \/ Revoke(k) \/ Clean(k) \/ ExpireBegin(k) \/ ExpireEnd(k) \/ GiveUp(k)
  \/ \E w \in Walkers :
       \/ ListBegin(w) \/ CursorNext(w) \/ OffsetNext(w)
       \/ ResealBegin(w) \/ ResealPut(w) \/ ResignBegin(w) \/ ResignPut(w)
       \/ SecretsDone(w) \/ WalkEnd(w)
       \/ \E k \in Ids : ResealOne(w, k) \/ ResignOne(w, k)
  \/ Tick

Spec == Init /\ [][Next]_vars

----------------------------------------------------------------------------
(* Properties *)

TypeOK ==
  /\ now \in Nat
  /\ created \in [Ids -> Nat]
  /\ record \in [Ids -> Record]
  /\ lookup \subseteq Ids
  /\ hmac \in [Ids -> {"none"} \union Secrets]
  /\ rotating \in [Ids -> Record] /\ expiring \in [Ids -> Record]
  /\ walk \in [Walkers -> Walk]

\* A walk by cursor, over whatever pages, shows each key that was stored when it began
\* exactly once (unless it was rotated when its page was read), and no key twice, keys
\* being created, rotated and revoked meanwhile: what listKeysWithCursor may miss was
\* stored during the walk.
CursorWalkExact ==
  \A w \in Walkers : walk[w].kind = "cursor" =>
    /\ \A k \in Ids : walk[w].listed[k] <= 1
    /\ walk[w].done => \A k \in walk[w].due : walk[w].listed[k] = 1

\* A walk by offset misses no key that was stored when it began, and shows one twice
\* at most as often as keys were stored meanwhile.
OffsetWalkComplete ==
  \A w \in Walkers : walk[w].kind = "offset" =>
    \A k \in Ids : /\ walk[w].done /\ k \in walk[w].due => walk[w].listed[k] >= 1
                   /\ walk[w].listed[k] <= walk[w].came + 1

\* The rotation of the encryption secret puts back records it has listed before, but a
\* key it has passed is out of its reach: a revocation made from then on stays.
RevocationAfterPassKept ==
  [][\A k \in Ids :
       (/\ record[k].status = "revoked" /\ rotating[k] = Absent
        /\ \A w \in Walkers : walk[w].kind = "reseal" => k \notin walk[w].todo)
         => record'[k].status = "revoked"]_vars

\* A record that the rotation of the encryption secret has put under the new secret stays
\* under it, whatever happens to its key afterwards and however many walks there are,
\* unless a rotation or a cleanup of the key had an older copy in hand when it was put:
\* only such a copy, written back later, brings the old ciphertext back.
ResealedKept ==
  \A w \in Walkers : walk[w].kind = "reseal" => \A k \in walk[w].due : record[k].sealed = "new"

\* When the rotation of the HMAC secret is over, every key it listed that can be looked
\* up is signed with the new secret, except where signing failed, even if keys were
\* rotated, revoked or cleaned up on the way; and what can be looked up is signed.
ListedResigned ==
  /\ \A k \in lookup : hmac[k] # "none"
  /\ \A w \in Walkers : walk[w].kind = "resign" /\ walk[w].done =>
       \A k \in walk[w].due \intersect lookup : verifyHmac(k, "new")

----------------------------------------------------------------------------
(* Why they hold *)

\* Entries belong to stored keys, and what a rotation holds is of a stored key.  No key
\* is ever deleted, and the createdAt of a stored one does not change.
StoreInv ==
  /\ lookup \subseteq Stored
  /\ \A k \in lookup : hmac[k] # "none"
  /\ \A k \in Ids : hmac[k] # "none" \/ rotating[k] # Absent \/ expiring[k] # Absent => k \in Stored
  /\ \A k \in Stored : created[k] # 0

\* A walk by cursor has shown what it owes up to its cursor, and nothing after it.
CursorInv(k, r) ==
  LET ahead == k \in After(Stored, created, r.cursor)
  IN /\ r.listed[k] <= 1
     /\ ~r.done /\ ahead => r.listed[k] = 0
     /\ (r.done \/ ~ahead) /\ k \in r.due => r.listed[k] = 1

\* A walk by offset has shown what it owes before its offset, and what is at or after it
\* one time less than there may be.
OffsetInv(k, r) ==
  LET ahead == k \in Stored /\ Position(Stored, created, k) >= r.offset
  IN /\ r.listed[k] <= r.came + 1
     /\ ~r.done /\ ahead => r.listed[k] <= r.came
     /\ (r.done \/ ~ahead) /\ k \in r.due => r.listed[k] >= 1

ListInv(r) ==
  /\ r.due \subseteq Stored
  /\ \A k \in Ids : r.listed[k] = 0 \/ k \in Stored
  /\ \A k \in Ids : IF r.kind = "cursor" THEN CursorInv(k, r) ELSE OffsetInv(k, r)

\* A rotation of a secret works at a key it has not passed, and has copies of stored
\* keys; behind it what can be looked up is signed, and what it answers for is sealed.
SecretInv(r) ==
  /\ r.todo \union r.due \subseteq Stored
  /\ r.at # 0 => r.at \in r.todo
  /\ r.done => r.todo = {}
  /\ r.kind = "reseal" => /\ \A k \in r.todo : r.copies[k].status # "absent"
                          /\ \A k \in r.due : record[k].sealed = "new" /\ Uncopied(k)
  /\ r.kind = "resign" => \A k \in (r.due \ r.todo) \intersect lookup : verifyHmac(k, "new")

WalkInv ==
  \A w \in Walkers : /\ walk[w].kind \in {"cursor", "offset"} => ListInv(walk[w])
                     /\ walk[w].kind \in {"reseal", "resign"} => SecretInv(walk[w])

IndInv == TypeOK /\ StoreInv /\ WalkInv

====

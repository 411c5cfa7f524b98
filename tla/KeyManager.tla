---- MODULE KeyManager ----
(***************************************************************************)
(* The API keys of one Durable Object: the handlers of ApiKeyManager       *)
(* (src/models/ApiKeyManager.js) running interleaved on its storage.       *)
(*                                                                         *)
(* A handler is an async method.  It runs up to its next "await" without   *)
(* interruption, so one action is one such segment: it uses what the       *)
(* previous await returned, issues the next storage operation (a read      *)
(* takes its value, a write takes effect, when it is issued) and waits.    *)
(* Between two segments any other handler may run, unless InputGates holds *)
(* and some handler waits for storage: a Durable Object delivers no other  *)
(* event while a storage operation is outstanding, but does so while a     *)
(* handler waits for cryptography or a timer.                              *)
(*                                                                         *)
(* An id stands for its plaintext value as well (they are drawn together   *)
(* and encryptedKey decrypts to the value), so "lookup:" and "hmac:"       *)
(* entries are sets of ids.  Names, owners, scopes, ciphertexts and the    *)
(* timestamps no decision reads are left out.                              *)
(***************************************************************************)
EXTENDS Naturals, FiniteSets

CONSTANTS
  Keys,        \* the key ids that may ever be drawn
  Handlers,    \* the requests that can be in flight at once
  None,        \* no key
  MaxTime,     \* the clock stops here
  Expiries,    \* the expiresAt values a caller may ask for, 0 for never
  Graces,      \* the grace period lengths a caller may ask for
  MaxFaults,   \* how many storage operations may fail or restarts happen
  InputGates   \* whether a pending storage operation holds other events back

ASSUME ConstantsAssumption ==
  /\ None \notin Keys
  /\ MaxTime \in Nat /\ MaxFaults \in Nat
  /\ Expiries \subseteq Nat
  /\ Graces \subseteq Nat
  /\ InputGates \in BOOLEAN

VARIABLES
  now,         \* Date.now()
  keys,        \* "key:<id>" entries
  rotation,    \* "rotation:<id>" entries
  lookup,      \* ids with a "lookup:<value>" entry
  hmac,        \* ids with an "hmac:<value>" entry
  index,       \* ids with a "keyindex:<createdAt>_<id>" entry
  req,         \* the handler in flight in each slot, and its locals
  cl,          \* cleanupExpiredKeys in flight, and its locals
  faults       \* storage failures and restarts so far

vars == <<now, keys, rotation, lookup, hmac, index, req, cl, faults>>
store == <<keys, rotation, lookup, hmac, index>>

----------------------------------------------------------------------------
(* Data *)

Statuses == {"absent", "active", "rotated", "revoked"}
MaybeKey == Keys \union {None}

KeyRecord == [status : Statuses, expiresAt : Nat, to : MaybeKey, from : MaybeKey]
Absent == [status |-> "absent", expiresAt |-> 0, to |-> None, from |-> None]

RotationRecord == [to : MaybeKey, ends : Nat]
NoRotation == [to |-> None, ends |-> 0]

StorageWaits == {"rotate_key", "rotate_rotation", "rotate_stored", "revoke_key",
                 "revoke_again", "validate_lookup", "validate_unsigned",
                 "validate_key", "validate_rotation"}
OtherWaits == {"rotate_seal", "revoke_pause", "validate_hmac"}

Request == [pc : {"idle"} \union StorageWaits \union OtherWaits, id : MaybeKey,
            rec : KeyRecord, rot : RotationRecord, succ : MaybeKey,
            new : KeyRecord, ends : Nat, attempt : 0..2]
Idle == [pc |-> "idle", id |-> None, rec |-> Absent, rot |-> NoRotation,
         succ |-> None, new |-> Absent, ends |-> 0, attempt |-> 0]

Cleanup == [phase : 0..3, wait : {"storage", "crypto"}, at : Nat,
            snap : [Keys -> KeyRecord], todo : SUBSET Keys, expired : SUBSET Keys,
            unrotate : SUBSET Keys, unlookup : SUBSET Keys, unhmac : SUBSET Keys]
NoCleanup == [phase |-> 0, wait |-> "storage", at |-> 0,
              snap |-> [k \in Keys |-> Absent], todo |-> {}, expired |-> {},
              unrotate |-> {}, unlookup |-> {}, unhmac |-> {}]

Stored == {k \in Keys : keys[k].status # "absent"}
At(p, label) == req[p].pc = label
Goto(p, label) == req' = [req EXCEPT ![p].pc = label]
Return(p) == req' = [req EXCEPT ![p] = Idle]

\* No other handler waits for storage, or nothing holds events back.
MayRun(p) ==
  InputGates => /\ \A q \in Handlers \ {p} : req[q].pc \notin StorageWaits
                /\ cl.phase = 0 \/ cl.wait = "crypto"
MayClean == InputGates => \A q \in Handlers : req[q].pc \notin StorageWaits

Fault == faults < MaxFaults /\ faults' = faults + 1

\* FAULT (stands in for the next definition to show a property can fail): a key
\* expires a tick late.
ExpiredLate(rec, t) == rec.expiresAt > 0 /\ rec.expiresAt + 1 < t

\* expiresAt > 0 && expiresAt < Date.now()
Expired(rec, t) == rec.expiresAt > 0 /\ rec.expiresAt < t
\* !rotationInfo || Date.now() > rotationInfo.gracePeriodEnds
GraceOver(rot, t) == rot.to = None \/ t > rot.ends

----------------------------------------------------------------------------
(* createKey *)

\* FAULT (stands in for the next definition to show a property can fail): the
\* index entry is left to be written later.
StoreNewKeyUnindexed(k, e) ==
  /\ keys[k].status = "absent"
  /\ keys' = [keys EXCEPT ![k] = [Absent EXCEPT !.status = "active", !.expiresAt = e]]
  /\ hmac' = hmac \union {k}
  /\ lookup' = lookup \union {k}
  /\ UNCHANGED index

\* The transaction of createKey: the record, its HMAC, its lookup and its index
\* entry are committed together.  The id drawn earlier is visible only from here.
NewKey(e) == [Absent EXCEPT !.status = "active", !.expiresAt = e]
StoreNewKey(k, e) ==
  /\ keys[k].status = "absent"
  /\ keys' = [keys EXCEPT ![k] = NewKey(e)]
  /\ hmac' = hmac \union {k}
  /\ lookup' = lookup \union {k}
  /\ index' = index \union {k}

\* createKey called by a request.  It reads nothing, so its one effect is the
\* commit; a failed commit leaves nothing behind.
Create(p) ==
  /\ At(p, "idle") /\ MayRun(p)
  /\ \E k \in Keys, e \in Expiries : StoreNewKey(k, e)
  /\ UNCHANGED <<now, rotation, req, cl, faults>>

----------------------------------------------------------------------------
(* rotateKey *)

\* Reads the key.  Unless it is active the request only reports an error.
RotateStart(p) ==
  /\ At(p, "idle") /\ MayRun(p)
  /\ \E k \in Keys :
       /\ keys[k].status = "active"
       /\ req' = [req EXCEPT ![p] = [Idle EXCEPT !.pc = "rotate_key", !.id = k,
                                                 !.rec = keys[k]]]
  /\ UNCHANGED <<now, store, cl, faults>>

\* Reads the rotation record of the key.
RotateReadRotation(p) ==
  /\ At(p, "rotate_key") /\ MayRun(p)
  /\ req' = [req EXCEPT ![p].pc = "rotate_rotation", ![p].rot = rotation[req[p].id]]
  /\ UNCHANGED <<now, store, cl, faults>>

\* Refuses a key already being rotated, else fixes the end of the grace period
\* and calls createKey, which waits for its HMAC and its ciphertext.
RotateSeal(p) ==
  /\ At(p, "rotate_rotation") /\ MayRun(p)
  /\ IF req[p].rot.to # None
       THEN Return(p)
       ELSE \E g \in Graces :
              req' = [req EXCEPT ![p].pc = "rotate_seal", ![p].ends = now + g]
  /\ UNCHANGED <<now, store, cl, faults>>

\* createKey commits the successor, which inherits the expiry unless given one.
RotateStoreNew(p) ==
  /\ At(p, "rotate_seal") /\ MayRun(p)
  /\ \E k \in Keys, e \in (Expiries \ {0}) \union {req[p].rec.expiresAt} :
       /\ StoreNewKey(k, e)
       /\ req' = [req EXCEPT ![p].pc = "rotate_stored", ![p].succ = k,
                             ![p].new = NewKey(e)]
  /\ UNCHANGED <<now, rotation, cl, faults>>

\* FAULT (stands in for the next definition to show a property can fail): the
\* old key is linked but not marked.
RotateCommitUnmarked(p) ==
  /\ At(p, "rotate_stored") /\ MayRun(p)
  /\ LET r == req[p]
     IN /\ keys' = [keys EXCEPT ![r.id] = [r.rec EXCEPT !.to = r.succ],
                                ![r.succ] = [r.new EXCEPT !.from = r.id]]
        /\ rotation' = [rotation EXCEPT ![r.id] = [to |-> r.succ, ends |-> r.ends]]
  /\ Return(p)
  /\ UNCHANGED <<now, lookup, hmac, index, cl, faults>>

\* FAULT (as above): the link holds the new record instead of its id.
RotateCommitRecord(p) ==
  /\ At(p, "rotate_stored") /\ MayRun(p)
  /\ LET r == req[p]
     IN /\ keys' = [keys EXCEPT
                     ![r.id] = [r.rec EXCEPT !.status = "rotated", !.to = r.new],
                     ![r.succ] = [r.new EXCEPT !.from = r.id]]
        /\ rotation' = [rotation EXCEPT ![r.id] = [to |-> r.succ, ends |-> r.ends]]
  /\ Return(p)
  /\ UNCHANGED <<now, lookup, hmac, index, cl, faults>>

\* The second transaction: the copy of the old key read at the start, marked
\* rotated; the rotation record; and the new key as createKey returned it, linked
\* back.  The response carries newApiKey.key, deleted just before.
RotateCommit(p) ==
  /\ At(p, "rotate_stored") /\ MayRun(p)
  /\ LET r == req[p]
     IN /\ keys' = [keys EXCEPT
                     ![r.id] = [r.rec EXCEPT !.status = "rotated", !.to = r.succ],
                     ![r.succ] = [r.new EXCEPT !.from = r.id]]
        /\ rotation' = [rotation EXCEPT ![r.id] = [to |-> r.succ, ends |-> r.ends]]
  /\ Return(p)
  /\ UNCHANGED <<now, lookup, hmac, index, cl, faults>>

----------------------------------------------------------------------------
(* revokeKey *)

RevokeStart(p) ==
  /\ At(p, "idle") /\ MayRun(p)
  /\ \E k \in Stored :
       req' = [req EXCEPT ![p] = [Idle EXCEPT !.pc = "revoke_key", !.id = k,
                                             !.rec = keys[k]]]
  /\ UNCHANGED <<now, store, cl, faults>>

\* Reports a key already revoked, else writes the copy read, marked revoked.  The
\* status is overwritten before it is compared with "rotated", so neither the
\* rotation record nor the successor is touched.  The retry writes alike.
RevokeWrite(p) ==
  /\ req[p].pc \in {"revoke_key", "revoke_again"} /\ MayRun(p)
  /\ keys' = IF req[p].rec.status = "revoked"
               THEN keys
               ELSE [keys EXCEPT ![req[p].id] = [req[p].rec EXCEPT !.status = "revoked"]]
  /\ Return(p)
  /\ UNCHANGED <<now, rotation, lookup, hmac, index, cl, faults>>

\* A storage error: wait and try again, at most twice.
RevokeFails(p) ==
  /\ req[p].pc \in {"revoke_key", "revoke_again"} /\ MayRun(p)
  /\ Fault
  /\ IF req[p].attempt = 2
       THEN Return(p)
       ELSE req' = [req EXCEPT ![p] = [Idle EXCEPT !.pc = "revoke_pause",
                                 !.id = req[p].id, !.attempt = req[p].attempt + 1]]
  /\ UNCHANGED <<now, store, cl>>

\* The timer fired: read the key afresh.
RevokeRetry(p) ==
  /\ At(p, "revoke_pause") /\ MayRun(p)
  /\ req' = [req EXCEPT ![p].pc = "revoke_again", ![p].rec = keys[req[p].id]]
  /\ UNCHANGED <<now, store, cl, faults>>

----------------------------------------------------------------------------
(* validateKey *)

\* Finds the id of the value presented.  A value with no lookup entry is rejected.
ValidateStart(p) ==
  /\ At(p, "idle") /\ MayRun(p)
  /\ \E k \in lookup :
       req' = [req EXCEPT ![p] = [Idle EXCEPT !.pc = "validate_lookup", !.id = k]]
  /\ UNCHANGED <<now, store, cl, faults>>

\* Reads the stored signature; verifying one is a wait for cryptography, a missing
\* one is not verified at all.
ValidateSignature(p) ==
  /\ At(p, "validate_lookup") /\ MayRun(p)
  /\ Goto(p, IF req[p].id \in hmac THEN "validate_hmac" ELSE "validate_unsigned")
  /\ UNCHANGED <<now, store, cl, faults>>

ValidateLoad(p) ==
  /\ req[p].pc \in {"validate_hmac", "validate_unsigned"} /\ MayRun(p)
  /\ req' = [req EXCEPT ![p].pc = "validate_key", ![p].rec = keys[req[p].id]]
  /\ UNCHANGED <<now, store, cl, faults>>

\* A rotated key: read its rotation record.
ValidateReadRotation(p) ==
  /\ At(p, "validate_key") /\ req[p].rec.status = "rotated" /\ MayRun(p)
  /\ req' = [req EXCEPT ![p].pc = "validate_rotation", ![p].rot = rotation[req[p].id]]
  /\ UNCHANGED <<now, store, cl, faults>>

\* The checks before the expiry check are passed.
PastStatusChecks(p) ==
  \/ At(p, "validate_key") /\ req[p].rec.status = "active"
  \/ At(p, "validate_rotation") /\ ~GraceOver(req[p].rot, now)

\* Revoked, past its grace period, or (for an active or rotated key) lacking a
\* required scope: nothing is written.  A lookup entry without a record is dropped.
ValidateReject(p) ==
  /\ req[p].pc \in {"validate_key", "validate_rotation"} /\ MayRun(p)
  /\ PastStatusChecks(p) => ~Expired(req[p].rec, now)
  /\ ~(At(p, "validate_key") /\ req[p].rec.status = "rotated")
  /\ lookup' = IF req[p].rec.status = "absent" THEN lookup \ {req[p].id} ELSE lookup
  /\ Return(p)
  /\ UNCHANGED <<now, keys, rotation, hmac, index, cl, faults>>

\* An expired key is revoked by writing back the copy read.
ValidateExpire(p) ==
  /\ MayRun(p) /\ PastStatusChecks(p)
  /\ Expired(req[p].rec, now)
  /\ keys' = [keys EXCEPT ![req[p].id] = [req[p].rec EXCEPT !.status = "revoked"]]
  /\ Return(p)
  /\ UNCHANGED <<now, rotation, lookup, hmac, index, cl, faults>>

\* Accepted: the copy read is written back with a new lastUsedAt, not awaited, and
\* a failure of that write is only logged.
ValidateAccept(p) ==
  /\ MayRun(p) /\ PastStatusChecks(p)
  /\ ~Expired(req[p].rec, now)
  /\ keys' \in {keys, [keys EXCEPT ![req[p].id] = req[p].rec]}
  /\ Return(p)
  /\ UNCHANGED <<now, rotation, lookup, hmac, index, cl, faults>>

\* A failed read or commit ends rotateKey and validateKey with an error, whatever
\* they have stored so far.
RequestFails(p) ==
  /\ req[p].pc \in StorageWaits \ {"revoke_key", "revoke_again"} /\ MayRun(p)
  /\ Fault
  /\ Return(p)
  /\ UNCHANGED <<now, store, cl>>

----------------------------------------------------------------------------
(* cleanupExpiredKeys, run by the alarm or by an administrator *)

\* FAULT (stands in for the next definition to show a property can fail): only
\* rotated keys are looked at.
NeedsCleanupRotated(rec, t) == rec.status = "rotated" /\ t \in Nat

\* What the first pass acts on: expired active keys, and rotated keys.
NeedsCleanup(rec, t) ==
  rec.status = "rotated" \/ (rec.status = "active" /\ Expired(rec, t))

\* Lists the keys.  The listing is a copy; the keys the first pass skips are left out.
CleanStart ==
  /\ cl.phase = 0 /\ MayClean
  /\ LET work == {k \in Keys : NeedsCleanup(keys[k], now)}
     IN cl' = [NoCleanup EXCEPT !.phase = 1, !.at = now, !.todo = work,
                 !.snap = [k \in Keys |-> IF k \in work THEN keys[k] ELSE Absent]]
  /\ UNCHANGED <<now, store, req, faults>>

\* FAULT (stands in for the next definition to show a property can fail): a
\* grace period counts as over only before it ends.
CleanKeyInverted(k) ==
  /\ cl.phase = 1 /\ k \in cl.todo /\ MayClean
  /\ LET expires == cl.snap[k].status = "active"
         over == ~expires /\ rotation[k].to # None /\ rotation[k].ends > cl.at
     IN cl' = [cl EXCEPT !.todo = @ \ {k},
                         !.expired = IF expires THEN @ \union {k} ELSE @,
                         !.unrotate = IF over THEN @ \union {k} ELSE @]
  /\ UNCHANGED <<now, store, req, faults>>

\* First pass, one key: an expired key is to be revoked; the rotation record of a
\* rotated key is read and, its grace period over, is to be deleted.  Then the key is
\* decrypted to find its lookup and HMAC entries.
CleanKey(k) ==
  /\ cl.phase = 1 /\ k \in cl.todo /\ MayClean
  /\ LET expires == cl.snap[k].status = "active"
         over == ~expires /\ rotation[k].to # None /\ rotation[k].ends < cl.at
         gone == IF expires \/ over THEN {k} ELSE {}
     IN cl' = [cl EXCEPT !.todo = @ \ {k},
                         !.wait = IF expires \/ over THEN "crypto" ELSE "storage",
                         !.expired = IF expires THEN @ \union {k} ELSE @,
                         !.unrotate = IF over THEN @ \union {k} ELSE @,
                         !.unlookup = @ \union gone,
                         !.unhmac = @ \union gone]
  /\ UNCHANGED <<now, store, req, faults>>

\* Second pass: list the lookup entries, then read the key of each.
CleanListLookups ==
  /\ cl.phase = 1 /\ cl.todo = {} /\ MayClean
  /\ cl' = [cl EXCEPT !.phase = 2, !.wait = "storage", !.todo = lookup]
  /\ UNCHANGED <<now, store, req, faults>>

\* FAULT (stands in for the next definition to show a property can fail): the
\* key is sought in the listing of the first pass instead of being read.
CleanLookupStale(k) ==
  /\ cl.phase = 2 /\ k \in cl.todo /\ MayClean
  /\ cl' = [cl EXCEPT !.todo = @ \ {k},
               !.unlookup = IF cl.snap[k].status # "active" THEN @ \union {k} ELSE @]
  /\ UNCHANGED <<now, store, req, faults>>

CleanLookup(k) ==
  /\ cl.phase = 2 /\ k \in cl.todo /\ MayClean
  /\ cl' = [cl EXCEPT !.todo = @ \ {k},
               !.unlookup = IF keys[k].status # "active" THEN @ \union {k} ELSE @]
  /\ UNCHANGED <<now, store, req, faults>>

\* Third pass: list the HMAC entries, then read the lookup entry of each.
CleanListHmacs ==
  /\ cl.phase = 2 /\ cl.todo = {} /\ MayClean
  /\ cl' = [cl EXCEPT !.phase = 3, !.todo = hmac]
  /\ UNCHANGED <<now, store, req, faults>>

\* FAULT (stands in for the next definition to show a property can fail): the
\* HMAC is dropped by the key's status instead of its lookup entry.
CleanHmacByStatus(k) ==
  /\ cl.phase = 3 /\ k \in cl.todo /\ MayClean
  /\ cl' = [cl EXCEPT !.todo = @ \ {k},
               !.unhmac = IF keys[k].status # "active" THEN @ \union {k} ELSE @]
  /\ UNCHANGED <<now, store, req, faults>>

\* FAULT (as above): the test of the lookup entry is dropped.
CleanHmacNever(k) ==
  /\ cl.phase = 3 /\ k \in cl.todo /\ MayClean
  /\ cl' = [cl EXCEPT !.todo = @ \ {k}]
  /\ UNCHANGED <<now, store, req, faults>>

CleanHmac(k) ==
  /\ cl.phase = 3 /\ k \in cl.todo /\ MayClean
  /\ cl' = [cl EXCEPT !.todo = @ \ {k},
               !.unhmac = IF k \notin lookup THEN @ \union {k} ELSE @]
  /\ UNCHANGED <<now, store, req, faults>>

\* FAULT (stands in for the next definition to show a property can fail): the
\* copies are put before they are marked revoked.
CleanCommitUnmarked ==
  /\ cl.phase = 3 /\ cl.todo = {} /\ MayClean
  /\ keys' = [k \in Keys |-> IF k \in cl.expired THEN cl.snap[k] ELSE keys[k]]
  /\ rotation' = [k \in Keys |-> IF k \in cl.unrotate THEN NoRotation ELSE rotation[k]]
  /\ lookup' = lookup \ cl.unlookup
  /\ hmac' = hmac \ cl.unhmac
  /\ cl' = NoCleanup
  /\ UNCHANGED <<now, index, req, faults>>

\* FAULT (as above): expired keys are deleted instead of revoked.
CleanCommitDeletes ==
  /\ cl.phase = 3 /\ cl.todo = {} /\ MayClean
  /\ keys' = [k \in Keys |-> IF k \in cl.expired THEN Absent ELSE keys[k]]
  /\ rotation' = [k \in Keys |-> IF k \in cl.unrotate THEN NoRotation ELSE rotation[k]]
  /\ lookup' = lookup \ cl.unlookup
  /\ hmac' = hmac \ cl.unhmac
  /\ index' = index \ cl.expired
  /\ cl' = NoCleanup
  /\ UNCHANGED <<now, req, faults>>

\* One transaction commits it all: the copies listed, marked revoked, and the deletes.
CleanCommit ==
  /\ cl.phase = 3 /\ cl.todo = {} /\ MayClean
  /\ keys' = [k \in Keys |-> IF k \in cl.expired
                                THEN [cl.snap[k] EXCEPT !.status = "revoked"]
                                ELSE keys[k]]
  /\ rotation' = [k \in Keys |-> IF k \in cl.unrotate THEN NoRotation ELSE rotation[k]]
  /\ lookup' = lookup \ cl.unlookup
  /\ hmac' = hmac \ cl.unhmac
  /\ cl' = NoCleanup
  /\ UNCHANGED <<now, index, req, faults>>

\* First pass, one key: its decryption fails.  The revocation of an expired key, or the
\* deletion of a rotation record, is already put and stays; nothing more is cleared.
CleanUndecrypted(k) ==
  /\ cl.phase = 1 /\ k \in cl.todo /\ MayClean
  /\ Fault
  /\ LET expires == cl.snap[k].status = "active"
         over == ~expires /\ rotation[k].to # None /\ rotation[k].ends < cl.at
     IN /\ expires \/ over
        /\ cl' = [cl EXCEPT !.todo = @ \ {k},
                            !.wait = "crypto",
                            !.expired = IF expires THEN @ \union {k} ELSE @,
                            !.unrotate = IF over THEN @ \union {k} ELSE @]
  /\ UNCHANGED <<now, store, req>>

\* The read of a rotation record (first pass) or of a key (second pass) fails: the entry
\* is skipped.
CleanSkip(k) ==
  /\ cl.phase \in {1, 2} /\ k \in cl.todo /\ MayClean
  /\ cl.phase = 1 => cl.snap[k].status = "rotated"
  /\ Fault
  /\ cl' = [cl EXCEPT !.todo = @ \ {k}]
  /\ UNCHANGED <<now, store, req>>

\* A listing, a read of the third pass or the commit fails: nothing is stored.
CleanFails ==
  /\ cl.phase # 0 /\ MayClean
  /\ Fault
  /\ cl' = NoCleanup
  /\ UNCHANGED <<now, store, req>>

----------------------------------------------------------------------------
(* The environment *)

\* The object is evicted or its host restarts: what is in flight is lost.
Restart ==
  /\ Fault
  /\ req' = [p \in Handlers |-> Idle]
  /\ cl' = NoCleanup
  /\ UNCHANGED <<now, store>>

Tick ==
  /\ now < MaxTime
  /\ now' = now + 1
  /\ UNCHANGED <<store, req, cl, faults>>

Init ==
  /\ now = 1
  /\ keys = [k \in Keys |-> Absent]
  /\ rotation = [k \in Keys |-> NoRotation]
  /\ lookup = {} /\ hmac = {} /\ index = {}
  /\ req = [p \in Handlers |-> Idle]
  /\ cl = NoCleanup
  /\ faults = 0

Rotate(p) == RotateStart(p) \/ RotateReadRotation(p) \/ RotateSeal(p)
               \/ RotateStoreNew(p) \/ RotateCommit(p)
Revoke(p) == RevokeStart(p) \/ RevokeWrite(p) \/ RevokeFails(p) \/ RevokeRetry(p)
Validate(p) == ValidateStart(p) \/ ValidateSignature(p) \/ ValidateLoad(p)
                 \/ ValidateReadRotation(p) \/ ValidateReject(p) \/ ValidateExpire(p)
                 \/ ValidateAccept(p)
Clean == CleanStart \/ CleanListLookups \/ CleanListHmacs \/ CleanCommit
           \/ \E k \in Keys : CleanKey(k) \/ CleanLookup(k) \/ CleanHmac(k)
CleanErrs == CleanFails \/ \E k \in Keys : CleanUndecrypted(k) \/ CleanSkip(k)

Next ==
  \/ \E p \in Handlers : Create(p) \/ Rotate(p) \/ Revoke(p) \/ Validate(p)
                           \/ RequestFails(p)
  \/ Clean
  \/ CleanErrs
  \/ Restart
  \/ Tick

Spec == Init /\ [][Next]_vars

\* The event loop resumes a handler whose storage operation is done, and runs the
\* cleanup again and again, in turn with other requests: the alarm re-arms itself
\* after a cleanup and after an error.
Resume(p) == ~At(p, "idle") /\ (Rotate(p) \/ Revoke(p) \/ Validate(p))
FairSpec == Spec /\ SF_vars(Clean) /\ \A p \in Handlers : WF_vars(Resume(p)) /\ WF_vars(Tick)

----------------------------------------------------------------------------
(* Properties *)

TypeOK ==
  /\ now \in Nat
  /\ keys \in [Keys -> KeyRecord]
  /\ rotation \in [Keys -> RotationRecord]
  /\ lookup \subseteq Keys /\ hmac \subseteq Keys /\ index \subseteq Keys
  /\ req \in [Handlers -> Request]
  /\ cl \in Cleanup
  /\ faults \in Nat

\* The listing index names exactly the stored records, and a lookup entry always
\* leads to one: the stale entry validateKey guards against ("this should never
\* happen") does not arise, whatever fails or interleaves.
IndexExact == index = Stored /\ lookup \subseteq Stored

\* A value that can be looked up still has its stored signature: cleanup never takes
\* the HMAC first, so a validation in between cannot skip the check.
SignatureKept == lookup \subseteq hmac

\* Every link between an old key and its successor, in a record or a rotation record,
\* leads to a stored key: a response never names a successor that does not exist.
LinksResolve ==
  \A k \in Keys : {keys[k].to, keys[k].from, rotation[k].to} \subseteq Stored \union {None}

\* Cleanup works from a listing other requests overtake, yet never takes the lookup
\* entry of a key that is active when it commits.
ActiveKeyFindable == \A k \in Keys : keys[k].status = "active" => k \in lookup

\* The old key of a rotation stops being active together with the rotation's start,
\* and no copy of it written later makes it active again while the record stands.
RotationRetiresOldKey ==
  \A k \in Keys : rotation[k].to # None => keys[k].status \in {"rotated", "revoked"}

\* The copies of records that validateKey, revokeKey and the cleanup write back never
\* make a key active that has been revoked or rotated meanwhile.
NoReactivation ==
  [][\A k \in Keys : keys[k].status \in {"rotated", "revoked"} => keys'[k].status # "active"]_vars

\* Seen without its handlers, the store lives through KeyLifecycle, with the input gates:
\* whatever interleaves or fails, each write is a step in the life of a key.
LifeOf(rec) == [status |-> rec.status, expiresAt |-> rec.expiresAt, from |-> rec.from]
Replacing == {req[p].id : p \in {q \in Handlers : req[q].pc \in {"rotate_seal", "rotate_stored"}}}
Lifecycle == INSTANCE KeyLifecycle WITH
  life <- [k \in Keys |-> LifeOf(keys[k])], findable <- lookup, rotating <- Replacing
LifecycleSpec == Lifecycle!Spec

\* A revocation is undone by nothing but a rotation of the same key that was already
\* waiting for its second commit.
RevocationOutlivesAllButRotation ==
  [][\A k \in Keys : keys[k].status = "revoked" /\ keys'[k].status # "revoked"
       => \E p \in Handlers : At(p, "rotate_stored") /\ req[p].id = k]_vars

\* A value is accepted only if the stored record, at that very moment, is active or
\* rotated within its grace period, and not expired: no acceptance rests on a copy
\* that a revocation has overtaken.
AcceptedKeyIsLive ==
  [][\A p \in Handlers : ValidateAccept(p) =>
       LET k == req[p].id
       IN /\ \/ keys[k].status = "active"
             \/ keys[k].status = "rotated" /\ rotation[k].to # None /\ now <= rotation[k].ends
          /\ keys[k].expiresAt = 0 \/ now <= keys[k].expiresAt]_vars

\* An active key past its expiry does not stay active: cleanup or a validation
\* retires it.
ExpiredKeyRetired ==
  \A k \in Keys : (keys[k].status = "active" /\ Expired(keys[k], now))
                    ~> keys[k].status # "active"

\* The lookup and HMAC entries of a revoked key are eventually gone (the HMAC one
\* cleanup later than the lookup).
DeadEntriesCleared ==
  \A k \in Keys : keys[k].status = "revoked" ~> k \notin lookup \union hmac

\* The rotation record of a rotated key does not outlive its grace period for ever,
\* unless the key is revoked first.
GraceRecordCleared ==
  \A k \in Keys : (keys[k].status = "rotated" /\ rotation[k].to # None /\ rotation[k].ends < now)
                    ~> (rotation[k].to = None \/ keys[k].status = "revoked")

----------------------------------------------------------------------------
(* The inductive invariant behind the store properties (proved in KeyManagerProofs) *)

LinksOf(rec) == {rec.to, rec.from} \subseteq Stored \union {None}

\* Labels at which rec is a copy of a stored record.
HoldsCopy == {"rotate_key", "rotate_rotation", "rotate_seal", "rotate_stored",
              "revoke_key", "revoke_again", "validate_key", "validate_rotation"}

StoreInv ==
  /\ index = Stored
  /\ lookup \subseteq hmac /\ hmac \subseteq Stored
  /\ \A k \in Keys : LinksOf(keys[k]) /\ rotation[k].to \in Stored \union {None}

\* What a handler carries was once stored.
Carries(r) ==
  /\ r.pc # "idle" => r.id \in Stored
  /\ r.pc \in HoldsCopy => r.rec.status # "absent"
  /\ r.pc = "rotate_stored" => r.succ \in Stored /\ r.new.status = "active"
  /\ LinksOf(r.rec) /\ LinksOf(r.new)
RequestInv == \A p \in Handlers : Carries(req[p])

\* What the cleanup has listed was once stored, and it clears an HMAC only together
\* with its lookup entry or after it.
CleanInv ==
  /\ cl.todo \subseteq Stored /\ cl.unhmac \subseteq Stored
  /\ \A k \in cl.expired : k \in Stored /\ cl.snap[k].status # "absent"
  /\ cl.phase = 1 => \A k \in cl.todo : cl.snap[k].status # "absent"
  /\ \A k \in Keys : LinksOf(cl.snap[k])
  /\ cl.unhmac \intersect lookup \subseteq cl.unlookup

IndInv == TypeOK /\ StoreInv /\ RequestInv /\ CleanInv

----------------------------------------------------------------------------
(* What input gates add to it (proved in KeyManagerProofs) *)

Retired(k) == keys[k].status \in {"rotated", "revoked"}

\* One handler, or the cleanup, waits for storage at a time.
Alone ==
  \A p \in Handlers : req[p].pc \in StorageWaits =>
    /\ \A q \in Handlers \ {p} : req[q].pc \notin StorageWaits
    /\ cl.phase = 0 \/ cl.wait = "crypto"

\* So what a handler has read is what is stored (ks and rs), until it waits for
\* cryptography; and the successor a rotation has stored is as it was stored.
Fresh(r, ks, rs) ==
  /\ r.pc \in HoldsCopy \ {"rotate_seal", "rotate_stored"} => r.rec = ks[r.id]
  /\ r.pc = "validate_rotation" => r.rot = rs[r.id] /\ r.rec.status = "rotated"
  /\ r.pc = "rotate_stored" => r.new = ks[r.succ] /\ r.succ # r.id
RequestsFresh == \A p \in Handlers : Fresh(req[p], keys, rotation)

\* The cleanup works on listings that other requests overtake while it waits for
\* cryptography; but it clears the lookup entries of retired keys and of those it is
\* going to revoke only, and what has retired stays so.
ClearsRetired ==
  /\ \A k \in cl.unlookup \ cl.expired : Retired(k)
  /\ cl.phase = 1 => \A k \in cl.todo : cl.snap[k].status = "active" \/ Retired(k)

GatedInv == Alone /\ RequestsFresh /\ ClearsRetired /\ ActiveKeyFindable /\ RotationRetiresOldKey

\* A rotation and the cleanup may hold copies that are not fresh any more, but of keys
\* whose expiry and predecessor are as they were; nobody else knows the successor that
\* a rotation has just stored.
SameOrigin(a, b) == a.expiresAt = b.expiresAt /\ a.from = b.from
Listed == cl.expired \union {k \in cl.todo : cl.phase = 1 /\ cl.snap[k].status = "active"}

RotationKnows(r) ==
  /\ r.pc \in {"rotate_key", "rotate_rotation"} => r.rec.status = "active"
  /\ r.pc \in {"rotate_seal", "rotate_stored"} => SameOrigin(r.rec, keys[r.id])
  /\ r.pc = "rotate_stored" =>
       /\ r.new.from = None /\ r.succ \notin Listed
       /\ \A q \in Handlers : req[q].pc = "rotate_seal" => req[q].id # r.succ

LifeInv ==
  /\ \A p \in Handlers : RotationKnows(req[p])
  /\ \A k \in Listed : SameOrigin(cl.snap[k], keys[k]) /\ Expired(cl.snap[k], cl.at)
  /\ cl.at <= now

----------------------------------------------------------------------------
(* What the documentation and the comments say, and the code does not do *)

\* Revoked is a final state (SECURITY.md).
RevokedIsFinal ==
  [][\A k \in Keys : keys[k].status = "revoked" => keys'[k].status = "revoked"]_vars

\* During the grace period the old key still works: its value can be looked up.
GraceHonoured ==
  \A k \in Keys : keys[k].status = "rotated" /\ rotation[k].to # None /\ now <= rotation[k].ends
                    => k \in lookup

====

---- MODULE KeyManagerProofs ----
(***************************************************************************)
(* Theorems about KeyManager, for every set of keys and handlers and every *)
(* bound: first those that hold for both settings of InputGates, then what *)
(* input gates add, then that KeyManager implements KeyLifecycle.          *)
(***************************************************************************)
EXTENDS KeyManager, TLAPS

(* Types *)

\* The initial values, and the record createKey builds, have their types.
LEMMA DataTypes ==
  /\ Absent \in KeyRecord /\ NoRotation \in RotationRecord
  /\ Idle \in Request /\ NoCleanup \in Cleanup
  /\ \A e \in Nat : NewKey(e) \in KeyRecord
<1>1. Absent \in KeyRecord
  BY DEF Absent, KeyRecord, Statuses, MaybeKey
<1>2. NoRotation \in RotationRecord
  BY DEF NoRotation, RotationRecord, MaybeKey
<1>3. Idle \in Request
  BY <1>1, <1>2 DEF Idle, Request, MaybeKey
<1>4. NoCleanup \in Cleanup
  BY <1>1 DEF NoCleanup, Cleanup
<1>5. ASSUME NEW e \in Nat PROVE NewKey(e) \in KeyRecord
  BY <1>1, <1>5 DEF NewKey, KeyRecord, Statuses
<1> QED BY <1>1, <1>2, <1>3, <1>4, <1>5

LEMMA InitType == Init => TypeOK
BY DataTypes, ConstantsAssumption DEF Init, TypeOK

\* Replacing one slot, or one field of it.
LEMMA PutType ==
  ASSUME TypeOK, NEW p \in Handlers, NEW r \in Request
  PROVE  [req EXCEPT ![p] = r] \in [Handlers -> Request]
BY DEF TypeOK

LEMMA ReturnType ==
  ASSUME TypeOK, NEW p \in Handlers, Return(p)
  PROVE  req' \in [Handlers -> Request]
BY DataTypes, PutType DEF Return

LEMMA StoreNewKeyType ==
  ASSUME TypeOK, NEW k \in Keys, NEW e \in Nat, StoreNewKey(k, e)
  PROVE  /\ keys' \in [Keys -> KeyRecord]
         /\ lookup' \subseteq Keys /\ hmac' \subseteq Keys /\ index' \subseteq Keys
BY DataTypes DEF TypeOK, StoreNewKey

\* The id of a handler in flight is a key.
IdOK == \A p \in Handlers : ~At(p, "idle") => req[p].id \in Keys

LEMMA CreateType == ASSUME TypeOK, NEW p \in Handlers, Create(p) PROVE TypeOK'
<1>1. PICK k \in Keys, e \in Expiries :
       StoreNewKey(k, e)
  BY DEF Create
<1>2. e \in Nat
  BY ConstantsAssumption
<1> QED BY <1>1, <1>2, StoreNewKeyType DEF Create, TypeOK

LEMMA RotateStartType == ASSUME TypeOK, NEW p \in Handlers, RotateStart(p) PROVE TypeOK'
<1>1. PICK k \in Keys : req' = [req EXCEPT ![p] =
                         [Idle EXCEPT !.pc = "rotate_key", !.id = k, !.rec = keys[k]]]
  BY DEF RotateStart
<1>2. [Idle EXCEPT !.pc = "rotate_key", !.id = k, !.rec = keys[k]] \in Request
  BY DataTypes DEF TypeOK, Request, StorageWaits, MaybeKey
<1> QED BY <1>1, <1>2, PutType DEF RotateStart, TypeOK, store

LEMMA RotateReadRotationType ==
  ASSUME TypeOK, IdOK, NEW p \in Handlers, RotateReadRotation(p) PROVE TypeOK'
<1>1. rotation[req[p].id] \in RotationRecord
  BY DEF RotateReadRotation, TypeOK, IdOK, At
<1>2. req' = [req EXCEPT ![p] =
                [req[p] EXCEPT !.pc = "rotate_rotation", !.rot = rotation[req[p].id]]]
  BY DEF RotateReadRotation, TypeOK
<1> QED BY <1>1, <1>2, PutType DEF RotateReadRotation, TypeOK, Request, StorageWaits, store

LEMMA RotateSealType ==
  ASSUME TypeOK, IdOK, NEW p \in Handlers, RotateSeal(p) PROVE TypeOK'
<1>1. CASE Return(p)
  BY <1>1, ReturnType DEF RotateSeal, TypeOK, store
<1>2. ASSUME NEW g \in Graces,
             req' = [req EXCEPT ![p].pc = "rotate_seal", ![p].ends = now + g]
      PROVE  TypeOK'
  <2>1. now + g \in Nat
    BY ConstantsAssumption DEF TypeOK
  <2>2. req' = [req EXCEPT ![p] = [req[p] EXCEPT !.pc = "rotate_seal", !.ends = now + g]]
    BY <1>2 DEF TypeOK
  <2>3. [req[p] EXCEPT !.pc = "rotate_seal", !.ends = now + g] \in Request
    BY <2>1 DEF TypeOK, Request, OtherWaits
  <2> QED BY <2>2, <2>3, PutType DEF RotateSeal, TypeOK, store
<1> QED BY <1>1, <1>2 DEF RotateSeal

LEMMA RotateStoreNewType ==
  ASSUME TypeOK, NEW p \in Handlers, RotateStoreNew(p) PROVE TypeOK'
<1>1. PICK k \in Keys, e \in (Expiries \ {0}) \union {req[p].rec.expiresAt} :
        /\ StoreNewKey(k, e)
        /\ req' = [req EXCEPT ![p].pc = "rotate_stored", ![p].succ = k,
                              ![p].new = NewKey(e)]
  BY DEF RotateStoreNew
<1>2. e \in Nat
  BY ConstantsAssumption DEF TypeOK, Request, KeyRecord
<1>3. req' = [req EXCEPT ![p] = [req[p] EXCEPT !.pc = "rotate_stored", !.succ = k,
                                               !.new = NewKey(e)]]
  BY <1>1 DEF TypeOK
<1>4. [req[p] EXCEPT !.pc = "rotate_stored", !.succ = k, !.new = NewKey(e)] \in Request
  BY <1>2, DataTypes DEF TypeOK, Request, StorageWaits, MaybeKey
<1>5. req' \in [Handlers -> Request]
  BY <1>3, <1>4, PutType
<1> QED BY <1>1, <1>2, <1>5, StoreNewKeyType DEF RotateStoreNew, TypeOK

LEMMA RotateCommitType ==
  ASSUME TypeOK, NEW p \in Handlers, RotateCommit(p) PROVE TypeOK'
<1> DEFINE old == [req[p].rec EXCEPT !.status = "rotated", !.to = req[p].succ]
           new == [req[p].new EXCEPT !.from = req[p].id]
<1>1. /\ old \in KeyRecord /\ new \in KeyRecord
      /\ [to |-> req[p].succ, ends |-> req[p].ends] \in RotationRecord
  BY DEF TypeOK, Request, KeyRecord, RotationRecord, Statuses, MaybeKey
<1>2. keys' = [keys EXCEPT ![req[p].id] = old, ![req[p].succ] = new]
  BY DEF RotateCommit
<1>3. keys' \in [Keys -> KeyRecord]
  BY <1>1, <1>2, Zenon DEF TypeOK
<1>4. rotation' \in [Keys -> RotationRecord]
  BY <1>1 DEF RotateCommit, TypeOK
<1> QED BY <1>3, <1>4, ReturnType DEF RotateCommit, TypeOK

LEMMA RevokeStartType == ASSUME TypeOK, NEW p \in Handlers, RevokeStart(p) PROVE TypeOK'
<1>1. PICK k \in Keys : req' = [req EXCEPT ![p] =
                         [Idle EXCEPT !.pc = "revoke_key", !.id = k, !.rec = keys[k]]]
  BY DEF RevokeStart, Stored
<1>2. [Idle EXCEPT !.pc = "revoke_key", !.id = k, !.rec = keys[k]] \in Request
  BY DataTypes DEF TypeOK, Request, StorageWaits, MaybeKey
<1> QED BY <1>1, <1>2, PutType DEF RevokeStart, TypeOK, store

LEMMA RevokeWriteType == ASSUME TypeOK, NEW p \in Handlers, RevokeWrite(p) PROVE TypeOK'
<1>1. [req[p].rec EXCEPT !.status = "revoked"] \in KeyRecord
  BY DEF TypeOK, Request, KeyRecord, Statuses
<1>2. keys' \in [Keys -> KeyRecord]
  BY <1>1 DEF RevokeWrite, TypeOK
<1> QED BY <1>2, ReturnType DEF RevokeWrite, TypeOK

LEMMA RevokeFailsType == ASSUME TypeOK, NEW p \in Handlers, RevokeFails(p) PROVE TypeOK'
<1>1. req' \in [Handlers -> Request]
  <2>1. CASE Return(p)
    BY <2>1, ReturnType
  <2>2. CASE req[p].attempt # 2 /\ req' = [req EXCEPT ![p] = [Idle EXCEPT
               !.pc = "revoke_pause", !.id = req[p].id, !.attempt = req[p].attempt + 1]]
    <3>1. req[p].attempt + 1 \in 0..2
      BY <2>2 DEF TypeOK, Request
    <3>2. [Idle EXCEPT !.pc = "revoke_pause", !.id = req[p].id,
                       !.attempt = req[p].attempt + 1] \in Request
      BY <3>1, DataTypes DEF TypeOK, Request, OtherWaits
    <3> QED BY <2>2, <3>2, PutType
  <2> QED BY <2>1, <2>2 DEF RevokeFails
<1> QED BY <1>1 DEF RevokeFails, Fault, TypeOK, store

LEMMA RevokeRetryType ==
  ASSUME TypeOK, IdOK, NEW p \in Handlers, RevokeRetry(p) PROVE TypeOK'
<1>1. keys[req[p].id] \in KeyRecord
  BY DEF RevokeRetry, TypeOK, IdOK, At
<1>2. req' = [req EXCEPT ![p] = [req[p] EXCEPT !.pc = "revoke_again", !.rec = keys[req[p].id]]]
  BY DEF RevokeRetry, TypeOK
<1>3. [req[p] EXCEPT !.pc = "revoke_again", !.rec = keys[req[p].id]] \in Request
  BY <1>1 DEF TypeOK, Request, StorageWaits
<1> QED BY <1>2, <1>3, PutType DEF RevokeRetry, TypeOK, store

LEMMA RevokeType == ASSUME TypeOK, IdOK, NEW p \in Handlers, Revoke(p) PROVE TypeOK'
BY RevokeStartType, RevokeWriteType, RevokeFailsType, RevokeRetryType DEF Revoke

LEMMA RotateType == ASSUME TypeOK, IdOK, NEW p \in Handlers, Rotate(p) PROVE TypeOK'
BY RotateStartType, RotateReadRotationType, RotateSealType, RotateStoreNewType,
   RotateCommitType DEF Rotate

LEMMA ValidateType == ASSUME TypeOK, IdOK, NEW p \in Handlers, Validate(p) PROVE TypeOK'
<1> USE DEF TypeOK, store
<1>1. CASE ValidateStart(p)
  <2>1. PICK k \in Keys : req' = [req EXCEPT ![p] =
                                    [Idle EXCEPT !.pc = "validate_lookup", !.id = k]]
    BY <1>1 DEF ValidateStart
  <2>2. [Idle EXCEPT !.pc = "validate_lookup", !.id = k] \in Request
    BY DataTypes DEF Request, StorageWaits, MaybeKey
  <2> QED BY <1>1, <2>1, <2>2, PutType DEF ValidateStart
<1>2. CASE ValidateSignature(p)
  <2>1. PICK l \in {"validate_hmac", "validate_unsigned"} :
          req' = [req EXCEPT ![p] = [req[p] EXCEPT !.pc = l]]
    BY <1>2 DEF ValidateSignature, Goto
  <2>2. [req[p] EXCEPT !.pc = l] \in Request
    BY DEF Request, StorageWaits, OtherWaits
  <2> QED BY <1>2, <2>1, <2>2, PutType DEF ValidateSignature
<1>3. CASE ValidateLoad(p)
  <2>1. keys[req[p].id] \in KeyRecord
    BY <1>3 DEF ValidateLoad, IdOK, At
  <2>2. req' = [req EXCEPT ![p] = [req[p] EXCEPT !.pc = "validate_key", !.rec = keys[req[p].id]]]
    BY <1>3 DEF ValidateLoad
  <2>3. [req[p] EXCEPT !.pc = "validate_key", !.rec = keys[req[p].id]] \in Request
    BY <2>1 DEF Request, StorageWaits
  <2> QED BY <1>3, <2>2, <2>3, PutType DEF ValidateLoad
<1>4. CASE ValidateReadRotation(p)
  <2>1. rotation[req[p].id] \in RotationRecord
    BY <1>4 DEF ValidateReadRotation, IdOK, At
  <2>2. req' = [req EXCEPT ![p] = [req[p] EXCEPT !.pc = "validate_rotation",
                                                 !.rot = rotation[req[p].id]]]
    BY <1>4 DEF ValidateReadRotation
  <2>3. [req[p] EXCEPT !.pc = "validate_rotation", !.rot = rotation[req[p].id]] \in Request
    BY <2>1 DEF Request, StorageWaits
  <2> QED BY <1>4, <2>2, <2>3, PutType DEF ValidateReadRotation
<1>5. CASE ValidateReject(p)
  BY <1>5, ReturnType DEF ValidateReject
<1>6. CASE ValidateExpire(p)
  <2>1. [req[p].rec EXCEPT !.status = "revoked"] \in KeyRecord
    BY DEF Request, KeyRecord, Statuses
  <2> QED BY <1>6, <2>1, ReturnType DEF ValidateExpire
<1>7. CASE ValidateAccept(p)
  <2>1. req[p].rec \in KeyRecord
    BY DEF Request
  <2> QED BY <1>7, <2>1, ReturnType DEF ValidateAccept
<1> QED BY <1>1, <1>2, <1>3, <1>4, <1>5, <1>6, <1>7 DEF Validate

LEMMA RequestFailsType == ASSUME TypeOK, NEW p \in Handlers, RequestFails(p) PROVE TypeOK'
BY ReturnType DEF RequestFails, Fault, TypeOK, store

LEMMA CleanPass ==
  ASSUME NEW c \in Cleanup, NEW f \in 0..3, NEW w \in {"storage", "crypto"},
         NEW t \in SUBSET Keys
  PROVE  /\ [c EXCEPT !.phase = f, !.wait = w, !.todo = t] \in Cleanup
         /\ [c EXCEPT !.phase = f, !.todo = t] \in Cleanup
BY DEF Cleanup

LEMMA CleanListing ==
  ASSUME NEW t \in SUBSET Keys, NEW n \in Nat, NEW s \in [Keys -> KeyRecord]
  PROVE  [NoCleanup EXCEPT !.phase = 1, !.at = n, !.todo = t, !.snap = s] \in Cleanup
<1>1. NoCleanup \in Cleanup
  BY DataTypes
<1>2. ASSUME NEW c \in Cleanup
      PROVE  [c EXCEPT !.phase = 1, !.at = n, !.todo = t, !.snap = s] \in Cleanup
  <2>1. [c EXCEPT !.phase = 1, !.todo = t] \in Cleanup
    <3>1. 1 \in 0..3
      OBVIOUS
    <3> QED BY <3>1, CleanPass
  <2>2. \A d \in Cleanup : [d EXCEPT !.at = n, !.snap = s] \in Cleanup
    BY DEF Cleanup
  <2>3. [c EXCEPT !.phase = 1, !.at = n, !.todo = t, !.snap = s]
          = [[c EXCEPT !.phase = 1, !.todo = t] EXCEPT !.at = n, !.snap = s]
    BY DEF Cleanup
  <2> QED BY <2>1, <2>2, <2>3
<1> QED BY <1>1, <1>2

LEMMA CleanType == ASSUME TypeOK, Clean PROVE TypeOK'
<1> USE DEF TypeOK, store
<1>1. CASE CleanStart
  <2> DEFINE work == {k \in Keys : NeedsCleanup(keys[k], now)}
             copy == [k \in Keys |-> IF k \in work THEN keys[k] ELSE Absent]
  <2>2. [NoCleanup EXCEPT !.phase = 1, !.at = now, !.todo = work, !.snap = copy] \in Cleanup
    <3>1. copy \in [Keys -> KeyRecord]
      BY DataTypes
    <3>2. work \in SUBSET Keys
      OBVIOUS
    <3> HIDE DEF work, copy
    <3>3. now \in Nat
      OBVIOUS
    <3> QED BY <3>1, <3>2, <3>3, CleanListing
  <2>3. cl' \in Cleanup
    BY <1>1, <2>2, Zenon DEF CleanStart
  <2> QED BY <1>1, <2>3 DEF CleanStart
<1>2. CASE CleanListLookups
  <2>1. [cl EXCEPT !.phase = 2, !.wait = "storage", !.todo = lookup] \in Cleanup
    <3>1. lookup \in SUBSET Keys /\ 2 \in 0..3 /\ cl \in Cleanup
      OBVIOUS
    <3> QED BY <3>1, CleanPass
  <2> QED BY <1>2, <2>1 DEF CleanListLookups
<1>3. CASE CleanListHmacs
  <2>1. [cl EXCEPT !.phase = 3, !.todo = hmac] \in Cleanup
    <3>1. hmac \in SUBSET Keys /\ 3 \in 0..3 /\ cl \in Cleanup
      OBVIOUS
    <3> QED BY <3>1, CleanPass
  <2> QED BY <1>3, <2>1 DEF CleanListHmacs
<1>4. CASE CleanCommit
  <2>1. \A k \in Keys : [cl.snap[k] EXCEPT !.status = "revoked"] \in KeyRecord
    BY DEF Cleanup, KeyRecord, Statuses
  <2>2. keys' \in [Keys -> KeyRecord]
    BY <1>4, <2>1 DEF CleanCommit
  <2>3. rotation' \in [Keys -> RotationRecord]
    BY <1>4, DataTypes DEF CleanCommit
  <2> QED BY <1>4, <2>2, <2>3, DataTypes DEF CleanCommit
<1>5. ASSUME NEW k \in Keys, CleanKey(k) PROVE TypeOK'
  BY <1>5 DEF CleanKey, Cleanup
<1>6. ASSUME NEW k \in Keys, CleanLookup(k) PROVE TypeOK'
  BY <1>6 DEF CleanLookup, Cleanup
<1>7. ASSUME NEW k \in Keys, CleanHmac(k) PROVE TypeOK'
  BY <1>7 DEF CleanHmac, Cleanup
<1> QED BY <1>1, <1>2, <1>3, <1>4, <1>5, <1>6, <1>7 DEF Clean

LEMMA CleanErrsType == ASSUME TypeOK, CleanErrs PROVE TypeOK'
<1> USE DEF TypeOK, store, Fault
<1>1. CASE CleanFails
  BY <1>1, DataTypes DEF CleanFails
<1>2. ASSUME NEW k \in Keys, CleanSkip(k) PROVE TypeOK'
  <2>1. cl' \in Cleanup
    BY <1>2 DEF CleanSkip, Cleanup
  <2> QED BY <1>2, <2>1 DEF CleanSkip
<1>3. ASSUME NEW k \in Keys, CleanUndecrypted(k) PROVE TypeOK'
  <2>1. cl' \in Cleanup
    BY <1>3 DEF CleanUndecrypted, Cleanup
  <2> QED BY <1>3, <2>1 DEF CleanUndecrypted
<1> QED BY <1>1, <1>2, <1>3 DEF CleanErrs

LEMMA NextType == ASSUME TypeOK, IdOK, [Next]_vars PROVE TypeOK'
<1>1. CASE UNCHANGED vars
  BY <1>1 DEF vars, TypeOK
<1>2. CASE Restart
  BY <1>2, DataTypes DEF Restart, Fault, TypeOK, store
<1>3. CASE Tick
  BY <1>3 DEF Tick, TypeOK, store
<1> QED BY <1>1, <1>2, <1>3, CreateType, RotateType, RevokeType, ValidateType,
           RequestFailsType, CleanType, CleanErrsType DEF Next

----------------------------------------------------------------------------
(* Store consistency *)

LEMMA InitInd == Init => IndInv
<1> SUFFICES ASSUME Init PROVE IndInv
  OBVIOUS
<1>1. TypeOK
  BY InitType
<1>2. Stored = {}
  BY DEF Init, Stored, Absent
<1>3. StoreInv
  BY <1>2 DEF Init, StoreInv, LinksOf, Absent, NoRotation
<1>4. RequestInv
  BY DEF Init, RequestInv, Carries, LinksOf, Absent, Idle, HoldsCopy
<1>5. CleanInv
  BY DEF Init, CleanInv, LinksOf, Absent, NoCleanup
<1> QED BY <1>1, <1>3, <1>4, <1>5 DEF IndInv

LEMMA IndIdOK == IndInv => IdOK
BY DEF IndInv, RequestInv, Carries, IdOK, At, Stored

LEMMA IdleCarries == Carries(Idle)
BY DEF Carries, Idle, Absent, LinksOf, HoldsCopy

\* An action that only replaces one slot keeps the invariant if what the slot then
\* carries is stored.
LEMMA SlotInd ==
  ASSUME IndInv, TypeOK', NEW p \in Handlers, NEW r, Carries(r),
         req' = [req EXCEPT ![p] = r], UNCHANGED <<store, cl>>
  PROVE  IndInv'
<1>1. Stored' = Stored
  BY DEF Stored, store
<1>2. StoreInv'
  BY <1>1 DEF IndInv, StoreInv, LinksOf, store
<1>3. RequestInv'
  BY <1>1 DEF IndInv, TypeOK, RequestInv, Carries, LinksOf
<1>4. CleanInv'
  BY <1>1 DEF IndInv, CleanInv, LinksOf, store
<1> QED BY <1>2, <1>3, <1>4 DEF IndInv

\* An action that only replaces what the cleanup carries.
LEMMA CleanupInd ==
  ASSUME IndInv, TypeOK', CleanInv', UNCHANGED <<store, req>>
  PROVE  IndInv'
<1>1. Stored' = Stored
  BY DEF Stored, store
<1>2. StoreInv'
  BY <1>1 DEF IndInv, StoreInv, LinksOf, store
<1>3. RequestInv'
  BY <1>1 DEF IndInv, RequestInv, Carries, LinksOf
<1> QED BY <1>2, <1>3 DEF IndInv

\* createKey's transaction keeps the store consistent, and all that is carried stays
\* stored.
LEMMA StoreNewKeyInd ==
  ASSUME IndInv, NEW k \in Keys, NEW e \in Nat, StoreNewKey(k, e), UNCHANGED <<rotation, cl>>
  PROVE  StoreInv' /\ CleanInv' /\ Stored' = Stored \union {k} /\ k \notin Stored
<1> USE DEF IndInv
<1>1. Stored' = Stored \union {k} /\ k \notin Stored
  BY DEF StoreNewKey, NewKey, Absent, Stored, TypeOK
<1>2. \A j \in Keys : LinksOf(keys[j])'
  BY <1>1 DEF StoreNewKey, NewKey, Absent, StoreInv, LinksOf, TypeOK
<1>3. StoreInv'
  BY <1>1, <1>2 DEF StoreNewKey, StoreInv
<1>4. CleanInv'
  BY <1>1 DEF StoreNewKey, CleanInv, LinksOf
<1> QED BY <1>1, <1>3, <1>4

\* A slot's content stays stored when the store grows.
LEMMA CarriesGrow ==
  ASSUME NEW r, Carries(r), Stored \subseteq Stored' PROVE Carries(r)'
BY DEF Carries, LinksOf

\* An action that rewrites stored records and links, and ends its handler.
LEMMA RewriteInd ==
  ASSUME IndInv, TypeOK', NEW p \in Handlers, Return(p),
         \A k \in Keys : keys'[k].status = "absent" <=> keys[k].status = "absent",
         \A k \in Keys : LinksOf(keys[k]) => {keys'[k].to, keys'[k].from} \subseteq Stored \union {None},
         \A k \in Keys : rotation'[k].to \in Stored \union {None},
         UNCHANGED <<index, hmac, lookup, cl>>
  PROVE  IndInv'
<1>1. Stored' = Stored
  BY DEF Stored
<1>2. StoreInv'
  BY <1>1 DEF IndInv, StoreInv, LinksOf
<1>3. RequestInv'
  BY <1>1, IdleCarries, CarriesGrow DEF Return, IndInv, TypeOK, RequestInv
<1>4. CleanInv'
  BY <1>1 DEF IndInv, CleanInv, LinksOf
<1> QED BY <1>2, <1>3, <1>4 DEF IndInv

LEMMA CreateInd == ASSUME IndInv, NEW p \in Handlers, Create(p) PROVE IndInv'
<1>1. PICK k \in Keys, e \in Expiries : StoreNewKey(k, e)
  BY DEF Create
<1>2. e \in Nat
  BY ConstantsAssumption
<1>3. StoreInv' /\ CleanInv' /\ Stored \subseteq Stored'
  BY <1>1, <1>2, StoreNewKeyInd DEF Create
<1>4. RequestInv'
  BY <1>3, CarriesGrow DEF Create, IndInv, RequestInv
<1> QED BY <1>3, <1>4, CreateType DEF IndInv

LEMMA RotateInd == ASSUME IndInv, NEW p \in Handlers, Rotate(p) PROVE IndInv'
<1>0. TypeOK /\ TypeOK' /\ Carries(req[p])
  BY RotateType, IndIdOK DEF IndInv, RequestInv
<1>1. CASE RotateStart(p)
  <2>1. PICK k \in Keys :
          /\ keys[k].status = "active"
          /\ req' = [req EXCEPT ![p] = [Idle EXCEPT !.pc = "rotate_key", !.id = k,
                                                    !.rec = keys[k]]]
    BY <1>1 DEF RotateStart
  <2>2. Carries([Idle EXCEPT !.pc = "rotate_key", !.id = k, !.rec = keys[k]])
    BY <2>1 DEF Carries, Idle, Absent, LinksOf, IndInv, StoreInv, Stored
  <2> QED BY <1>0, <1>1, <2>1, <2>2, SlotInd DEF RotateStart
<1>2. CASE RotateReadRotation(p)
  <2>1. req' = [req EXCEPT ![p] =
                [req[p] EXCEPT !.pc = "rotate_rotation", !.rot = rotation[req[p].id]]]
    BY <1>0, <1>2 DEF RotateReadRotation, TypeOK
  <2>2. Carries([req[p] EXCEPT !.pc = "rotate_rotation", !.rot = rotation[req[p].id]])
    BY <1>0, <1>2 DEF RotateReadRotation, At, Carries, HoldsCopy, TypeOK, Request
  <2> QED BY <1>0, <1>2, <2>1, <2>2, SlotInd DEF RotateReadRotation
<1>3. CASE RotateSeal(p)
  <2>1. PICK r : req' = [req EXCEPT ![p] = r] /\ Carries(r)
    <3>1. CASE Return(p)
      BY <3>1, IdleCarries, Zenon DEF Return
    <3>2. ASSUME NEW g \in Graces,
                 req' = [req EXCEPT ![p].pc = "rotate_seal", ![p].ends = now + g]
          PROVE  \E r : req' = [req EXCEPT ![p] = r] /\ Carries(r)
      <4>1. req' = [req EXCEPT ![p] = [req[p] EXCEPT !.pc = "rotate_seal", !.ends = now + g]]
        BY <1>0, <3>2 DEF TypeOK
      <4>2. Carries([req[p] EXCEPT !.pc = "rotate_seal", !.ends = now + g])
        BY <1>0, <1>3 DEF RotateSeal, At, Carries, HoldsCopy, TypeOK, Request
      <4> QED BY <4>1, <4>2
    <3> QED BY <1>3, <3>1, <3>2 DEF RotateSeal
  <2> QED BY <1>0, <1>3, <2>1, SlotInd DEF RotateSeal
<1>4. CASE RotateStoreNew(p)
  <2>1. PICK k \in Keys, e \in (Expiries \ {0}) \union {req[p].rec.expiresAt} :
          /\ StoreNewKey(k, e)
          /\ req' = [req EXCEPT ![p].pc = "rotate_stored", ![p].succ = k,
                                ![p].new = NewKey(e)]
    BY <1>4 DEF RotateStoreNew
  <2>2. e \in Nat
    BY <1>0, ConstantsAssumption DEF TypeOK, Request, KeyRecord
  <2>3. StoreInv' /\ CleanInv' /\ Stored' = Stored \union {k}
    BY <1>4, <2>1, <2>2, StoreNewKeyInd DEF RotateStoreNew
  <2>4. PICK r : /\ r = [req[p] EXCEPT !.pc = "rotate_stored", !.succ = k, !.new = NewKey(e)]
                 /\ req' = [req EXCEPT ![p] = r]
    BY <1>0, <2>1 DEF TypeOK
  <2>5. Carries(r)'
    <3>1. /\ r.pc = "rotate_stored" /\ r.id = req[p].id /\ r.rec = req[p].rec
          /\ r.succ = k /\ r.new = NewKey(e)
      BY <1>0, <2>4 DEF TypeOK, Request
    <3>2. /\ req[p].id \in Stored /\ req[p].rec.status # "absent" /\ LinksOf(req[p].rec)
      BY <1>0, <1>4 DEF RotateStoreNew, At, Carries, HoldsCopy
    <3>3. NewKey(e).status = "active" /\ NewKey(e).to = None /\ NewKey(e).from = None
      BY DEF NewKey, Absent
    <3> QED BY <2>3, <3>1, <3>2, <3>3 DEF Carries, LinksOf
  <2>6. \A q \in Handlers : Carries(req[q])'
    BY <1>0, <2>3, <2>4, <2>5, CarriesGrow DEF IndInv, RequestInv, TypeOK
  <2> QED BY <1>0, <2>3, <2>6 DEF IndInv, RequestInv
<1>5. CASE RotateCommit(p)
  <2> DEFINE old == [req[p].rec EXCEPT !.status = "rotated", !.to = req[p].succ]
             new == [req[p].new EXCEPT !.from = req[p].id]
  <2>1. /\ req[p].id \in Stored /\ req[p].succ \in Stored
        /\ req[p].rec.status # "absent" /\ req[p].new.status = "active"
        /\ LinksOf(req[p].rec) /\ LinksOf(req[p].new)
    BY <1>0, <1>5 DEF RotateCommit, At, Carries, HoldsCopy
  <2>2. /\ old.status # "absent" /\ {old.to, old.from} \subseteq Stored \union {None}
        /\ new.status # "absent" /\ {new.to, new.from} \subseteq Stored \union {None}
    <3>1. /\ old.status = "rotated" /\ old.to = req[p].succ /\ old.from = req[p].rec.from
          /\ new.status = req[p].new.status /\ new.to = req[p].new.to /\ new.from = req[p].id
      <4>1. req[p].rec \in KeyRecord /\ req[p].new \in KeyRecord
        BY <1>0 DEF TypeOK, Request
      <4> QED BY <4>1 DEF KeyRecord
    <3> HIDE DEF old, new
    <3> QED BY <2>1, <3>1 DEF LinksOf
  <2>3. keys' = [keys EXCEPT ![req[p].id] = old, ![req[p].succ] = new]
    BY <1>5 DEF RotateCommit
  <2>4. \A k \in Keys : keys'[k] = keys[k] \/ (k \in Stored /\ keys'[k] \in {old, new})
    <3> HIDE DEF old, new
    <3>1. DOMAIN keys = Keys
      BY <1>0 DEF TypeOK
    <3>2. ASSUME NEW k \in Keys, k # req[p].id, k # req[p].succ
          PROVE  keys'[k] = keys[k]
      BY <2>3, <3>1, <3>2
    <3>3. ASSUME NEW k \in Keys, k = req[p].id \/ k = req[p].succ
          PROVE  keys'[k] \in {old, new}
      BY <2>3, <3>1, <3>3
    <3> QED BY <2>1, <3>2, <3>3
  <2> HIDE DEF old, new
  <2>5. \A k \in Keys : keys'[k].status = "absent" <=> keys[k].status = "absent"
    BY <2>2, <2>4 DEF Stored
  <2>6. \A k \in Keys : LinksOf(keys[k]) =>
                            {keys'[k].to, keys'[k].from} \subseteq Stored \union {None}
    BY <2>2, <2>4 DEF LinksOf
  <2>7. \A k \in Keys : rotation'[k].to \in Stored \union {None}
    BY <1>0, <1>5, <2>1 DEF RotateCommit, TypeOK, IndInv, StoreInv
  <2> QED BY <1>0, <1>5, <2>5, <2>6, <2>7, RewriteInd DEF RotateCommit
<1> QED BY <1>1, <1>2, <1>3, <1>4, <1>5 DEF Rotate

\* Writing back one stored record, with the links it had.
LEMMA WriteBackInd ==
  ASSUME IndInv, TypeOK', NEW p \in Handlers, Return(p), NEW rec,
         keys' = [keys EXCEPT ![req[p].id] = rec], req[p].id \in Stored,
         rec.status # "absent", LinksOf(rec), UNCHANGED <<rotation, index, hmac, lookup, cl>>
  PROVE  IndInv'
<1>1. \A k \in Keys : keys'[k].status = "absent" <=> keys[k].status = "absent"
  BY DEF Stored, IndInv, TypeOK
<1>2. \A k \in Keys : LinksOf(keys[k]) =>
                          {keys'[k].to, keys'[k].from} \subseteq Stored \union {None}
  BY DEF LinksOf, IndInv, TypeOK
<1>3. \A k \in Keys : rotation'[k].to \in Stored \union {None}
  BY DEF IndInv, StoreInv
<1> QED BY <1>1, <1>2, <1>3, RewriteInd

LEMMA ReturnInd ==
  ASSUME IndInv, TypeOK', NEW p \in Handlers, Return(p), UNCHANGED <<store, cl>>
  PROVE  IndInv'
BY IdleCarries, SlotInd DEF Return

LEMMA RevokeInd == ASSUME IndInv, NEW p \in Handlers, Revoke(p) PROVE IndInv'
<1>0. TypeOK /\ TypeOK' /\ Carries(req[p])
  BY RevokeType, IndIdOK DEF IndInv, RequestInv
<1>1. CASE RevokeStart(p)
  <2>1. PICK k \in Stored : req' = [req EXCEPT ![p] =
                         [Idle EXCEPT !.pc = "revoke_key", !.id = k, !.rec = keys[k]]]
    BY <1>1 DEF RevokeStart
  <2>2. Carries([Idle EXCEPT !.pc = "revoke_key", !.id = k, !.rec = keys[k]])
    BY <2>1 DEF Carries, Idle, Absent, LinksOf, IndInv, StoreInv, Stored
  <2> QED BY <1>0, <1>1, <2>1, <2>2, SlotInd DEF RevokeStart
<1>2. CASE RevokeWrite(p)
  <2>1. CASE req[p].rec.status = "revoked"
    BY <1>0, <1>2, <2>1, ReturnInd DEF RevokeWrite, store
  <2>2. CASE req[p].rec.status # "revoked"
    <3>1. PICK rec : /\ rec = [req[p].rec EXCEPT !.status = "revoked"]
                     /\ keys' = [keys EXCEPT ![req[p].id] = rec]
      BY <1>2, <2>2 DEF RevokeWrite
    <3>2. req[p].id \in Stored /\ rec.status # "absent" /\ LinksOf(rec)
      BY <1>0, <1>2, <3>1 DEF RevokeWrite, Carries, LinksOf, TypeOK, Request, KeyRecord
    <3> QED BY <1>0, <1>2, <3>1, <3>2, WriteBackInd DEF RevokeWrite
  <2> QED BY <2>1, <2>2
<1>3. CASE RevokeFails(p)
  <2>1. CASE Return(p)
    BY <1>0, <1>3, <2>1, ReturnInd DEF RevokeFails
  <2>2. CASE req' = [req EXCEPT ![p] = [Idle EXCEPT
               !.pc = "revoke_pause", !.id = req[p].id, !.attempt = req[p].attempt + 1]]
    <3>1. Carries([Idle EXCEPT !.pc = "revoke_pause", !.id = req[p].id,
                               !.attempt = req[p].attempt + 1])
      BY <1>0, <1>3 DEF RevokeFails, Carries, Idle, Absent, LinksOf, HoldsCopy
    <3> QED BY <1>0, <1>3, <2>2, <3>1, SlotInd DEF RevokeFails
  <2> QED BY <1>3, <2>1, <2>2 DEF RevokeFails
<1>4. CASE RevokeRetry(p)
  <2>1. req' = [req EXCEPT ![p] = [req[p] EXCEPT !.pc = "revoke_again", !.rec = keys[req[p].id]]]
    BY <1>0, <1>4 DEF RevokeRetry, TypeOK
  <2>2. Carries([req[p] EXCEPT !.pc = "revoke_again", !.rec = keys[req[p].id]])
    BY <1>0, <1>4 DEF RevokeRetry, At, Carries, Stored, IndInv, StoreInv, TypeOK, Request
  <2> QED BY <1>0, <1>4, <2>1, <2>2, SlotInd DEF RevokeRetry
<1> QED BY <1>1, <1>2, <1>3, <1>4 DEF Revoke

LEMMA ValidateInd == ASSUME IndInv, NEW p \in Handlers, Validate(p) PROVE IndInv'
<1>0. TypeOK /\ TypeOK' /\ Carries(req[p])
  BY ValidateType, IndIdOK DEF IndInv, RequestInv
<1>1. CASE ValidateStart(p)
  <2>1. PICK k \in lookup : req' = [req EXCEPT ![p] =
                                    [Idle EXCEPT !.pc = "validate_lookup", !.id = k]]
    BY <1>1 DEF ValidateStart
  <2>2. Carries([Idle EXCEPT !.pc = "validate_lookup", !.id = k])
    BY <2>1 DEF Carries, Idle, Absent, LinksOf, IndInv, StoreInv, HoldsCopy
  <2> QED BY <1>0, <1>1, <2>1, <2>2, SlotInd DEF ValidateStart
<1>2. CASE ValidateSignature(p)
  <2>1. PICK l \in {"validate_hmac", "validate_unsigned"} :
          req' = [req EXCEPT ![p] = [req[p] EXCEPT !.pc = l]]
    BY <1>0, <1>2 DEF ValidateSignature, Goto, TypeOK
  <2>2. Carries([req[p] EXCEPT !.pc = l])
    BY <1>0, <1>2 DEF ValidateSignature, At, Carries, HoldsCopy, TypeOK, Request
  <2> QED BY <1>0, <1>2, <2>1, <2>2, SlotInd DEF ValidateSignature
<1>3. CASE ValidateLoad(p)
  <2>1. req' = [req EXCEPT ![p] = [req[p] EXCEPT !.pc = "validate_key", !.rec = keys[req[p].id]]]
    BY <1>0, <1>3 DEF ValidateLoad, TypeOK
  <2>2. Carries([req[p] EXCEPT !.pc = "validate_key", !.rec = keys[req[p].id]])
    BY <1>0, <1>3 DEF ValidateLoad, Carries, Stored, IndInv, StoreInv, TypeOK, Request
  <2> QED BY <1>0, <1>3, <2>1, <2>2, SlotInd DEF ValidateLoad
<1>4. CASE ValidateReadRotation(p)
  <2>1. req' = [req EXCEPT ![p] = [req[p] EXCEPT !.pc = "validate_rotation",
                                                 !.rot = rotation[req[p].id]]]
    BY <1>0, <1>4 DEF ValidateReadRotation, TypeOK
  <2>2. Carries([req[p] EXCEPT !.pc = "validate_rotation", !.rot = rotation[req[p].id]])
    BY <1>0, <1>4 DEF ValidateReadRotation, At, Carries, HoldsCopy, TypeOK, Request
  <2> QED BY <1>0, <1>4, <2>1, <2>2, SlotInd DEF ValidateReadRotation
<1>5. CASE ValidateReject(p)
  <2>1. req[p].rec.status # "absent"
    BY <1>0, <1>5 DEF ValidateReject, Carries, HoldsCopy
  <2> QED BY <1>0, <1>5, <2>1, ReturnInd DEF ValidateReject, store
<1>6. ASSUME PastStatusChecks(p)
      PROVE  req[p].id \in Stored /\ req[p].rec.status # "absent" /\ LinksOf(req[p].rec)
  BY <1>0, <1>6 DEF PastStatusChecks, At, Carries, HoldsCopy
<1>7. CASE ValidateExpire(p)
  <2>1. PICK rec : /\ rec = [req[p].rec EXCEPT !.status = "revoked"]
                   /\ keys' = [keys EXCEPT ![req[p].id] = rec]
    BY <1>7 DEF ValidateExpire
  <2>2. rec.status # "absent" /\ LinksOf(rec)
    BY <1>0, <1>6, <1>7, <2>1 DEF ValidateExpire, LinksOf, TypeOK, Request, KeyRecord
  <2> QED BY <1>0, <1>6, <1>7, <2>1, <2>2, WriteBackInd DEF ValidateExpire
<1>8. CASE ValidateAccept(p)
  <2>1. CASE keys' = keys
    BY <1>0, <1>8, <2>1, ReturnInd DEF ValidateAccept, store
  <2>2. CASE keys' = [keys EXCEPT ![req[p].id] = req[p].rec]
    BY <1>0, <1>6, <1>8, <2>2, WriteBackInd DEF ValidateAccept
  <2> QED BY <1>8, <2>1, <2>2 DEF ValidateAccept
<1> QED BY <1>1, <1>2, <1>3, <1>4, <1>5, <1>7, <1>8 DEF Validate

LEMMA RequestFailsInd ==
  ASSUME IndInv, NEW p \in Handlers, RequestFails(p) PROVE IndInv'
BY RequestFailsType, ReturnInd DEF RequestFails, IndInv

LEMMA CleanInd == ASSUME IndInv, Clean PROVE IndInv'
<1>0. TypeOK /\ TypeOK' /\ StoreInv /\ CleanInv
  BY CleanType DEF IndInv
<1>1. CASE CleanStart
  <2>1. CleanInv'
    BY <1>0, <1>1 DEF CleanStart, CleanInv, NoCleanup, NeedsCleanup, Stored, LinksOf, Absent,
                      StoreInv, store
  <2> QED BY <1>0, <1>1, <2>1, CleanupInd DEF CleanStart
<1>2. CASE CleanListLookups
  <2>1. CleanInv'
    BY <1>0, <1>2 DEF CleanListLookups, CleanInv, Stored, LinksOf, StoreInv, TypeOK, Cleanup,
                      store
  <2> QED BY <1>0, <1>2, <2>1, CleanupInd DEF CleanListLookups
<1>3. CASE CleanListHmacs
  <2>1. CleanInv'
    BY <1>0, <1>3 DEF CleanListHmacs, CleanInv, Stored, LinksOf, StoreInv, TypeOK, Cleanup,
                      store
  <2> QED BY <1>0, <1>3, <2>1, CleanupInd DEF CleanListHmacs
<1>4. ASSUME NEW k \in Keys, CleanKey(k) PROVE IndInv'
  <2>1. /\ cl' \in Cleanup /\ cl \in Cleanup
        /\ Stored' = Stored /\ UNCHANGED lookup
    BY <1>0, <1>4 DEF CleanKey, TypeOK, Stored, store
  <2>2. PICK gone \in SUBSET {k} :
          /\ cl'.todo = cl.todo \ {k} /\ cl'.phase = cl.phase /\ cl'.snap = cl.snap
          /\ cl'.expired \subseteq cl.expired \union {k}
          /\ cl'.unlookup = cl.unlookup \union gone
          /\ cl'.unhmac = cl.unhmac \union gone
    <3> DEFINE expires == cl.snap[k].status = "active"
               over == ~expires /\ rotation[k].to # None /\ rotation[k].ends < cl.at
               gone == IF expires \/ over THEN {k} ELSE {}
    <3>1. cl' = [cl EXCEPT !.todo = @ \ {k},
                           !.wait = IF expires \/ over THEN "crypto" ELSE "storage",
                           !.expired = IF expires THEN @ \union {k} ELSE @,
                           !.unrotate = IF over THEN @ \union {k} ELSE @,
                           !.unlookup = @ \union gone,
                           !.unhmac = @ \union gone]
      BY <1>4 DEF CleanKey
    <3>2. gone \in SUBSET {k}
      OBVIOUS
    <3> HIDE DEF over, gone
    <3>3. /\ cl'.todo = cl.todo \ {k} /\ cl'.phase = cl.phase /\ cl'.snap = cl.snap
          /\ cl'.expired = IF expires THEN cl.expired \union {k} ELSE cl.expired
      BY <2>1, <3>1 DEF Cleanup
    <3>4. cl'.unlookup = cl.unlookup \union gone /\ cl'.unhmac = cl.unhmac \union gone
      BY <2>1, <3>1 DEF Cleanup
    <3>5. cl'.expired \subseteq cl.expired \union {k}
      BY <3>3
    <3> QED BY <3>2, <3>3, <3>4, <3>5
  <2>3. k \in Stored /\ cl.snap[k].status # "absent"
    BY <1>0, <1>4 DEF CleanKey, CleanInv
  <2>4. CleanInv'
    BY <1>0, <2>1, <2>2, <2>3 DEF CleanInv, LinksOf
  <2> QED BY <1>0, <1>4, <2>4, CleanupInd DEF CleanKey
<1>5. ASSUME NEW k \in Keys, CleanLookup(k) PROVE IndInv'
  <2>1. CleanInv'
    BY <1>0, <1>5 DEF CleanLookup, CleanInv, Stored, LinksOf, TypeOK, Cleanup, store
  <2> QED BY <1>0, <1>5, <2>1, CleanupInd DEF CleanLookup
<1>6. ASSUME NEW k \in Keys, CleanHmac(k) PROVE IndInv'
  <2>1. CleanInv'
    BY <1>0, <1>6 DEF CleanHmac, CleanInv, Stored, LinksOf, TypeOK, Cleanup, store
  <2> QED BY <1>0, <1>6, <2>1, CleanupInd DEF CleanHmac
<1>7. CASE CleanCommit
  <2>1. \A k \in Keys : keys'[k] = IF k \in cl.expired
                                     THEN [cl.snap[k] EXCEPT !.status = "revoked"]
                                     ELSE keys[k]
    BY <1>0, <1>7 DEF CleanCommit
  <2>2. \A k \in cl.expired : /\ [cl.snap[k] EXCEPT !.status = "revoked"].status # "absent"
                               /\ LinksOf([cl.snap[k] EXCEPT !.status = "revoked"])
    BY <1>0 DEF CleanInv, LinksOf, TypeOK, Cleanup, KeyRecord
  <2>3. Stored' = Stored
    BY <1>0, <2>1, <2>2 DEF Stored, CleanInv
  <2>4. StoreInv'
    BY <1>0, <1>7, <2>1, <2>2, <2>3 DEF CleanCommit, StoreInv, CleanInv, LinksOf, NoRotation
  <2>5. RequestInv'
    BY <1>7, <2>3, CarriesGrow DEF CleanCommit, IndInv, RequestInv
  <2>6. CleanInv'
    BY <1>7 DEF CleanCommit, CleanInv, NoCleanup, LinksOf, Absent
  <2> QED BY <1>0, <2>4, <2>5, <2>6 DEF IndInv
<1> QED BY <1>1, <1>2, <1>3, <1>4, <1>5, <1>6, <1>7 DEF Clean

LEMMA CleanErrsInd == ASSUME IndInv, CleanErrs PROVE IndInv'
<1>0. TypeOK /\ TypeOK' /\ CleanInv
  BY CleanErrsType DEF IndInv
<1>1. CASE CleanFails
  <2>1. CleanInv'
    BY <1>1 DEF CleanFails, CleanInv, NoCleanup, LinksOf, Absent
  <2> QED BY <1>0, <1>1, <2>1, CleanupInd DEF CleanFails
<1>2. ASSUME NEW k \in Keys, CleanSkip(k) PROVE IndInv'
  <2>1. CleanInv'
    BY <1>0, <1>2 DEF CleanSkip, CleanInv, Stored, LinksOf, TypeOK, Cleanup, store
  <2> QED BY <1>0, <1>2, <2>1, CleanupInd DEF CleanSkip
<1>3. ASSUME NEW k \in Keys, CleanUndecrypted(k) PROVE IndInv'
  <2>1. /\ cl'.todo = cl.todo \ {k} /\ cl'.phase = cl.phase /\ cl'.snap = cl.snap
        /\ cl'.expired \subseteq cl.expired \union {k}
        /\ cl'.unlookup = cl.unlookup /\ cl'.unhmac = cl.unhmac
    BY <1>0, <1>3 DEF CleanUndecrypted, TypeOK, Cleanup
  <2>2. k \in Stored /\ cl.snap[k].status # "absent"
    BY <1>0, <1>3 DEF CleanUndecrypted, CleanInv
  <2>3. Stored' = Stored /\ UNCHANGED lookup
    BY <1>3 DEF CleanUndecrypted, Stored, store
  <2>4. CleanInv'
    BY <1>0, <2>1, <2>2, <2>3 DEF CleanInv, LinksOf
  <2> QED BY <1>0, <1>3, <2>4, CleanupInd DEF CleanUndecrypted
<1> QED BY <1>1, <1>2, <1>3 DEF CleanErrs

LEMMA NextInd == ASSUME IndInv, [Next]_vars PROVE IndInv'
<1>0. TypeOK'
  BY NextType, IndIdOK DEF IndInv
<1>1. CASE UNCHANGED vars
  BY <1>1 DEF vars, IndInv, TypeOK, StoreInv, RequestInv, CleanInv, Carries, LinksOf, Stored
<1>2. CASE Restart
  <2>1. Stored' = Stored
    BY <1>2 DEF Restart, Stored, store
  <2>2. StoreInv'
    BY <1>2, <2>1 DEF Restart, IndInv, StoreInv, LinksOf, store
  <2>3. RequestInv'
    BY <1>2, IdleCarries, <2>1, CarriesGrow DEF Restart, RequestInv
  <2>4. CleanInv'
    BY <1>2 DEF Restart, CleanInv, NoCleanup, LinksOf, Absent
  <2> QED BY <1>0, <2>2, <2>3, <2>4 DEF IndInv
<1>3. CASE Tick
  BY <1>0, <1>3 DEF Tick, IndInv, StoreInv, RequestInv, CleanInv, Carries, LinksOf, Stored,
                    store
<1> QED BY <1>1, <1>2, <1>3, CreateInd, RotateInd, RevokeInd, ValidateInd,
           RequestFailsInd, CleanInd, CleanErrsInd DEF Next

\* In every behaviour of the handlers, with or without input gates, every variable has
\* its type and the inductive invariant holds.
THEOREM Inductive == Spec => []IndInv
<1>1. Init => IndInv
  BY InitInd
<1>2. IndInv /\ [Next]_vars => IndInv'
  BY NextInd
<1> QED BY <1>1, <1>2, PTL DEF Spec

\* Every variable of ApiKeyManager's model keeps its type.
THEOREM TypeCorrect == Spec => []TypeOK
<1>1. IndInv => TypeOK
  BY DEF IndInv
<1> QED BY <1>1, Inductive, PTL

\* createKey and cleanupExpiredKeys keep the listing index exact and every lookup entry
\* backed by a record.
THEOREM IndexIsExact == Spec => []IndexExact
<1>1. IndInv => IndexExact
  BY DEF IndInv, StoreInv, IndexExact
<1> QED BY <1>1, Inductive, PTL

\* No interleaving of cleanupExpiredKeys with other requests leaves a lookup entry
\* whose signature is gone, so validateKey's check of it is never skipped for good.
THEOREM SignatureIsKept == Spec => []SignatureKept
<1>1. IndInv => SignatureKept
  BY DEF IndInv, StoreInv, SignatureKept
<1> QED BY <1>1, Inductive, PTL

\* Every link rotateKey writes leads to a stored key, whatever fails in between and
\* however stale the copy is that another request writes back.
THEOREM LinksAlwaysResolve == Spec => []LinksResolve
<1>1. IndInv => LinksResolve
  BY DEF IndInv, StoreInv, LinksOf, LinksResolve
<1> QED BY <1>1, Inductive, PTL

----------------------------------------------------------------------------
(* With input gates: what it buys the handlers that no other event is      *)
(* delivered while a storage operation is outstanding                      *)

(* What a step may do to the status of a key *)

StatusSteps ==
  \A k \in Keys :
    \/ keys'[k].status = keys[k].status
    \/ keys[k].status = "absent" /\ keys'[k].status = "active"
    \/ keys'[k].status = "revoked"
    \/ keys'[k].status = "rotated" /\ \E p \in Handlers : At(p, "rotate_stored") /\ req[p].id = k

LEMMA QuietSteps == ASSUME UNCHANGED keys PROVE StatusSteps
BY DEF StatusSteps

LEMMA RetiredStays ==
  ASSUME StatusSteps, NEW k \in Keys, Retired(k) PROVE Retired(k)'
BY DEF StatusSteps, Retired

LEMMA CreateSteps ==
  ASSUME TypeOK, NEW k \in Keys, NEW e, StoreNewKey(k, e) PROVE StatusSteps
<1>1. NewKey(e).status = "active"
  BY DEF NewKey, Absent
<1> QED BY <1>1 DEF StoreNewKey, StatusSteps, TypeOK

----------------------------------------------------------------------------
(* The invariant *)

LEMMA InitGated == Init => GatedInv
<1> SUFFICES ASSUME Init PROVE GatedInv
  OBVIOUS
<1> USE DEF Init
<1>1. \A p \in Handlers : req[p].pc = "idle"
  BY DEF Idle
<1>2. Alone
  BY <1>1 DEF Alone, StorageWaits
<1>3. RequestsFresh
  BY <1>1 DEF RequestsFresh, Fresh, HoldsCopy
<1>4. ClearsRetired
  BY DEF ClearsRetired, NoCleanup
<1>5. ActiveKeyFindable
  BY DEF ActiveKeyFindable, Absent
<1>6. RotationRetiresOldKey
  BY DEF RotationRetiresOldKey, NoRotation
<1> QED BY <1>2, <1>3, <1>4, <1>5, <1>6 DEF GatedInv

\* A handler that runs is the only one waiting for storage afterwards.
LEMMA RequestStep ==
  ASSUME InputGates = TRUE, TypeOK, GatedInv, NEW p \in Handlers, MayRun(p), NEW r,
         req' = [req EXCEPT ![p] = r], UNCHANGED cl, Fresh(r, keys', rotation'),
         StatusSteps, ActiveKeyFindable', RotationRetiresOldKey'
  PROVE  GatedInv'
<1>1. /\ \A q \in Handlers \ {p} : req[q].pc \notin StorageWaits /\ req'[q] = req[q]
      /\ req'[p] = r
      /\ cl.phase = 0 \/ cl.wait = "crypto"
  BY DEF MayRun, TypeOK
<1>2. Alone'
  BY <1>1 DEF Alone
<1>3. RequestsFresh'
  <2> SUFFICES ASSUME NEW q \in Handlers PROVE Fresh(req'[q], keys', rotation')
    BY DEF RequestsFresh
  <2>1. CASE q = p
    BY <1>1, <2>1
  <2>2. CASE q # p
    <3>1. req'[q] = req[q] /\ req[q].pc \notin StorageWaits
      BY <1>1, <2>2
    <3> QED BY <3>1 DEF Fresh, HoldsCopy, StorageWaits
  <2> QED BY <2>1, <2>2
<1>4. ClearsRetired'
  <2>1. ClearsRetired
    BY DEF GatedInv
  <2>2. cl' = cl /\ cl \in Cleanup
    BY DEF TypeOK
  <2>3. \A k \in cl.unlookup : k \in Keys
    BY <2>2 DEF Cleanup
  <2>4. \A k \in cl.todo : k \in Keys
    BY <2>2 DEF Cleanup
  <2> QED BY <2>1, <2>2, <2>3, <2>4, RetiredStays DEF ClearsRetired
<1> QED BY <1>2, <1>3, <1>4 DEF GatedInv

\* The same when the handler changes nothing in the store.
LEMMA QuietRequestStep ==
  ASSUME InputGates = TRUE, TypeOK, GatedInv, NEW p \in Handlers, MayRun(p), NEW r,
         req' = [req EXCEPT ![p] = r], UNCHANGED <<store, cl>>, Fresh(r, keys, rotation)
  PROVE  GatedInv' /\ StatusSteps
<1>1. StatusSteps
  BY QuietSteps DEF store
<1>2. ActiveKeyFindable' /\ RotationRetiresOldKey'
  BY DEF GatedInv, ActiveKeyFindable, RotationRetiresOldKey, store
<1>3. Fresh(r, keys', rotation')
  BY DEF store
<1> QED BY <1>1, <1>2, <1>3, RequestStep DEF store

LEMMA IdleFresh == ASSUME NEW ks, NEW rs PROVE Fresh(Idle, ks, rs)
BY DEF Fresh, Idle, HoldsCopy

\* A step of the cleanup starts with no handler waiting for storage.
LEMMA CleanStep ==
  ASSUME InputGates = TRUE, TypeOK, GatedInv, MayClean, UNCHANGED req,
         ClearsRetired', ActiveKeyFindable', RotationRetiresOldKey'
  PROVE  GatedInv'
<1>1. \A q \in Handlers : req'[q].pc \notin StorageWaits
  BY DEF MayClean
<1>2. Alone'
  BY <1>1 DEF Alone
<1>3. RequestsFresh'
  BY <1>1 DEF RequestsFresh, Fresh, HoldsCopy, StorageWaits
<1> QED BY <1>2, <1>3 DEF GatedInv

----------------------------------------------------------------------------
(* The handlers *)

\* createKey's transaction makes no retired key active and no active key lost.
LEMMA StoreNewKeyGated ==
  ASSUME TypeOK, GatedInv, NEW k \in Keys, NEW e, StoreNewKey(k, e), UNCHANGED rotation
  PROVE  StatusSteps /\ ActiveKeyFindable' /\ RotationRetiresOldKey'
<1>1. NewKey(e).status = "active"
  BY DEF NewKey, Absent
<1>2. ActiveKeyFindable'
  BY DEF StoreNewKey, TypeOK, GatedInv, ActiveKeyFindable
<1>3. RotationRetiresOldKey'
  BY DEF StoreNewKey, TypeOK, GatedInv, RotationRetiresOldKey
<1> QED BY <1>2, <1>3, CreateSteps

LEMMA CreateGated ==
  ASSUME InputGates = TRUE, IndInv, GatedInv, NEW p \in Handlers, Create(p)
  PROVE  GatedInv' /\ StatusSteps
<1>0. TypeOK
  BY DEF IndInv
<1>1. PICK k \in Keys, e \in Expiries : StoreNewKey(k, e)
  BY DEF Create
<1>2. StatusSteps /\ ActiveKeyFindable' /\ RotationRetiresOldKey'
  BY <1>0, <1>1, StoreNewKeyGated DEF Create
<1>3. PICK r : r = req[p] /\ req' = [req EXCEPT ![p] = r] /\ r.pc = "idle"
  BY <1>0 DEF Create, At, TypeOK
<1>4. Fresh(r, keys', rotation')
  BY <1>3 DEF Fresh, HoldsCopy
<1> QED BY <1>0, <1>2, <1>3, <1>4, RequestStep DEF Create

LEMMA RotateGated ==
  ASSUME InputGates = TRUE, IndInv, GatedInv, NEW p \in Handlers, Rotate(p)
  PROVE  GatedInv' /\ StatusSteps
<1>0. TypeOK /\ Carries(req[p]) /\ Fresh(req[p], keys, rotation) /\ req[p] \in Request
  BY DEF IndInv, RequestInv, GatedInv, RequestsFresh, TypeOK
<1>1. CASE RotateStart(p)
  <2>1. PICK k, r :
          /\ k \in Keys
          /\ r = [Idle EXCEPT !.pc = "rotate_key", !.id = k, !.rec = keys[k]]
          /\ req' = [req EXCEPT ![p] = r]
    BY <1>1 DEF RotateStart
  <2>2. Fresh(r, keys, rotation)
    BY <2>1 DEF Fresh, Idle
  <2> QED BY <1>0, <1>1, <2>1, <2>2, QuietRequestStep DEF RotateStart
<1>2. CASE RotateReadRotation(p)
  <2>1. PICK r : /\ r = [req[p] EXCEPT !.pc = "rotate_rotation", !.rot = rotation[req[p].id]]
                 /\ req' = [req EXCEPT ![p] = r]
    BY <1>0, <1>2 DEF RotateReadRotation, TypeOK
  <2>2. Fresh(r, keys, rotation)
    BY <1>0, <1>2, <2>1 DEF RotateReadRotation, At, Fresh, HoldsCopy, Request
  <2> QED BY <1>0, <1>2, <2>1, <2>2, QuietRequestStep DEF RotateReadRotation
<1>3. CASE RotateSeal(p)
  <2>1. PICK r : req' = [req EXCEPT ![p] = r] /\ Fresh(r, keys, rotation)
    <3>1. CASE Return(p)
      BY <3>1, IdleFresh, Zenon DEF Return
    <3>2. ASSUME NEW g \in Graces,
                 req' = [req EXCEPT ![p].pc = "rotate_seal", ![p].ends = now + g]
          PROVE  \E r : req' = [req EXCEPT ![p] = r] /\ Fresh(r, keys, rotation)
      <4>1. req' = [req EXCEPT ![p] = [req[p] EXCEPT !.pc = "rotate_seal", !.ends = now + g]]
        BY <1>0, <3>2 DEF TypeOK
      <4>2. Fresh([req[p] EXCEPT !.pc = "rotate_seal", !.ends = now + g], keys, rotation)
        BY <1>0 DEF Fresh, HoldsCopy, Request
      <4> QED BY <4>1, <4>2
    <3> QED BY <1>3, <3>1, <3>2 DEF RotateSeal
  <2> QED BY <1>0, <1>3, <2>1, QuietRequestStep DEF RotateSeal
<1>4. CASE RotateStoreNew(p)
  <2>1. PICK k \in Keys, e \in (Expiries \ {0}) \union {req[p].rec.expiresAt} :
          /\ StoreNewKey(k, e)
          /\ req' = [req EXCEPT ![p].pc = "rotate_stored", ![p].succ = k,
                                ![p].new = NewKey(e)]
    BY <1>4 DEF RotateStoreNew
  <2>2. StatusSteps /\ ActiveKeyFindable' /\ RotationRetiresOldKey'
    BY <1>0, <1>4, <2>1, StoreNewKeyGated DEF RotateStoreNew
  <2>3. PICK r : /\ r = [req[p] EXCEPT !.pc = "rotate_stored", !.succ = k, !.new = NewKey(e)]
                 /\ req' = [req EXCEPT ![p] = r]
    BY <1>0, <2>1 DEF TypeOK
  <2>4. Fresh(r, keys', rotation')
    <3>1. r.pc = "rotate_stored" /\ r.id = req[p].id /\ r.succ = k /\ r.new = NewKey(e)
      BY <1>0, <2>3 DEF Request
    <3>2. keys'[k] = NewKey(e) /\ k \notin Stored
      BY <1>0, <2>1 DEF StoreNewKey, Stored, TypeOK
    <3>3. req[p].id \in Stored
      BY <1>0, <1>4 DEF RotateStoreNew, At, Carries
    <3> QED BY <3>1, <3>2, <3>3 DEF Fresh, HoldsCopy
  <2> QED BY <1>0, <1>4, <2>2, <2>3, <2>4, RequestStep DEF RotateStoreNew
<1>5. CASE RotateCommit(p)
  <2> DEFINE id == req[p].id
             succ == req[p].succ
             old == [req[p].rec EXCEPT !.status = "rotated", !.to = succ]
             new == [req[p].new EXCEPT !.from = id]
  <2>1. /\ id \in Keys /\ succ \in Keys /\ id # succ
        /\ keys[succ].status = "active" /\ At(p, "rotate_stored")
    BY <1>0, <1>5 DEF RotateCommit, At, Carries, Fresh, Stored, HoldsCopy
  <2>2. old.status = "rotated" /\ new.status = "active"
    BY <1>0, <1>5 DEF RotateCommit, At, Carries, Request, KeyRecord
  <2>3. keys' = [keys EXCEPT ![id] = old, ![succ] = new]
    BY <1>5 DEF RotateCommit
  <2>4. rotation' = [rotation EXCEPT ![id] = [to |-> succ, ends |-> req[p].ends]]
    BY <1>5 DEF RotateCommit
  <2>5. /\ keys'[id].status = "rotated" /\ keys'[succ].status = "active"
        /\ \A k \in Keys \ {id, succ} : keys'[k] = keys[k]
        /\ \A k \in Keys \ {id} : rotation'[k] = rotation[k]
    <3>1. DOMAIN keys = Keys /\ DOMAIN rotation = Keys
      BY <1>0 DEF TypeOK
    <3> HIDE DEF id, succ, old, new
    <3>2. keys'[id] = old /\ keys'[succ] = new /\ \A k \in Keys \ {id, succ} : keys'[k] = keys[k]
      BY <2>1, <2>3, <3>1
    <3>3. \A k \in Keys \ {id} : rotation'[k] = rotation[k]
      BY <2>4, <3>1
    <3> QED BY <2>2, <3>2, <3>3
  <2>6. StatusSteps
    BY <2>1, <2>5 DEF StatusSteps
  <2> HIDE DEF old, new
  <2>7. ActiveKeyFindable'
    BY <1>5, <2>1, <2>5 DEF RotateCommit, GatedInv, ActiveKeyFindable
  <2>8. RotationRetiresOldKey'
    BY <2>1, <2>5 DEF GatedInv, RotationRetiresOldKey
  <2>9. req' = [req EXCEPT ![p] = Idle]
    BY <1>5 DEF RotateCommit, Return
  <2> QED BY <1>0, <1>5, <2>6, <2>7, <2>8, <2>9, IdleFresh, RequestStep DEF RotateCommit
<1> QED BY <1>1, <1>2, <1>3, <1>4, <1>5 DEF Rotate

\* A handler that ends by marking its key revoked.
LEMMA MarkRevokedGated ==
  ASSUME InputGates = TRUE, IndInv, GatedInv, NEW p \in Handlers, MayRun(p), Return(p),
         keys' = [keys EXCEPT ![req[p].id] = [req[p].rec EXCEPT !.status = "revoked"]],
         UNCHANGED <<rotation, lookup, cl>>
  PROVE  GatedInv' /\ StatusSteps
<1>0. TypeOK
  BY DEF IndInv
<1>1. [req[p].rec EXCEPT !.status = "revoked"].status = "revoked"
  BY <1>0 DEF TypeOK, Request, KeyRecord
<1>2. \A k \in Keys : keys'[k] = keys[k] \/ keys'[k].status = "revoked"
  BY <1>0, <1>1 DEF TypeOK
<1>3. StatusSteps
  BY <1>2 DEF StatusSteps
<1>4. ActiveKeyFindable' /\ RotationRetiresOldKey'
  BY <1>2 DEF GatedInv, ActiveKeyFindable, RotationRetiresOldKey
<1> QED BY <1>0, <1>3, <1>4, IdleFresh, RequestStep DEF Return

\* A handler that ends and leaves the store as it is.
LEMMA ReturnGated ==
  ASSUME InputGates = TRUE, IndInv, GatedInv, NEW p \in Handlers, MayRun(p), Return(p),
         UNCHANGED <<store, cl>>
  PROVE  GatedInv' /\ StatusSteps
BY IdleFresh, QuietRequestStep DEF Return, IndInv

LEMMA RevokeGated ==
  ASSUME InputGates = TRUE, IndInv, GatedInv, NEW p \in Handlers, Revoke(p)
  PROVE  GatedInv' /\ StatusSteps
<1>0. TypeOK /\ req[p] \in Request
  BY DEF IndInv, TypeOK
<1>1. CASE RevokeStart(p)
  <2>1. PICK k, r :
          /\ k \in Keys
          /\ r = [Idle EXCEPT !.pc = "revoke_key", !.id = k, !.rec = keys[k]]
          /\ req' = [req EXCEPT ![p] = r]
    BY <1>1 DEF RevokeStart, Stored
  <2>2. Fresh(r, keys, rotation)
    BY <2>1 DEF Fresh, Idle
  <2> QED BY <1>0, <1>1, <2>1, <2>2, QuietRequestStep DEF RevokeStart
<1>2. CASE RevokeWrite(p)
  BY <1>2, MarkRevokedGated, ReturnGated DEF RevokeWrite, store
<1>3. CASE RevokeFails(p)
  <2>1. CASE Return(p)
    BY <1>3, <2>1, ReturnGated DEF RevokeFails
  <2>2. CASE req' = [req EXCEPT ![p] = [Idle EXCEPT
               !.pc = "revoke_pause", !.id = req[p].id, !.attempt = req[p].attempt + 1]]
    <3>1. PICK r : /\ r.pc = "revoke_pause"
                   /\ req' = [req EXCEPT ![p] = r]
      BY <2>2 DEF Idle
    <3>2. Fresh(r, keys, rotation)
      BY <3>1 DEF Fresh, HoldsCopy
    <3> QED BY <1>0, <1>3, <3>1, <3>2, QuietRequestStep DEF RevokeFails
  <2> QED BY <1>3, <2>1, <2>2 DEF RevokeFails
<1>4. CASE RevokeRetry(p)
  <2>1. PICK r : /\ r = [req[p] EXCEPT !.pc = "revoke_again", !.rec = keys[req[p].id]]
                 /\ req' = [req EXCEPT ![p] = r]
    BY <1>0, <1>4 DEF RevokeRetry, TypeOK
  <2>2. Fresh(r, keys, rotation)
    BY <1>0, <2>1 DEF Fresh, Request
  <2> QED BY <1>0, <1>4, <2>1, <2>2, QuietRequestStep DEF RevokeRetry
<1> QED BY <1>1, <1>2, <1>3, <1>4 DEF Revoke

LEMMA ValidateGated ==
  ASSUME InputGates = TRUE, IndInv, GatedInv, NEW p \in Handlers, Validate(p)
  PROVE  GatedInv' /\ StatusSteps
<1>0. TypeOK /\ Carries(req[p]) /\ Fresh(req[p], keys, rotation) /\ req[p] \in Request
  BY DEF IndInv, RequestInv, GatedInv, RequestsFresh, TypeOK
<1>1. CASE ValidateStart(p)
  <2>1. PICK k, r : /\ k \in lookup
                    /\ r = [Idle EXCEPT !.pc = "validate_lookup", !.id = k]
                    /\ req' = [req EXCEPT ![p] = r]
    BY <1>1 DEF ValidateStart
  <2>2. Fresh(r, keys, rotation)
    BY <2>1 DEF Fresh, Idle, HoldsCopy
  <2> QED BY <1>0, <1>1, <2>1, <2>2, QuietRequestStep DEF ValidateStart
<1>2. CASE ValidateSignature(p)
  <2>0. PICK l \in {"validate_hmac", "validate_unsigned"} : req' = [req EXCEPT ![p].pc = l]
    BY <1>2 DEF ValidateSignature, Goto
  <2>1. PICK r : /\ r = [req[p] EXCEPT !.pc = l]
                 /\ req' = [req EXCEPT ![p] = r]
    BY <1>0, <2>0 DEF TypeOK
  <2>2. Fresh(r, keys, rotation)
    BY <1>0, <2>1 DEF Fresh, HoldsCopy, Request
  <2> QED BY <1>0, <1>2, <2>1, <2>2, QuietRequestStep DEF ValidateSignature
<1>3. CASE ValidateLoad(p)
  <2>1. PICK r : /\ r = [req[p] EXCEPT !.pc = "validate_key", !.rec = keys[req[p].id]]
                 /\ req' = [req EXCEPT ![p] = r]
    BY <1>0, <1>3 DEF ValidateLoad, TypeOK
  <2>2. Fresh(r, keys, rotation)
    BY <1>0, <2>1 DEF Fresh, Request
  <2> QED BY <1>0, <1>3, <2>1, <2>2, QuietRequestStep DEF ValidateLoad
<1>4. CASE ValidateReadRotation(p)
  <2>1. PICK r : /\ r = [req[p] EXCEPT !.pc = "validate_rotation",
                                       !.rot = rotation[req[p].id]]
                 /\ req' = [req EXCEPT ![p] = r]
    BY <1>0, <1>4 DEF ValidateReadRotation, TypeOK
  <2>2. Fresh(r, keys, rotation)
    BY <1>0, <1>4, <2>1 DEF ValidateReadRotation, At, Fresh, HoldsCopy, Request
  <2> QED BY <1>0, <1>4, <2>1, <2>2, QuietRequestStep DEF ValidateReadRotation
<1>5. CASE ValidateReject(p)
  <2>1. req[p].rec.status # "absent"
    BY <1>0, <1>5 DEF ValidateReject, Carries, HoldsCopy
  <2> QED BY <1>5, <2>1, ReturnGated DEF ValidateReject, store
<1>6. CASE ValidateExpire(p)
  BY <1>6, MarkRevokedGated DEF ValidateExpire
<1>7. CASE ValidateAccept(p)
  \* What is written back is what is stored.
  <2>1. req[p].rec = keys[req[p].id]
    BY <1>0, <1>7 DEF ValidateAccept, PastStatusChecks, At, Fresh, HoldsCopy
  <2>2. keys' = keys
    BY <1>0, <1>7, <2>1 DEF ValidateAccept, TypeOK
  <2> QED BY <1>7, <2>2, ReturnGated DEF ValidateAccept, store
<1> QED BY <1>1, <1>2, <1>3, <1>4, <1>5, <1>6, <1>7 DEF Validate

LEMMA RequestFailsGated ==
  ASSUME InputGates = TRUE, IndInv, GatedInv, NEW p \in Handlers, RequestFails(p)
  PROVE  GatedInv' /\ StatusSteps
BY ReturnGated DEF RequestFails

----------------------------------------------------------------------------
(* The cleanup *)

\* A pass over the listings changes nothing in the store.
LEMMA QuietCleanStep ==
  ASSUME InputGates = TRUE, TypeOK, GatedInv, MayClean, UNCHANGED <<store, req>>, ClearsRetired'
  PROVE  GatedInv' /\ StatusSteps
<1>1. ActiveKeyFindable' /\ RotationRetiresOldKey'
  BY DEF GatedInv, ActiveKeyFindable, RotationRetiresOldKey, store
<1> QED BY <1>1, CleanStep, QuietSteps DEF store

LEMMA CleanGated ==
  ASSUME InputGates = TRUE, IndInv, GatedInv, Clean PROVE GatedInv' /\ StatusSteps
<1>0. TypeOK /\ ClearsRetired /\ cl \in Cleanup /\ CleanInv /\ StoreInv
  BY DEF IndInv, GatedInv, TypeOK
<1>1. CASE CleanStart
  <2>1. \A k \in cl'.todo : /\ k \in Keys /\ cl'.snap[k] = keys[k]
                            /\ keys[k].status \in {"active", "rotated"}
    BY <1>1 DEF CleanStart, NeedsCleanup, NoCleanup
  <2>2. cl'.unlookup = {}
    BY <1>1 DEF CleanStart, NoCleanup
  <2>3. ClearsRetired'
    BY <1>1, <2>1, <2>2 DEF CleanStart, ClearsRetired, Retired, store
  <2> QED BY <1>0, <1>1, <2>3, QuietCleanStep DEF CleanStart
<1>2. CASE CleanListLookups
  <2>1. ClearsRetired'
    BY <1>0, <1>2 DEF CleanListLookups, ClearsRetired, Retired, Cleanup, store
  <2> QED BY <1>0, <1>2, <2>1, QuietCleanStep DEF CleanListLookups
<1>3. CASE CleanListHmacs
  <2>1. ClearsRetired'
    BY <1>0, <1>3 DEF CleanListHmacs, ClearsRetired, Retired, Cleanup, store
  <2> QED BY <1>0, <1>3, <2>1, QuietCleanStep DEF CleanListHmacs
<1>4. ASSUME NEW k \in Keys, CleanKey(k) PROVE GatedInv' /\ StatusSteps
  <2> DEFINE expires == cl.snap[k].status = "active"
             over == ~expires /\ rotation[k].to # None /\ rotation[k].ends < cl.at
             gone == IF expires \/ over THEN {k} ELSE {}
  <2>1. cl' = [cl EXCEPT !.todo = @ \ {k},
                         !.wait = IF expires \/ over THEN "crypto" ELSE "storage",
                         !.expired = IF expires THEN @ \union {k} ELSE @,
                         !.unrotate = IF over THEN @ \union {k} ELSE @,
                         !.unlookup = @ \union gone,
                         !.unhmac = @ \union gone]
    BY <1>4 DEF CleanKey
  <2>2. gone \subseteq {k} /\ (expires \/ Retired(k))
    BY <1>0, <1>4 DEF CleanKey, ClearsRetired
  <2> HIDE DEF expires, over, gone
  <2>3. /\ cl'.todo = cl.todo \ {k} /\ cl'.phase = cl.phase /\ cl'.snap = cl.snap
        /\ cl'.unlookup = cl.unlookup \union gone
        /\ cl'.expired = IF expires THEN cl.expired \union {k} ELSE cl.expired
    BY <1>0, <2>1 DEF Cleanup
  <2>4. \A j \in Keys : Retired(j)' <=> Retired(j)
    BY <1>4 DEF CleanKey, Retired, store
  <2>5. cl.unlookup \subseteq Keys /\ cl.todo \subseteq Keys
    BY <1>0 DEF Cleanup
  <2>6. ClearsRetired'
    BY <1>0, <2>2, <2>3, <2>4, <2>5 DEF ClearsRetired
  <2> QED BY <1>0, <1>4, <2>6, QuietCleanStep DEF CleanKey
<1>5. ASSUME NEW k \in Keys, CleanLookup(k) PROVE GatedInv' /\ StatusSteps
  <2>1. k \in Stored
    BY <1>0, <1>5 DEF CleanLookup, CleanInv
  <2>2. keys[k].status # "active" => Retired(k)
    BY <1>0, <2>1 DEF Stored, Retired, TypeOK, KeyRecord, Statuses
  <2>3. ClearsRetired'
    BY <1>0, <1>5, <2>2 DEF CleanLookup, ClearsRetired, Retired, Cleanup, store
  <2> QED BY <1>0, <1>5, <2>3, QuietCleanStep DEF CleanLookup
<1>6. ASSUME NEW k \in Keys, CleanHmac(k) PROVE GatedInv' /\ StatusSteps
  <2>1. ClearsRetired'
    BY <1>0, <1>6 DEF CleanHmac, ClearsRetired, Retired, Cleanup, store
  <2> QED BY <1>0, <1>6, <2>1, QuietCleanStep DEF CleanHmac
<1>7. CASE CleanCommit
  <2>1. \A k \in Keys : keys'[k] = IF k \in cl.expired
                                     THEN [cl.snap[k] EXCEPT !.status = "revoked"]
                                     ELSE keys[k]
    BY <1>7 DEF CleanCommit
  <2>2. \A k \in Keys : [cl.snap[k] EXCEPT !.status = "revoked"].status = "revoked"
    BY <1>0 DEF Cleanup, KeyRecord
  <2>3. \A k \in Keys : IF k \in cl.expired THEN keys'[k].status = "revoked"
                                            ELSE keys'[k] = keys[k]
    BY <2>1, <2>2
  <2>4. StatusSteps
    BY <2>3 DEF StatusSteps
  <2>5. ActiveKeyFindable'
    <3> SUFFICES ASSUME NEW k \in Keys, keys'[k].status = "active" PROVE k \in lookup'
      BY DEF ActiveKeyFindable
    <3>1. k \notin cl.expired /\ keys[k].status = "active"
      BY <2>3
    <3>2. k \in lookup
      BY <3>1 DEF GatedInv, ActiveKeyFindable
    <3>3. k \notin cl.unlookup
      BY <1>0, <3>1 DEF ClearsRetired, Retired
    <3> QED BY <1>7, <3>2, <3>3 DEF CleanCommit
  <2>6. RotationRetiresOldKey'
    <3>1. \A k \in Keys : rotation'[k].to # None => rotation[k].to # None
      BY <1>7 DEF CleanCommit, NoRotation
    <3> QED BY <2>3, <3>1 DEF GatedInv, RotationRetiresOldKey
  <2>7. ClearsRetired'
    BY <1>7 DEF CleanCommit, ClearsRetired, NoCleanup
  <2> QED BY <1>0, <1>7, <2>4, <2>5, <2>6, <2>7, CleanStep DEF CleanCommit
<1> QED BY <1>1, <1>2, <1>3, <1>4, <1>5, <1>6, <1>7 DEF Clean

LEMMA CleanErrsGated ==
  ASSUME InputGates = TRUE, IndInv, GatedInv, CleanErrs PROVE GatedInv' /\ StatusSteps
<1>0. TypeOK /\ ClearsRetired /\ cl \in Cleanup
  BY DEF IndInv, GatedInv, TypeOK
<1>1. CASE CleanFails
  <2>1. ClearsRetired'
    BY <1>1 DEF CleanFails, ClearsRetired, NoCleanup
  <2> QED BY <1>0, <1>1, <2>1, QuietCleanStep DEF CleanFails
<1>2. ASSUME NEW k \in Keys, CleanSkip(k) PROVE GatedInv' /\ StatusSteps
  <2>1. ClearsRetired'
    BY <1>0, <1>2 DEF CleanSkip, ClearsRetired, Retired, Cleanup, store
  <2> QED BY <1>0, <1>2, <2>1, QuietCleanStep DEF CleanSkip
<1>3. ASSUME NEW k \in Keys, CleanUndecrypted(k) PROVE GatedInv' /\ StatusSteps
  <2>1. /\ cl'.todo = cl.todo \ {k} /\ cl'.phase = cl.phase /\ cl'.snap = cl.snap
        /\ cl.expired \subseteq cl'.expired /\ cl'.unlookup = cl.unlookup
    BY <1>0, <1>3 DEF CleanUndecrypted, Cleanup
  <2>2. \A j \in Keys : Retired(j)' <=> Retired(j)
    BY <1>3 DEF CleanUndecrypted, Retired, store
  <2>3. cl.unlookup \subseteq Keys /\ cl.todo \subseteq Keys
    BY <1>0 DEF Cleanup
  <2>4. ClearsRetired'
    BY <1>0, <2>1, <2>2, <2>3 DEF ClearsRetired
  <2> QED BY <1>0, <1>3, <2>4, QuietCleanStep DEF CleanUndecrypted
<1> QED BY <1>1, <1>2, <1>3 DEF CleanErrs

LEMMA NextGated ==
  ASSUME InputGates = TRUE, IndInv, GatedInv, [Next]_vars PROVE GatedInv' /\ StatusSteps
<1>1. CASE UNCHANGED vars
  <2>1. GatedInv'
    BY <1>1 DEF vars, GatedInv, Alone, RequestsFresh, Fresh, ClearsRetired, Retired,
                ActiveKeyFindable, RotationRetiresOldKey
  <2> QED BY <1>1, <2>1, QuietSteps DEF vars
<1>2. CASE Restart
  <2>1. \A p \in Handlers : req'[p] = Idle
    BY <1>2 DEF Restart
  <2>2. Alone'
    BY <2>1 DEF Alone, Idle, StorageWaits
  <2>3. RequestsFresh'
    BY <2>1, IdleFresh DEF RequestsFresh
  <2>4. ClearsRetired'
    BY <1>2 DEF Restart, ClearsRetired, NoCleanup
  <2>5. ActiveKeyFindable' /\ RotationRetiresOldKey' /\ StatusSteps
    BY <1>2, QuietSteps DEF Restart, GatedInv, ActiveKeyFindable, RotationRetiresOldKey, store
  <2> QED BY <2>2, <2>3, <2>4, <2>5 DEF GatedInv
<1>3. CASE Tick
  <2>1. GatedInv'
    BY <1>3 DEF Tick, GatedInv, Alone, RequestsFresh, Fresh, ClearsRetired, Retired,
                ActiveKeyFindable, RotationRetiresOldKey, store
  <2> QED BY <1>3, <2>1, QuietSteps DEF Tick, store
<1> QED BY <1>1, <1>2, <1>3, CreateGated, RotateGated, RevokeGated, ValidateGated,
           RequestFailsGated, CleanGated, CleanErrsGated DEF Next

----------------------------------------------------------------------------
(* The theorems *)

\* While a Durable Object delivers no event during a storage operation, handlers wait
\* for storage one at a time, on records that are as they read them, and the cleanup
\* clears the entries of retired keys only.
THEOREM GatedInductive == ASSUME InputGates = TRUE PROVE Spec => [](IndInv /\ GatedInv)
<1>1. Init => IndInv /\ GatedInv
  BY InitInd, InitGated
<1>2. (IndInv /\ GatedInv) /\ [Next]_vars => (IndInv /\ GatedInv)'
  BY NextInd, NextGated
<1> QED BY <1>1, <1>2, PTL DEF Spec

\* cleanupExpiredKeys never takes the lookup entry of an active key from it, whatever
\* it lists before a request it waits for cryptography beside.
THEOREM ActiveKeyIsFindable == ASSUME InputGates = TRUE PROVE Spec => []ActiveKeyFindable
<1>1. GatedInv => ActiveKeyFindable
  BY DEF GatedInv
<1> QED BY <1>1, GatedInductive, PTL

\* A key with a rotation record is never active: rotateKey's second commit is not
\* overwritten by a copy another request read before it.
THEOREM RotationRetires == ASSUME InputGates = TRUE PROVE Spec => []RotationRetiresOldKey
<1>1. GatedInv => RotationRetiresOldKey
  BY DEF GatedInv
<1> QED BY <1>1, GatedInductive, PTL

\* No copy validateKey, revokeKey or cleanupExpiredKeys writes back makes a revoked or
\* rotated key active.
THEOREM RetiredNeverReactivated == ASSUME InputGates = TRUE PROVE Spec => NoReactivation
<1>1. IndInv /\ GatedInv /\ [Next]_vars =>
        [\A k \in Keys : keys[k].status \in {"rotated", "revoked"} => keys'[k].status # "active"]_vars
  BY NextGated DEF StatusSteps
<1> QED BY <1>1, GatedInductive, PTL DEF Spec, NoReactivation

\* A revocation is undone only by rotateKey's second commit for the same key.
THEOREM OnlyRotationUndoesRevocation ==
  ASSUME InputGates = TRUE PROVE Spec => RevocationOutlivesAllButRotation
<1>1. IndInv /\ GatedInv /\ [Next]_vars =>
        [\A k \in Keys : keys[k].status = "revoked" /\ keys'[k].status # "revoked"
           => \E p \in Handlers : At(p, "rotate_stored") /\ req[p].id = k]_vars
  BY NextGated DEF StatusSteps
<1> QED BY <1>1, GatedInductive, PTL DEF Spec, RevocationOutlivesAllButRotation

\* validateKey accepts a value only while the stored record is active or rotated within
\* its grace period, and not expired.
THEOREM AcceptedIsLive == ASSUME InputGates = TRUE PROVE Spec => AcceptedKeyIsLive
<1> DEFINE Live(p) ==
      LET k == req[p].id
      IN /\ \/ keys[k].status = "active"
            \/ keys[k].status = "rotated" /\ rotation[k].to # None /\ now <= rotation[k].ends
         /\ keys[k].expiresAt = 0 \/ now <= keys[k].expiresAt
<1>1. ASSUME IndInv, GatedInv, NEW p \in Handlers, ValidateAccept(p) PROVE Live(p)
  <2>1. /\ TypeOK /\ Fresh(req[p], keys, rotation) /\ PastStatusChecks(p)
        /\ ~Expired(req[p].rec, now)
    BY <1>1 DEF IndInv, GatedInv, RequestsFresh, ValidateAccept
  <2>2. req[p].rec = keys[req[p].id] /\ req[p].id \in Keys
    <3>1. req[p].id \in Keys
      BY <1>1, <2>1, IndIdOK DEF IdOK, PastStatusChecks, At
    <3> QED BY <2>1, <3>1 DEF PastStatusChecks, At, Fresh, HoldsCopy
  <2>3. keys[req[p].id].expiresAt \in Nat /\ rotation[req[p].id].ends \in Nat /\ now \in Nat
    BY <2>1, <2>2 DEF TypeOK, KeyRecord, RotationRecord
  <2>4. keys[req[p].id].expiresAt = 0 \/ now <= keys[req[p].id].expiresAt
    BY <2>1, <2>2, <2>3 DEF Expired
  <2>5. CASE At(p, "validate_key") /\ req[p].rec.status = "active"
    BY <2>2, <2>4, <2>5
  <2>6. CASE At(p, "validate_rotation") /\ ~GraceOver(req[p].rot, now)
    <3>1. req[p].rot = rotation[req[p].id] /\ req[p].rec.status = "rotated"
      BY <2>1, <2>6 DEF At, Fresh
    <3> QED BY <2>2, <2>3, <2>4, <2>6, <3>1 DEF GraceOver
  <2> QED BY <2>1, <2>5, <2>6 DEF PastStatusChecks
<1>2. IndInv /\ GatedInv => [\A p \in Handlers : ValidateAccept(p) => Live(p)]_vars
  BY <1>1
<1> QED BY <1>2, GatedInductive, PTL DEF AcceptedKeyIsLive

----------------------------------------------------------------------------
(* The life of a key: what rotations and the cleanup know of the keys they *)
(* hold copies of                                                          *)

Rotating == {"rotate_seal", "rotate_stored"}

LEMMA InitLife == Init => LifeInv
<1> SUFFICES ASSUME Init PROVE LifeInv
  OBVIOUS
<1>1. \A p \in Handlers : req[p].pc = "idle"
  BY DEF Init, Idle
<1>2. Listed = {} /\ cl.at = 0 /\ now = 1
  BY DEF Init, NoCleanup, Listed
<1> QED BY <1>1, <1>2 DEF LifeInv, RotationKnows

LEMMA ListedStored == IndInv => Listed \subseteq Stored
BY DEF IndInv, CleanInv, Listed

\* What a step of a handler leaves of the keys others hold copies of.
OriginsKept(p) ==
  \A k \in Stored : SameOrigin(keys'[k], keys[k]) \/ (At(p, "rotate_stored") /\ k = req[p].succ)

LEMMA LifeRequestStep ==
  ASSUME InputGates = TRUE, IndInv, LifeInv, NEW p \in Handlers, MayRun(p), NEW r,
         req' = [req EXCEPT ![p] = r], UNCHANGED <<now, cl>>, OriginsKept(p),
         At(p, "rotate_stored") => r.pc = "idle",
         r.pc \in {"rotate_key", "rotate_rotation"} => r.rec.status = "active",
         r.pc \in Rotating => SameOrigin(r.rec, keys'[r.id]),
         r.pc = "rotate_stored" => r.new.from = None /\ r.succ \notin Stored
  PROVE  LifeInv'
<1>1. req'[p] = r /\ \A q \in Handlers \ {p} : req'[q] = req[q] /\ req[q].pc \notin StorageWaits
  BY DEF MayRun, IndInv, TypeOK
<1>2. Listed' = Listed /\ Listed \subseteq Stored
  BY ListedStored DEF Listed
<1>3. \A q \in Handlers \ {p} : req[q].pc = "rotate_seal" =>
        /\ req[q].id \in Stored /\ SameOrigin(req[q].rec, keys[req[q].id])
        /\ At(p, "rotate_stored") => req[q].id # req[p].succ
  BY DEF IndInv, RequestInv, Carries, LifeInv, RotationKnows, At
<1>4. ASSUME NEW q \in Handlers \ {p} PROVE RotationKnows(req[q])'
  <2>1. req'[q].pc \notin {"rotate_key", "rotate_rotation", "rotate_stored"}
    BY <1>1 DEF StorageWaits
  <2>2. ASSUME req[q].pc = "rotate_seal" PROVE SameOrigin(req[q].rec, keys'[req[q].id])
    <3>1. /\ SameOrigin(keys'[req[q].id], keys[req[q].id])
          /\ SameOrigin(req[q].rec, keys[req[q].id])
      BY <1>3, <2>2 DEF OriginsKept
    <3> QED BY <3>1 DEF SameOrigin
  <2> QED BY <1>1, <2>1, <2>2 DEF RotationKnows
<1>5. RotationKnows(req[p])'
  <2>1. ASSUME r.pc = "rotate_stored", NEW q \in Handlers, req'[q].pc = "rotate_seal"
        PROVE  req'[q].id # r.succ
    BY <1>1, <1>3, <2>1
  <2> QED BY <1>1, <1>2, <2>1 DEF RotationKnows, Rotating
<1>6. ASSUME NEW k \in Listed
      PROVE  SameOrigin(cl.snap[k], keys'[k]) /\ Expired(cl.snap[k], cl.at)
  <2>1. SameOrigin(cl.snap[k], keys[k]) /\ Expired(cl.snap[k], cl.at)
    BY DEF LifeInv
  <2>2. SameOrigin(keys'[k], keys[k])
    BY <1>2 DEF OriginsKept, LifeInv, RotationKnows, At
  <2> QED BY <2>1, <2>2 DEF SameOrigin
<1>7. cl.at <= now
  BY DEF LifeInv
<1> QED BY <1>2, <1>4, <1>5, <1>6, <1>7 DEF LifeInv

\* A step of the cleanup finds no rotation that has just stored a successor.
LEMMA LifeCleanStep ==
  ASSUME InputGates = TRUE, IndInv, LifeInv, MayClean, UNCHANGED <<now, req>>,
         \A k \in Stored : SameOrigin(keys'[k], keys[k]),
         \A k \in Listed' : SameOrigin(cl'.snap[k], keys'[k]) /\ Expired(cl'.snap[k], cl'.at),
         cl'.at <= now
  PROVE  LifeInv'
<1>1. ASSUME NEW p \in Handlers PROVE RotationKnows(req[p])'
  <2>1. req[p].pc \notin {"rotate_key", "rotate_rotation", "rotate_stored"} /\ req'[p] = req[p]
    BY DEF MayClean, StorageWaits
  <2>2. ASSUME req[p].pc = "rotate_seal" PROVE SameOrigin(req[p].rec, keys'[req[p].id])
    <3>1. req[p].id \in Stored /\ SameOrigin(req[p].rec, keys[req[p].id])
      BY <2>2 DEF IndInv, RequestInv, Carries, LifeInv, RotationKnows
    <3> QED BY <3>1 DEF SameOrigin
  <2> QED BY <2>1, <2>2 DEF RotationKnows
<1> QED BY <1>1 DEF LifeInv

----------------------------------------------------------------------------
(* Steps in the life of a key *)

Lives == Lifecycle!Next \/ UNCHANGED Lifecycle!vars

\* The keys being replaced, after a step of one handler.
LEMMA ReplacingStep ==
  ASSUME TypeOK, NEW p \in Handlers, NEW r, req' = [req EXCEPT ![p] = r]
  PROVE  /\ r.pc \notin Rotating => Replacing' \in {Replacing, Replacing \ {req[p].id}}
         /\ r.pc \notin Rotating /\ req[p].pc \notin Rotating => Replacing' = Replacing
         /\ r.pc \in Rotating /\ r.id = req[p].id => Replacing' = Replacing \union {req[p].id}
         /\ req[p].pc \in Rotating => req[p].id \in Replacing
<1> DEFINE others == {req[q].id : q \in {h \in Handlers \ {p} : req[h].pc \in Rotating}}
<1>1. req'[p] = r /\ \A q \in Handlers \ {p} : req'[q] = req[q]
  BY DEF TypeOK
<1>2. Replacing = others \union (IF req[p].pc \in Rotating THEN {req[p].id} ELSE {})
  BY DEF Replacing, Rotating
<1>3. Replacing' = others \union (IF r.pc \in Rotating THEN {r.id} ELSE {})
  <2>1. Replacing' = {req'[q].id : q \in {h \in Handlers : req'[h].pc \in Rotating}}
    BY DEF Replacing, Rotating
  <2> QED BY <1>1, <2>1
<1> HIDE DEF others
<1> QED BY <1>2, <1>3

\* A handler that goes on, or ends, and changes no key.
LEMMA QuietLives ==
  ASSUME UNCHANGED <<now, keys, lookup>>, Replacing' \subseteq Replacing
  PROVE  Lives
BY DEF Lives, Lifecycle!Next, Lifecycle!GiveUp

LEMMA SameIsSame == ASSUME UNCHANGED keys, NEW p \in Handlers PROVE OriginsKept(p)
BY DEF OriginsKept, SameOrigin

LEMMA QuietRequestLives ==
  ASSUME InputGates = TRUE, IndInv, LifeInv, NEW p \in Handlers, MayRun(p), NEW r,
         req' = [req EXCEPT ![p] = r], UNCHANGED <<now, store, cl>>, r.pc \notin Rotating,
         At(p, "rotate_stored") => r.pc = "idle",
         r.pc \in {"rotate_key", "rotate_rotation"} => r.rec.status = "active"
  PROVE  LifeInv' /\ Lives
<1>1. LifeInv'
  <2>1. r.pc # "rotate_stored"
    BY DEF Rotating
  <2> QED BY <2>1, SameIsSame, LifeRequestStep DEF store
<1>2. Replacing' \subseteq Replacing
  <2>1. Replacing' \in {Replacing, Replacing \ {req[p].id}}
    BY ReplacingStep DEF IndInv
  <2> QED BY <2>1
<1> QED BY <1>1, <1>2, QuietLives DEF store

LEMMA IdleIdle == Idle.pc = "idle"
BY DEF Idle

LEMMA ReturnLives ==
  ASSUME InputGates = TRUE, IndInv, LifeInv, NEW p \in Handlers, MayRun(p), Return(p),
         UNCHANGED <<now, store, cl>>
  PROVE  LifeInv' /\ Lives
BY IdleIdle, QuietRequestLives DEF Return, Rotating

\* A new key: by a request, or for a rotation whose key gives it its expiry.
LEMMA NewKeyLives ==
  ASSUME IndInv, NEW k \in Keys, NEW e, StoreNewKey(k, e), UNCHANGED now,
         e \in Expiries \union {keys[old].expiresAt : old \in Replacing},
         Replacing' = Replacing, Replacing \subseteq Keys
  PROVE  Lives
<1> DEFINE life == [j \in Keys |-> LifeOf(keys[j])]
           new == [status |-> "active", expiresAt |-> e, from |-> None]
<1>1. LifeOf(NewKey(e)) = new
  BY DEF LifeOf, NewKey, Absent
<1>2. life' = [life EXCEPT ![k] = new]
  BY <1>1 DEF StoreNewKey, IndInv, TypeOK
<1>3. life[k].status = "absent"
  BY DEF StoreNewKey, LifeOf
<1>4. e \in Expiries \union {life[old].expiresAt : old \in Replacing}
  BY DEF LifeOf
<1>5. lookup' = lookup \union {k}
  BY DEF StoreNewKey
<1>6. Lifecycle!Create(k)
  BY <1>2, <1>3, <1>4, <1>5 DEF Lifecycle!Create
<1> QED BY <1>6 DEF Lives, Lifecycle!Next

LEMMA NewKeyKeepsOrigins ==
  ASSUME IndInv, NEW k \in Keys, NEW e, StoreNewKey(k, e), NEW p \in Handlers
  PROVE  OriginsKept(p) /\ k \notin Stored
BY DEF StoreNewKey, OriginsKept, Stored, SameOrigin, IndInv, TypeOK

LEMMA ReplacingKeys == IndInv => Replacing \subseteq Stored
BY DEF IndInv, RequestInv, Carries, Replacing

LEMMA CreateLives ==
  ASSUME InputGates = TRUE, IndInv, LifeInv, NEW p \in Handlers, Create(p)
  PROVE  LifeInv' /\ Lives
<1>1. PICK k \in Keys, e \in Expiries : StoreNewKey(k, e)
  BY DEF Create
<1>2. PICK r : r = req[p] /\ req' = [req EXCEPT ![p] = r] /\ r.pc = "idle"
  BY DEF Create, At, IndInv, TypeOK
<1>3. LifeInv'
  BY <1>1, <1>2, NewKeyKeepsOrigins, LifeRequestStep DEF Create, At, Rotating
<1>4. Replacing' = Replacing /\ Replacing \subseteq Keys
  BY ReplacingKeys DEF Create, Replacing, Stored
<1> QED BY <1>1, <1>3, <1>4, NewKeyLives DEF Create

LEMMA RotateLives ==
  ASSUME InputGates = TRUE, IndInv, GatedInv, LifeInv, NEW p \in Handlers, Rotate(p)
  PROVE  LifeInv' /\ Lives
<1>0. /\ TypeOK /\ Carries(req[p]) /\ Fresh(req[p], keys, rotation) /\ req[p] \in Request
      /\ RotationKnows(req[p])
  BY DEF IndInv, RequestInv, GatedInv, RequestsFresh, TypeOK, LifeInv
<1>1. CASE RotateStart(p)
  <2>1. PICK k, r :
          /\ k \in Keys /\ keys[k].status = "active"
          /\ r = [Idle EXCEPT !.pc = "rotate_key", !.id = k, !.rec = keys[k]]
          /\ req' = [req EXCEPT ![p] = r]
    BY <1>1 DEF RotateStart
  <2>2. r.pc = "rotate_key" /\ r.rec.status = "active"
    BY <2>1 DEF Idle
  <2> QED BY <1>1, <2>1, <2>2, QuietRequestLives DEF RotateStart, At, Rotating
<1>2. CASE RotateReadRotation(p)
  <2>1. PICK r : /\ r = [req[p] EXCEPT !.pc = "rotate_rotation", !.rot = rotation[req[p].id]]
                 /\ req' = [req EXCEPT ![p] = r]
    BY <1>0, <1>2 DEF RotateReadRotation, TypeOK
  <2>2. r.pc = "rotate_rotation" /\ r.rec = req[p].rec
    BY <1>0, <2>1 DEF Request
  <2>3. r.rec.status = "active"
    BY <1>0, <1>2, <2>2 DEF RotateReadRotation, At, RotationKnows
  <2> QED BY <1>2, <2>1, <2>2, <2>3, QuietRequestLives DEF RotateReadRotation, At, Rotating
<1>3. CASE RotateSeal(p)
  <2>1. CASE Return(p)
    BY <1>3, <2>1, ReturnLives DEF RotateSeal
  <2>2. ASSUME NEW g \in Graces, req' = [req EXCEPT ![p].pc = "rotate_seal", ![p].ends = now + g]
        PROVE  LifeInv' /\ Lives
    <3> DEFINE life == [j \in Keys |-> LifeOf(keys[j])]
    <3>1. PICK r : /\ r = [req[p] EXCEPT !.pc = "rotate_seal", !.ends = now + g]
                   /\ req' = [req EXCEPT ![p] = r]
      BY <1>0, <2>2 DEF TypeOK
    <3>2. r.pc = "rotate_seal" /\ r.id = req[p].id /\ r.rec = req[p].rec
      BY <1>0, <3>1 DEF Request
    <3>3. /\ req[p].rec = keys[req[p].id] /\ req[p].rec.status = "active"
          /\ req[p].id \in Keys
      BY <1>0, <1>3 DEF RotateSeal, At, Fresh, HoldsCopy, RotationKnows, Carries, Stored
    <3>4. LifeInv'
      BY <1>3, <3>1, <3>2, <3>3, SameIsSame, LifeRequestStep
         DEF RotateSeal, At, store, Rotating, SameOrigin
    <3>5. Replacing' = Replacing \union {req[p].id}
      BY <1>0, <3>1, <3>2, ReplacingStep DEF Rotating
    <3>6. life[req[p].id].status = "active" /\ UNCHANGED <<now, life, lookup>>
      BY <1>3, <3>3 DEF LifeOf, RotateSeal, store
    <3>7. Lifecycle!BeginRotation(req[p].id)
      BY <3>5, <3>6 DEF Lifecycle!BeginRotation
    <3> QED BY <3>3, <3>4, <3>7 DEF Lives, Lifecycle!Next
  <2> QED BY <1>3, <2>1, <2>2 DEF RotateSeal
<1>4. CASE RotateStoreNew(p)
  <2>1. PICK k \in Keys, e \in (Expiries \ {0}) \union {req[p].rec.expiresAt} :
          /\ StoreNewKey(k, e)
          /\ req' = [req EXCEPT ![p].pc = "rotate_stored", ![p].succ = k,
                                ![p].new = NewKey(e)]
    BY <1>4 DEF RotateStoreNew
  <2>2. PICK r : /\ r = [req[p] EXCEPT !.pc = "rotate_stored", !.succ = k, !.new = NewKey(e)]
                 /\ req' = [req EXCEPT ![p] = r]
    BY <1>0, <2>1 DEF TypeOK
  <2>3. /\ r.pc = "rotate_stored" /\ r.id = req[p].id /\ r.succ = k /\ r.new = NewKey(e)
        /\ r.rec = req[p].rec
    BY <1>0, <2>2 DEF Request
  <2>4. OriginsKept(p) /\ k \notin Stored
    BY <2>1, NewKeyKeepsOrigins
  <2>5. At(p, "rotate_seal") /\ req[p].id \in Stored /\ SameOrigin(req[p].rec, keys[req[p].id])
    BY <1>0, <1>4 DEF RotateStoreNew, At, Carries, RotationKnows
  <2>6. SameOrigin(r.rec, keys'[r.id])
    BY <2>3, <2>4, <2>5 DEF OriginsKept, SameOrigin, At
  <2>7. r.new.from = None
    BY <2>3 DEF NewKey, Absent
  <2>8. LifeInv'
    BY <1>4, <2>2, <2>3, <2>4, <2>5, <2>6, <2>7, LifeRequestStep DEF RotateStoreNew, At
  <2>9. Replacing' = Replacing /\ req[p].id \in Replacing
    BY <1>0, <2>2, <2>3, <2>5, ReplacingStep DEF Rotating, At
  <2>10. e \in Expiries \union {keys[old].expiresAt : old \in Replacing}
    BY <2>5, <2>9 DEF SameOrigin
  <2>11. Replacing \subseteq Keys
    BY ReplacingKeys DEF Stored
  <2> QED BY <1>4, <2>1, <2>8, <2>9, <2>10, <2>11, NewKeyLives DEF RotateStoreNew
<1>5. CASE RotateCommit(p)
  <2> DEFINE id == req[p].id
             succ == req[p].succ
             old == [req[p].rec EXCEPT !.status = "rotated", !.to = succ]
             new == [req[p].new EXCEPT !.from = id]
             life == [j \in Keys |-> LifeOf(keys[j])]
  <2>1. /\ id \in Keys /\ succ \in Keys /\ id # succ /\ At(p, "rotate_stored")
        /\ keys[succ] = req[p].new /\ keys[succ].status = "active" /\ keys[succ].from = None
        /\ SameOrigin(req[p].rec, keys[id])
    BY <1>0, <1>5 DEF RotateCommit, At, Carries, Fresh, Stored, RotationKnows
  <2>2. /\ LifeOf(old) = [LifeOf(keys[id]) EXCEPT !.status = "rotated"]
        /\ SameOrigin(old, keys[id])
    BY <1>0, <2>1 DEF LifeOf, SameOrigin, Request, KeyRecord
  <2>3. LifeOf(new) = [LifeOf(keys[succ]) EXCEPT !.from = id]
    BY <1>0, <2>1 DEF LifeOf, Request, KeyRecord
  <2>4. keys' = [keys EXCEPT ![id] = old, ![succ] = new]
    BY <1>5 DEF RotateCommit
  <2>5. DOMAIN keys = Keys
    BY <1>0 DEF TypeOK
  <2>6. Replacing' \in {Replacing, Replacing \ {id}} /\ id \in Replacing
    BY <1>0, <1>5, <2>1, IdleIdle, ReplacingStep DEF RotateCommit, Return, Rotating, At
  <2> HIDE DEF id, succ, old, new
  <2>7. /\ keys'[id] = old /\ keys'[succ] = new
        /\ \A k \in Keys \ {id, succ} : keys'[k] = keys[k]
    BY <2>1, <2>4, <2>5
  <2>8. life' = [life EXCEPT ![id].status = "rotated", ![succ].from = id]
    <3>1. life'[id] = [life[id] EXCEPT !.status = "rotated"]
      BY <2>1, <2>2, <2>7
    <3>2. life'[succ] = [life[succ] EXCEPT !.from = id]
      BY <2>1, <2>3, <2>7
    <3>3. \A k \in Keys \ {id, succ} : life'[k] = life[k]
      BY <2>7
    <3>4. life = [k \in Keys |-> life[k]] /\ life' = [k \in Keys |-> life'[k]]
      OBVIOUS
    <3> HIDE DEF life
    <3> QED BY <2>1, <3>1, <3>2, <3>3, <3>4
  <2>9. OriginsKept(p)
    BY <2>1, <2>2, <2>7 DEF OriginsKept, SameOrigin, Stored, succ
  <2>10. LifeInv'
    BY <1>5, <2>9, IdleIdle, LifeRequestStep DEF RotateCommit, Return, Rotating
  <2>11. life[succ].status = "active" /\ life[succ].from = None
    BY <2>1 DEF LifeOf
  <2>12. Lifecycle!Replace(id, succ)
    BY <1>5, <2>1, <2>6, <2>8, <2>11 DEF RotateCommit, Lifecycle!Replace
  <2> QED BY <2>1, <2>10, <2>12 DEF Lives, Lifecycle!Next
<1> QED BY <1>1, <1>2, <1>3, <1>4, <1>5 DEF Rotate

\* A handler that marks its key revoked writes over the record as it is.
LEMMA RevokedLives ==
  ASSUME InputGates = TRUE, IndInv, LifeInv, NEW p \in Handlers, MayRun(p), Return(p),
         req[p].id \in Stored, req[p].rec = keys[req[p].id], ~At(p, "rotate_stored"),
         req[p].pc \notin Rotating,
         keys' = [keys EXCEPT ![req[p].id] = [req[p].rec EXCEPT !.status = "revoked"]],
         UNCHANGED <<now, lookup, cl>>
  PROVE  LET life == [k \in Keys |-> LifeOf(keys[k])]
         IN /\ LifeInv' /\ Replacing' = Replacing
            /\ life' = [life EXCEPT ![req[p].id].status = "revoked"]
            /\ life' = [k \in Keys |-> IF k = req[p].id THEN [life[k] EXCEPT !.status = "revoked"]
                                       ELSE life[k]]
<1> DEFINE life == [k \in Keys |-> LifeOf(keys[k])]
           id == req[p].id
           rec == [req[p].rec EXCEPT !.status = "revoked"]
<1>1. id \in Keys /\ keys \in [Keys -> KeyRecord] /\ keys[id] \in KeyRecord
  BY DEF Stored, IndInv, TypeOK
<1>2. LifeOf(rec) = [LifeOf(keys[id]) EXCEPT !.status = "revoked"] /\ SameOrigin(rec, keys[id])
  BY <1>1 DEF LifeOf, SameOrigin, KeyRecord
<1>3. OriginsKept(p)
  BY <1>1, <1>2 DEF OriginsKept, SameOrigin, Stored
<1>4. LifeInv'
  BY <1>3, IdleIdle, LifeRequestStep DEF Return, Rotating
<1>5. Replacing' = Replacing
  BY IdleIdle, ReplacingStep DEF Return, IndInv, Rotating
<1>6. \A k \in Keys : life'[k] = IF k = id THEN [life[k] EXCEPT !.status = "revoked"] ELSE life[k]
  BY <1>1, <1>2
<1>7. life = [k \in Keys |-> life[k]] /\ life' = [k \in Keys |-> life'[k]]
  OBVIOUS
<1> HIDE DEF life, id
<1>8. /\ life' = [life EXCEPT ![id].status = "revoked"]
      /\ life' = [k \in Keys |-> IF k = id THEN [life[k] EXCEPT !.status = "revoked"] ELSE life[k]]
  BY <1>6, <1>7
<1> QED BY <1>4, <1>5, <1>8 DEF life, id

LEMMA StatusLives ==
  ASSUME TypeOK, NEW k \in Stored PROVE keys[k].status \in {"active", "rotated", "revoked"}
BY DEF TypeOK, Stored, KeyRecord, Statuses

LEMMA RevokeLives ==
  ASSUME InputGates = TRUE, IndInv, GatedInv, LifeInv, NEW p \in Handlers, Revoke(p)
  PROVE  LifeInv' /\ Lives
<1>0. /\ TypeOK /\ Carries(req[p]) /\ Fresh(req[p], keys, rotation) /\ req[p] \in Request
  BY DEF IndInv, RequestInv, GatedInv, RequestsFresh, TypeOK
<1>1. CASE RevokeStart(p)
  <2>1. PICK k, r : /\ r = [Idle EXCEPT !.pc = "revoke_key", !.id = k, !.rec = keys[k]]
                    /\ req' = [req EXCEPT ![p] = r]
    BY <1>1 DEF RevokeStart
  <2>2. r.pc = "revoke_key"
    BY <2>1 DEF Idle
  <2> QED BY <1>1, <2>1, <2>2, QuietRequestLives DEF RevokeStart, At, Rotating
<1>2. CASE RevokeWrite(p)
  <2>1. CASE req[p].rec.status = "revoked"
    BY <1>2, <2>1, ReturnLives DEF RevokeWrite, store
  <2>2. CASE req[p].rec.status # "revoked"
    <3> DEFINE life == [k \in Keys |-> LifeOf(keys[k])]
    <3>1. /\ req[p].id \in Stored /\ req[p].rec = keys[req[p].id]
          /\ req[p].pc \notin Rotating /\ ~At(p, "rotate_stored")
      BY <1>0, <1>2 DEF RevokeWrite, Carries, Fresh, HoldsCopy, Rotating, At
    <3>2. keys[req[p].id].status \in {"active", "rotated"}
      BY <1>0, <2>2, <3>1, StatusLives
    <3>3. /\ LifeInv' /\ Replacing' = Replacing
          /\ life' = [life EXCEPT ![req[p].id].status = "revoked"]
      BY <1>2, <2>2, <3>1, RevokedLives DEF RevokeWrite
    <3>4. req[p].id \in Keys /\ life[req[p].id].status \in {"active", "rotated"}
      BY <3>1, <3>2 DEF LifeOf, Stored
    <3> HIDE DEF life
    <3>5. Lifecycle!Revoke(req[p].id)
      BY <1>2, <3>3, <3>4 DEF RevokeWrite, Lifecycle!Revoke, life
    <3> QED BY <3>3, <3>4, <3>5 DEF Lives, Lifecycle!Next
  <2> QED BY <2>1, <2>2
<1>3. CASE RevokeFails(p)
  <2>1. CASE Return(p)
    BY <1>3, <2>1, ReturnLives DEF RevokeFails
  <2>2. CASE req' = [req EXCEPT ![p] = [Idle EXCEPT
               !.pc = "revoke_pause", !.id = req[p].id, !.attempt = req[p].attempt + 1]]
    <3>1. PICK r : r.pc = "revoke_pause" /\ req' = [req EXCEPT ![p] = r]
      BY <2>2 DEF Idle
    <3> QED BY <1>3, <3>1, QuietRequestLives DEF RevokeFails, At, Rotating
  <2> QED BY <1>3, <2>1, <2>2 DEF RevokeFails
<1>4. CASE RevokeRetry(p)
  <2>1. PICK r : /\ r = [req[p] EXCEPT !.pc = "revoke_again", !.rec = keys[req[p].id]]
                 /\ req' = [req EXCEPT ![p] = r]
    BY <1>0, <1>4 DEF RevokeRetry, TypeOK
  <2>2. r.pc = "revoke_again"
    BY <1>0, <2>1 DEF Request
  <2> QED BY <1>4, <2>1, <2>2, QuietRequestLives DEF RevokeRetry, At, Rotating
<1> QED BY <1>1, <1>2, <1>3, <1>4 DEF Revoke

LEMMA ValidateLives ==
  ASSUME InputGates = TRUE, IndInv, GatedInv, LifeInv, NEW p \in Handlers, Validate(p)
  PROVE  LifeInv' /\ Lives
<1>0. TypeOK /\ Carries(req[p]) /\ Fresh(req[p], keys, rotation) /\ req[p] \in Request
  BY DEF IndInv, RequestInv, GatedInv, RequestsFresh, TypeOK
<1>1. CASE ValidateStart(p)
  <2>1. PICK k, r : /\ r = [Idle EXCEPT !.pc = "validate_lookup", !.id = k]
                    /\ req' = [req EXCEPT ![p] = r]
    BY <1>1 DEF ValidateStart
  <2>2. r.pc = "validate_lookup"
    BY <2>1 DEF Idle
  <2> QED BY <1>1, <2>1, <2>2, QuietRequestLives DEF ValidateStart, At, Rotating
<1>2. CASE ValidateSignature(p)
  <2>0. PICK l \in {"validate_hmac", "validate_unsigned"} : req' = [req EXCEPT ![p].pc = l]
    BY <1>2 DEF ValidateSignature, Goto
  <2>1. PICK r : r = [req[p] EXCEPT !.pc = l] /\ req' = [req EXCEPT ![p] = r]
    BY <1>0, <2>0 DEF TypeOK
  <2>2. r.pc = l
    BY <1>0, <2>1 DEF Request
  <2> QED BY <1>2, <2>0, <2>1, <2>2, QuietRequestLives DEF ValidateSignature, At, Rotating
<1>3. CASE ValidateLoad(p)
  <2>1. PICK r : /\ r = [req[p] EXCEPT !.pc = "validate_key", !.rec = keys[req[p].id]]
                 /\ req' = [req EXCEPT ![p] = r]
    BY <1>0, <1>3 DEF ValidateLoad, TypeOK
  <2>2. r.pc = "validate_key"
    BY <1>0, <2>1 DEF Request
  <2> QED BY <1>3, <2>1, <2>2, QuietRequestLives DEF ValidateLoad, At, Rotating
<1>4. CASE ValidateReadRotation(p)
  <2>1. PICK r : /\ r = [req[p] EXCEPT !.pc = "validate_rotation",
                                       !.rot = rotation[req[p].id]]
                 /\ req' = [req EXCEPT ![p] = r]
    BY <1>0, <1>4 DEF ValidateReadRotation, TypeOK
  <2>2. r.pc = "validate_rotation"
    BY <1>0, <2>1 DEF Request
  <2> QED BY <1>4, <2>1, <2>2, QuietRequestLives DEF ValidateReadRotation, At, Rotating
<1>5. CASE ValidateReject(p)
  <2>1. req[p].rec.status # "absent"
    BY <1>0, <1>5 DEF ValidateReject, Carries, HoldsCopy
  <2> QED BY <1>5, <2>1, ReturnLives DEF ValidateReject, store
<1>6. CASE ValidateExpire(p)
  <2> DEFINE life == [k \in Keys |-> LifeOf(keys[k])]
  <2>1. /\ req[p].id \in Stored /\ req[p].rec = keys[req[p].id]
        /\ req[p].pc \notin Rotating /\ ~At(p, "rotate_stored")
    BY <1>0, <1>6 DEF ValidateExpire, PastStatusChecks, Carries, Fresh, HoldsCopy, Rotating, At
  <2>2. /\ LifeInv' /\ Replacing' = Replacing
        /\ life' = [k \in Keys |-> IF k = req[p].id THEN [life[k] EXCEPT !.status = "revoked"]
                                   ELSE life[k]]
    BY <1>6, <2>1, RevokedLives DEF ValidateExpire
  <2>3. /\ req[p].id \in Keys /\ life[req[p].id].status # "absent"
        /\ life[req[p].id].expiresAt > 0 /\ life[req[p].id].expiresAt < now
    BY <1>6, <2>1 DEF ValidateExpire, Expired, LifeOf, Stored
  <2>4. UNCHANGED <<now, lookup>>
    BY <1>6 DEF ValidateExpire
  <2> HIDE DEF life
  <2>5. Lifecycle!Retire
    <3> DEFINE dead == {req[p].id}
    <3>1. dead \in SUBSET {k \in Keys : /\ life[k].status # "absent"
                                        /\ life[k].expiresAt > 0 /\ life[k].expiresAt < now}
      BY <2>3
    <3>2. life' = [k \in Keys |-> IF k \in dead THEN [life[k] EXCEPT !.status = "revoked"]
                                  ELSE life[k]]
      BY <2>2
    <3> HIDE DEF dead
    <3> QED BY <2>2, <2>4, <3>1, <3>2 DEF Lifecycle!Retire, Lifecycle!Expired, life
  <2> QED BY <2>2, <2>5 DEF Lives, Lifecycle!Next
<1>7. CASE ValidateAccept(p)
  <2>1. req[p].rec = keys[req[p].id]
    BY <1>0, <1>7 DEF ValidateAccept, PastStatusChecks, At, Fresh, HoldsCopy
  <2>2. keys' = keys
    BY <1>0, <1>7, <2>1 DEF ValidateAccept, TypeOK
  <2> QED BY <1>7, <2>2, ReturnLives DEF ValidateAccept, store
<1> QED BY <1>1, <1>2, <1>3, <1>4, <1>5, <1>6, <1>7 DEF Validate

LEMMA RequestFailsLives ==
  ASSUME InputGates = TRUE, IndInv, LifeInv, NEW p \in Handlers, RequestFails(p)
  PROVE  LifeInv' /\ Lives
BY ReturnLives DEF RequestFails

\* The passes of the cleanup change nothing that is stored.
LEMMA QuietCleanLives ==
  ASSUME InputGates = TRUE, IndInv, LifeInv, MayClean, UNCHANGED <<now, store, req>>,
         \A k \in Listed' : SameOrigin(cl'.snap[k], keys[k]) /\ Expired(cl'.snap[k], cl'.at),
         cl'.at <= now
  PROVE  LifeInv' /\ Lives
<1>1. LifeInv'
  BY LifeCleanStep DEF store, SameOrigin
<1>2. Replacing' = Replacing
  BY DEF Replacing
<1> QED BY <1>1, <1>2, QuietLives DEF store

\* Most passes only take keys from the listing.
LEMMA ShorterListing ==
  ASSUME InputGates = TRUE, IndInv, LifeInv, MayClean, UNCHANGED <<now, store, req>>,
         cl'.snap = cl.snap, cl'.at = cl.at, Listed' \subseteq Listed
  PROVE  LifeInv' /\ Lives
BY QuietCleanLives DEF LifeInv

LEMMA NothingListed ==
  ASSUME InputGates = TRUE, IndInv, LifeInv, MayClean, UNCHANGED <<now, store, req>>,
         cl' = NoCleanup
  PROVE  LifeInv' /\ Lives
<1>1. Listed' = {} /\ cl'.at = 0 /\ 0 <= now
  BY DEF NoCleanup, Listed, IndInv, TypeOK
<1> QED BY <1>1, QuietCleanLives

LEMMA CleanReadsLive ==
  ASSUME InputGates = TRUE, IndInv, LifeInv, (Clean /\ ~CleanCommit) \/ CleanErrs
  PROVE  LifeInv' /\ Lives
<1>0. TypeOK /\ cl \in Cleanup
  BY DEF IndInv, TypeOK
<1>1. CASE CleanStart
  <2>1. /\ cl'.snap = [k \in Keys |-> IF NeedsCleanup(keys[k], now) THEN keys[k] ELSE Absent]
        /\ cl'.at = now /\ cl'.expired = {}
        /\ cl'.todo = {k \in Keys : NeedsCleanup(keys[k], now)}
    BY <1>1 DEF CleanStart, NoCleanup
  <2>2. ASSUME NEW k \in Listed'
        PROVE  SameOrigin(cl'.snap[k], keys[k]) /\ Expired(cl'.snap[k], cl'.at)
    <3>1. k \in Keys /\ NeedsCleanup(keys[k], now) /\ cl'.snap[k].status = "active"
      BY <2>1 DEF Listed
    <3>2. cl'.snap[k] = keys[k]
      BY <2>1, <3>1
    <3> QED BY <2>1, <3>1, <3>2 DEF NeedsCleanup, SameOrigin
  <2> QED BY <1>0, <1>1, <2>1, <2>2, QuietCleanLives DEF CleanStart, TypeOK
<1>2. CASE \E k \in Keys : CleanKey(k)
  <2>1. PICK k \in Keys : CleanKey(k)
    BY <1>2
  <2>2. /\ cl'.snap = cl.snap /\ cl'.at = cl.at /\ cl'.phase = cl.phase
        /\ cl'.todo = cl.todo \ {k} /\ cl.phase = 1 /\ k \in cl.todo
        /\ cl'.expired = IF cl.snap[k].status = "active" THEN cl.expired \union {k} ELSE cl.expired
    BY <1>0, <2>1 DEF CleanKey, Cleanup
  <2>3. Listed' \subseteq Listed
    BY <2>2 DEF Listed
  <2> QED BY <2>1, <2>2, <2>3, ShorterListing DEF CleanKey
<1>3. CASE \E k \in Keys : CleanSkip(k)
  <2>1. PICK k \in Keys : CleanSkip(k)
    BY <1>3
  <2>2. /\ cl'.snap = cl.snap /\ cl'.at = cl.at /\ cl'.phase = cl.phase
        /\ cl'.todo = cl.todo \ {k} /\ k \in cl.todo
        /\ cl'.expired = cl.expired
    BY <1>0, <2>1 DEF CleanSkip, Cleanup
  <2>3. Listed' \subseteq Listed
    BY <2>2 DEF Listed
  <2> QED BY <2>1, <2>2, <2>3, ShorterListing DEF CleanSkip
<1>6. CASE \E k \in Keys : CleanUndecrypted(k)
  <2>1. PICK k \in Keys : CleanUndecrypted(k)
    BY <1>6
  <2>2. /\ cl'.snap = cl.snap /\ cl'.at = cl.at /\ cl'.phase = cl.phase
        /\ cl'.todo = cl.todo \ {k} /\ cl.phase = 1 /\ k \in cl.todo
        /\ cl'.expired = IF cl.snap[k].status = "active" THEN cl.expired \union {k} ELSE cl.expired
    BY <1>0, <2>1 DEF CleanUndecrypted, Cleanup
  <2>3. Listed' \subseteq Listed
    BY <2>2 DEF Listed
  <2> QED BY <2>1, <2>2, <2>3, ShorterListing DEF CleanUndecrypted
<1>4. CASE CleanListLookups \/ CleanListHmacs \/ \E k \in Keys : CleanLookup(k) \/ CleanHmac(k)
  <2> DEFINE kept == cl'.snap = cl.snap /\ cl'.at = cl.at /\ cl'.expired = cl.expired
  <2>1. kept /\ cl'.phase # 1
    <3>1. CASE CleanListLookups
      BY <1>0, <3>1 DEF CleanListLookups, Cleanup
    <3>2. CASE CleanListHmacs
      BY <1>0, <3>2 DEF CleanListHmacs, Cleanup
    <3>3. ASSUME NEW k \in Keys, CleanLookup(k) PROVE kept /\ cl'.phase # 1
      BY <1>0, <3>3 DEF CleanLookup, Cleanup
    <3>4. ASSUME NEW k \in Keys, CleanHmac(k) PROVE kept /\ cl'.phase # 1
      BY <1>0, <3>4 DEF CleanHmac, Cleanup
    <3> QED BY <1>4, <3>1, <3>2, <3>3, <3>4
  <2>2. Listed' \subseteq Listed
    BY <2>1 DEF Listed
  <2>3. MayClean /\ UNCHANGED <<now, store, req>>
    BY <1>4 DEF CleanListLookups, CleanListHmacs, CleanLookup, CleanHmac
  <2> QED BY <2>1, <2>2, <2>3, ShorterListing
<1>5. CASE CleanFails
  BY <1>5, NothingListed DEF CleanFails
<1> QED BY <1>1, <1>2, <1>3, <1>4, <1>5, <1>6 DEF Clean, CleanErrs

\* The commit of the cleanup revokes keys whose copies were expired, as the keys are,
\* and drops the values of retired ones.
LEMMA CleanCommitLives ==
  ASSUME InputGates = TRUE, IndInv, GatedInv, LifeInv, CleanCommit
  PROVE  LifeInv' /\ Lives
<1> DEFINE life == [k \in Keys |-> LifeOf(keys[k])]
<1>0. /\ keys \in [Keys -> KeyRecord] /\ cl.snap \in [Keys -> KeyRecord]
      /\ now \in Nat /\ cl.at \in Nat /\ cl.expired \subseteq Stored /\ lookup \subseteq Keys
  BY DEF IndInv, TypeOK, CleanInv, Cleanup
<1>1. ASSUME NEW k \in cl.expired
      PROVE  /\ k \in Keys /\ SameOrigin(cl.snap[k], keys[k]) /\ Expired(keys[k], now)
             /\ LifeOf(keys'[k]) = [LifeOf(keys[k]) EXCEPT !.status = "revoked"]
  <2>1. k \in Keys /\ SameOrigin(cl.snap[k], keys[k]) /\ Expired(cl.snap[k], cl.at) /\ cl.at <= now
    BY <1>0 DEF LifeInv, Listed, Stored
  <2>2. keys[k] \in KeyRecord /\ cl.snap[k] \in KeyRecord
    BY <1>0, <2>1
  <2>3. Expired(keys[k], now)
    BY <1>0, <2>1, <2>2 DEF Expired, SameOrigin, KeyRecord
  <2>4. keys'[k] = [cl.snap[k] EXCEPT !.status = "revoked"]
    BY <2>1 DEF CleanCommit
  <2>5. LifeOf(keys'[k]) = [LifeOf(keys[k]) EXCEPT !.status = "revoked"]
    BY <2>1, <2>2, <2>4 DEF LifeOf, SameOrigin, KeyRecord
  <2> QED BY <2>1, <2>3, <2>5
<1>2. \A k \in Keys \ cl.expired : keys'[k] = keys[k]
  BY DEF CleanCommit
<1>3. \A k \in Keys : SameOrigin(keys'[k], keys[k])
  BY <1>1, <1>2 DEF SameOrigin, LifeOf
<1>4. LifeInv'
  <2>1. Listed' = {} /\ cl'.at = 0
    BY DEF CleanCommit, NoCleanup, Listed
  <2> QED BY <1>0, <1>3, <2>1, LifeCleanStep DEF CleanCommit, Stored
<1>5. /\ cl.expired \in SUBSET {k \in Keys : /\ life[k].status # "absent"
                                             /\ life[k].expiresAt > 0 /\ life[k].expiresAt < now}
      /\ life' = [k \in Keys |-> IF k \in cl.expired THEN [life[k] EXCEPT !.status = "revoked"]
                                 ELSE life[k]]
  BY <1>0, <1>1, <1>2 DEF LifeOf, Expired, Stored
<1>6. ASSUME NEW k \in lookup \ lookup'
      PROVE  life'[k].status \in {"rotated", "revoked"}
  <2>1. k \in Keys /\ (k \in cl.expired \/ Retired(k))
    BY <1>0 DEF CleanCommit, GatedInv, ClearsRetired
  <2> QED BY <1>1, <1>2, <2>1 DEF LifeOf, Retired
<1>7. lookup' \subseteq lookup /\ now' = now /\ Replacing' = Replacing
  BY DEF CleanCommit, Replacing
<1> HIDE DEF life
<1>8. Lifecycle!Retire
  BY <1>5, <1>6, <1>7 DEF Lifecycle!Retire, Lifecycle!Expired, life
<1> QED BY <1>4, <1>8 DEF Lives, Lifecycle!Next

\* A restart loses the handlers and what they know; the stored keys live on.
LEMMA RestartLives == ASSUME IndInv, Restart PROVE LifeInv' /\ Lives
<1>1. /\ \A p \in Handlers : req'[p].pc = "idle"
      /\ Listed' = {} /\ cl'.at = 0 /\ now' = now /\ 0 <= now
  BY DEF Restart, Idle, NoCleanup, Listed, IndInv, TypeOK
<1>2. LifeInv'
  BY <1>1 DEF LifeInv, RotationKnows
<1>3. Replacing' = {}
  BY <1>1 DEF Replacing
<1> QED BY <1>2, <1>3, QuietLives DEF Restart, store

LEMMA TickLives == ASSUME IndInv, LifeInv, Tick PROVE LifeInv' /\ Lives
<1>1. LifeInv'
  <2>1. Listed' = Listed /\ cl'.at <= now'
    BY DEF Tick, Listed, LifeInv, IndInv, TypeOK, Cleanup
  <2> QED BY <2>1 DEF LifeInv, RotationKnows, Tick, store
<1>2. Lifecycle!Tick
  BY DEF Tick, store, Replacing, Lifecycle!Tick
<1> QED BY <1>1, <1>2 DEF Lives, Lifecycle!Next

LEMMA NextLives ==
  ASSUME InputGates = TRUE, IndInv, GatedInv, LifeInv, [Next]_vars
  PROVE  LifeInv' /\ Lives
<1>1. ASSUME NEW p \in Handlers, Create(p) PROVE LifeInv' /\ Lives
  BY <1>1, CreateLives
<1>2. ASSUME NEW p \in Handlers, Rotate(p) PROVE LifeInv' /\ Lives
  BY <1>2, RotateLives
<1>3. ASSUME NEW p \in Handlers, Revoke(p) PROVE LifeInv' /\ Lives
  BY <1>3, RevokeLives
<1>4. ASSUME NEW p \in Handlers, Validate(p) PROVE LifeInv' /\ Lives
  BY <1>4, ValidateLives
<1>5. ASSUME NEW p \in Handlers, RequestFails(p) PROVE LifeInv' /\ Lives
  BY <1>5, RequestFailsLives
<1>6. CASE Clean \/ CleanErrs
  BY <1>6, CleanReadsLive, CleanCommitLives
<1>7. CASE Restart
  BY <1>7, RestartLives
<1>8. CASE Tick
  BY <1>8, TickLives
<1>9. CASE UNCHANGED vars
  <2>1. LifeInv'
    BY <1>9 DEF vars, LifeInv, RotationKnows, Listed
  <2>2. UNCHANGED <<now, keys, lookup>> /\ Replacing' = Replacing
    BY <1>9 DEF vars, Replacing
  <2> QED BY <2>1, <2>2, QuietLives
<1> QED BY <1>1, <1>2, <1>3, <1>4, <1>5, <1>6, <1>7, <1>8, <1>9 DEF Next

LEMMA InitLives == Init => Lifecycle!Init
<1> SUFFICES ASSUME Init PROVE Lifecycle!Init
  OBVIOUS
<1>1. [k \in Keys |-> LifeOf(keys[k])] = [k \in Keys |-> Lifecycle!Unborn]
  BY DEF Init, LifeOf, Absent, Lifecycle!Unborn
<1>2. Replacing = {}
  BY DEF Init, Replacing, Idle
<1> QED BY <1>1, <1>2 DEF Init, Lifecycle!Init

\* What a rotation and the cleanup hold of a key may be stale in its status, never in its
\* expiry or its predecessor; and only a rotation knows the successor it has just stored.
THEOREM OriginsKnown == ASSUME InputGates = TRUE PROVE Spec => []LifeInv
<1>1. Init => LifeInv
  BY InitLife
<1>2. IndInv /\ GatedInv /\ LifeInv /\ [Next]_vars => LifeInv'
  BY NextLives
<1>3. Spec => [](IndInv /\ GatedInv)
  BY GatedInductive
<1> QED BY <1>1, <1>2, <1>3, PTL DEF Spec

\* The handlers, interleaved as input gates let them and whatever fails, implement
\* KeyLifecycle: every write they make, fresh copies or stale, is a step in the life of a key.
THEOREM ImplementsLifecycle == ASSUME InputGates = TRUE PROVE Spec => LifecycleSpec
<1>1. Init => Lifecycle!Init
  BY InitLives
<1>2. IndInv /\ GatedInv /\ LifeInv /\ [Next]_vars => [Lifecycle!Next]_(Lifecycle!vars)
  BY NextLives DEF Lives
<1>3. Spec => [](IndInv /\ GatedInv)
  BY GatedInductive
<1>4. Spec => []LifeInv
  BY OriginsKnown
<1> QED BY <1>1, <1>2, <1>3, <1>4, PTL DEF Spec, LifecycleSpec, Lifecycle!Spec

====

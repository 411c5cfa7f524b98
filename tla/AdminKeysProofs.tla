---- MODULE AdminKeysProofs ----
(***************************************************************************)
(* Theorems about AdminKeys, for any number of administrators and of       *)
(* requests in flight, with transactions in KV and without them.           *)
(***************************************************************************)
EXTENDS AdminKeys, TLAPS

----------------------------------------------------------------------------
(* What is stored stays stored *)

\* No step takes away a record or an entry that leads to one.
Grows ==
  /\ Stored \subseteq Stored' /\ lookup \subseteq lookup'
  /\ owners \subseteq owners' /\ index \subseteq index'

LEMMA CompleteGrows == ASSUME Grows PROVE Complete \subseteq Complete'
BY DEF Grows, Complete

LEMMA CarriesGrows == ASSUME Grows, NEW r, Carries(r) PROVE Carries(r)'
BY DEF Grows, Carries, Complete

LEMMA StandsStill == ASSUME UNCHANGED store PROVE Grows
BY DEF store, Grows, Stored

\* Writing a status other than "absent" keeps every record stored.
LEMMA StatusGrows ==
  ASSUME TypeOK, NEW k \in Admins, NEW s \in {"active", "revoked"},
         status' = [status EXCEPT ![k] = s]
  PROVE  Stored' = Stored \union {k} /\ status' \in [Admins -> Statuses]
BY DEF TypeOK, Stored, Statuses

----------------------------------------------------------------------------
(* Slots *)

LEMMA IdleOK == Idle \in Request /\ Carries(Idle)
BY DEF Idle, Request, Labels, Operations, Statuses, Carries

\* A step under which everything stored stays stored and that gives one slot a sound
\* request preserves the invariant.
LEMMA SlotInd ==
  ASSUME IndInv, Grows, StoreInv', DeliveredComplete', SetupAccounted',
         status' \in [Admins -> Statuses], completed' \in BOOLEAN, atomic' = atomic,
         owners' \subseteq Admins, withheld' \subseteq Admins,
         log' \subseteq Operations \X Admins,
         NEW p \in Handlers, NEW r \in Request, req' = [req EXCEPT ![p] = r], Carries(r)'
  PROVE  IndInv'
<1>1. req' \in [Handlers -> Request]
  BY DEF IndInv, TypeOK
<1>2. \A q \in Handlers : req'[q] = IF q = p THEN r ELSE req[q]
  BY DEF IndInv, TypeOK
<1>3. ASSUME NEW q \in Handlers PROVE Carries(req[q])'
  <2>1. CASE q = p
    <3>1. req'[q] = r
      BY <1>2, <2>1
    <3> QED BY <3>1 DEF Carries
  <2>2. CASE q # p
    <3>1. req'[q] = req[q]
      BY <1>2, <2>2
    <3>2. Carries(req[q])
      BY DEF IndInv, RequestInv
    <3> QED BY <3>1, <3>2 DEF Grows, Carries, Complete
  <2> QED BY <2>1, <2>2
<1>4. lookup' \subseteq Admins /\ index' \subseteq Admins /\ delivered' \subseteq Admins
  BY DEF StoreInv, DeliveredComplete, Complete, Stored
<1> QED BY <1>1, <1>3, <1>4 DEF IndInv, TypeOK, RequestInv

\* The administrator behind a completed setup is accounted for as long as the request
\* that closed it goes on, or what it was to answer is handed over or written off.
LEMMA StillAccounted ==
  ASSUME IndInv, Grows, completed' = completed,
         delivered \subseteq delivered', withheld \subseteq withheld',
         NEW p \in Handlers, NEW r, req' = [req EXCEPT ![p] = r],
         Closes(req[p]) => \/ Closes(r) /\ r.id = req[p].id
                           \/ req[p].id \in delivered' \union withheld'
  PROVE  SetupAccounted'
<1> SUFFICES ASSUME completed
             PROVE  \E k \in Complete' :
                      \/ k \in delivered' \union withheld'
                      \/ \E q \in Handlers : Closes(req'[q]) /\ req'[q].id = k
  BY DEF SetupAccounted, Closes
<1>1. PICK k \in Complete : \/ k \in delivered \union withheld
                           \/ \E q \in Handlers : Closes(req[q]) /\ req[q].id = k
  BY DEF IndInv, SetupAccounted
<1>2. k \in Complete'
  BY CompleteGrows
<1>3. req'[p] = r /\ \A q \in Handlers : q # p => req'[q] = req[q]
  BY DEF IndInv, TypeOK
<1>4. CASE k \in delivered \union withheld
  BY <1>2, <1>4
<1>5. ASSUME NEW q \in Handlers, Closes(req[q]), req[q].id = k
      PROVE  \/ k \in delivered' \union withheld'
             \/ \E x \in Handlers : Closes(req'[x]) /\ req'[x].id = k
  BY <1>3, <1>5
<1> QED BY <1>1, <1>2, <1>4, <1>5

\* The same for a step that stores nothing.
LEMMA StillInd ==
  ASSUME IndInv, UNCHANGED <<atomic, store>>, DeliveredComplete',
         delivered \subseteq delivered', withheld \subseteq withheld', withheld' \subseteq Admins,
         NEW p \in Handlers, NEW r \in Request, req' = [req EXCEPT ![p] = r], Carries(r),
         Closes(req[p]) => req[p].id \in delivered' \union withheld'
  PROVE  IndInv'
<1>1. Grows
  BY StandsStill
<1>2. Carries(r)'
  BY DEF store, Carries, Complete, Stored
<1>3. StoreInv'
  BY DEF IndInv, store, StoreInv, Stored
<1>4. SetupAccounted'
  BY <1>1, StillAccounted DEF store
<1> QED BY <1>1, <1>2, <1>3, <1>4, SlotInd DEF IndInv, TypeOK, store

----------------------------------------------------------------------------
(* Every step *)

LEMMA InitInd == Init => IndInv
<1>1. Init => TypeOK
  BY IdleOK DEF Init, TypeOK, Statuses
<1>2. Init => RequestInv
  BY IdleOK DEF Init, RequestInv
<1>3. Init => StoreInv /\ DeliveredComplete /\ SetupAccounted
  BY DEF Init, StoreInv, DeliveredComplete, SetupAccounted, Complete
<1> QED BY <1>1, <1>2, <1>3 DEF IndInv

\* What a slot holds.
LEMMA SlotOK ==
  ASSUME IndInv, NEW p \in Handlers
  PROVE  req[p] \in Request /\ Carries(req[p]) /\ Stored \subseteq Admins
BY DEF IndInv, TypeOK, RequestInv, Stored

\* What was handed over stays complete, and the administrator behind a completed setup is
\* accounted for if the request that closed it goes on.
LEMMA GrowsComplete ==
  ASSUME IndInv, Grows, UNCHANGED values, completed' = completed,
         NEW p \in Handlers, NEW r, req' = [req EXCEPT ![p] = r],
         Closes(req[p]) => Closes(r) /\ r.id = req[p].id
  PROVE  DeliveredComplete' /\ SetupAccounted' /\ withheld' \subseteq Admins
<1>1. DeliveredComplete' /\ withheld' \subseteq Admins
  BY CompleteGrows DEF IndInv, TypeOK, DeliveredComplete, values
<1>2. SetupAccounted'
  BY StillAccounted DEF values
<1> QED BY <1>1, <1>2

\* Begin starts from an idle slot with nothing read.
LEMMA BeginOK ==
  ASSUME NEW o \in Operations, NEW l \in Labels, NEW k \in Admins \union {None}
  PROVE  [pc |-> l, op |-> o, id |-> k, copy |-> "absent"] \in Request
BY DEF Request, Statuses

\* A new administrator, in the slot that creates it.
LEMMA StoreKeyInd ==
  ASSUME IndInv, NEW p \in Handlers, NEW k \in Admins, StoreKey(k),
         UNCHANGED <<atomic, completed, log, values>>, ~Closes(req[p]),
         NEW r \in Request, req' = [req EXCEPT ![p] = r], r.pc = StoredLabel, r.id = k
  PROVE  IndInv'
<1>1. Stored' = Stored \union {k} /\ status' \in [Admins -> Statuses]
  BY StatusGrows DEF IndInv, StoreKey
<1>2. Grows
  BY <1>1 DEF StoreKey, Grows
<1>3. StoreInv'
  BY <1>1 DEF IndInv, StoreKey, StoreInv
<1>4. Carries(r)'
  BY <1>1 DEF StoreKey, StoredLabel, Carries
<1>5. owners' \subseteq Admins /\ log' \subseteq Operations \X Admins /\ completed' \in BOOLEAN
  BY DEF IndInv, TypeOK, StoreKey
<1> QED BY <1>1, <1>2, <1>3, <1>4, <1>5, GrowsComplete, SlotInd

LEMMA NextInd == ASSUME IndInv, [Next]_vars PROVE IndInv'
<1> USE DEF At
<1>1. ASSUME NEW p \in Handlers, PutLookup(p) PROVE IndInv'
  <2>1. req[p].id \in Stored /\ req[p] \in Request /\ Stored \subseteq Admins
    BY <1>1, SlotOK DEF PutLookup, Carries
  <2>2. PICK r \in Request : r = [req[p] EXCEPT !.pc = "put_lookup"] /\ req' = [req EXCEPT ![p] = r]
    BY <1>1, <2>1 DEF PutLookup, Goto, Request, Labels
  <2>3. Grows /\ Stored' = Stored
    BY <1>1 DEF PutLookup, Grows, Stored
  <2>4. StoreInv'
    BY <1>1, <2>1, <2>3 DEF PutLookup, StoreInv, IndInv
  <2>5. Carries(r)'
    BY <2>2, <1>1, <2>1, <2>3 DEF PutLookup, Carries, Request
  <2>7. ~Closes(req[p])
    BY <1>1 DEF PutLookup, Closes
  <2> QED BY <1>1, <2>2, <2>3, <2>4, <2>5, <2>7, GrowsComplete, SlotInd DEF PutLookup, IndInv, TypeOK
<1>2. ASSUME NEW p \in Handlers, PutOwner(p) PROVE IndInv'
  <2>1. /\ req[p].id \in Stored \intersect lookup
        /\ req[p] \in Request /\ Stored \subseteq Admins
    BY <1>2, SlotOK DEF PutOwner, Carries
  <2>2. PICK r \in Request : r = [req[p] EXCEPT !.pc = "put_owner"] /\ req' = [req EXCEPT ![p] = r]
    BY <1>2, <2>1 DEF PutOwner, Goto, Request, Labels
  <2>3. Grows /\ Stored' = Stored
    BY <1>2 DEF PutOwner, Grows, Stored
  <2>4. StoreInv' /\ owners' \subseteq Admins
    BY <1>2, <2>1, <2>3 DEF PutOwner, StoreInv, IndInv, TypeOK
  <2>5. Carries(r)'
    BY <2>2, <1>2, <2>1, <2>3 DEF PutOwner, Carries, Request
  <2>7. ~Closes(req[p])
    BY <1>2 DEF PutOwner, Closes
  <2> QED BY <1>2, <2>2, <2>3, <2>4, <2>5, <2>7, GrowsComplete, SlotInd DEF PutOwner, IndInv, TypeOK
<1>3. ASSUME NEW p \in Handlers, PutIndex(p) PROVE IndInv'
  <2>1. /\ req[p].id \in Stored \intersect lookup \intersect owners
        /\ req[p] \in Request /\ Stored \subseteq Admins
    BY <1>3, SlotOK DEF PutIndex, Carries
  <2>2. PICK r \in Request : r = [req[p] EXCEPT !.pc = "put_index"] /\ req' = [req EXCEPT ![p] = r]
    BY <1>3, <2>1 DEF PutIndex, Goto, Request, Labels
  <2>3. Grows /\ Stored' = Stored
    BY <1>3 DEF PutIndex, Grows, Stored
  <2>4. StoreInv'
    BY <1>3, <2>1, <2>3 DEF PutIndex, StoreInv, IndInv
  <2>5. Carries(r)'
    BY <2>2, <1>3, <2>1, <2>3 DEF PutIndex, Carries, Request
  <2>7. ~Closes(req[p])
    BY <1>3 DEF PutIndex, Closes
  <2> QED BY <1>3, <2>2, <2>3, <2>4, <2>5, <2>7, GrowsComplete, SlotInd DEF PutIndex, IndInv, TypeOK
<1>4. ASSUME NEW p \in Handlers, Create(p) PROVE IndInv'
  <2>1. PICK k \in Admins : StoreKey(k) /\ Begin(p, "create", StoredLabel, k)
    BY <1>4 DEF Create
  <2> DEFINE r == [pc |-> StoredLabel, op |-> "create", id |-> k, copy |-> "absent"]
  <2>2. r \in Request
    BY BeginOK DEF StoredLabel, Operations, Labels
  <2>3. ~Closes(req[p])
    BY <2>1 DEF Begin, Closes
  <2> QED BY <1>4, <2>1, <2>2, <2>3, StoreKeyInd DEF Create, Begin
<1>5. ASSUME NEW p \in Handlers, HandOver(p) PROVE IndInv'
  <2>1. req[p].id \in Complete
    BY <1>5, SlotOK DEF HandOver, Carries, Complete
  <2>2. DeliveredComplete'
    BY <1>5, <2>1 DEF HandOver, IndInv, DeliveredComplete, store, Complete, Stored
  <2>9. /\ delivered \subseteq delivered' /\ withheld \subseteq withheld'
        /\ withheld' \subseteq Admins
        /\ Closes(req[p]) => req[p].id \in delivered' \union withheld'
    BY <1>5, SlotOK DEF HandOver, IndInv, TypeOK, Closes, values
  <2> QED BY <2>9, <1>5, <2>2, IdleOK, StillInd DEF HandOver, Return
<1>6. ASSUME NEW p \in Handlers, SetupStart(p) PROVE IndInv'
  <2> DEFINE r == [pc |-> "get_flag", op |-> "setup", id |-> None, copy |-> "absent"]
  <2>1. r \in Request
    BY BeginOK DEF Operations, Labels
  <2>2. Carries(r)
    BY DEF Carries
  <2>3. UNCHANGED store /\ DeliveredComplete'
    BY <1>6 DEF SetupStart, IndInv, DeliveredComplete, values, store, Complete, Stored
  <2>9. /\ delivered \subseteq delivered' /\ withheld \subseteq withheld'
        /\ withheld' \subseteq Admins
        /\ Closes(req[p]) => req[p].id \in delivered' \union withheld'
    BY <1>6 DEF SetupStart, Begin, IndInv, TypeOK, Closes, values
  <2> QED BY <2>9, <1>6, <2>1, <2>2, <2>3, StillInd DEF SetupStart, Begin
<1>7. ASSUME NEW p \in Handlers, SetupCreate(p) PROVE IndInv'
  <2>1. PICK k \in Admins :
          StoreKey(k) /\ req' = [req EXCEPT ![p].pc = StoredLabel, ![p].id = k]
    BY <1>7 DEF SetupCreate
  <2> DEFINE r == [req[p] EXCEPT !.pc = StoredLabel, !.id = k]
  <2>2. req[p] \in Request
    BY SlotOK
  <2>3. r \in Request /\ r.pc = StoredLabel /\ r.id = k /\ req' = [req EXCEPT ![p] = r]
    BY <2>1, <2>2 DEF Request, StoredLabel, Labels
  <2> HIDE DEF r
  <2>4. ~Closes(req[p])
    BY <1>7 DEF SetupCreate, Closes
  <2> QED BY <1>7, <2>1, <2>3, <2>4, StoreKeyInd DEF SetupCreate
<1>8. ASSUME NEW p \in Handlers, SetupMark(p) PROVE IndInv'
  <2>1. req[p].id \in Complete /\ req[p] \in Request
    BY <1>8, SlotOK DEF SetupMark, Carries, Complete
  <2>2. PICK r \in Request : r = [req[p] EXCEPT !.pc = "put_flag"] /\ req' = [req EXCEPT ![p] = r]
    BY <1>8, <2>1 DEF SetupMark, Goto, Request, Labels
  <2>3. Grows /\ Complete' = Complete /\ Stored' = Stored
    BY <1>8 DEF SetupMark, Grows, Complete, Stored
  <2>4. StoreInv' /\ DeliveredComplete' /\ withheld' \subseteq Admins
    BY <1>8, <2>3 DEF SetupMark, IndInv, TypeOK, StoreInv, DeliveredComplete, values
  <2>6. SetupAccounted'
    <3>1. req'[p] = r
      BY <2>2 DEF IndInv, TypeOK
    <3>2. Closes(req'[p]) /\ req'[p].id \in Complete'
      BY <1>8, <2>1, <2>2, <2>3, <3>1 DEF SetupMark, Closes, Request
    <3> QED BY <3>2 DEF SetupAccounted, Closes
  <2>5. Carries(r)'
    BY <2>2, <1>8, <2>1, <2>3 DEF SetupMark, Carries, Request, Complete
  <2> QED BY <1>8, <2>2, <2>3, <2>4, <2>5, <2>6, SlotInd DEF SetupMark, IndInv, TypeOK
<1>9. ASSUME NEW p \in Handlers, RevokeStart(p) PROVE IndInv'
  <2>1. PICK k \in index : Begin(p, "revoke", "get_index", k)
    BY <1>9 DEF RevokeStart
  <2> DEFINE r == [pc |-> "get_index", op |-> "revoke", id |-> k, copy |-> "absent"]
  <2>2. k \in Stored /\ k \in Admins
    BY DEF IndInv, StoreInv, TypeOK
  <2>3. r \in Request /\ Carries(r)
    BY <2>2, BeginOK DEF Operations, Labels, Carries
  <2>4. UNCHANGED store /\ DeliveredComplete'
    BY <1>9 DEF RevokeStart, IndInv, DeliveredComplete, values, store, Complete, Stored
  <2>9. /\ delivered \subseteq delivered' /\ withheld \subseteq withheld'
        /\ withheld' \subseteq Admins
        /\ Closes(req[p]) => req[p].id \in delivered' \union withheld'
    BY <1>9 DEF RevokeStart, Begin, IndInv, TypeOK, Closes, values
  <2> QED BY <2>9, <1>9, <2>1, <2>3, <2>4, StillInd DEF RevokeStart, Begin
<1>10. ASSUME NEW p \in Handlers, RevokeLoad(p) \/ ValidateLoad(p) PROVE IndInv'
  <2> DEFINE r == [req[p] EXCEPT !.pc = "get_key", !.copy = status[req[p].id]]
  <2>1. req[p].id \in Stored /\ req[p] \in Request /\ Stored \subseteq Admins
    BY <1>10, SlotOK DEF RevokeLoad, ValidateLoad, Carries
  <2>2. status[req[p].id] \in Statuses \ {"absent"}
    BY <2>1 DEF IndInv, TypeOK, Stored
  <2>3. r \in Request /\ req' = [req EXCEPT ![p] = r]
    BY <1>10, <2>1, <2>2 DEF RevokeLoad, ValidateLoad, Request, Labels
  <2>4. Carries(r)
    BY <2>1, <2>2 DEF Carries, Request
  <2>5. UNCHANGED <<atomic, store>> /\ DeliveredComplete'
    BY <1>10 DEF RevokeLoad, ValidateLoad, IndInv, DeliveredComplete, values, store, Complete, Stored
  <2> HIDE DEF r
  <2>9. /\ delivered \subseteq delivered' /\ withheld \subseteq withheld'
        /\ withheld' \subseteq Admins
        /\ Closes(req[p]) => req[p].id \in delivered' \union withheld'
    BY <1>10 DEF RevokeLoad, ValidateLoad, IndInv, TypeOK, Closes, values
  <2> QED BY <2>9, <2>3, <2>4, <2>5, StillInd
<1>11. ASSUME NEW p \in Handlers, RevokeWrite(p) PROVE IndInv'
  <2>1. req[p].id \in Stored /\ req[p] \in Request /\ Stored \subseteq Admins
    BY <1>11, SlotOK DEF RevokeWrite, Carries
  <2>2. PICK r \in Request : r = [req[p] EXCEPT !.pc = "put_revoked"] /\ req' = [req EXCEPT ![p] = r]
    BY <1>11, <2>1 DEF RevokeWrite, Goto, Request, Labels
  <2>6. Stored' = Stored \union {req[p].id} /\ status' \in [Admins -> Statuses]
    <3>1. status' = [status EXCEPT ![req[p].id] = "revoked"] /\ TypeOK
      BY <1>11 DEF RevokeWrite, IndInv
    <3> QED BY <2>1, <3>1, StatusGrows
  <2>3. Stored' = Stored /\ status' \in [Admins -> Statuses]
    BY <2>1, <2>6
  <2>4. Grows /\ StoreInv'
    BY <1>11, <2>3 DEF RevokeWrite, Grows, IndInv, StoreInv
  <2>5. Carries(r)'
    BY <2>2, <1>11, <2>1, <2>3 DEF RevokeWrite, Carries, Request
  <2>7. ~Closes(req[p])
    BY <1>11 DEF RevokeWrite, Closes
  <2> QED BY <1>11, <2>2, <2>3, <2>4, <2>5, <2>7, GrowsComplete, SlotInd DEF RevokeWrite, IndInv, TypeOK
<1>12. ASSUME NEW p \in Handlers, RevokeSkip(p) \/ Ends(p) PROVE IndInv'
  <2>1. UNCHANGED <<atomic, store>> /\ DeliveredComplete'
    BY <1>12 DEF RevokeSkip, Ends, IndInv, DeliveredComplete, values, store, Complete, Stored
  <2>8. Closes(req[p]) => req[p].id \in Admins
    BY SlotOK DEF Closes, Carries
  <2>9. /\ delivered \subseteq delivered' /\ withheld \subseteq withheld'
        /\ withheld' \subseteq Admins
        /\ Closes(req[p]) => req[p].id \in delivered' \union withheld'
    BY <1>12, <2>8 DEF RevokeSkip, Ends, IndInv, TypeOK, Closes, values
  <2> QED BY <2>9, <1>12, <2>1, IdleOK, StillInd DEF RevokeSkip, Ends, Return
<1>13. ASSUME NEW p \in Handlers, LogEntry(p) PROVE IndInv'
  <2>1. req[p].id \in Stored /\ req[p] \in Request /\ Carries(req[p]) /\ Stored \subseteq Admins
    BY <1>13, SlotOK DEF LogEntry, Carries
  <2>2. PICK r \in Request : r = [req[p] EXCEPT !.pc = "put_log"] /\ req' = [req EXCEPT ![p] = r]
    BY <1>13, <2>1 DEF LogEntry, Goto, Request, Labels
  <2>3. Grows /\ Stored' = Stored /\ Complete' = Complete
    BY <1>13 DEF LogEntry, Grows, Stored, Complete
  <2>4. StoreInv' /\ log' \subseteq Operations \X Admins
    BY <1>13, <2>1, <2>3 DEF LogEntry, StoreInv, IndInv, TypeOK, Request
  <2>5. req[p].op = "setup" => req[p].id \in Complete
    BY <1>13, <2>1 DEF LogEntry, Carries, Complete
  <2>6. Carries(r)'
    BY <2>2, <2>1, <2>3, <2>5 DEF Carries, Request
  <2>7. Closes(req[p]) => Closes(r) /\ r.id = req[p].id
    BY <2>1, <2>2 DEF Closes, Request
  <2> QED BY <1>13, <2>2, <2>3, <2>4, <2>6, <2>7, GrowsComplete, SlotInd DEF LogEntry, IndInv, TypeOK
<1>14. ASSUME NEW p \in Handlers, Answer(p) PROVE IndInv'
  <2>1. req[p].op = "setup" => req[p].id \in Complete
    BY <1>14, SlotOK DEF Answer, Carries
  <2>2. DeliveredComplete'
    BY <1>14, <2>1 DEF Answer, IndInv, DeliveredComplete, store, Complete, Stored
  <2>9. /\ delivered \subseteq delivered' /\ withheld \subseteq withheld'
        /\ withheld' \subseteq Admins
        /\ Closes(req[p]) => req[p].id \in delivered' \union withheld'
    BY <1>14 DEF Answer, IndInv, TypeOK, Closes, values
  <2> QED BY <2>9, <1>14, <2>2, IdleOK, StillInd DEF Answer, Return
<1>15. ASSUME NEW p \in Handlers, ValidateStart(p) PROVE IndInv'
  <2>1. PICK k \in delivered \intersect lookup : Begin(p, "validate", "get_lookup", k)
    BY <1>15 DEF ValidateStart
  <2> DEFINE r == [pc |-> "get_lookup", op |-> "validate", id |-> k, copy |-> "absent"]
  <2>2. k \in Stored /\ k \in Admins
    BY DEF IndInv, StoreInv, TypeOK
  <2>3. r \in Request /\ Carries(r)
    BY <2>2, BeginOK DEF Operations, Labels, Carries
  <2>4. UNCHANGED store /\ DeliveredComplete'
    BY <1>15 DEF ValidateStart, IndInv, DeliveredComplete, values, store, Complete, Stored
  <2>9. /\ delivered \subseteq delivered' /\ withheld \subseteq withheld'
        /\ withheld' \subseteq Admins
        /\ Closes(req[p]) => req[p].id \in delivered' \union withheld'
    BY <1>15 DEF ValidateStart, Begin, IndInv, TypeOK, Closes, values
  <2> QED BY <2>9, <1>15, <2>1, <2>3, <2>4, StillInd DEF ValidateStart, Begin
<1>16. ASSUME NEW p \in Handlers, ValidateReject(p) PROVE IndInv'
  <2>1. req[p].copy # "absent"
    BY <1>16, SlotOK DEF ValidateReject, Carries
  <2>2. UNCHANGED <<atomic, store>> /\ delivered' = delivered
    BY <1>16, <2>1 DEF ValidateReject, store, values
  <2>3. DeliveredComplete'
    BY <2>2 DEF IndInv, DeliveredComplete, store, Complete, Stored
  <2>9. /\ delivered \subseteq delivered' /\ withheld \subseteq withheld'
        /\ withheld' \subseteq Admins
        /\ Closes(req[p]) => req[p].id \in delivered' \union withheld'
    BY <1>16 DEF ValidateReject, IndInv, TypeOK, Closes, values
  <2> QED BY <2>9, <1>16, <2>2, <2>3, IdleOK, StillInd DEF ValidateReject, Return
<1>17. ASSUME NEW p \in Handlers, ValidateAccept(p) PROVE IndInv'
  <2> DEFINE r == [req[p] EXCEPT !.pc = "unawaited"]
  <2>1. req[p] \in Request /\ Carries(req[p])
    BY SlotOK
  <2>2. r \in Request /\ req' = [req EXCEPT ![p] = r]
    BY <1>17, <2>1 DEF ValidateAccept, Goto, Request, Labels
  <2>3. Carries(r)
    BY <1>17, <2>1 DEF ValidateAccept, Carries, Request
  <2>4. UNCHANGED <<atomic, store>> /\ DeliveredComplete'
    BY <1>17 DEF ValidateAccept, IndInv, DeliveredComplete, values, store, Complete, Stored
  <2> HIDE DEF r
  <2>9. /\ delivered \subseteq delivered' /\ withheld \subseteq withheld'
        /\ withheld' \subseteq Admins
        /\ Closes(req[p]) => req[p].id \in delivered' \union withheld'
    BY <1>17 DEF ValidateAccept, IndInv, TypeOK, Closes, values
  <2> QED BY <2>9, <2>2, <2>3, <2>4, StillInd
<1>18. ASSUME NEW p \in Handlers, WriteLands(p) PROVE IndInv'
  <2>1. req[p].id \in Stored /\ req[p].copy = "active" /\ Stored \subseteq Admins
    BY <1>18, SlotOK DEF WriteLands, Carries
  <2>5. Stored' = Stored \union {req[p].id} /\ status' \in [Admins -> Statuses]
    <3>1. status' = [status EXCEPT ![req[p].id] = "active"] /\ TypeOK
      BY <1>18, <2>1 DEF WriteLands, IndInv
    <3> QED BY <2>1, <3>1, StatusGrows
  <2>2. Stored' = Stored /\ status' \in [Admins -> Statuses]
    BY <2>1, <2>5
  <2>3. Grows /\ StoreInv'
    BY <1>18, <2>2 DEF WriteLands, Grows, IndInv, StoreInv
  <2>4. Carries(Idle)'
    BY DEF Carries, Idle
  <2>6. ~Closes(req[p])
    BY <1>18 DEF WriteLands, Closes
  <2> QED BY <1>18, <2>2, <2>3, <2>4, <2>6, IdleOK, GrowsComplete, SlotInd
          DEF WriteLands, Return, IndInv, TypeOK
<1>19. CASE UNCHANGED vars
  BY <1>19 DEF vars, store, values, IndInv, TypeOK, StoreInv, DeliveredComplete, SetupAccounted,
              Closes, RequestInv, Carries, Complete, Stored
<1> QED BY <1>1, <1>2, <1>3, <1>4, <1>5, <1>6, <1>7, <1>8, <1>9, <1>10, <1>11, <1>12, <1>13,
           <1>14, <1>15, <1>16, <1>17, <1>18, <1>19 DEF Next

----------------------------------------------------------------------------
(* The theorems *)

\* The invariant holds in every reachable state.
LEMMA Inductive == Spec => []IndInv
<1>1. Init => IndInv
  BY InitInd
<1>2. IndInv /\ [Next]_vars => IndInv'
  BY NextInd
<1> QED BY <1>1, <1>2, PTL DEF Spec

\* Every variable keeps its type.
THEOREM TypeCorrect == Spec => []TypeOK
<1>1. IndInv => TypeOK
  BY DEF IndInv
<1> QED BY <1>1, Inductive, PTL

\* A key that was handed over can be found by its value and revoked through the index
\* of administrators, for ever, although its entries are written one by one and any
\* write may fail (createApiKey).
THEOREM DeliveredIsComplete == Spec => []DeliveredComplete
<1>1. IndInv => DeliveredComplete
  BY DEF IndInv
<1> QED BY <1>1, Inductive, PTL

\* A revocation stays settled when the record stays revoked and the slot that moves
\* takes no active copy of it.
LEMMA SlotSettled ==
  ASSUME TypeOK, NEW k \in Admins, Settled(k), status'[k] = "revoked",
         NEW p \in Handlers, NEW r, req' = [req EXCEPT ![p] = r],
         r.id = k => r.copy # "active"
  PROVE  Settled(k)'
<1>1. \A q \in Handlers : req'[q] = IF q = p THEN r ELSE req[q]
  BY DEF TypeOK
<1> QED BY <1>1 DEF Settled

LEMMA NextSettled ==
  ASSUME IndInv, [Next]_vars, NEW k \in Admins, Settled(k) PROVE Settled(k)'
<1> USE DEF At
<1>0. TypeOK /\ status[k] = "revoked"
  BY DEF IndInv, Settled
<1>1. ASSUME NEW p \in Handlers,
             \/ PutLookup(p) \/ PutOwner(p) \/ PutIndex(p) \/ SetupMark(p)
             \/ LogEntry(p) \/ ValidateAccept(p)
      PROVE  Settled(k)'
  <2>1. PICK l : req' = [req EXCEPT ![p] = [req[p] EXCEPT !.pc = l]]
    BY <1>0, <1>1 DEF PutLookup, PutOwner, PutIndex, SetupMark, LogEntry, ValidateAccept, Goto
  <2>2. /\ [req[p] EXCEPT !.pc = l].id = req[p].id
        /\ [req[p] EXCEPT !.pc = l].copy = req[p].copy
    BY <1>0 DEF TypeOK, Request
  <2>3. status' = status
    BY <1>1 DEF PutLookup, PutOwner, PutIndex, SetupMark, LogEntry, ValidateAccept, store
  <2>4. req[p].id = k => req[p].copy # "active"
    BY DEF Settled
  <2> QED BY <1>0, <2>1, <2>2, <2>3, <2>4, SlotSettled
<1>2. ASSUME NEW p \in Handlers, RevokeWrite(p) PROVE Settled(k)'
  <2>1. /\ req' = [req EXCEPT ![p] = [req[p] EXCEPT !.pc = "put_revoked"]]
        /\ status'[k] = "revoked"
    BY <1>0, <1>2 DEF RevokeWrite, Goto, TypeOK
  <2>2. /\ [req[p] EXCEPT !.pc = "put_revoked"].id = req[p].id
        /\ [req[p] EXCEPT !.pc = "put_revoked"].copy = req[p].copy
    BY <1>0 DEF TypeOK, Request
  <2>3. req[p].id = k => req[p].copy # "active"
    BY DEF Settled
  <2> QED BY <1>0, <2>1, <2>2, <2>3, SlotSettled
<1>3. ASSUME NEW p \in Handlers,
             \/ HandOver(p) \/ RevokeSkip(p) \/ Ends(p) \/ Answer(p) \/ ValidateReject(p)
      PROVE  Settled(k)'
  <2>1. req' = [req EXCEPT ![p] = Idle] /\ status' = status
    BY <1>3 DEF HandOver, RevokeSkip, Ends, Answer, ValidateReject, Return, store
  <2> QED BY <1>0, <2>1, SlotSettled DEF Idle
<1>4. ASSUME NEW p \in Handlers, SetupStart(p) \/ RevokeStart(p) \/ ValidateStart(p)
      PROVE  Settled(k)'
  <2>1. PICK l, o, i : Begin(p, o, l, i)
    BY <1>4 DEF SetupStart, RevokeStart, ValidateStart
  <2>2. status' = status
    BY <1>4 DEF SetupStart, RevokeStart, ValidateStart, store
  <2> QED BY <1>0, <2>1, <2>2, SlotSettled DEF Begin
<1>5. ASSUME NEW p \in Handlers, Create(p) \/ SetupCreate(p) PROVE Settled(k)'
  <2>1. PICK j \in Admins :
          /\ StoreKey(j)
          /\ \/ Begin(p, "create", StoredLabel, j)
             \/ req' = [req EXCEPT ![p].pc = StoredLabel, ![p].id = j]
    BY <1>5 DEF Create, SetupCreate
  <2>2. j # k /\ status'[k] = "revoked"
    BY <1>0, <2>1 DEF StoreKey, TypeOK
  <2>3. CASE Begin(p, "create", StoredLabel, j)
    BY <1>0, <2>2, <2>3, SlotSettled DEF Begin
  <2>4. CASE req' = [req EXCEPT ![p].pc = StoredLabel, ![p].id = j]
    <3>1. req' = [req EXCEPT ![p] = [req[p] EXCEPT !.pc = StoredLabel, !.id = j]]
      BY <1>0, <2>4 DEF TypeOK
    <3>2. [req[p] EXCEPT !.pc = StoredLabel, !.id = j].id = j
      BY <1>0 DEF TypeOK, Request
    <3> QED BY <1>0, <2>2, <3>1, <3>2, SlotSettled
  <2> QED BY <2>1, <2>3, <2>4
<1>6. ASSUME NEW p \in Handlers, RevokeLoad(p) \/ ValidateLoad(p) PROVE Settled(k)'
  <2>1. /\ req' = [req EXCEPT ![p] = [req[p] EXCEPT !.pc = "get_key", !.copy = status[req[p].id]]]
        /\ status' = status
    BY <1>0, <1>6 DEF RevokeLoad, ValidateLoad, TypeOK, store
  <2>2. /\ [req[p] EXCEPT !.pc = "get_key", !.copy = status[req[p].id]].id = req[p].id
        /\ [req[p] EXCEPT !.pc = "get_key", !.copy = status[req[p].id]].copy = status[req[p].id]
    BY <1>0 DEF TypeOK, Request
  <2> QED BY <1>0, <2>1, <2>2, SlotSettled
<1>7. ASSUME NEW p \in Handlers, WriteLands(p) PROVE Settled(k)'
  <2>1. req[p].copy = "active"
    BY <1>7, SlotOK DEF WriteLands, Carries
  <2>2. req[p].id # k
    BY <2>1 DEF Settled
  <2>3. req' = [req EXCEPT ![p] = Idle] /\ status'[k] = "revoked"
    BY <1>0, <1>7, <2>2 DEF WriteLands, Return, TypeOK
  <2> QED BY <1>0, <2>3, SlotSettled DEF Idle
<1>8. CASE UNCHANGED vars
  BY <1>8 DEF vars, store, Settled
<1> QED BY <1>1, <1>2, <1>3, <1>4, <1>5, <1>6, <1>7, <1>8 DEF Next

\* Once no request in flight still holds a copy of an active record, a revocation is
\* final: the write-backs of validations started later never undo it.
THEOREM RevocationFinalOnceSettled == Spec => RevocationSettles
<1>1. IndInv /\ [Next]_vars => [\A k \in Admins : Settled(k) => Settled(k)']_vars
  BY NextSettled
<1> QED BY <1>1, Inductive, PTL DEF Spec, RevocationSettles

\* Setup closes only behind an administrator that is stored completely, and whose value
\* was answered, is about to be, or was lost with a setup that failed after it had closed
\* (handleSetup).
THEOREM SetupIsAccounted == Spec => []SetupAccounted
<1>1. IndInv => SetupAccounted
  BY DEF IndInv
<1> QED BY <1>1, Inductive, PTL

====

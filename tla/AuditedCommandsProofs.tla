---- MODULE AuditedCommandsProofs ----
(***************************************************************************)
(* Theorems about AuditedCommands, for every set of administrators, keys   *)
(* and log ids, any number of requests at once and of failures, and both   *)
(* places the log is kept in.                                              *)
(***************************************************************************)
EXTENDS AuditedCommands, TLAPS

(* Types *)

LEMMA InitType == Init => TypeOK
BY CommandAssumption DEF Init, TypeOK, Statuses, Idle, Request, Labels, Actions, ObjectActions

LEMMA EntryThere == ASSUME NEW e \in Entry PROVE e # NoEntry
<1>1. e.by \in Admins
  BY DEF Entry
<1> QED BY <1>1, CommandAssumption DEF NoEntry

LEMMA EndType ==
  ASSUME TypeOK, NEW p \in Handlers, End(p)
  PROVE  req' \in [Handlers -> Request] /\ unlogged' \in Nat
<1>1. Idle \in Request
  BY DEF Idle, Request, Labels, Actions, ObjectActions, Statuses
<1> QED BY <1>1 DEF TypeOK, End

\* A controller builds a request of its type.
LEMMA ExecuteType ==
  ASSUME TypeOK, NEW p \in Handlers, NEW action \in Actions, NEW t \in Targets \union {None},
         NEW by \in Admins \union {None}, NEW adminId \in Admins \union {None},
         execute(p, action, t, by, adminId)
  PROVE  TypeOK'
<1> DEFINE c == IF t = None THEN "absent" ELSE status[t]
           r == [Idle EXCEPT !.pc = "perform", !.action = action, !.target = t,
                             !.awaited = TRUE, !.copy = c, !.by = by, !.adminId = adminId]
<1>1. c \in Statuses
  BY DEF TypeOK, Statuses
<1>2. r \in Request
  <2> HIDE DEF c
  <2> QED BY <1>1 DEF Idle, Request, Labels
<1>3. req' = [req EXCEPT ![p] = r]
  BY DEF execute
<1> HIDE DEF r
<1> QED BY <1>2, <1>3 DEF execute, TypeOK, logs

\* The slot of a handler that has performed its operation.
LEMMA PerformSlot ==
  ASSUME TypeOK, NEW p \in Handlers, NEW t, NEW outcome \in Statuses,
         NEW admin \in Admins \union {None}, Perform(p, t, outcome, admin)
  PROVE  \E r \in Request :
           /\ req' = [req EXCEPT ![p] = r]
           /\ r.changed = (outcome # req[p].copy) /\ r.logFor = admin
           /\ r.action = req[p].action /\ r.by = req[p].by /\ r.adminId = req[p].adminId
           /\ r.pc = IF admin # None THEN "put_entry" ELSE "answer"
<1> DEFINE l == IF admin # None THEN "put_entry" ELSE "answer"
           r == [req[p] EXCEPT !.changed = (outcome # req[p].copy), !.logFor = admin, !.pc = l]
<1>1. l \in Labels /\ (outcome # req[p].copy) \in BOOLEAN /\ req[p] \in Request
  BY DEF Labels, TypeOK
<1>2. req' = [req EXCEPT ![p] = r]
  BY DEF Perform, TypeOK
<1> HIDE DEF l
<1>3. r \in Request
  BY <1>1 DEF Request
<1>4. /\ r.changed = (outcome # req[p].copy) /\ r.logFor = admin /\ r.pc = l
      /\ r.action = req[p].action /\ r.by = req[p].by /\ r.adminId = req[p].adminId
  BY <1>1 DEF Request
<1> QED BY <1>2, <1>3, <1>4 DEF l

LEMMA PerformType ==
  ASSUME TypeOK, NEW p \in Handlers, NEW t, NEW outcome \in Statuses,
         NEW admin \in Admins \union {None}, Perform(p, t, outcome, admin)
  PROVE  TypeOK'
<1>1. req' \in [Handlers -> Request]
  BY PerformSlot DEF TypeOK
<1>2. status' \in [Targets -> Statuses]
  BY DEF Perform, TypeOK
<1> QED BY <1>1, <1>2 DEF Perform, TypeOK, logs

\* Every handler refuses, or performs an operation and has it logged for its sender or
\* not at all; one that changes something is logged if operations of its kind are.
Handles(p) ==
  \/ CreateKeyHandler(p) \/ RotateKeyHandler(p) \/ RevokeKeyHandler(p) \/ GetKeyHandler(p)
  \/ ListKeysHandler(p) \/ ListKeysWithCursorHandler(p) \/ CleanupExpiredKeysHandler(p)
  \/ ValidateKeyHandler(p) \/ SetUp(p) \/ CreateAdmin(p) \/ RevokeAdmin(p) \/ ListAdmins(p)

\* What a handler may have logged of a request, which leaves its target as outcome.
MayLog(r, outcome, admin) ==
  /\ admin # None => admin = Sender(r)
  /\ outcome # r.copy => admin # None \/ r.action \notin LoggedActions

LEMMA HandlerSteps ==
  ASSUME TypeOK, NEW p \in Handlers, Carries(req[p]), Handles(p)
  PROVE  /\ At(p, "perform") /\ ~req[p].changed
         /\ \/ Refuse(p)
            \/ \E t \in Targets \union {None}, outcome \in Statuses, admin \in Admins \union {None} :
                 Perform(p, t, outcome, admin) /\ MayLog(req[p], outcome, admin)
<1> DEFINE Performs ==
             \E t \in Targets \union {None}, outcome \in Statuses, admin \in Admins \union {None} :
               Perform(p, t, outcome, admin) /\ MayLog(req[p], outcome, admin)
<1>1. At(p, "perform") /\ ~req[p].changed /\ Signed(req[p])
  BY DEF Handles, CreateKeyHandler, RotateKeyHandler, RevokeKeyHandler, GetKeyHandler,
         ListKeysHandler, ListKeysWithCursorHandler, CleanupExpiredKeysHandler,
         ValidateKeyHandler, SetUp, CreateAdmin, RevokeAdmin, ListAdmins, Runs, At, Carries
<1>2. /\ req[p].copy \in Statuses /\ req[p].target \in Targets \union {None}
      /\ req[p].by \in Admins \union {None} /\ req[p].adminId \in Admins \union {None}
      /\ {"active", "rotated", "revoked"} \subseteq Statuses
  BY DEF TypeOK, Request, Statuses
<1>3. None \notin Admins
  BY CommandAssumption
<1>4. ASSUME req[p].by \in Admins, Issue(p, req[p].by) PROVE Performs
  BY <1>2, <1>3, <1>4 DEF Issue, MayLog, Sender
<1>5. ASSUME NEW outcome \in {"rotated", "revoked"}, req[p].by \in Admins,
             Perform(p, req[p].target, outcome, req[p].by)
      PROVE  Performs
  BY <1>2, <1>3, <1>5 DEF MayLog, Sender
<1>6. ASSUME req[p].by = None, req[p].adminId \in Admins, Report(p, req[p].adminId)
      PROVE  Performs
  BY <1>2, <1>3, <1>6 DEF Report, MayLog, Sender
<1>7. ASSUME req[p].action \notin LoggedActions, Report(p, None) PROVE Performs
  BY <1>2, <1>3, <1>7 DEF Report, MayLog
<1> HIDE DEF Performs
<1>8. ASSUME CreateKeyHandler(p) \/ SetUp(p) PROVE Refuse(p) \/ Performs
  BY <1>1, <1>4, <1>8 DEF CreateKeyHandler, SetUp, Runs, Signed
<1>9. ASSUME CreateAdmin(p) PROVE Refuse(p) \/ Performs
  <2>1. req[p].action \notin LoggedActions
    BY <1>9 DEF CreateAdmin, Runs, LoggedActions
  <2>2. CASE Issue(p, None)
    BY <1>2, <2>1, <2>2 DEF Performs, Issue, MayLog
  <2> QED BY <1>1, <1>9, <2>2 DEF CreateAdmin
<1>10. ASSUME RotateKeyHandler(p) \/ RevokeKeyHandler(p) \/ RevokeAdmin(p) PROVE Refuse(p) \/ Performs
  BY <1>1, <1>5, <1>10 DEF RotateKeyHandler, RevokeKeyHandler, RevokeAdmin, Runs, Signed
<1>11. ASSUME CleanupExpiredKeysHandler(p) PROVE Refuse(p) \/ Performs
  <2>1. req[p].by = None /\ req[p].adminId \in Admins
    BY <1>1, <1>11 DEF CleanupExpiredKeysHandler, Runs, Signed
  <2>2. CASE Perform(p, req[p].target, "revoked", req[p].adminId)
    BY <1>2, <1>3, <2>1, <2>2 DEF Performs, MayLog, Sender
  <2> QED BY <1>6, <1>11, <2>1, <2>2 DEF CleanupExpiredKeysHandler
<1>12. ASSUME GetKeyHandler(p) \/ ListKeysHandler(p) \/ ListKeysWithCursorHandler(p) PROVE Refuse(p) \/ Performs
  BY <1>1, <1>6, <1>12
     DEF GetKeyHandler, ListKeysHandler, ListKeysWithCursorHandler, Runs, Signed
<1>13. ASSUME ValidateKeyHandler(p) PROVE Refuse(p) \/ Performs
  <2>1. req[p].action \notin LoggedActions
    BY <1>13 DEF ValidateKeyHandler, Runs, LoggedActions
  <2>2. CASE Perform(p, req[p].target, "revoked", None)
    BY <1>2, <2>1, <2>2 DEF Performs, MayLog
  <2> QED BY <1>7, <1>13, <2>1, <2>2 DEF ValidateKeyHandler
<1>14. ASSUME ListAdmins(p) PROVE Refuse(p) \/ Performs
  BY <1>7, <1>14 DEF ListAdmins, Runs, LoggedActions
<1> QED BY <1>1, <1>8, <1>9, <1>10, <1>11, <1>12, <1>13, <1>14 DEF Handles, Performs

\* Every controller calls execute with the administrator where the handler will look.
Controls(p) ==
  \/ \E a \in Admins : createKey(p, a) \/ listKeys(p, a) \/ listKeysWithCursor(p, a)
                         \/ handleSetup(p, a)
  \/ \E a \in Admins, t \in Targets :
       \/ getKey(p, a, t) \/ revokeKey(p, a, t) \/ rotateKey(p, a, t) \/ runCleanup(p, a, t)
       \/ revokeAdminKey(p, a, t)
  \/ \E t \in Targets : validateKey(p, t)
  \/ createAdminKey(p) \/ listAdminKeys(p)

\* What the handler of an action will look for.
SignedAs(action, by, adminId) ==
  /\ action \in {"create_key", "rotate_key", "revoke_key", "system_setup", "revoke_admin"}
       => by \in Admins
  /\ action \in {"get_key", "list_keys", "list_keys_cursor", "system_maintenance"}
       => by = None /\ adminId \in Admins

LEMMA ControlSteps ==
  ASSUME NEW p \in Handlers, Controls(p)
  PROVE  \E action \in Actions, t \in Targets \union {None}, by \in Admins \union {None},
            adminId \in Admins \union {None} :
              execute(p, action, t, by, adminId) /\ SignedAs(action, by, adminId)
<1> DEFINE Calls(action, t, by, adminId) ==
             execute(p, action, t, by, adminId) /\ SignedAs(action, by, adminId)
           Some == \E action \in Actions, t \in Targets \union {None},
                      by \in Admins \union {None}, adminId \in Admins \union {None} :
                        Calls(action, t, by, adminId)
<1>1. ASSUME NEW a \in Admins, NEW action \in {"create_key", "system_setup"},
             execute(p, action, None, a, None)
      PROVE  Some
  BY <1>1 DEF SignedAs, Actions, ObjectActions, KvActions
<1>2. ASSUME NEW a \in Admins, NEW action \in {"list_keys", "list_keys_cursor"},
             execute(p, action, None, None, a)
      PROVE  Some
  BY <1>2 DEF SignedAs, Actions, ObjectActions, KvActions
<1>3. ASSUME NEW a \in Admins, NEW t \in Targets,
             NEW action \in {"revoke_key", "rotate_key", "revoke_admin"},
             execute(p, action, t, a, None)
      PROVE  Some
  BY <1>3 DEF SignedAs, Actions, ObjectActions, KvActions
<1>4. ASSUME NEW a \in Admins, NEW t \in Targets,
             NEW action \in {"get_key", "system_maintenance"}, execute(p, action, t, None, a)
      PROVE  Some
  BY <1>4 DEF SignedAs, Actions, ObjectActions, KvActions
<1>5. ASSUME NEW t \in Targets \union {None},
             NEW action \in {"validate_key", "create_admin", "list_admins"},
             execute(p, action, t, None, None)
      PROVE  Some
  BY <1>5 DEF SignedAs, Actions, ObjectActions, KvActions
<1> HIDE DEF Some
<1>6. Some
  BY <1>1, <1>2, <1>3, <1>4, <1>5
     DEF Controls, createKey, listKeys, listKeysWithCursor, handleSetup, createAdminKey, getKey,
         revokeKey, rotateKey, runCleanup, revokeAdminKey, validateKey, listAdminKeys
<1> QED BY <1>6 DEF Some

----------------------------------------------------------------------------
(* The invariant *)

\* The log only grows, and nothing in it changes but the date of an index entry.
Grow ==
  /\ medium' = medium
  /\ \A l \in LogIds : /\ entry[l] # NoEntry => entry'[l] = entry[l]
                       /\ byDate[l] # 0 => byDate'[l] # 0
  /\ byAdmin \subseteq byAdmin' /\ byAction \subseteq byAction' /\ critical \subseteq critical'

LEMMA CarriesGrow ==
  ASSUME Grow, NEW r, Carries(r) PROVE Carries(r)'
BY DEF Grow, Carries, Logged, Puts, Signed, Sender

LEMMA CompleteGrow ==
  ASSUME Grow, NEW l \in LogIds, Complete(l) PROVE Complete(l)'
BY DEF Grow, Complete

LEMMA KeptGrow ==
  ASSUME Grow, NEW a, a.log \in LogIds, Kept(a) PROVE Kept(a)'
BY CompleteGrow DEF Grow, Kept, Complete

LEMMA SlotInd ==
  ASSUME IndInv, TypeOK', Grow, NEW p \in Handlers, NEW r, req' = [req EXCEPT ![p] = r],
         Carries(r)', LogInv', UnloggedNeedsFault'
  PROVE  IndInv'
<1>1. ASSUME NEW q \in Handlers PROVE Carries(req[q])'
  <2>1. CASE q = p
    BY <2>1 DEF IndInv, TypeOK
  <2>2. CASE q # p
    <3>1. req'[q] = req[q] /\ Carries(req[q])
      BY <2>2 DEF IndInv, TypeOK, RequestInv
    <3>2. \A x : Carries(x) => Carries(x)'
      BY CarriesGrow
    <3> QED BY <3>1, <3>2 DEF Carries, Signed, Logged, Sender
  <2> QED BY <2>1, <2>2
<1> QED BY <1>1 DEF IndInv, RequestInv

\* Steps that write nothing to the log.
LEMMA QuietLog ==
  ASSUME IndInv, UNCHANGED <<medium, today, logs, answered>> PROVE Grow /\ LogInv'
BY DEF IndInv, Grow, LogInv, IndexesResolve, Kept, Complete, logs

LEMMA InitInd == Init => IndInv
<1> SUFFICES ASSUME Init PROVE IndInv
  OBVIOUS
<1>1. RequestInv
  BY DEF Init, RequestInv, Carries, Idle, Puts, Logged
<1>2. LogInv
  BY DEF Init, LogInv, IndexesResolve
<1> QED BY <1>1, <1>2, InitType DEF IndInv, Init, UnloggedNeedsFault

LEMMA IdleCarries == Carries(Idle)'
BY DEF Carries, Idle, Puts, Logged

LEMMA ControlInd == ASSUME IndInv, NEW p \in Handlers, Controls(p) PROVE IndInv'
<1>1. PICK action \in Actions, t \in Targets \union {None}, by \in Admins \union {None},
           adminId \in Admins \union {None} :
        execute(p, action, t, by, adminId) /\ SignedAs(action, by, adminId)
  BY ControlSteps
<1>2. TypeOK'
  BY <1>1, ExecuteType DEF IndInv
<1>3. PICK r : /\ r = [Idle EXCEPT
                         !.pc = "perform", !.action = action, !.target = t, !.awaited = TRUE,
                         !.copy = IF t = None THEN "absent" ELSE status[t],
                         !.by = by, !.adminId = adminId]
               /\ req' = [req EXCEPT ![p] = r]
  BY <1>1 DEF execute
<1>4. /\ r.pc = "perform" /\ ~r.changed /\ r.action = action /\ r.by = by
      /\ r.adminId = adminId
  BY <1>3 DEF Idle
<1>5. Carries(r)'
  BY <1>1, <1>4 DEF Carries, Signed, SignedAs, Puts, Logged
<1>6. Grow /\ LogInv' /\ UnloggedNeedsFault'
  BY <1>1, QuietLog DEF execute, IndInv, UnloggedNeedsFault
<1> QED BY <1>2, <1>3, <1>5, <1>6, SlotInd

\* A request that ends for another reason than success counts as unlogged only if it
\* changed something.
LEMMA RefuseInd ==
  ASSUME IndInv, NEW p \in Handlers, Refuse(p), ~req[p].changed PROVE IndInv'
<1>1. TypeOK'
  BY EndType DEF Refuse, IndInv, TypeOK, logs
<1>2. unlogged' = unlogged
  BY DEF Refuse, End
<1>3. Grow /\ LogInv' /\ UnloggedNeedsFault'
  BY <1>2, QuietLog DEF Refuse, IndInv, UnloggedNeedsFault
<1> QED BY <1>1, <1>3, IdleCarries, SlotInd DEF Refuse, End

LEMMA HandlerInd == ASSUME IndInv, NEW p \in Handlers, Handles(p) PROVE IndInv'
<1>1. TypeOK /\ Carries(req[p])
  BY DEF IndInv, RequestInv
<1>2. CASE Refuse(p)
  BY <1>1, <1>2, HandlerSteps, RefuseInd
<1>3. ASSUME NEW t \in Targets \union {None}, NEW outcome \in Statuses,
             NEW admin \in Admins \union {None},
             Perform(p, t, outcome, admin), MayLog(req[p], outcome, admin)
      PROVE  IndInv'
  <2>1. TypeOK'
    BY <1>1, <1>3, PerformType
  <2>2. PICK r : /\ req' = [req EXCEPT ![p] = r]
                 /\ r.changed = (outcome # req[p].copy) /\ r.logFor = admin
                 /\ r.action = req[p].action /\ r.by = req[p].by
                 /\ r.adminId = req[p].adminId
                 /\ r.pc = IF admin # None THEN "put_entry" ELSE "answer"
    BY <1>1, <1>3, PerformSlot
  <2>3. Carries(r)'
    BY <1>3, <2>2 DEF Carries, Puts, Logged, MayLog, Sender
  <2>4. Grow /\ LogInv' /\ UnloggedNeedsFault'
    BY <1>3, QuietLog DEF Perform, IndInv, UnloggedNeedsFault
  <2> QED BY <2>1, <2>2, <2>3, <2>4, SlotInd
<1> QED BY <1>1, <1>2, <1>3, HandlerSteps

\* The entry is put under an id no other entry has.
LEMMA PutEntryInd == ASSUME IndInv, NEW p \in Handlers, PutEntry(p) PROVE IndInv'
<1>0. TypeOK /\ LogInv /\ req[p] \in Request
      /\ req[p].logFor \in Admins /\ req[p].logFor = Sender(req[p])
  BY DEF IndInv, RequestInv, TypeOK, Carries, PutEntry, At
<1>1. PICK l, e :
        /\ l \in LogIds
        /\ e = [by |-> req[p].logFor, action |-> req[p].action, day |-> today]
        /\ entry[l] = NoEntry
        /\ entry' = [entry EXCEPT ![l] = e]
        /\ req' = [req EXCEPT ![p].pc = "put_admin", ![p].log = l]
  BY DEF PutEntry
<1>2. e \in Entry
  BY <1>0, <1>1 DEF Entry, TypeOK, Request
<1>3. e # NoEntry
  BY <1>2, EntryThere
<1>4. PICK r : /\ r = [req[p] EXCEPT !.pc = "put_admin", !.log = l]
               /\ req' = [req EXCEPT ![p] = r]
  BY <1>0, <1>1 DEF TypeOK
<1>5. /\ r \in Request /\ r.pc = "put_admin" /\ r.log = l
      /\ r.action = req[p].action /\ r.logFor = req[p].logFor
      /\ r.by = req[p].by /\ r.adminId = req[p].adminId
  BY <1>0, <1>1, <1>4 DEF Request, Labels
<1>6. entry'[l] = e /\ \A m \in LogIds : m # l => entry'[m] = entry[m]
  BY <1>0, <1>1 DEF TypeOK
<1>7. TypeOK'
  <2>1. req' \in [Handlers -> Request]
    BY <1>0, <1>4, <1>5 DEF TypeOK
  <2>2. entry' \in [LogIds -> Entry \union {NoEntry}]
    BY <1>0, <1>1, <1>2 DEF TypeOK
  <2> QED BY <1>0, <2>1, <2>2 DEF TypeOK, PutEntry
<1>8. Grow
  BY <1>1, <1>6 DEF Grow, PutEntry
<1>9. Carries(r)'
  BY <1>0, <1>1, <1>3, <1>5, <1>6 DEF Carries, Puts, Logged, Sender
<1>10. LogInv'
  <2>1. \A m \in LogIds : entry'[m] # NoEntry => entry'[m].day <= today
    BY <1>0, <1>1, <1>6 DEF LogInv, TypeOK
  <2>2. \A a \in answered : Kept(a)'
    BY <1>0, <1>8, KeptGrow DEF LogInv, TypeOK, Receipts
  <2>3. IndexesResolve'
    BY <1>0, <1>1, <1>3, <1>6 DEF LogInv, IndexesResolve, PutEntry
  <2> QED BY <1>0, <2>1, <2>2, <2>3 DEF LogInv, PutEntry
<1> QED BY <1>4, <1>7, <1>8, <1>9, <1>10, SlotInd DEF PutEntry, IndInv, UnloggedNeedsFault

\* A step that puts an index entry and moves on to a label.
Moved(p, r, l) ==
  /\ req' = [req EXCEPT ![p] = r] /\ r.pc = l
  /\ r.action = req[p].action /\ r.changed = req[p].changed
  /\ r.logFor = req[p].logFor /\ r.log = req[p].log
  /\ Sender(r) = Sender(req[p])

LEMMA MoveOn ==
  ASSUME IndInv, NEW p \in Handlers, NEW l \in Labels, Goto(p, l)
  PROVE  req' \in [Handlers -> Request] /\ \E r \in Request : Moved(p, r, l)
<1> DEFINE r == [req[p] EXCEPT !.pc = l]
<1>1. req[p] \in Request /\ req' = [req EXCEPT ![p] = r]
  BY DEF IndInv, TypeOK, Goto
<1>2. /\ r \in Request /\ r.pc = l /\ r.action = req[p].action
      /\ r.changed = req[p].changed /\ r.logFor = req[p].logFor /\ r.log = req[p].log
      /\ r.by = req[p].by /\ r.adminId = req[p].adminId
  BY <1>1 DEF Request
<1> HIDE DEF r
<1> QED BY <1>1, <1>2 DEF IndInv, TypeOK, Moved, Sender

LEMMA PutIndexInd ==
  ASSUME IndInv, NEW p \in Handlers,
         PutByAdmin(p) \/ PutByAction(p) \/ PutByDate(p) \/ PutCritical(p)
  PROVE  IndInv'
<1>0. /\ TypeOK /\ LogInv /\ UnloggedNeedsFault
      /\ Carries(req[p]) /\ req[p].pc \in Puts /\ None \notin Admins
  BY CommandAssumption
     DEF IndInv, RequestInv, PutByAdmin, PutByAction, PutByDate, PutCritical, At, Puts
<1>1. /\ req[p].log \in LogIds /\ entry[req[p].log] # NoEntry
      /\ entry[req[p].log].action = req[p].action /\ entry[req[p].log].by = req[p].logFor
      /\ req[p].logFor \in Admins /\ req[p].logFor = Sender(req[p])
  BY <1>0 DEF Carries
<1>2. /\ UNCHANGED <<medium, today, status, entry, answered, unlogged, faults>>
      /\ Grow
      /\ byAdmin' \subseteq byAdmin \union {req[p].log}
      /\ byAction' \subseteq byAction \union {req[p].log}
      /\ critical' \subseteq critical \union {req[p].log}
      /\ \A l \in LogIds : byDate'[l] = byDate[l] \/ (l = req[p].log /\ byDate'[l] = today)
      /\ byDate' \in [LogIds -> Nat]
  <2>1. CASE PutByDate(p)
    <3>1. byDate' = [byDate EXCEPT ![req[p].log] = today] /\ today \in Nat /\ today # 0
      BY <1>0, <2>1 DEF PutByDate, TypeOK, LogInv
    <3>2. \A l \in LogIds : byDate'[l] = byDate[l] \/ (l = req[p].log /\ byDate'[l] = today)
      BY <1>0, <3>1 DEF TypeOK
    <3>3. byDate' \in [LogIds -> Nat]
      BY <1>0, <3>1 DEF TypeOK
    <3> QED BY <2>1, <3>1, <3>2, <3>3 DEF PutByDate, Grow
  <2>2. CASE PutByAdmin(p) \/ PutByAction(p) \/ PutCritical(p)
    BY <1>0, <1>1, <2>2 DEF PutByAdmin, PutByAction, PutCritical, Grow, TypeOK
  <2> QED BY <2>1, <2>2
<1>3. LogInv'
  <2>1. IndexesResolve'
    BY <1>0, <1>1, <1>2 DEF LogInv, IndexesResolve
  <2>2. \A a \in answered : Kept(a)'
    BY <1>0, <1>2, KeptGrow DEF LogInv, TypeOK, Receipts
  <2> QED BY <1>0, <1>2, <2>1, <2>2 DEF LogInv
<1>4. ASSUME req' \in [Handlers -> Request] PROVE TypeOK'
  BY <1>0, <1>1, <1>2, <1>4 DEF TypeOK
<1>5. CASE PutByAdmin(p)
  <2>1. "put_action" \in Labels /\ Goto(p, "put_action")
    BY <1>5 DEF PutByAdmin, Labels
  <2>2. PICK r \in Request : Moved(p, r, "put_action")
    BY <2>1, MoveOn
  <2>3. Carries(r)'
    BY <1>0, <1>1, <1>2, <1>5, <2>2 DEF PutByAdmin, At, Carries, Moved, Puts, Logged
  <2> QED BY <1>0, <1>2, <1>3, <1>4, <2>1, <2>2, <2>3, MoveOn, SlotInd DEF UnloggedNeedsFault, Moved
<1>6. CASE PutByAction(p)
  <2>0. /\ AfterAction(req[p]) \in {"put_date", "put_critical", "answer"}
        /\ medium = "kv" => AfterAction(req[p]) = "put_date"
        /\ isCriticalAction(req[p].action) => AfterAction(req[p]) # "answer"
    BY <1>0 DEF AfterAction, TypeOK
  <2>1. AfterAction(req[p]) \in Labels /\ Goto(p, AfterAction(req[p]))
    BY <1>6, <2>0 DEF PutByAction, Labels
  <2>2. PICK r \in Request : Moved(p, r, AfterAction(req[p]))
    BY <2>1, MoveOn
  <2>3. Carries(r)'
    BY <1>0, <1>1, <1>2, <1>6, <2>2, <2>0 DEF PutByAction, At, Carries, Moved, Puts, Logged
  <2> QED BY <1>0, <1>2, <1>3, <1>4, <2>1, <2>2, <2>3, MoveOn, SlotInd DEF UnloggedNeedsFault, Moved
<1>7. CASE PutByDate(p)
  <2> DEFINE next == IF isCriticalAction(req[p].action) THEN "put_critical" ELSE "answer"
  <2>1. next \in Labels /\ Goto(p, next)
    BY <1>7 DEF PutByDate, Labels
  <2>2. PICK r \in Request : Moved(p, r, next)
    BY <2>1, MoveOn
  <2>4. byDate'[req[p].log] # 0
    BY <1>0, <1>1, <1>7 DEF PutByDate, TypeOK, LogInv
  <2>3. Carries(r)'
    BY <1>0, <1>1, <1>2, <1>7, <2>2, <2>4 DEF PutByDate, At, Carries, Moved, Puts, Logged
  <2> QED BY <1>0, <1>2, <1>3, <1>4, <2>1, <2>2, <2>3, MoveOn, SlotInd DEF UnloggedNeedsFault, Moved
<1>8. CASE PutCritical(p)
  <2>1. "answer" \in Labels /\ Goto(p, "answer")
    BY <1>8 DEF PutCritical, Labels
  <2>2. PICK r \in Request : Moved(p, r, "answer")
    BY <2>1, MoveOn
  <2>3. Carries(r)'
    BY <1>0, <1>1, <1>2, <1>8, <2>2 DEF PutCritical, At, Carries, Moved, Puts, Logged
  <2> QED BY <1>0, <1>2, <1>3, <1>4, <2>1, <2>2, <2>3, MoveOn, SlotInd DEF UnloggedNeedsFault, Moved
<1> QED BY <1>5, <1>6, <1>7, <1>8

\* What is answered as a success has its complete log.
LEMMA LoggedKept ==
  ASSUME IndInv, NEW p \in Handlers, Logged(req[p])
  PROVE  Receipt(req[p]) \in Receipts /\ Kept(Receipt(req[p]))
<1>1. Carries(req[p]) /\ None \notin LogIds /\ req[p] \in Request
  BY CommandAssumption DEF IndInv, RequestInv, TypeOK
<1>2. /\ Receipt(req[p]).by = Sender(req[p]) /\ Receipt(req[p]).action = req[p].action
      /\ Receipt(req[p]).log = req[p].log
  BY DEF Receipt
<1>3. Receipt(req[p]) \in Receipts
  BY <1>1 DEF Carries, Receipt, Receipts, Request
<1>4. Kept(Receipt(req[p]))
  BY <1>1, <1>2 DEF Carries, Complete, Kept
<1> QED BY <1>3, <1>4

LEMMA AnswerInd == ASSUME IndInv, NEW p \in Handlers, Answer(p) PROVE IndInv'
<1>0. /\ TypeOK /\ LogInv /\ UnloggedNeedsFault /\ req[p].pc = "answer"
      /\ req[p].changed /\ req[p].action \in LoggedActions => req[p].logFor # None
      /\ req[p].logFor # None => Complete(req[p].log)
  BY LoggedKept DEF IndInv, RequestInv, Carries, Answer, At, Logged, Kept, Receipt
<1>1. unlogged' = unlogged
  BY <1>0 DEF Answer, End
<1>2. answered' \subseteq Receipts /\ \A a \in answered' : Kept(a)
  BY <1>0, LoggedKept DEF Answer, TypeOK, LogInv, Logged
<1>3. TypeOK'
  BY <1>0, <1>2, EndType DEF Answer, TypeOK, logs
<1>4. Grow /\ LogInv'
  BY <1>0, <1>2 DEF Answer, Grow, LogInv, IndexesResolve, Kept, Complete, logs
<1> QED BY <1>0, <1>1, <1>3, <1>4, IdleCarries, SlotInd DEF Answer, End, UnloggedNeedsFault

LEMMA TimeOutInd == ASSUME IndInv, NEW p \in Handlers, TimeOut(p) PROVE IndInv'
<1>0. TypeOK /\ req[p] \in Request /\ Carries(req[p])
  BY DEF IndInv, TypeOK, RequestInv
<1>1. PICK r : r = [req[p] EXCEPT !.awaited = FALSE] /\ req' = [req EXCEPT ![p] = r]
  BY <1>0 DEF TimeOut, TypeOK
<1>2. /\ r \in Request /\ r.pc = req[p].pc /\ r.changed = req[p].changed
      /\ r.action = req[p].action /\ r.by = req[p].by /\ r.adminId = req[p].adminId
      /\ r.logFor = req[p].logFor /\ r.log = req[p].log
  BY <1>0, <1>1 DEF Request
<1>3. Carries(r)
  BY <1>0, <1>2 DEF Carries, Signed, Logged, Sender
<1>4. TypeOK'
  BY <1>0, <1>1, <1>2 DEF TimeOut, TypeOK, logs
<1>5. Grow /\ LogInv' /\ UnloggedNeedsFault'
  BY QuietLog DEF TimeOut, IndInv, UnloggedNeedsFault
<1>6. Carries(r)'
  BY <1>3, <1>5, CarriesGrow
<1> QED BY <1>1, <1>4, <1>5, <1>6, SlotInd

\* A failure may leave one change unlogged, its own.
LEMMA FailInd == ASSUME IndInv, NEW p \in Handlers, Fail(p) PROVE IndInv'
<1>1. TypeOK'
  BY EndType DEF Fail, IndInv, TypeOK, logs
<1>2. UnloggedNeedsFault'
  BY DEF Fail, End, IndInv, TypeOK, UnloggedNeedsFault
<1>3. Grow /\ LogInv'
  BY QuietLog DEF Fail
<1> QED BY <1>1, <1>2, <1>3, IdleCarries, SlotInd DEF Fail, End

LEMMA NextInd == ASSUME IndInv, [Next]_vars PROVE IndInv'
<1>1. CASE UNCHANGED vars
  BY <1>1 DEF vars, logs, IndInv, TypeOK, RequestInv, Carries, Signed, Logged, Sender,
              LogInv, IndexesResolve, Kept, Complete, UnloggedNeedsFault
<1>2. CASE NextDay
  <2>1. TypeOK /\ TypeOK' /\ today' = today + 1 /\ today' \in Nat
    BY <1>2 DEF NextDay, logs, IndInv, TypeOK
  <2>2. RequestInv' /\ UnloggedNeedsFault'
    BY <1>2 DEF NextDay, logs, IndInv, RequestInv, Carries, Signed, Logged, Sender,
               UnloggedNeedsFault
  <2>3. IndexesResolve' /\ \A a \in answered' : Kept(a)'
    BY <1>2 DEF NextDay, logs, IndInv, LogInv, IndexesResolve, Kept, Complete
  <2>4. \A l \in LogIds : entry'[l] # NoEntry => entry'[l].day <= today'
    <3> SUFFICES ASSUME NEW l \in LogIds, entry[l] # NoEntry PROVE entry[l].day <= today + 1
      BY <1>2, <2>1 DEF NextDay, logs
    <3>1. entry[l].day <= today /\ entry[l].day \in Nat
      BY <2>1 DEF IndInv, LogInv, TypeOK, Entry
    <3> QED BY <2>1, <3>1 DEF TypeOK
  <2>5. today' > 0
    BY <2>1 DEF TypeOK
  <2> QED BY <2>1, <2>2, <2>3, <2>4, <2>5 DEF IndInv, LogInv
<1>3. ASSUME NEW p \in Handlers, Controls(p) \/ Handles(p) PROVE IndInv'
  BY <1>3, ControlInd, HandlerInd
<1> QED BY <1>1, <1>2, <1>3, PutEntryInd, PutIndexInd, AnswerInd, TimeOutInd, FailInd
           DEF Next, Controls, Handles

----------------------------------------------------------------------------
(* The theorems *)

\* However requests, failures and timeouts interleave, the request, its log and the
\* indexes of the log stand to one another as logAdminAction writes them.
THEOREM LogInductive == Spec => []IndInv
<1>1. Init => IndInv
  BY InitInd
<1>2. IndInv /\ [Next]_vars => IndInv'
  BY NextInd
<1> QED BY <1>1, <1>2, PTL DEF Spec

\* Every variable of the commands and their log keeps its type.
THEOREM CommandsTyped == Spec => []TypeOK
<1>1. IndInv => TypeOK
  BY DEF IndInv
<1> QED BY <1>1, LogInductive, PTL

\* logAdminAction writes the entry before its indexes: none ever names a missing one, and
\* the date it is indexed under is not before that of the entry.
THEOREM IndexesAlwaysResolve == Spec => []IndexesResolve
<1>1. IndInv => IndexesResolve
  BY DEF IndInv, LogInv
<1> QED BY <1>1, LogInductive, PTL

\* A sender that was told of the success of an operation that is logged finds it in KV's
\* listings, under its own name and what it asked for.
THEOREM AnsweredAreLogged == Spec => []AnsweredIsLogged
<1>1. IndInv => AnsweredIsLogged
  <2> SUFFICES ASSUME IndInv, NEW a \in answered
               PROVE  /\ Kept(a)
                      /\ medium = "kv" =>
                           /\ a.log \in getAdminLogs(a.by) /\ a.log \in getActionLogs(a.action)
                           /\ isCriticalAction(a.action) => a.log \in getCriticalLogs
    BY DEF AnsweredIsLogged
  <2>1. Kept(a) /\ a.log \in LogIds
    BY DEF IndInv, LogInv, TypeOK, Receipts
  <2> QED BY <2>1 DEF Kept, Complete, getAdminLogs, getActionLogs, getCriticalLogs, Listed
<1> QED BY <1>1, LogInductive, PTL

\* Of the operations that are logged, the handlers leave no more changes without a complete
\* log than failures cut short.
THEOREM UnloggedIsFault == Spec => []UnloggedNeedsFault
<1>1. IndInv => UnloggedNeedsFault
  BY DEF IndInv
<1> QED BY <1>1, LogInductive, PTL

====

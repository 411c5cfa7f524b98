---- MODULE AuditedCommands ----
(***************************************************************************)
(* Operations that are written to the audit log after they are done: the   *)
(* commands of the Durable Object (src/core/command, src/core/keys) with   *)
(* the log of src/core/audit/AuditLogger.js in its storage, and the setup  *)
(* and revocation of administrators (src/index.js, src/auth) with the log  *)
(* of src/auth/auditLogger.js in KV.                                       *)
(*                                                                         *)
(* The operation, the log entry and each of its indexes are writes of      *)
(* their own, so a request that ends between two of them leaves something  *)
(* done and not, or not completely, logged.  Several requests are under    *)
(* way at once; one action is one write, or the decision before it.  What  *)
(* an operation does beyond the status of its target is in KeyManager and  *)
(* AdminKeys; a listing is the union of its pages.                         *)
(***************************************************************************)
EXTENDS Naturals, FiniteSets

CONSTANTS
  Admins,     \* who sends requests
  Targets,    \* the keys, or the administrators, they are about
  LogIds,     \* the ids of log entries that may be drawn
  Handlers,   \* the requests that can be in flight at once
  None,       \* nobody, nothing
  MaxDay,     \* the calendar stops here
  MaxFaults   \* how many writes may fail or workers be stopped

ASSUME CommandAssumption ==
  /\ None \notin Admins /\ None \notin Targets /\ None \notin LogIds
  /\ MaxDay \in Nat /\ MaxFaults \in Nat

VARIABLES
  medium,      \* where the log is kept; never changes
  today,       \* the date
  status,      \* of the targets
  entry,       \* "log:admin:<id>" entries
  byAdmin,     \* ids with a "log:admin:by_admin:<admin>:<time>_<id>" entry
  byAction,    \* ids with a "log:admin:by_action:<action>:..." entry
  byDate,      \* the date of the "log:admin:by_date:<date>:..." entry, 0 for none
  critical,    \* ids with a "log:admin:critical:..." entry
  req,         \* the request in flight in each slot
  answered,    \* senders told of success, with what they did and its log entry
  unlogged,    \* how many requests that should be logged changed something and ended
               \* without a complete log
  faults       \* failures so far

logs == <<entry, byAdmin, byAction, byDate, critical>>
vars == <<medium, today, status, logs, req, answered, unlogged, faults>>

Statuses == {"absent", "active", "rotated", "revoked"}

ObjectActions == {"create_key", "rotate_key", "revoke_key", "get_key", "list_keys",
                  "list_keys_cursor", "system_maintenance", "validate_key"}
KvActions == {"system_setup", "create_admin", "revoke_admin", "list_admins"}
Actions == ObjectActions \union KvActions

isCriticalAction(action) ==
  action \in {"system_setup", "system_config_change", "system_rotate_keys", "create_admin",
              "revoke_admin", "update_admin_permissions", "revoke_key_batch", "key_rotation"}

\* What logAdminAction is called for.  Nothing logs the creation of an administrator, nor
\* a validation, not even one that revokes the key because it has expired.
LoggedActions == Actions \ {"create_admin", "list_admins", "validate_key"}

Entry == [by : Admins, action : Actions, day : Nat]
NoEntry == [by |-> None, action |-> "none", day |-> 0]

Labels == {"idle", "perform", "put_entry", "put_admin", "put_action", "put_date",
           "put_critical", "answer"}
Request == [pc : Labels, action : Actions, target : Targets \union {None}, copy : Statuses,
            by : Admins \union {None}, adminId : Admins \union {None},
            changed : BOOLEAN, logFor : Admins \union {None},
            log : LogIds \union {None}, awaited : BOOLEAN]
Idle == [pc |-> "idle", action |-> "validate_key", target |-> None, copy |-> "absent",
         by |-> None, adminId |-> None, changed |-> FALSE, logFor |-> None,
         log |-> None, awaited |-> FALSE]

\* What the answer to a request that has logged its success means to its sender.
Sender(r) == IF r.by # None THEN r.by ELSE r.adminId
Receipt(r) == [by |-> Sender(r), action |-> r.action, log |-> r.log]
Receipts == [by : Admins, action : Actions, log : LogIds]

At(p, label) == req[p].pc = label
Goto(p, label) == req' = [req EXCEPT ![p].pc = label]

----------------------------------------------------------------------------
(* The log, as it is read *)

\* The listings follow an index to the entries it names.  They expect what KV's list
\* returns: the map a Durable Object's storage returns has no keys array, and nothing
\* is listed.
Listed(index) == IF medium = "kv" THEN {l \in index : entry[l] # NoEntry} ELSE {}
getAdminLogs(a) == Listed({l \in byAdmin : entry[l].by = a})
getActionLogs(action) == Listed({l \in byAction : entry[l].action = action})
getCriticalLogs == Listed(critical)

\* Every index an entry should have.
Complete(l) ==
  /\ l # None
  /\ entry[l] # NoEntry
  /\ l \in byAdmin /\ l \in byAction
  /\ medium = "kv" => byDate[l] # 0
  /\ isCriticalAction(entry[l].action) => l \in critical

----------------------------------------------------------------------------
(* The end of a request *)

\* A request ends, having changed something or not, having logged it or not.
End(p) ==
  /\ req' = [req EXCEPT ![p] = Idle]
  /\ unlogged' = IF /\ req[p].changed /\ req[p].action \in LoggedActions
                    /\ ~Complete(req[p].log)
                  THEN unlogged + 1 ELSE unlogged

----------------------------------------------------------------------------
(* Controllers: the administrator goes into the command, or beside it *)

\* The bound on the log: an id is left for a request besides those under way.
LogIdLeft ==
  Cardinality({l \in LogIds : entry[l] = NoEntry})
    > Cardinality({q \in Handlers : req[q].pc \in {"perform", "put_entry"}})

\* execute: a command that is valid finds its handler, which has the target read.
execute(p, action, t, by, adminId) ==
  /\ At(p, "idle")
  /\ LogIdLeft \/ {by, adminId} = {None}
  /\ req' = [req EXCEPT ![p] = [Idle EXCEPT
               !.pc = "perform", !.action = action, !.target = t, !.awaited = TRUE,
               !.copy = IF t = None THEN "absent" ELSE status[t],
               !.by = by, !.adminId = adminId]]
  /\ UNCHANGED <<medium, today, status, logs, answered, unlogged, faults>>

createKey(p, a) == medium = "object" /\ execute(p, "create_key", None, a, None)
getKey(p, a, t) == medium = "object" /\ execute(p, "get_key", t, None, a)
revokeKey(p, a, t) == medium = "object" /\ execute(p, "revoke_key", t, a, None)
rotateKey(p, a, t) == medium = "object" /\ execute(p, "rotate_key", t, a, None)
listKeys(p, a) == medium = "object" /\ execute(p, "list_keys", None, None, a)
listKeysWithCursor(p, a) == medium = "object" /\ execute(p, "list_keys_cursor", None, None, a)
runCleanup(p, a, t) == medium = "object" /\ execute(p, "system_maintenance", t, None, a)
validateKey(p, t) == medium = "object" /\ execute(p, "validate_key", t, None, None)

\* In KV there are no commands: the functions are called with the administrator.
handleSetup(p, a) == medium = "kv" /\ execute(p, "system_setup", None, a, None)
createAdminKey(p) == medium = "kv" /\ execute(p, "create_admin", None, None, None)
revokeAdminKey(p, a, t) == medium = "kv" /\ execute(p, "revoke_admin", t, a, None)
listAdminKeys(p) == medium = "kv" /\ execute(p, "list_admins", None, None, None)

----------------------------------------------------------------------------
(* Handlers: the operation, then the log if it is known for whom *)

Runs(p, action) == At(p, "perform") /\ req[p].action = action

\* The operation leaves its target t in a status, and is logged for admin.
Perform(p, t, outcome, admin) ==
  /\ status' = IF outcome = req[p].copy THEN status ELSE [status EXCEPT ![t] = outcome]
  /\ req' = [req EXCEPT ![p].changed = outcome # req[p].copy, ![p].logFor = admin,
                        ![p].pc = IF admin # None THEN "put_entry" ELSE "answer"]
  /\ UNCHANGED <<medium, today, logs, answered, unlogged, faults>>

\* It only reports.
Report(p, admin) == Perform(p, req[p].target, req[p].copy, admin)

\* It is refused, or has nothing to do: an answer, and no log.
Refuse(p) == End(p) /\ UNCHANGED <<medium, today, status, logs, answered, faults>>

\* A new id is drawn.
Issue(p, admin) == \E t \in Targets : status[t] = "absent" /\ Perform(p, t, "active", admin)

CreateKeyHandler(p) == Runs(p, "create_key") /\ (Issue(p, req[p].by) \/ Refuse(p))

RotateKeyHandler(p) ==
  /\ Runs(p, "rotate_key")
  /\ IF req[p].copy = "active" THEN Perform(p, req[p].target, "rotated", req[p].by) ELSE Refuse(p)

\* FAULT (stands in for the next definition to show a property can fail): the handler
\* looks for the administrator where the controller has not put it.
RevokeKeyHandlerContext(p) ==
  /\ Runs(p, "revoke_key")
  /\ IF req[p].copy # "absent" THEN Perform(p, req[p].target, "revoked", req[p].adminId)
                               ELSE Refuse(p)

\* A key already revoked is reported as a success, which is logged again.
RevokeKeyHandler(p) ==
  /\ Runs(p, "revoke_key")
  /\ IF req[p].copy # "absent" THEN Perform(p, req[p].target, "revoked", req[p].by)
                               ELSE Refuse(p)

GetKeyHandler(p) ==
  /\ Runs(p, "get_key")
  /\ IF req[p].copy # "absent" THEN Report(p, req[p].adminId) ELSE Refuse(p)

ListKeysHandler(p) == Runs(p, "list_keys") /\ Report(p, req[p].adminId)

ListKeysWithCursorHandler(p) == Runs(p, "list_keys_cursor") /\ Report(p, req[p].adminId)

\* The target may have expired.
CleanupExpiredKeysHandler(p) ==
  /\ Runs(p, "system_maintenance")
  /\ \/ Report(p, req[p].adminId)
     \/ /\ req[p].copy = "active"
        /\ Perform(p, req[p].target, "revoked", req[p].adminId)

\* Not logged, though a key that has expired is revoked on the way.
ValidateKeyHandler(p) ==
  /\ Runs(p, "validate_key")
  /\ \/ Report(p, None)
     \/ req[p].copy \in {"active", "rotated"} /\ Perform(p, req[p].target, "revoked", None)

SetUp(p) == Runs(p, "system_setup") /\ (Issue(p, req[p].by) \/ Refuse(p))

\* Not logged.
CreateAdmin(p) == Runs(p, "create_admin") /\ (Issue(p, None) \/ Refuse(p))

\* One already revoked is a success that is not logged.
RevokeAdmin(p) ==
  /\ Runs(p, "revoke_admin")
  /\ IF req[p].copy = "active" THEN Perform(p, req[p].target, "revoked", req[p].by) ELSE Refuse(p)

\* Not logged.
ListAdmins(p) == Runs(p, "list_admins") /\ Report(p, None)

----------------------------------------------------------------------------
(* logAdminAction, and the answer *)

\* FAULT (stands in for the next definition to show a property can fail): the entry
\* names the administrator of the context.
PutEntryContext(p) ==
  /\ At(p, "put_entry")
  /\ \E l \in LogIds :
       /\ entry[l] = NoEntry /\ \A q \in Handlers : req[q].log # l
       /\ entry' = [entry EXCEPT ![l] = [by |-> req[p].adminId,
                                         action |-> req[p].action, day |-> today]]
       /\ req' = [req EXCEPT ![p].pc = "put_admin", ![p].log = l]
  /\ UNCHANGED <<medium, today, status, byAdmin, byAction, byDate, critical, answered,
                 unlogged, faults>>

\* FAULT (as above): the entry is not awaited, and may never be stored.
PutEntryUnawaited(p) ==
  /\ At(p, "put_entry")
  /\ \E l \in LogIds :
       /\ entry[l] = NoEntry /\ \A q \in Handlers : req[q].log # l
       /\ entry' \in {entry, [entry EXCEPT ![l] = [by |-> req[p].logFor,
                                             action |-> req[p].action, day |-> today]]}
       /\ req' = [req EXCEPT ![p].pc = "put_admin", ![p].log = l]
  /\ UNCHANGED <<medium, today, status, byAdmin, byAction, byDate, critical, answered,
                 unlogged, faults>>

\* logAdminAction: the entry under a new random id, with the date of now, ...
PutEntry(p) ==
  /\ At(p, "put_entry")
  /\ \E l \in LogIds :
       /\ entry[l] = NoEntry /\ \A q \in Handlers : req[q].log # l
       /\ entry' = [entry EXCEPT ![l] = [by |-> req[p].logFor,
                                         action |-> req[p].action, day |-> today]]
       /\ req' = [req EXCEPT ![p].pc = "put_admin", ![p].log = l]
  /\ UNCHANGED <<medium, today, status, byAdmin, byAction, byDate, critical, answered,
                 unlogged, faults>>

\* ... then its place in the index by administrator, ...
PutByAdmin(p) ==
  /\ At(p, "put_admin")
  /\ byAdmin' = byAdmin \union {req[p].log}
  /\ Goto(p, "put_action")
  /\ UNCHANGED <<medium, today, status, entry, byAction, byDate, critical, answered,
                 unlogged, faults>>

AfterAction(r) == CASE medium = "kv" -> "put_date"
                    [] medium = "object" /\ isCriticalAction(r.action) -> "put_critical"
                    [] OTHER -> "answer"

\* FAULT (stands in for the next definition to show a property can fail): the index by
\* action is left out for actions that are not critical.
PutByActionCritical(p) ==
  /\ At(p, "put_action")
  /\ byAction' = IF isCriticalAction(req[p].action) THEN byAction \union {req[p].log} ELSE byAction
  /\ Goto(p, AfterAction(req[p]))
  /\ UNCHANGED <<medium, today, status, entry, byAdmin, byDate, critical, answered,
                 unlogged, faults>>

\* ... by action, ...
PutByAction(p) ==
  /\ At(p, "put_action")
  /\ byAction' = byAction \union {req[p].log}
  /\ Goto(p, AfterAction(req[p]))
  /\ UNCHANGED <<medium, today, status, entry, byAdmin, byDate, critical, answered,
                 unlogged, faults>>

\* ... in KV by the date it is by now, ...
PutByDate(p) ==
  /\ At(p, "put_date")
  /\ byDate' = [byDate EXCEPT ![req[p].log] = today]
  /\ Goto(p, IF isCriticalAction(req[p].action) THEN "put_critical" ELSE "answer")
  /\ UNCHANGED <<medium, today, status, entry, byAdmin, byAction, critical, answered,
                 unlogged, faults>>

\* ... and in the list of critical actions.
PutCritical(p) ==
  /\ At(p, "put_critical")
  /\ critical' = critical \union {req[p].log}
  /\ Goto(p, "answer")
  /\ UNCHANGED <<medium, today, status, entry, byAdmin, byAction, byDate, answered,
                 unlogged, faults>>

\* The sender is told of success, if it still waits.
Answer(p) ==
  /\ At(p, "answer")
  /\ answered' = IF req[p].awaited /\ req[p].logFor # None
                   THEN answered \union {Receipt(req[p])} ELSE answered
  /\ End(p)
  /\ UNCHANGED <<medium, today, status, logs, faults>>

\* The worker's timeout for the Durable Object runs out: the sender is told that the
\* request timed out, and the object goes on with it.
TimeOut(p) ==
  /\ medium = "object" /\ req[p].awaited
  /\ req' = [req EXCEPT ![p].awaited = FALSE]
  /\ UNCHANGED <<medium, today, status, logs, answered, unlogged, faults>>

\* A write fails or the worker is stopped: the request ends, and what it has stored stays.
Fail(p) ==
  /\ ~At(p, "idle")
  /\ faults < MaxFaults /\ faults' = faults + 1
  /\ End(p)
  /\ UNCHANGED <<medium, today, status, logs, answered>>

NextDay ==
  /\ today < MaxDay
  /\ today' = today + 1
  /\ UNCHANGED <<medium, status, logs, req, answered, unlogged, faults>>

Init ==
  /\ medium \in {"kv", "object"}
  /\ today = 1
  /\ status = [t \in Targets |-> "absent"]
  /\ entry = [l \in LogIds |-> NoEntry]
  /\ byAdmin = {} /\ byAction = {} /\ critical = {}
  /\ byDate = [l \in LogIds |-> 0]
  /\ req = [p \in Handlers |-> Idle]
  /\ answered = {}
  /\ unlogged = 0
  /\ faults = 0

Next ==
  \/ \E p \in Handlers :
       \/ \E a \in Admins : createKey(p, a) \/ listKeys(p, a) \/ listKeysWithCursor(p, a)
                              \/ handleSetup(p, a)
       \/ \E a \in Admins, t \in Targets :
            \/ getKey(p, a, t) \/ revokeKey(p, a, t) \/ rotateKey(p, a, t) \/ runCleanup(p, a, t)
            \/ revokeAdminKey(p, a, t)
       \/ \E t \in Targets : validateKey(p, t)
       \/ createAdminKey(p) \/ listAdminKeys(p)
       \/ CreateKeyHandler(p) \/ RotateKeyHandler(p) \/ RevokeKeyHandler(p) \/ GetKeyHandler(p)
       \/ ListKeysHandler(p) \/ ListKeysWithCursorHandler(p) \/ CleanupExpiredKeysHandler(p)
       \/ ValidateKeyHandler(p) \/ SetUp(p) \/ CreateAdmin(p) \/ RevokeAdmin(p) \/ ListAdmins(p)
       \/ PutEntry(p) \/ PutByAdmin(p) \/ PutByAction(p) \/ PutByDate(p) \/ PutCritical(p)
       \/ Answer(p) \/ TimeOut(p) \/ Fail(p)
  \/ NextDay

Spec == Init /\ [][Next]_vars

----------------------------------------------------------------------------
(* Properties *)

TypeOK ==
  /\ medium \in {"kv", "object"}
  /\ today \in Nat
  /\ status \in [Targets -> Statuses]
  /\ entry \in [LogIds -> Entry \union {NoEntry}]
  /\ byAdmin \subseteq LogIds /\ byAction \subseteq LogIds /\ critical \subseteq LogIds
  /\ byDate \in [LogIds -> Nat]
  /\ req \in [Handlers -> Request]
  /\ answered \subseteq Receipts
  /\ unlogged \in Nat /\ faults \in Nat

\* An index never names an entry that is not there, whatever failed between the writes,
\* and the date an entry is indexed under is that of the entry or a later one.
IndexesResolve ==
  \A l \in LogIds :
    /\ l \in byAdmin \union byAction \union critical => entry[l] # NoEntry
    /\ byDate[l] # 0 => entry[l] # NoEntry /\ entry[l].day <= byDate[l]

\* The entry an answer stands for is there, with its indexes, and says who did what.
Kept(a) == Complete(a.log) /\ entry[a.log].by = a.by /\ entry[a.log].action = a.action

\* A sender that was told of the success of an operation that is logged finds the entry
\* in the listings of KV: under its own name, under what it asked for and, if that is
\* critical, in the critical list.  In the storage of the object, whose listings show
\* nothing, at least the entry and its indexes are there.
AnsweredIsLogged ==
  \A a \in answered :
    /\ Kept(a)
    /\ medium = "kv" =>
         /\ a.log \in getAdminLogs(a.by) /\ a.log \in getActionLogs(a.action)
         /\ isCriticalAction(a.action) => a.log \in getCriticalLogs

\* An operation that is logged and changed something is left without a complete log only
\* by a request that a failure of its own cut short: not by one whose sender gave up
\* waiting, nor by one that repeats or overtakes another.
UnloggedNeedsFault == unlogged <= faults

----------------------------------------------------------------------------
(* The inductive invariant behind them (proved in AuditedCommandsProofs) *)

\* A request carries the name of the administrator where its handler will look for it,
\* and nowhere else.
Signed(r) ==
  /\ r.action \in {"create_key", "rotate_key", "revoke_key", "system_setup", "revoke_admin"}
       => r.by \in Admins
  /\ r.action \in {"get_key", "list_keys", "list_keys_cursor", "system_maintenance"}
       => r.by = None /\ r.adminId \in Admins

\* What a request has logged so far, by where it is.
Puts == {"put_admin", "put_action", "put_date", "put_critical"}
Logged(r) == r.pc = "answer" /\ r.logFor # None
Carries(r) ==
  /\ r.pc = "perform" => ~r.changed /\ Signed(r)
  /\ r.pc \in Puts \union {"put_entry"} \/ Logged(r) => r.logFor \in Admins /\ r.logFor = Sender(r)
  /\ r.pc = "answer" /\ r.changed /\ r.action \in LoggedActions => r.logFor # None
  /\ r.pc \in Puts \/ Logged(r) =>
       /\ r.log \in LogIds /\ entry[r.log] # NoEntry
       /\ entry[r.log].by = r.logFor /\ entry[r.log].action = r.action
  /\ r.pc \in Puts \ {"put_admin"} \/ Logged(r) => r.log \in byAdmin
  /\ r.pc \in {"put_date", "put_critical"} \/ Logged(r) => r.log \in byAction
  /\ (r.pc = "put_critical" \/ Logged(r)) /\ medium = "kv" => byDate[r.log] # 0
  /\ Logged(r) /\ isCriticalAction(r.action) => r.log \in critical
RequestInv == \A p \in Handlers : Carries(req[p])

LogInv ==
  /\ today > 0
  /\ \A l \in LogIds : entry[l] # NoEntry => entry[l].day <= today
  /\ IndexesResolve
  /\ \A a \in answered : Kept(a)

IndInv == TypeOK /\ RequestInv /\ LogInv /\ UnloggedNeedsFault

====

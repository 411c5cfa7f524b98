---- MODULE AdminKeys ----
(***************************************************************************)
(* The administrators of the gateway, kept in a KV namespace: the one-time *)
(* setup (handleSetup in src/index.js), the creation and revocation of     *)
(* administrator keys (src/auth) and their validation on every             *)
(* administrative request (src/core/auth/adapters/ApiKeyAdapter.js).       *)
(*                                                                         *)
(* Unlike the storage of the Durable Object, KV is remote and shared: any  *)
(* number of workers run these handlers at once and nothing holds one back *)
(* while another waits.  One action is the segment of a handler between    *)
(* two awaits; the KV operation it issues takes effect with it.  A write   *)
(* that is not awaited takes effect later, or never.                       *)
(*                                                                         *)
(* An id stands for its plaintext value as well.  No caller gives an       *)
(* administrator key an expiry, so the checks of expiresAt are left out.   *)
(***************************************************************************)
EXTENDS Naturals

CONSTANTS
  Admins,    \* the key ids that may ever be drawn
  Handlers,  \* the requests that can be in flight at once
  None       \* no key

ASSUME NoneAssumption == None \notin Admins

VARIABLES
  atomic,     \* typeof env.KV.transaction === "function"; never changes
  status,     \* of the "key:<id>" entries
  lookup,     \* ids with a "lookup:<value>" entry
  owners,     \* ids with an "index:owner:<owner>:<id>" entry
  index,      \* ids with an "index:admin:<id>" entry
  completed,  \* "system:setup_completed" is "true"
  log,        \* the "log:admin:" entries: what was done to whom
  delivered,  \* ids whose plaintext value was returned to a caller
  withheld,   \* ids whose setup ended after it had closed setup, before it was answered
  req         \* the handler in flight in each slot, and its locals

store == <<status, lookup, owners, index, completed, log>>
values == <<delivered, withheld>>
vars == <<atomic, store, values, req>>

Statuses == {"absent", "active", "revoked"}
Operations == {"setup", "create", "revoke", "validate"}

\* A label names the KV operation waited for; "unawaited" the write nobody waits for.
Labels == {"idle", "get_flag", "put_key", "put_lookup", "put_owner", "put_index",
           "put_flag", "put_revoked", "put_log", "get_index", "get_lookup",
           "get_key", "unawaited"}
Request == [pc : Labels, op : Operations, id : Admins \union {None}, copy : Statuses]
Idle == [pc |-> "idle", op |-> "create", id |-> None, copy |-> "absent"]

Stored == {k \in Admins : status[k] # "absent"}
At(p, label) == req[p].pc = label
Goto(p, label) == req' = [req EXCEPT ![p].pc = label]
Begin(p, operation, label, k) ==
  /\ At(p, "idle")
  /\ req' = [req EXCEPT ![p] = [pc |-> label, op |-> operation, id |-> k, copy |-> "absent"]]
Return(p) == req' = [req EXCEPT ![p] = Idle]

\* It has closed setup, and not yet answered.
Closes(r) == r.op = "setup" /\ r.pc \in {"put_flag", "put_log"}

----------------------------------------------------------------------------
(* createApiKey: in one transaction, or entry after entry *)

StoreKey(k) ==
  /\ status[k] = "absent"
  /\ status' = [status EXCEPT ![k] = "active"]
  /\ IF atomic
       THEN lookup' = lookup \union {k} /\ owners' = owners \union {k} /\ index' = index \union {k}
       ELSE UNCHANGED <<lookup, owners, index>>
StoredLabel == IF atomic THEN "put_index" ELSE "put_key"

PutLookup(p) ==
  /\ At(p, "put_key")
  /\ lookup' = lookup \union {req[p].id}
  /\ Goto(p, "put_lookup")
  /\ UNCHANGED <<atomic, status, owners, index, completed, log, values>>

\* FAULT (stands in for the next definition to show a property can fail): the key is
\* taken to be stored before its place in the index of administrators.
PutOwnerLast(p) ==
  /\ At(p, "put_lookup")
  /\ owners' = owners \union {req[p].id}
  /\ Goto(p, "put_index")
  /\ UNCHANGED <<atomic, status, lookup, index, completed, log, values>>

PutOwner(p) ==
  /\ At(p, "put_lookup")
  /\ owners' = owners \union {req[p].id}
  /\ Goto(p, "put_owner")
  /\ UNCHANGED <<atomic, status, lookup, index, completed, log, values>>

PutIndex(p) ==
  /\ At(p, "put_owner")
  /\ index' = index \union {req[p].id}
  /\ Goto(p, "put_index")
  /\ UNCHANGED <<atomic, status, lookup, owners, completed, log, values>>

\* createAdminKey: the key is returned as soon as it is stored.
Create(p) ==
  /\ \E k \in Admins : StoreKey(k) /\ Begin(p, "create", StoredLabel, k)
  /\ UNCHANGED <<atomic, completed, log, values>>

HandOver(p) ==
  /\ At(p, "put_index") /\ req[p].op = "create"
  /\ delivered' = delivered \union {req[p].id}
  /\ Return(p)
  /\ UNCHANGED <<atomic, store, withheld>>

----------------------------------------------------------------------------
(* handleSetup *)

\* Refused once setup is completed.
SetupStart(p) ==
  /\ ~completed
  /\ Begin(p, "setup", "get_flag", None)
  /\ UNCHANGED <<atomic, store, values>>

\* FAULT (stands in for the next definition to show a property can fail): setup is
\* marked as completed before the first administrator is stored.
SetupCreateMarked(p) ==
  /\ At(p, "get_flag")
  /\ \E k \in Admins : StoreKey(k) /\ req' = [req EXCEPT ![p].pc = StoredLabel, ![p].id = k]
  /\ completed' = TRUE
  /\ UNCHANGED <<atomic, log, values>>

\* FAULT (as above): the id of the key created is not kept.
SetupCreateUnnamed(p) ==
  /\ At(p, "get_flag")
  /\ \E k \in Admins : StoreKey(k) /\ Goto(p, StoredLabel)
  /\ UNCHANGED <<atomic, completed, log, values>>

SetupCreate(p) ==
  /\ At(p, "get_flag")
  /\ \E k \in Admins : StoreKey(k) /\ req' = [req EXCEPT ![p].pc = StoredLabel, ![p].id = k]
  /\ UNCHANGED <<atomic, completed, log, values>>

SetupMark(p) ==
  /\ At(p, "put_index") /\ req[p].op = "setup"
  /\ completed' = TRUE
  /\ Goto(p, "put_flag")
  /\ UNCHANGED <<atomic, status, lookup, owners, index, log, values>>

----------------------------------------------------------------------------
(* revokeAdminKey *)

RevokeStart(p) ==
  /\ \E k \in index : Begin(p, "revoke", "get_index", k)
  /\ UNCHANGED <<atomic, store, values>>

RevokeLoad(p) ==
  /\ At(p, "get_index")
  /\ req' = [req EXCEPT ![p].pc = "get_key", ![p].copy = status[req[p].id]]
  /\ UNCHANGED <<atomic, store, values>>

\* The copy read, marked revoked, is written back.
RevokeWrite(p) ==
  /\ At(p, "get_key") /\ req[p].op = "revoke" /\ req[p].copy = "active"
  /\ status' = [status EXCEPT ![req[p].id] = "revoked"]
  /\ Goto(p, "put_revoked")
  /\ UNCHANGED <<atomic, lookup, owners, index, completed, log, values>>

\* Already revoked: success.  No record: an error.
RevokeSkip(p) ==
  /\ At(p, "get_key") /\ req[p].op = "revoke" /\ req[p].copy # "active"
  /\ Return(p)
  /\ UNCHANGED <<atomic, store, values>>

----------------------------------------------------------------------------
(* logAdminAction, after a setup or a revocation *)

LogEntry(p) ==
  /\ req[p].pc \in {"put_flag", "put_revoked"}
  /\ log' = log \union {<<req[p].op, req[p].id>>}
  /\ Goto(p, "put_log")
  /\ UNCHANGED <<atomic, status, lookup, owners, index, completed, values>>

\* The indexes of the entry are written, then the request is answered: a setup with
\* the plaintext value, which nobody sees again.
Answer(p) ==
  /\ At(p, "put_log")
  /\ delivered' = IF req[p].op = "setup" THEN delivered \union {req[p].id} ELSE delivered
  /\ Return(p)
  /\ UNCHANGED <<atomic, store, withheld>>

----------------------------------------------------------------------------
(* validateKey of ApiKeyAdapter; validateApiKey of keyValidator does the same *)

\* Finds the id of the value presented, which the presenter was handed.
ValidateStart(p) ==
  /\ \E k \in delivered \intersect lookup : Begin(p, "validate", "get_lookup", k)
  /\ UNCHANGED <<atomic, store, values>>

\* FAULT (stands in for the next definition to show a property can fail): the record
\* comes from a cache filled when the key was created.
ValidateLoadCached(p) ==
  /\ At(p, "get_lookup")
  /\ req' = [req EXCEPT ![p].pc = "get_key", ![p].copy = "active"]
  /\ UNCHANGED <<atomic, store, values>>

ValidateLoad(p) ==
  /\ At(p, "get_lookup")
  /\ req' = [req EXCEPT ![p].pc = "get_key", ![p].copy = status[req[p].id]]
  /\ UNCHANGED <<atomic, store, values>>

\* A lookup entry without a record is dropped; a revoked key is only refused.
ValidateReject(p) ==
  /\ At(p, "get_key") /\ req[p].op = "validate" /\ req[p].copy # "active"
  /\ lookup' = IF req[p].copy = "absent" THEN lookup \ {req[p].id} ELSE lookup
  /\ Return(p)
  /\ UNCHANGED <<atomic, status, owners, index, completed, log, values>>

\* The copy read is written back with a new lastUsedAt; the answer does not wait.
ValidateAccept(p) ==
  /\ At(p, "get_key") /\ req[p].op = "validate" /\ req[p].copy = "active"
  /\ Goto(p, "unawaited")
  /\ UNCHANGED <<atomic, store, values>>

WriteLands(p) ==
  /\ At(p, "unawaited")
  /\ status' = [status EXCEPT ![req[p].id] = req[p].copy]
  /\ Return(p)
  /\ UNCHANGED <<atomic, lookup, owners, index, completed, log, values>>

----------------------------------------------------------------------------

\* A KV operation fails, the body is not valid, the worker is stopped or the write
\* nobody waits for is lost: the request ends there, whatever it has stored.  If it has
\* closed setup, the value it has not answered is lost.
Ends(p) ==
  /\ ~At(p, "idle")
  /\ withheld' = IF Closes(req[p]) THEN withheld \union {req[p].id} ELSE withheld
  /\ Return(p)
  /\ UNCHANGED <<atomic, store, delivered>>

Init ==
  /\ atomic \in BOOLEAN
  /\ status = [k \in Admins |-> "absent"]
  /\ lookup = {} /\ owners = {} /\ index = {}
  /\ completed = FALSE /\ log = {}
  /\ delivered = {} /\ withheld = {}
  /\ req = [p \in Handlers |-> Idle]

Next == \E p \in Handlers :
  \/ PutLookup(p) \/ PutOwner(p) \/ PutIndex(p) \/ Create(p) \/ HandOver(p)
  \/ SetupStart(p) \/ SetupCreate(p) \/ SetupMark(p)
  \/ RevokeStart(p) \/ RevokeLoad(p) \/ RevokeWrite(p) \/ RevokeSkip(p)
  \/ LogEntry(p) \/ Answer(p)
  \/ ValidateStart(p) \/ ValidateLoad(p) \/ ValidateReject(p) \/ ValidateAccept(p)
  \/ WriteLands(p)
  \/ Ends(p)

Spec == Init /\ [][Next]_vars

----------------------------------------------------------------------------
(* Properties *)

TypeOK ==
  /\ atomic \in BOOLEAN /\ completed \in BOOLEAN
  /\ status \in [Admins -> Statuses]
  /\ lookup \subseteq Admins /\ owners \subseteq Admins /\ index \subseteq Admins
  /\ log \subseteq Operations \X Admins
  /\ delivered \subseteq Admins /\ withheld \subseteq Admins
  /\ req \in [Handlers -> Request]

\* An administrator who was handed a key can be found by its value and revoked through
\* the index, for ever, whatever failed or was stored in part meanwhile.
Complete == Stored \intersect lookup \intersect owners \intersect index
DeliveredComplete == delivered \subseteq Complete

\* Setup closes only behind a first administrator that is stored completely, so one that
\* fails before it closes can be repeated; and that administrator has its value, or the
\* setup that closed is about to answer it, or has failed since: after the flag is put,
\* a failure of the log or of the worker loses the value, and setup stays closed.
SetupAccounted ==
  completed => \E k \in Complete :
    \/ k \in delivered \union withheld
    \/ \E p \in Handlers : Closes(req[p]) /\ req[p].id = k

\* Once no request in flight still holds a copy read before it, a revocation is final:
\* the write-backs of later validations never undo it.
Settled(k) == status[k] = "revoked" /\ \A p \in Handlers : req[p].id = k => req[p].copy # "active"
RevocationSettles == [][\A k \in Admins : Settled(k) => Settled(k)']_vars

----------------------------------------------------------------------------
(* The inductive invariant behind them (proved in AdminKeysProofs) *)

StoreInv == lookup \subseteq Stored /\ index \subseteq Stored

\* A creation knows which of its entries are stored; a copy is of a stored record, and
\* what a validation is about to write back was active.
Carries(r) ==
  /\ r.pc \notin {"idle", "get_flag"} => r.id \in Stored
  /\ r.pc \in {"put_lookup", "put_owner", "put_index", "put_flag"} => r.id \in lookup
  /\ r.pc \in {"put_owner", "put_index", "put_flag"} => r.id \in owners
  /\ r.pc \in {"put_index", "put_flag"} => r.id \in index
  /\ r.pc = "put_revoked" => r.op = "revoke"
  /\ r.pc = "put_log" /\ r.op = "setup" => r.id \in Complete
  /\ r.pc = "get_key" => r.copy # "absent"
  /\ r.pc = "unawaited" => r.copy = "active"
RequestInv == \A p \in Handlers : Carries(req[p])

IndInv == TypeOK /\ StoreInv /\ DeliveredComplete /\ SetupAccounted /\ RequestInv

----------------------------------------------------------------------------
(* What the documentation says, and the code does not do *)

\* Setup is a one-time operation (docs/reference/api-reference.md).
SetupOnce == \A j, k \in Admins : <<"setup", j>> \in log /\ <<"setup", k>> \in log => j = k

====

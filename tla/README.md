# A formal model of api-gateway-workers

This directory keeps TLA+ models of the API gateway beside its code: one module per
component, the TLC configurations that check small instances of it, and proofs that hold
for every value of the constants. `PROJECT.json` links every definition to the lines it
stands for, every hazard of the code to the properties about it, and every property to a
faulty variant of the code that breaks it. Paths below are relative to `src/src/` of the
repository unless they start with `docs/` or name a file of its root.

    tlc -workers 2 -config KeyManagerGated.cfg MCKeyManager     # check
    tlapm KeyManagerProofs.tla                                  # prove

## 1. The system

The gateway is a Cloudflare Worker (`index.js`) in front of one Durable Object
(`lib/KeyManagerDurableObject.js`). The worker serves setup, log-in and administration
from a KV namespace and forwards the rest to the object, which issues, rotates, validates
and cleans up API keys in its transactional storage and can proxy requests to upstream
services.

| Component | State | Operations | Speaks to | Hard behaviour |
|---|---|---|---|---|
| API keys, `models/ApiKeyManager.js` | records `key:`, `lookup:`, `hmac:`, `rotation:`, `keyindex:` | create, rotate, revoke, validate, clean up, list | object storage, Web Crypto | handlers interleave at every await; they write back copies read before it; a rotation is two transactions; storage fails; the object restarts |
| Maintenance, `lib/KeyManagerDurableObject.js` | the object's one alarm | constructor, `alarm()` | API keys, platform | evictions, failing clean-ups, an alarm that is moved again and again |
| Proxy, `core/proxy/ProxyService.js` | a circuit per service in memory | proxy a request, retry, count failures | upstream | requests share the circuit; retries, one abort timer and the reset timer race |
| Rate limiter, `core/security/RateLimiter.js`, `utils/security.js` | `rate:` entries | check a limit | object storage | read-decide-write across awaits; boundaries of the window |
| Administrators, `index.js`, `auth/*`, `core/auth/adapters/ApiKeyAdapter.js` | KV entries `key:`, `lookup:`, `index:owner:`, `index:admin:`, `system:setup_completed` | setup, create, revoke, validate | KV, audit log | no transactions, no gates, many workers, an un-awaited write back |
| Audit logs, `auth/auditLogger.js`, `core/audit/AuditLogger.js` | `log:` entries and their indexes | log, list | KV or object storage | entry and indexes are separate writes after the audited operation; the date may change between them; the object's listings show nothing |
| Commands, `api/controllers`, `core/command`, `core/keys` | none of their own | one controller and one handler for each operation on keys | key service, audit log | the operation is done before it is logged; the worker gives up while the object goes on |
| Listings, `models/ApiKeyManager.js`, copied in `infrastructure/storage/DurableObjectRepository.js` | a client's cursor or offset | list a page | object storage | keys come and change between pages |
| Secret rotation, `utils/security.js` | encrypted values, `hmac:` entries | re-encrypt, re-sign | object storage | writes back a listing while requests run |
| Permissions, `core/auth/AuthService.js`, `auth/roles.js`, `auth/keyValidator.js` | none | match scopes | worker, router | the same matching is written out five times, in three strengths; a key may be revoked after it was checked |
| Routing, `infrastructure/http/Router.js`, `lib/router.js`, `index.js` | the table of routes | register a route, find one | controllers | routes of three kinds, registered by three parties, overlap |
| Configuration, `infrastructure/config` | the merged settings | load, merge, fall back | routing, limits | five sources, two of which can make loading fail |
| Container, cryptography, responses | none that changes after start-up | | | sequential |

What makes each correct: a key's entries agree with one another whatever interleaves or
fails, and a dead key comes back at most for a grace period, through a rotation that was
already under way; maintenance is never lost; an open circuit takes on no load but what was
in flight, and lets requests in again; the limiter serves no more in a window than its limit
and one for each check that failed, and who waits as told is refused again only in the tick
of the reset; a key handed to an administrator stays usable and revocable, setup closes only
behind a complete administrator, and a revocation is final once no copy older than it is
held; a walk over the keys misses none that was there, and a rotation of a secret leaves
nothing behind it unsigned, nor under the old secret unless a request held an older copy;
what a client was told of an operation that is logged is in the log; the layers of the
configuration are respected; and a handler is reached by the route that has priority, by a
holder of the right scope. Where the code does less than its documents say, section 5 says so.

## 2. The modules

| Module | Models | Checked by | Proved in |
|---|---|---|---|
| `KeyLifecycle` | what the object promises of the life of its keys (abstract) | as a property of `KeyManager` | |
| `KeyManager` | API keys | `keys_*` runs through `MCKeyManager` | `KeyManagerProofs` |
| `KeyListing` | the two listings, as operators | as part of `KeyWalks` | `KeyWalksProofs` |
| `KeyWalks` | page by page listings and the two secret rotations, beside requests | `key_walks` through `MCKeyWalks` | `KeyWalksProofs` |
| `KeyManagerDurableObject` | the maintenance schedule | as part of `DurableObject` | `KeyManagerDurableObjectProofs` |
| `ProxyService` | one service's circuit and its requests | `proxy` through `MCProxyService` | `ProxyServiceProofs` |
| `HalfOpen` | `ProxyService` with a history of the half-open state the documents draw | `half_open` | |
| `FixedWindow` | what a limiter promises (abstract) | as a property of `RateLimiter` | |
| `Limits` | the limiter's constants and its arithmetic on one entry | as part of `RateLimiter` | |
| `RateLimiter` | one limiter entry | as part of `DurableObject` | `RateLimiterProofs` |
| `DurableObject` | composes `KeyManagerDurableObject` and `RateLimiter`: one instance, its alarm, requests and evictions | `durable_object` | `KeyManagerDurableObjectProofs` |
| `AdminKeys` | administrators in KV | `admin_*` runs through `MCAdminKeys` | `AdminKeysProofs` |
| `AuditedCommands` | commands, administrators' operations, and both audit logs | `audited_commands` through `MCAuditedCommands` | `AuditedCommandsProofs` |
| `Configuration` | the layers of the configuration, as operators | as part of `Gateway` | `GatewayProofs` |
| `Permissions` | roles and the ways to match a scope, as operators | as part of `Gateway` | `GatewayProofs` |
| `Router` | both routers and the object's table, as operators | as part of `Gateway` | `GatewayProofs` |
| `Gateway` | from the configuration over the table to an answer; composes the three above | `gateway` through `MCGateway` | `GatewayProofs` |

Definitions whose comment starts with FAULT are not part of any specification: each is a
variant of the definition after it with a plausible bug, and stands in for that definition
to show that a property can fail.

### How code becomes actions

An action is what a handler does between two awaits, together with the storage operation
it then waits for: the read or write takes effect where it is issued, and a label (`pc`)
names what the handler waits for. The locals a later segment still uses are fields of the
handler's record, so that a stale copy is stale in the model too. A Durable Object holds
other events back while one waits for *storage* (its input gates) but not while one waits
for cryptography, a timer or an upstream: `MayRun` and `MayClean` say so. In KV nothing is
held back.

**KeyManager.** `keys`, `rotation`, `lookup`, `hmac` and `index` are the entries with those
prefixes; an id stands for its plaintext value, since each value belongs to one id. `req`
holds the requests in flight and `cl` the clean-up. `createKey` is one action, as it reads
nothing before its one transaction; `rotateKey` is five (the key, the rotation record, the
wait on HMAC and ciphertext, the transaction of `createKey`, the second transaction with
the copies read at the start); `revokeKey` has its retries; `validateKey` reads the
lookup, the signature, the record and the rotation record one after another and may or may
not store `lastUsedAt` (the write is not awaited and its failure only logged);
`cleanupExpiredKeys` lists the records, then the lookups, then the HMACs, in any order
within a listing, and commits all in one transaction. `CleanUndecrypted` (a value that does
not decrypt: the revocation or the deletion of the rotation record already put stays, the
entries of the value stay too), `CleanSkip` (a read that fails), `CleanFails`, `RequestFails`
and `RevokeFails` are the error paths, `Restart` an eviction. Names, owners, scopes and the
ciphertext are left out: nothing here decides on them but the scope check, which only
rejects (`ValidateReject` may reject any key).

**KeyManagerDurableObject.** `alarm` is the time to the pending alarm. The constructor runs
on the first event after an eviction, in `Fetch` or in `AlarmFires`.

**ProxyService.** `circuit` is the entry of one service; services are independent. `Answer`
covers a success, a server error and any other answer, `AttemptFails` a rejected fetch.
A refused request (503) changes nothing and has no action. `since`, `left` and `pause` count
the time since the last failure, to the abort timer and to the retry timer, so time is not
bounded. The circuit breaker is taken as enabled; retries disabled is `MaxAttempts = 1`.

**HalfOpen.** `probe` is the request that an open circuit whose timeout has passed let
through, until anything is heard of the upstream; otherwise it is `ProxyService`.

**RateLimiter** (with `Limits`). One entry, as each client and path has its own.
`entry.life` is the time until `resetAt` has passed, 1 while it is now: the entry still
counts then, as `resetAt < now` is strict. `refusal` records the wait clients were told,
exactly `retryAfter` seconds. When the storage fails (`CheckFails`) the callers differ: the
object's `fetch` logs the error and serves the request uncounted (`Serve`), the older
router ends it (`Raise`). `window` counts the requests served and the checks that failed
since the window was opened.

**DurableObject.** A limiter's step needs an instance in memory (`Limited`), an eviction
takes what waits in it and the clean-up that runs (`EvictAll`). Each part has a clock of its
own, an alarm being hours away and a window lasting a minute. `fetch` asks `container.has`
first, which the container lacks (section 5); the model takes `fetch` as it is written to
work.

**AdminKeys.** `atomic` is whether `env.KV.transaction` is a function, which the code tests:
either may be the case, for ever. `createApiKey` is one write or four accordingly. `log`
holds the `log:admin:` entries; their indexes are behind `Answer`. `Ends` ends a request
after any of its writes: a failed operation, a stopped worker, a body that is not valid
JSON, the loss of a write nobody awaits. `withheld` holds the administrators whose setup
ended after it had put the flag and before it answered: their value is lost. A KV operation
takes effect when it is issued, except the un-awaited one (`WriteLands`).

**KeyWalks** (with `KeyListing`). `walk` is a client's walk by cursor or by offset, or a
rotation of the encryption or of the HMAC secret: what it has listed, what is left, and
what it owes (`due`). Requests are what a walk sees of them: `DrawKey` and `StoreKey` are
`createKey` before and after its cryptography, `RotateBegin` and `RotateEnd` the first read
and the second commit of `rotateKey`, `ExpireBegin` and `ExpireEnd` the listing and the
commit of a clean-up for an expired key, whose copy waits for the decryption in between
(`GiveUp` is a commit that fails), `Revoke` and `Clean` the rest. A page is one action,
as its reads are all of storage. A ciphertext or signature is the secret it was made with.
`Stored` is the set of index entries, which `KeyManager` shows to be the stored records.

**AuditedCommands.** `medium` is where the log is: `object` for the commands of the Durable
Object, `kv` for setup and the administrators. Each controller is an action that puts the
administrator into the command (`by`) or beside it (`adminId`) and each handler one that
does the operation and looks for the administrator in the one or the other (`logFor`), as
the code does, handler by handler; the writes of `logAdminAction` follow one by one.
`LoggedActions` are the operations that anything logs: not the creation of an administrator,
nor a validation, though one may revoke the key it finds expired (section 5). A sender who
is told of success gets a receipt: its name, what it asked for, and the entry.
`TimeOut` is the worker's race with the object, `Fail` any failure or stop. `unlogged` and
`answered` record what properties are about.

**Gateway** (with `Configuration`, `Permissions` and `Router`). `Configure` is
`setupConfig`, `Register` one call of `setupRoutes`, `Extend` an embedding program's
`addProxy`. A setting's value is the name of the layer it comes from, and `ValueOf` gives
what routing reads of it. A scope is the sequence of its parts; permissions are compared in
lower case, `hasAdminScope` is not: `lower` and the scope "Admin:..." among the inputs tell
them apart. Paths are sequences of segments, a pattern the set of segments it
accepts at each place. `AskWorker` has the tests of `fetch` in `index.js` in their order;
`WorkerValidates` and `ObjectValidates` are what follows the wait for the key. The worker's
forwarding and the object's router are started by `Ask` separately, since every request
that reaches the object ends in its error handler (section 5). The worker is taken to have
both its bindings; without one it answers every request with an error.

### Assumptions

- The storage's transaction object, `commit`, `setAlarm` and KV `transaction` are taken
  as the code uses them, a commit being all or nothing.
- KV is read as it was last written. A KV namespace replicated with delay may also answer
  with an older record; `RevocationSettles` then holds from the moment no older copy is
  left anywhere, not only in no request.
- One clean-up runs at a time (two need an administrator's request during the alarm's).
- `now`, the expiries and the grace periods share one clock that does not go back.
- Administrator keys do not expire: no caller of `createApiKey` passes `expiresAt`.
- `KeyManager` starts with no keys: a key created by an older version without an HMAC or an
  index entry is not modelled.
- `KeyWalks`: the secrets in use stay the old ones; a change of the environment restarts the
  object, which ends its walks. A failure of one record's cryptography passes it over, as
  the code does; a failed listing or write ends the walk (`WalkEnd`).
- `AuditedCommands`: ids of entries are never drawn twice; the log has room for a finite
  number (`LogIdLeft` keeps a request from starting when it is full); a listing is the
  union of its pages.
- `Gateway`: one request at a time, since serving changes nothing another request reads;
  `source` is forgotten once the first route is registered, and `config` after the last.
  `GatewayAssumption` gives the constants their types: among them, that the versions of
  every layer are a list, and that routes are added with a kind the router has.
- `ProxyService` has no module-level limit on requests in flight, as the code has none. The
  abort timer exists outside the test environment only; that is what is modelled. That the
  timer, never cleared, may cut off the body of an answer already passed on is not.
- `Delay(n)`, the backoff, is assumed to be a natural number: the arithmetic of the
  provers has no exponentiation. TLC evaluates the assumption.

## 3. The runs

| Run | Instance | What it shows |
|---|---|---|
| `keys_gated` | 3 keys, 2 requests and the clean-up, 1 fault, time to 2 | the index is exact, signatures outlive lookups, links resolve; with input gates, every write is a step in the life of a key (`KeyLifecycle`), whichever copy it writes back, only a rotation under way undoes a revocation, what is accepted is live at that moment, active keys can be found |
| `keys_fair` | 2 keys, 1 request and the clean-up, 1 fault, time to 2 | expired keys are retired, entries of dead keys and rotations go away |
| `keys_revoked_final`, `keys_grace` | as above, no fault | the disagreements of section 5 |
| `key_walks` | 3 keys, 1 walk, pages of 1 and 2, time to 2 | a cursor shows each key that was there once, an offset at least once; a rotated secret leaves nothing it listed unsigned, what it re-encrypted stays so unless a request held an older copy, and revocations behind it stand |
| `durable_object` | intervals 3 and 1; 2 requests, limit 3, window 8, a second of 3 ticks, 2 failed checks a window | maintenance is never dropped, and recurs unless evictions go on for ever; the limiter implements the fixed window, failed checks served on top; who waits as told is refused again only in the tick of the reset |
| `proxy` | 3 requests, threshold 5, 3 attempts, timeouts of 2 | while the circuit blocks, nobody gets more attempts than were left; it lapses; requests are answered |
| `half_open` | 2 requests, threshold 5, 3 attempts, timeouts of 2 | the disagreement of section 5 |
| `admin_keys` | 2 administrators, 3 requests | what is handed over is complete; setup closes only behind a complete administrator, whose value only a failure after the flag can lose; revocations settle |
| `admin_setup_once` | 2 administrators, 2 requests | the disagreement of section 5 |
| `audited_commands` | 2 administrators, 1 target, 2 log ids, 2 requests, 2 days, 1 fault | indexes resolve; what was answered is logged under the name of who was answered and all its indexes; of the operations that are logged, only one a failure cut short leaves a change without a log |
| `gateway` | 5 settings, 16 requests, 3 extra routes, 9 sets of scopes | the layers are respected where guide and code agree, later routes take nothing they should not, a handler is reached by the route that has priority and by those its permission admits |

Why the bounds suffice: three keys are a key, its successor and the successor of a second
rotation or a bystander; two requests and the clean-up are every pair of operations that can
overtake each other, with a third actor behind them. With `now` from 1 to 2 a key expiring
at 1 and a grace period of 0 end within the run, so each comparison is met on both sides of
its boundary. One fault at any point, followed by anything, reaches every partial state;
proofs cover any number. Five failures need more than one request of three attempts, so the
circuit opens through several. A window of 8 ticks with 3 to a second has a remainder, so
rounding matters, and the tick of `resetAt` itself is met after a wait of whole seconds. Two
administrators and three requests allow a revocation, a validation holding an older copy and
a second one after it. In `key_walks` the constraint `FewUnlessListing` draws the third key
only where a listing can tell: nothing cleaned up, nothing re-sealed, one rotation at most;
secret rotations treat each key by itself, and two show one passed and one still ahead, with
at most two copies held by rotations and clean-ups while the clock, which re-sealing does
not read, stands. In `audited_commands` two requests of two administrators share one target,
so a revocation, its repetition and a rotation meet; two ids let each be logged; two days
put midnight between any two writes. In `gateway` every combination of layers gives every
version list, and the asked paths hold for each kind of route one only it matches and one
that two match.

Symmetry (interchangeable keys and requests) is used in runs without liveness only. No run
disables the deadlock check: time may always pass or a request end.

**Fairness.** `KeyManager`: a handler whose storage operation is done is resumed (`WF`), as
the event loop does; time passes; and the clean-up makes progress again and again (`SF`),
since a request holds it back only while it waits for storage, and a clean-up that failed or
was cut short is followed by another. That one follows is what `durable_object` shows of the
alarm: on success, on error and, evictions being finitely many, after them. Faults are
finitely many here by `MaxFaults`. No fairness makes a client send a request.
`ProxyService`: timers fire, a body is read, an aborted attempt rejects; nothing makes the
upstream answer. `DurableObject`: time passes, a due alarm is delivered, a clean-up ends;
nothing is assumed of the limiter.

## 4. The proofs

All theorems are of the form `Spec => ...` for any constants that satisfy the named
assumptions of the module: any number of keys, requests and administrators, any limits
and periods, both settings of `InputGates` (except where it says so) and of `atomic`.

- **KeyManager** (`IndexExact`, `SignatureKept`, `LinksResolve`, types). `LinksResolve` is
  not inductive: a handler in flight may hold a copy of a record, with links of its own,
  and write it back later. The invariant `IndInv` adds that `lookup` is within `hmac`
  within the stored records, what each handler carries at each label (`Carries`: ids and
  successors are stored, copies are of stored records), and for the clean-up that what it
  has listed was stored and that it drops an HMAC only if the lookup is gone or dropped
  with it (`CleanInv`). Records are never deleted, so "stored" is stable; that is what
  makes the proof go through without the gates.
- **KeyManager with gates** (`ActiveKeyFindable`, `RotationRetiresOldKey`,
  `RevocationOutlivesAllButRotation`, `AcceptedKeyIsLive`, `NoReactivation`), assuming
  `InputGates`. None is inductive: each handler holds copies. `GatedInv` adds that at most
  one handler or the clean-up waits for storage (`Alone`), so that what a handler has read
  is what is stored until it waits for cryptography (`Fresh`); and that the clean-up, whose
  listing does grow stale while it decrypts, clears only entries of retired keys and of
  those it will revoke (`ClearsRetired`), which stays true as nothing but a rotation moves
  a retired key and only to rotated (`StatusSteps`).
- **KeyManager implements KeyLifecycle** (`LifecycleSpec`, a refinement, with gates). The
  abstract keys have a status, an expiry and a predecessor, and change in one step each; a
  handler changes them from copies. `LifeInv` adds what the copies that do grow stale, a
  rotation's and the clean-up's, still agree on with the record: its expiry and its
  predecessor (`SameOrigin`), and that a copy the clean-up is going to mark was expired
  when listed, hence is. `createKey` stores a successor that only its rotation knows, so
  nobody has a copy of it from before it was linked. Every step is then one of the life,
  or none: a validation's write back changes nothing, a rotation under way is `rotating`
  until it commits or is given up (`GiveUp`: refused, failed, lost in a restart), and a
  clean-up is one `Retire`. What the code does against its documents stays visible in the
  promise: `Replace` does not ask whether the key was revoked meanwhile, and `Retire` may
  drop the value of a rotated one (section 5). That no retired key is ever active again
  (`NoReactivation`) follows from either.
- **AuditedCommands** (`IndexesResolve`, `AnsweredIsLogged`, `UnloggedNeedsFault`, types).
  `IndInv` adds what a request has logged at each label, and that it is logged for its
  sender (`Carries`), and that an operation that is logged is asked for by someone its
  handler will find (`Signed`), shown controller by controller and handler by handler. The
  log only grows (`Grow`), so what is complete stays so. Nothing is claimed of the changes
  that nothing logs (`LoggedActions`).
- **KeyWalks** (`CursorWalkExact`, `OffsetWalkComplete`, `ListedResigned`, `ResealedKept`,
  `RevocationAfterPassKept`, types). `IndInv` ties what a walk has shown to where it stands:
  a cursor has shown exactly what it owes up to its cursor and nothing after it
  (`CursorInv`), an offset everything it owes before it, and what is at or after it once
  less than it may in the end (`OffsetInv`). Both stand on the order of the index being
  total on stored keys: a page ends where its last entry stands (`PageCuts`), a key stored
  later only moves others back (`PositionGrows`), and `createdAt` never changes. A rotation
  of the HMAC secret leaves what it has passed signed with the new one (`SecretInv`), since
  nobody else signs a key that is stored. A record re-encrypted with no older copy in hand
  stays so, since every later copy is read from it. That a revocation behind the other rotation
  stands follows step by step: whoever writes a record over another writes a copy, and
  only a rotation of the key or of its ciphertext holds one.
- **Gateway** (`LayersRespected`, `StableRoutes`, `AnswerJustified`, types). The first is a
  fact about `setupConfig`: a layer fails the validation exactly if it is not sound
  (`LayerCritical`), and the layers merged fail only if the variables do. The second holds
  for any table that grows at its end (`Prolongs`): the matching routes of a kind keep
  their places, so the first of them stays the first. The third needs what a request has
  behind it at each label (`RequestInv`): its route is the one `findRoute` gives for it,
  and it has a holder where one is needed; and that nothing is asked before the table is
  whole (`StartInv`). It rests on `Found`, which characterises `findRoute` (zero exactly
  if nothing matches, else the first match of the kind tried first), on
  `PermissionCovers` (the comparison up to the wildcard, written with an index in the
  code, is equality of prefixes) and on `SetupOK`, that each of the object's routes, with
  any list of versions, is one the router knows.
- **ProxyService** (`BlockedLoadShrinks`, types, and `OpenAtThreshold`, which the proofs
  state: open exactly while a threshold of failures is counted). `IndInv` adds that a
  request that waits to retry has attempts left, which bounds the attempt counter and makes
  each attempt sent one of them.
- **KeyManagerDurableObject** (`NeverDropped`, types), from `Armed`: an instance in memory
  has an alarm pending or a clean-up running.
- **RateLimiter** (`FixedWindowSpec`, a refinement, `RefusedAgainOnlyAtReset`, types).
  `IndInv` adds that at most one request waits (`Alone`), that what it has read is what is
  stored (`Fresh`), that a refused client's wait falls short of what is left of the window
  by no more than the tick of the reset (`WaitsOut`), and that whatever is served was
  counted or is owed to a failed check (`ServedFor`). Each step then maps to a step of
  `FixedWindow` or to none: a count is lost by no interleaving.
- **DurableObject** (`ObjectTypeOK`, `FixedWindowSpec`, `RefusedAgainOnlyAtReset`). A
  behaviour of the object is one of the schedule and one of the limiter, their variables
  being disjoint and their evictions allowed at any time; the theorems of the two parts
  then hold of it, those of the limiter through an instance of `RateLimiterProofs`.
- **AdminKeys** (`DeliveredComplete`, `SetupAccounted`, `RevocationSettles`, types).
  `IndInv` adds which entries a creation at each label has stored, that an index or lookup
  entry leads to a record, and that a validation about to write back holds an active copy.
  `SetupAccounted` follows a setup from the flag to its answer or its end.
  The argument is that nothing stored is ever taken away (`Grows`): the one delete in the
  code, of a lookup without a record, is unreachable. `RevocationSettles` follows since a
  copy read after the revocation is never the one written back.

Model-checked only: the liveness properties (`ExpiredKeyRetired`, `DeadEntriesCleared`,
`GraceRecordCleared`, `CleanupRecurs`, `OpenCircuitLapses`, `RequestAnswered`), which are
out of the provers' reach. Every invariant and every action property a passing run checks
is a theorem as well.

## 5. Where code and documents disagree

Each is a run of its own, whose counterexample is a behaviour of the code.

- `RevokedIsFinal`: `SECURITY.md` draws revoked as a final state. A rotation that waits for
  its successor's ciphertext commits the copy of the old key it read before the revocation
  (`models/ApiKeyManager.js:501`), and the key is rotated again, valid for its grace period.
- `GraceHonoured`: rotated keys should work during their grace period. A clean-up in that
  period deletes their lookup entries (line 792), and their values are rejected.
- `SetupOnce`: setup should succeed once. Two requests that read the flag before either
  sets it both create a first administrator.
- `HalfOpenReopens`: `docs/reference/error-reference.md:255` has a failure in the half-open
  state open the circuit again (and lines 640-672 show it in code). `isCircuitOpen`, under
  the comment "Reset circuit to half-open state for testing", closes a lapsed circuit and
  sets its failures to 0 (`core/proxy/ProxyService.js:230`): every waiting client is let in,
  and only a full threshold of failures opens it again.

Seen while reading; no interleaving decides them, or no property is about them:

- *API keys.* The branch of `revokeKey` for rotated keys is unreachable
  (`models/ApiKeyManager.js:332`): the status is overwritten before it is compared.
  `rotateKey` answers without the successor's plaintext, deleted at line 507 and read at
  line 526. `KeyServiceAdapter.revokeKey` drops the reason and who revoked. `ListKeysHandler`
  ignores the filters for status and version.
- *Maintenance.* The constructor moves the alarm a full interval ahead on every wake-up
  (`lib/KeyManagerDurableObject.js:170`), so an object woken more often never cleans up,
  where `SECURITY.md:877` has alarms clean up automatically.
- *Proxy.* `proxyHandler` reads `context.proxyService`, while the context has
  `services.proxyService`.
- *Rate limiter.* A window ends strictly after `resetAt` (`utils/security.js:402`), so a
  client that waits exactly `retryAfter` seconds may be back at `resetAt` and be refused
  again, with a `retryAfter` of 0, where `docs/reference/error-reference.md:320` and `:384`
  have clients wait a fixed delay given by `Retry-After` and `models/types.js:56` calls it
  the seconds until the client can retry; `RefusedAgainOnlyAtReset` shows that this tick
  is the only one. When the check itself fails, the object serves the request uncounted
  (`lib/KeyManagerDurableObject.js:246`); `FixedWindow` allows one for each such failure.
- *Setup.* The flag is put (`index.js:166`) before the log is written and the value answered:
  a failure in between, the log's included, leaves setup closed and the first
  administrator's value with nobody, and it cannot be repeated. `SetupAccounted` names this
  loss, and allows no other.
- *Requests.* `/health` in `index.js:61` reads `config` before it is initialised.
  `Container` has no method `has`, so `fetch` of the Durable Object ends in its error
  handler. `getAdminInfo` of the controllers yields no scopes, so `requirePermission`
  always refuses. The worker authenticates administrators' keys in KV, the object against
  its own. The middleware passes on a copy of the request without headers. Routes that are
  regular expressions give numbered parameters, while the controllers read `params.id`.
- *Routing.* With the default configuration the route for DELETE is `/v1/keys/:id` only,
  which the worker does not forward; `docs/reference/api-reference.md:525` documents
  `DELETE /keys/:id`, for which the object answers 405. The route OPTIONS `/*`, commented as
  the CORS preflight handler, is a literal, so OPTIONS `/keys` is 405 as well.
  `AnswerJustified` asks of a 405 that it lists the methods there are, not whether there
  should be others. `routing.priority` is never read.
- *Configuration.* The guide has files win over the schema's defaults and older variables
  lose against `CONFIG_` ones (`docs/guides/configuration-guide.md:73`,
  `docs/reference/configuration-reference.md:16`); but the defaults
  are applied to the variables' layer, which wins over the file, and older variables win
  over everything. In production a missing secret drops the whole configuration for the
  built-in one, with a warning. `LayersRespected` is about the settings on which the two
  agree, and silent on those with a default in the schema or an older variable.
- *Audit logs.* The object's listings read what KV's `list` returns, so they are empty;
  `getLogsByDate` exists for KV only, and its index has the date of the third write after
  the entry, which may be the next day (`IndexesResolve` allows that and no earlier one);
  `hasMore` is true when KV gives no cursor. No action a handler logs is a critical one. A
  revocation of an administrator whose log entry failed is answered as "already revoked"
  when retried and is never logged. `create_admin` is among the critical actions
  (`auth/auditLogger.js:323`, `docs/backup/ARCHITECTURE.md:835`), but nothing logs the
  creation of an administrator; nor is the revocation of an expired key by a validation
  logged.
- *Secret rotation.* Nothing calls it; a re-signed HMAC verifies only once the secret of
  the environment is changed as well. A rotation of a key or a clean-up that read a record
  before it was re-encrypted writes its copy back afterwards, old ciphertext and all, and a
  rotation of the secret that has a key ahead of it undoes its revocation:
  `ResealedKept` and `RevocationAfterPassKept` hold outside these cases.

## 6. Not modelled

- The container (built synchronously in one constructor) and the single accesses of the
  key repository, which no service uses yet; its listings are in `KeyListing`.
- The validation of a command's fields and of a setting's text: what is not valid changes
  nothing, or is only logged.
- What handlers and controllers answer beyond success or refusal.
- Cryptography and random values: ids determine values, and cryptography is a wait that
  may fail.
- Responses, error formats, logging, CORS and the rewriting of a proxied path: no state.
- The platform beyond storage, alarms, timers and evictions; two clean-ups at once.

## 7. Plan

Done, in this order: `KeyManager` and its store invariants; `ProxyService`;
`KeyManagerDurableObject`; `FixedWindow` and `RateLimiter` with the refinement, and
`DurableObject` that composes the two; `HalfOpen`; `AdminKeys`; `KeyListing` and `KeyWalks`;
`AuditedCommands`; `Configuration`, `Permissions`, `Router` and `Gateway`; `KeyLifecycle`,
which `KeyManager` implements; the proofs named in section 4. Left: two clean-ups at once,
an administrator's beside the alarm's.

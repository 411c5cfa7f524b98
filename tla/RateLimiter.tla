---- MODULE RateLimiter ----
(***************************************************************************)
(* The rate limiter (src/core/security/RateLimiter.js and checkRateLimit   *)
(* in src/utils/security.js) for one storage entry, "rate:<ip>:<path>":    *)
(* every client and path has its own, and its own limit and window.        *)
(*                                                                         *)
(* checkRateLimit reads the entry, decides, and writes it back; the        *)
(* object's input gates hold other requests back while it waits for        *)
(* storage.  Its callers differ when the storage fails: the fetch of the   *)
(* Durable Object logs the error and serves the request all the same, the  *)
(* older router ends it with the error.                                    *)
(***************************************************************************)
EXTENDS Limits

CONSTANTS
  Requests,  \* requests that can be in flight at once
  MaxFaults  \* bound on the storage failures in one window

VARIABLES
  entry,    \* the stored count and resetAt
  req,      \* the requests in flight
  refusal,  \* history: whether the window has refused a request, and the ticks until
            \* the time it was told to retry after has come
  window    \* history: the requests served and the checks that failed since the window
            \* was opened

vars == <<entry, req, refusal, window>>

Request == [pc : {"idle", "get", "put", "failed"}, data : Entry]
Idle == [pc |-> "idle", data |-> NoEntry]
NoRefusal == [told |-> FALSE, wait |-> 0]
NewWindow == [served |-> 0, faults |-> 0]

At(p, label) == req[p].pc = label
Return(p) == req' = [req EXCEPT ![p] = Idle]
Await(p, label) == req' = [req EXCEPT ![p] = [Idle EXCEPT !.pc = label]]
MayRun(p) == \A q \in Requests \ {p} : At(q, "idle")
Less1(n) == IF n = 0 THEN 0 ELSE n - 1

----------------------------------------------------------------------------

Check(p) ==
  /\ At(p, "idle") /\ MayRun(p)
  /\ req' = [req EXCEPT ![p] = [pc |-> "get", data |-> entry]]
  /\ UNCHANGED <<entry, refusal, window>>

\* The limit is reached: refused, with the seconds to retry after.
Refuse(p) ==
  /\ At(p, "get") /\ MayRun(p)
  /\ Current(req[p].data).count >= Limit
  /\ LET wait == RetryAfter(Current(req[p].data).life) * Second
     IN refusal' = [told |-> TRUE,
                    wait |-> IF refusal.told /\ refusal.wait < wait THEN refusal.wait ELSE wait]
  /\ Return(p)
  /\ UNCHANGED <<entry, window>>

\* FAULT (stands in for the next definition to show a property can fail): one request
\* too many is let through.
CountOneMore(p) ==
  /\ At(p, "get") /\ MayRun(p)
  /\ Current(req[p].data).count <= Limit
  /\ entry' = [Current(req[p].data) EXCEPT !.count = @ + 1]
  /\ IF req[p].data.life = 0
       THEN refusal' = NoRefusal /\ window' = NewWindow
       ELSE UNCHANGED <<refusal, window>>
  /\ Await(p, "put")

\* Counted, and the entry written back.
Count(p) ==
  /\ At(p, "get") /\ MayRun(p)
  /\ Current(req[p].data).count < Limit
  /\ entry' = [Current(req[p].data) EXCEPT !.count = @ + 1]
  /\ IF req[p].data.life = 0
       THEN refusal' = NoRefusal /\ window' = NewWindow
       ELSE UNCHANGED <<refusal, window>>
  /\ Await(p, "put")

\* The read or the write fails: nothing is written.
CheckFails(p) ==
  /\ At(p, "get") /\ MayRun(p)
  /\ window.faults < MaxFaults
  /\ window' = [window EXCEPT !.faults = @ + 1]
  /\ Await(p, "failed")
  /\ UNCHANGED <<entry, refusal>>

\* The request goes on to its route: counted, or after a check that failed.
Serve(p) ==
  /\ req[p].pc \in {"put", "failed"} /\ MayRun(p)
  /\ window' = [window EXCEPT !.served = @ + 1]
  /\ Return(p)
  /\ UNCHANGED <<entry, refusal>>

\* The router has no handler for the error of a check that failed.
Raise(p) ==
  /\ At(p, "failed") /\ MayRun(p)
  /\ Return(p)
  /\ UNCHANGED <<entry, refusal, window>>

Restart ==
  /\ req' = [p \in Requests |-> Idle]
  /\ UNCHANGED <<entry, refusal, window>>

\* A copy ages with the entry.
Tick ==
  /\ entry' = [entry EXCEPT !.life = Less1(@)]
  /\ req' = [p \in Requests |-> [req[p] EXCEPT !.data.life = Less1(@)]]
  /\ refusal' = [refusal EXCEPT !.wait = Less1(@)]
  /\ UNCHANGED window

Init ==
  /\ entry = NoEntry
  /\ req = [p \in Requests |-> Idle]
  /\ refusal = NoRefusal
  /\ window = NewWindow

Next ==
  \/ \E p \in Requests :
       \/ Check(p) \/ Refuse(p) \/ Count(p)
       \/ CheckFails(p) \/ Serve(p) \/ Raise(p)
  \/ Restart
  \/ Tick

Spec == Init /\ [][Next]_vars

----------------------------------------------------------------------------
(* Properties *)

TypeOK ==
  /\ entry \in Entry
  /\ req \in [Requests -> Request]
  /\ refusal \in [told : BOOLEAN, wait : Nat]
  /\ window \in [served : Nat, faults : Nat]

\* What a request reads is still what is stored when it writes, so no interleaving and no
\* eviction loses a count: the limiter implements the fixed window, which serves at most
\* Limit requests, and one more for each check that failed and was passed over.
Fixed == INSTANCE FixedWindow WITH
  used <- entry.count, life <- entry.life, refused <- refusal.told,
  served <- window.served, faults <- window.faults
FixedWindowSpec == Fixed!Spec

\* Rounding the seconds up leaves one boundary: a client that is back when it was told to
\* come, or later, is refused by the same window only while resetAt is now, as the window
\* ends strictly after it; it is then told to retry after 0 seconds.
RefusedAgainOnlyAtReset ==
  [][refusal.told /\ refusal.wait = 0
       => \A p \in Requests : Refuse(p) => entry.life = 1]_vars

====

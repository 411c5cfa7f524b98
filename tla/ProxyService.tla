---- MODULE ProxyService ----
(***************************************************************************)
(* The proxy of the gateway (src/core/proxy/ProxyService.js): the requests *)
(* it forwards to one upstream service, their retries and abort timers,    *)
(* and the circuit breaker they share.  Services keep separate breakers,   *)
(* so one is enough.                                                       *)
(*                                                                         *)
(* The breaker is a plain object in memory, read and written between       *)
(* awaits by every request in flight.  Times are kept relative to now: how *)
(* long ago the last failure was, how long a timer still has to run; both  *)
(* stop where no decision tells further values apart, so neither time nor  *)
(* the number of requests is bounded.                                      *)
(***************************************************************************)
EXTENDS Naturals

CONSTANTS
  Requests,          \* requests that can be in flight at once
  FailureThreshold,  \* circuitBreaker.failureThreshold
  ResetTimeout,      \* circuitBreaker.resetTimeout
  MaxAttempts,       \* retry.maxAttempts, 1 with retries disabled
  Backoff,           \* retry.backoff
  Timeout            \* the service's or the proxy's timeout

\* How long the retry after attempt n waits.
Delay(n) == Backoff * 2^(n - 1)

ASSUME ProxyAssumption ==
  /\ FailureThreshold \in Nat \ {0} /\ MaxAttempts \in Nat \ {0}
  /\ ResetTimeout \in Nat /\ Timeout \in Nat
  /\ \A n \in 1..MaxAttempts : Delay(n) \in Nat

VARIABLES
  circuit,   \* circuitState[serviceName]
  req        \* the requests in flight

vars == <<circuit, req>>

Least(a, b) == IF a < b THEN a ELSE b
Less1(n) == IF n = 0 THEN 0 ELSE n - 1

\* failures stops at the threshold, since (Date.now() - lastFailure) past the timeout.
Circuit == [failures : 0..FailureThreshold, open : BOOLEAN, since : 0..(ResetTimeout + 1)]
Fresh == [failures |-> 0, open |-> FALSE, since |-> ResetTimeout + 1]

\* left is what the abort timer has to run, pause what the retry timer has.
Request == [pc : {"idle", "prepare", "fetch", "backoff"}, attempt : 0..MaxAttempts,
            left : 0..Timeout, aborted : BOOLEAN, pause : Nat]
Idle == [pc |-> "idle", attempt |-> 0, left |-> 0, aborted |-> FALSE, pause |-> 0]

At(p, label) == req[p].pc = label
Return(p) == req' = [req EXCEPT ![p] = Idle]

----------------------------------------------------------------------------
(* The circuit breaker *)

Lapsed == circuit.since > ResetTimeout

\* FAULT (stands in for the next definition to show a property can fail): the
\* circuit is probed a tick before its timeout has passed.
IsCircuitOpenEarly == circuit.open /\ circuit.since < ResetTimeout

\* isCircuitOpen answers true only until the reset timeout has passed.
IsCircuitOpen == circuit.open /\ ~Lapsed

\* What resetCircuitBreaker does, and isCircuitOpen once the timeout has passed.
ResetCircuitBreaker(c) == [c EXCEPT !.failures = 0, !.open = FALSE]

RecordFailure(c) ==
  [failures |-> Least(c.failures + 1, FailureThreshold),
   open |-> c.open \/ c.failures + 1 >= FailureThreshold,
   since |-> 0]

----------------------------------------------------------------------------
(* A request *)

\* proxyRequest while the breaker lets it through.  An open breaker whose timeout has
\* passed is closed on the way.  While it blocks, the answer is a 503 and nothing changes.
Admit(p) ==
  /\ At(p, "idle") /\ ~IsCircuitOpen
  /\ circuit' = IF circuit.open THEN ResetCircuitBreaker(circuit) ELSE circuit
  /\ req' = [req EXCEPT ![p].pc = "prepare"]

\* The body is read, the abort timer started and the first attempt sent.
Send(p) ==
  /\ At(p, "prepare")
  /\ req' = [req EXCEPT ![p].pc = "fetch", ![p].attempt = 1, ![p].left = Timeout]
  /\ UNCHANGED circuit

\* The upstream answers: success closes the breaker, a server error counts as a failure,
\* anything else does neither.  Every answer is passed on.
Answer(p) ==
  /\ At(p, "fetch") /\ ~req[p].aborted
  /\ circuit' \in {ResetCircuitBreaker(circuit), RecordFailure(circuit), circuit}
  /\ Return(p)

\* FAULT (stands in for the next definition to show a property can fail): one attempt
\* too many.
AttemptFailsOnceMore(p) ==
  /\ At(p, "fetch")
  /\ circuit' = RecordFailure(circuit)
  /\ IF req[p].attempt <= MaxAttempts
       THEN req' = [req EXCEPT ![p].pc = "backoff",
                               ![p].pause = Delay(req[p].attempt)]
       ELSE Return(p)

\* The attempt rejects, by itself or because the request is aborted: count it, then wait
\* to try again or give up with a 502.
AttemptFails(p) ==
  /\ At(p, "fetch")
  /\ circuit' = RecordFailure(circuit)
  /\ IF req[p].attempt < MaxAttempts
       THEN req' = [req EXCEPT ![p].pc = "backoff",
                               ![p].pause = Delay(req[p].attempt)]
       ELSE Return(p)

\* FAULT (stands in for the next definition to show a property can fail): the
\* attempts are not counted.
RetryUncounted(p) ==
  /\ At(p, "backoff") /\ req[p].pause = 0
  /\ req' = [req EXCEPT ![p].pc = "fetch"]
  /\ UNCHANGED circuit

\* FAULT (as above): a retry goes through the breaker, and waits for it to close.
RetryWhenClosed(p) ==
  /\ At(p, "backoff") /\ req[p].pause = 0 /\ ~circuit.open
  /\ req' = [req EXCEPT ![p].pc = "fetch", ![p].attempt = @ + 1]
  /\ UNCHANGED circuit

\* The retry timer fires.  The breaker is not asked again.
Retry(p) ==
  /\ At(p, "backoff") /\ req[p].pause = 0
  /\ req' = [req EXCEPT ![p].pc = "fetch", ![p].attempt = @ + 1]
  /\ UNCHANGED circuit

\* The one abort timer of a request spans its attempts; once it has fired, what is
\* left of them rejects at once.
Abort(p) ==
  /\ req[p].pc \in {"fetch", "backoff"} /\ req[p].left = 0 /\ ~req[p].aborted
  /\ req' = [req EXCEPT ![p].aborted = TRUE]
  /\ UNCHANGED circuit

----------------------------------------------------------------------------
(* The environment *)

Tick ==
  /\ circuit' = [circuit EXCEPT !.since = Least(@ + 1, ResetTimeout + 1)]
  /\ req' = [p \in Requests |-> [req[p] EXCEPT !.left = Less1(@), !.pause = Less1(@)]]

\* The instance is replaced: the breaker starts afresh and requests in flight are lost.
Restart ==
  /\ circuit' = Fresh
  /\ req' = [p \in Requests |-> Idle]

Init ==
  /\ circuit = Fresh
  /\ req = [p \in Requests |-> Idle]

Next ==
  \/ \E p \in Requests : Admit(p) \/ Send(p) \/ Answer(p) \/ AttemptFails(p)
                           \/ Retry(p) \/ Abort(p)
  \/ Tick
  \/ Restart

Spec == Init /\ [][Next]_vars

\* Timers fire, the body of a request is read, an aborted attempt rejects.  Nothing
\* makes the upstream answer or a client come.
Fairness ==
  /\ WF_vars(Tick)
  /\ \A p \in Requests : /\ WF_vars(Send(p)) /\ WF_vars(Retry(p)) /\ WF_vars(Abort(p))
                         /\ WF_vars(req[p].aborted /\ AttemptFails(p))
FairSpec == Spec /\ Fairness

----------------------------------------------------------------------------
(* Properties *)

TypeOK ==
  /\ circuit \in Circuit
  /\ req \in [Requests -> Request]

\* Retries do not ask the breaker again, so it cannot keep those in flight off the upstream;
\* but while it blocks, nobody gets more attempts than were left when it began to, and each
\* attempt sent uses one of them up.
Left(p) == IF At(p, "idle") THEN 0 ELSE MaxAttempts - req[p].attempt
AttemptSent(p) == ~At(p, "fetch") /\ At(p, "fetch")'
BlockedLoadShrinks ==
  [][circuit.open /\ circuit.since <= ResetTimeout
       => \A p \in Requests : Left(p)' <= Left(p) /\ (AttemptSent(p) => Left(p)' < Left(p))]_vars

\* The failures of requests still in flight put off the moment an open circuit is probed
\* again, but not for ever.
OpenCircuitLapses == circuit.open ~> (~circuit.open \/ Lapsed)

\* Every request admitted is answered, whether or not the upstream ever answers.
RequestAnswered == \A p \in Requests : At(p, "prepare") ~> At(p, "idle")

====

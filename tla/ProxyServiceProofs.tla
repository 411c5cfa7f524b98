---- MODULE ProxyServiceProofs ----
(***************************************************************************)
(* Proofs about ProxyService, for any number of requests and any setting   *)
(* of the breaker, the retries and the timers.                             *)
(***************************************************************************)
EXTENDS ProxyService, TLAPS

----------------------------------------------------------------------------
(* The two ways the code changes a breaker *)

CircuitOK(c) == c \in Circuit /\ (c.open <=> c.failures = FailureThreshold)

LEMMA ResetOK ==
  ASSUME NEW c \in Circuit PROVE CircuitOK(ResetCircuitBreaker(c))
<1>1. 0 \in 0..FailureThreshold /\ 0 # FailureThreshold
  BY ProxyAssumption
<1>2. [c EXCEPT !.failures = 0] \in Circuit /\ [c EXCEPT !.failures = 0].failures = 0
  BY <1>1 DEF Circuit
<1>3. /\ ResetCircuitBreaker(c) \in Circuit
      /\ ResetCircuitBreaker(c).failures = 0 /\ ResetCircuitBreaker(c).open = FALSE
  BY <1>2 DEF ResetCircuitBreaker, Circuit
<1> QED BY <1>1, <1>3 DEF CircuitOK

LEMMA RecordOK ==
  ASSUME NEW c, CircuitOK(c) PROVE CircuitOK(RecordFailure(c))
<1>1. /\ c.failures \in 0..FailureThreshold /\ c.open \in BOOLEAN
      /\ c.open <=> c.failures = FailureThreshold
  BY DEF CircuitOK, Circuit
<1>2. /\ Least(c.failures + 1, FailureThreshold) \in 0..FailureThreshold
      /\ (c.open \/ c.failures + 1 >= FailureThreshold)
           <=> Least(c.failures + 1, FailureThreshold) = FailureThreshold
  BY <1>1, ProxyAssumption DEF Least
<1>3. 0 \in 0..(ResetTimeout + 1)
  BY ProxyAssumption
<1> QED BY <1>2, <1>3 DEF CircuitOK, RecordFailure, Circuit

LEMMA AgeOK ==
  ASSUME NEW c, CircuitOK(c)
  PROVE  CircuitOK([c EXCEPT !.since = Least(c.since + 1, ResetTimeout + 1)])
<1>1. c.since \in 0..(ResetTimeout + 1)
  BY DEF CircuitOK, Circuit
<1>2. Least(c.since + 1, ResetTimeout + 1) \in 0..(ResetTimeout + 1)
  BY <1>1, ProxyAssumption DEF Least
<1> QED BY <1>2 DEF CircuitOK, Circuit

----------------------------------------------------------------------------
(* The invariant: types, and the breaker open exactly at its threshold *)

\* The code knows an open and a closed breaker only, by its count: one that lapses is
\* closed with a count of zero, not half open.
OpenAtThreshold == circuit.open <=> circuit.failures = FailureThreshold

\* A request sent has an attempt to its name.
Attempted == \A p \in Requests : req[p].pc \in {"fetch", "backoff"} => req[p].attempt # 0
\* Only a request with an attempt left waits to retry.
AttemptLeft == \A p \in Requests : req[p].pc = "backoff" => req[p].attempt < MaxAttempts

\* One that was not sent yet has made no attempt.
Unsent == \A p \in Requests : req[p].pc \in {"idle", "prepare"} => req[p].attempt = 0

IndInv == TypeOK /\ OpenAtThreshold /\ Attempted /\ AttemptLeft /\ Unsent

LEMMA IdleOK == Idle \in Request
BY ProxyAssumption DEF Idle, Request

LEMMA InitInd == Init => IndInv
<1>1. Init => CircuitOK(circuit)
  BY ProxyAssumption DEF Init, CircuitOK, Circuit, Fresh
<1>2. Init => req \in [Requests -> Request]
  BY IdleOK DEF Init
<1>3. Init => Attempted /\ AttemptLeft /\ Unsent
  BY DEF Init, Attempted, AttemptLeft, Unsent, Idle
<1> QED BY <1>1, <1>2, <1>3 DEF IndInv, TypeOK, OpenAtThreshold, CircuitOK

\* A step that keeps the breaker in order and gives one slot a sound request.
LEMMA SlotInd ==
  ASSUME IndInv, CircuitOK(circuit'),
         NEW p \in Requests, NEW r \in Request, req' = [req EXCEPT ![p] = r],
         r.pc \in {"fetch", "backoff"} => r.attempt # 0,
         r.pc = "backoff" => r.attempt < MaxAttempts,
         r.pc \in {"idle", "prepare"} => r.attempt = 0
  PROVE  IndInv'
<1>1. req' \in [Requests -> Request]
  BY DEF IndInv, TypeOK
<1>2. \A q \in Requests : req'[q] = IF q = p THEN r ELSE req[q]
  BY DEF IndInv, TypeOK
<1>3. Attempted' /\ AttemptLeft' /\ Unsent'
  BY <1>2 DEF IndInv, Attempted, AttemptLeft, Unsent
<1> QED BY <1>1, <1>3 DEF IndInv, TypeOK, OpenAtThreshold, CircuitOK

LEMMA NextInd == ASSUME IndInv, [Next]_vars PROVE IndInv'
<1>0. /\ CircuitOK(circuit) /\ circuit \in Circuit
      /\ \A p \in Requests : req[p] \in Request
  BY DEF IndInv, TypeOK, OpenAtThreshold, CircuitOK
<1>1. ASSUME NEW p \in Requests, Admit(p) PROVE IndInv'
  <2>1. CircuitOK(circuit')
    BY <1>0, <1>1, ResetOK DEF Admit, Circuit
  <2>2. [req[p] EXCEPT !.pc = "prepare"] \in Request
    BY <1>0 DEF Request
  <2>3. /\ [req[p] EXCEPT !.pc = "prepare"].pc = "prepare"
        /\ [req[p] EXCEPT !.pc = "prepare"].attempt = 0
    BY <1>0, <1>1 DEF Request, Admit, At, IndInv, Unsent
  <2>4. req' = [req EXCEPT ![p] = [req[p] EXCEPT !.pc = "prepare"]]
    BY <1>1 DEF Admit
  <2> QED BY <2>1, <2>2, <2>3, <2>4, SlotInd
<1>2. ASSUME NEW p \in Requests, Send(p) PROVE IndInv'
  <2> DEFINE a == [req[p] EXCEPT !.pc = "fetch"]
             b == [a EXCEPT !.attempt = 1]
             r == [b EXCEPT !.left = Timeout]
  <2>1. 1 \in 0..MaxAttempts /\ Timeout \in 0..Timeout
    BY ProxyAssumption
  <2>2. a \in Request /\ a.pc = "fetch"
    BY <1>0 DEF Request
  <2>3. b \in Request /\ b.pc = "fetch" /\ b.attempt = 1
    <3> HIDE DEF a
    <3> QED BY <2>1, <2>2 DEF Request
  <2>4. r \in Request /\ r.pc = "fetch" /\ r.attempt # 0
    <3> HIDE DEF b
    <3> QED BY <2>1, <2>3 DEF Request
  <2>5. req' = [req EXCEPT ![p] = r] /\ UNCHANGED circuit
    BY <1>2 DEF Send
  <2> HIDE DEF r
  <2> QED BY <1>0, <2>4, <2>5, SlotInd
<1>3. ASSUME NEW p \in Requests, Answer(p) PROVE IndInv'
  <2>1. CircuitOK(circuit')
    BY <1>0, <1>3, ResetOK, RecordOK DEF Answer
  <2> QED BY <1>3, <2>1, IdleOK, SlotInd DEF Answer, Return, Idle
<1>4. ASSUME NEW p \in Requests, AttemptFails(p) PROVE IndInv'
  <2>1. CircuitOK(circuit')
    BY <1>0, <1>4, RecordOK DEF AttemptFails
  <2>2. CASE req[p].attempt < MaxAttempts
    <3> DEFINE r == [req[p] EXCEPT !.pc = "backoff",
                                   !.pause = Delay(req[p].attempt)]
    <3>1. req[p].attempt \in 1..MaxAttempts
      BY <1>0, <1>4, ProxyAssumption DEF Request, AttemptFails, At, IndInv, Attempted
    <3>2. Delay(req[p].attempt) \in Nat
      BY <3>1, ProxyAssumption
    <3>3. r \in Request /\ r.pc = "backoff" /\ r.attempt = req[p].attempt
      BY <1>0, <3>2 DEF Request
    <3>5. r.attempt # 0 /\ r.attempt < MaxAttempts
      BY <2>2, <3>1, <3>3
    <3>4. req' = [req EXCEPT ![p] = r]
      BY <1>4, <2>2 DEF AttemptFails
    <3> HIDE DEF r
    <3> QED BY <2>1, <3>3, <3>4, <3>5, SlotInd
  <2>3. CASE ~(req[p].attempt < MaxAttempts)
    BY <1>4, <2>1, <2>3, IdleOK, SlotInd DEF AttemptFails, Return, Idle
  <2> QED BY <2>2, <2>3
<1>5. ASSUME NEW p \in Requests, Retry(p) PROVE IndInv'
  <2> DEFINE r == [req[p] EXCEPT !.pc = "fetch", !.attempt = req[p].attempt + 1]
  <2>1. req[p].attempt \in 0..MaxAttempts /\ req[p].attempt < MaxAttempts
    BY <1>0, <1>5 DEF Retry, At, Request, IndInv, AttemptLeft
  <2>0. req[p].attempt + 1 \in 0..MaxAttempts /\ req[p].attempt + 1 # 0
    BY <2>1, ProxyAssumption
  <2>2. r \in Request /\ r.pc = "fetch" /\ r.attempt # 0
    BY <1>0, <2>0 DEF Request
  <2>3. req' = [req EXCEPT ![p] = r] /\ UNCHANGED circuit
    BY <1>5 DEF Retry
  <2> HIDE DEF r
  <2> QED BY <1>0, <2>2, <2>3, SlotInd
<1>6. ASSUME NEW p \in Requests, Abort(p) PROVE IndInv'
  <2> DEFINE r == [req[p] EXCEPT !.aborted = TRUE]
  <2>1. r \in Request /\ r.pc = req[p].pc /\ r.attempt = req[p].attempt
    BY <1>0 DEF Request
  <2>2. req' = [req EXCEPT ![p] = r] /\ UNCHANGED circuit
    BY <1>6 DEF Abort
  <2>3. /\ r.pc \in {"fetch", "backoff"} => r.attempt # 0
        /\ r.pc = "backoff" => r.attempt < MaxAttempts
        /\ r.pc \in {"idle", "prepare"} => r.attempt = 0
    BY <2>1 DEF IndInv, Attempted, AttemptLeft, Unsent
  <2> HIDE DEF r
  <2> QED BY <1>0, <2>1, <2>2, <2>3, SlotInd
<1>7. CASE Tick
  <2>1. CircuitOK(circuit')
    BY <1>0, <1>7, AgeOK DEF Tick
  <2>2. ASSUME NEW p \in Requests
        PROVE  req'[p] \in Request /\ req'[p].pc = req[p].pc /\ req'[p].attempt = req[p].attempt
    <3>1. req'[p] = [req[p] EXCEPT !.left = Less1(req[p].left), !.pause = Less1(req[p].pause)]
      BY <1>7 DEF Tick
    <3>2. Less1(req[p].left) \in 0..Timeout /\ Less1(req[p].pause) \in Nat
      BY <1>0, ProxyAssumption DEF Request, Less1
    <3> QED BY <1>0, <3>1, <3>2 DEF Request
  <2>3. req' \in [Requests -> Request]
    <3>1. req' = [p \in Requests |-> req'[p]]
      BY <1>7 DEF Tick
    <3> QED BY <2>2, <3>1
  <2>4. Attempted' /\ AttemptLeft' /\ Unsent'
    BY <2>2 DEF IndInv, Attempted, AttemptLeft, Unsent
  <2> QED BY <1>0, <1>7, <2>1, <2>3, <2>4 DEF Tick, IndInv, TypeOK, OpenAtThreshold, CircuitOK
<1>8. CASE Restart
  <2>1. Init'
    BY <1>8 DEF Restart, Init
  <2>2. CircuitOK(circuit')
    BY <2>1, ProxyAssumption DEF Init, CircuitOK, Circuit, Fresh
  <2>3. (req \in [Requests -> Request])'
    BY <2>1, IdleOK DEF Init
  <2>4. Attempted' /\ AttemptLeft' /\ Unsent'
    BY <2>1 DEF Init, Attempted, AttemptLeft, Unsent, Idle
  <2> QED BY <2>2, <2>3, <2>4 DEF IndInv, TypeOK, OpenAtThreshold, CircuitOK
<1>9. CASE UNCHANGED vars
  BY <1>9 DEF vars, IndInv, TypeOK, OpenAtThreshold, Attempted, AttemptLeft, Unsent
<1> QED BY <1>1, <1>2, <1>3, <1>4, <1>5, <1>6, <1>7, <1>8, <1>9 DEF Next

----------------------------------------------------------------------------
(* The theorems *)

LEMMA Inductive == Spec => []IndInv
<1>1. Init => IndInv
  BY InitInd
<1>2. IndInv /\ [Next]_vars => IndInv'
  BY NextInd
<1> QED BY <1>1, <1>2, PTL DEF Spec

\* Every variable of the proxy's model keeps its type; no request makes more than
\* MaxAttempts attempts.
THEOREM TypeCorrect == Spec => []TypeOK
<1>1. IndInv => TypeOK
  BY DEF IndInv
<1> QED BY <1>1, Inductive, PTL

\* recordFailure, resetCircuitBreaker and isCircuitOpen keep the breaker open exactly while
\* its count is at the threshold, however requests interleave: no failure leaves it closed
\* with a full count, and no success or lapse with part of one open.
THEOREM OpensAtThreshold == Spec => []OpenAtThreshold
<1>1. IndInv => OpenAtThreshold
  BY DEF IndInv
<1> QED BY <1>1, Inductive, PTL

\* A slot whose request has no more attempts left than before, and fewer if it sends one.
Shrinks(p) == Left(p)' <= Left(p) /\ (AttemptSent(p) => Left(p)' < Left(p))

LEMMA LeftOK == ASSUME IndInv, NEW p \in Requests PROVE Left(p) \in Nat
BY ProxyAssumption DEF IndInv, TypeOK, Request, Left

\* A slot that is not touched, is freed, or keeps its attempts and sends nothing.
LEMMA Keeps ==
  ASSUME IndInv, NEW q \in Requests,
         \/ req'[q] = req[q]
         \/ req'[q].pc = "idle"
         \/ req'[q].pc = req[q].pc /\ req'[q].attempt = req[q].attempt
         \/ At(q, "fetch") /\ req'[q].pc = "backoff" /\ req'[q].attempt = req[q].attempt
  PROVE  Shrinks(q)
<1>1. Left(q) \in Nat
  BY LeftOK
<1>2. Left(q)' \in {0, Left(q)} /\ ~AttemptSent(q)
  BY DEF Left, AttemptSent, At
<1> QED BY <1>1, <1>2 DEF Shrinks

\* While the breaker blocks, what reaches the upstream comes out of the attempts that the
\* requests in flight had left: no slot gains any, and each attempt sent uses one up.
THEOREM BlockedLoadOnlyShrinks == Spec => BlockedLoadShrinks
<1> DEFINE AllShrink == circuit.open /\ circuit.since <= ResetTimeout
                          => \A p \in Requests : Shrinks(p)
<1>1. ASSUME IndInv, [Next]_vars PROVE AllShrink
  <2>0. /\ circuit.since \in Nat /\ DOMAIN req = Requests
        /\ \A p \in Requests : req[p] \in Request /\ req[p].attempt \in Nat
    BY <1>1, ProxyAssumption DEF IndInv, TypeOK, Circuit, Request
  <2>1. SUFFICES ASSUME circuit.open, circuit.since <= ResetTimeout, NEW q \in Requests
                 PROVE  Shrinks(q)
    OBVIOUS
  <2>2. ASSUME NEW p \in Requests, Admit(p) PROVE FALSE
    BY <2>0, <2>1, <2>2, ProxyAssumption DEF Admit, IsCircuitOpen, Lapsed
  <2>3. req'[q] = req[q] => Shrinks(q)
    BY <1>1, Keeps
  <2>4. ASSUME NEW p \in Requests, Send(p) PROVE Shrinks(q)
    <3>1. CASE q = p
      <4>1. req'[q].pc = "fetch" /\ req'[q].attempt = 1 /\ req[q].pc = "prepare"
        BY <2>0, <2>4, <3>1 DEF Send, At, Request
      <4>2. req[q].attempt = 0
        BY <1>1, <4>1 DEF IndInv, Unsent
      <4>3. Left(q) = MaxAttempts /\ Left(q)' = MaxAttempts - 1
        BY <4>1, <4>2, ProxyAssumption DEF Left, At
      <4> QED BY <4>3, ProxyAssumption DEF Shrinks
    <3> QED BY <2>0, <2>3, <2>4, <3>1 DEF Send
  <2>5. ASSUME NEW p \in Requests, Answer(p) PROVE Shrinks(q)
    <3>1. CASE q = p
      BY <1>1, <2>0, <2>5, <3>1, Keeps DEF Answer, Return, Idle
    <3> QED BY <2>0, <2>3, <2>5, <3>1 DEF Answer, Return
  <2>6. ASSUME NEW p \in Requests, AttemptFails(p) PROVE Shrinks(q)
    <3>1. CASE q = p /\ req[p].attempt < MaxAttempts
      <4>1. req'[q] = [req[q] EXCEPT !.pc = "backoff", !.pause = Delay(req[q].attempt)]
        BY <2>0, <2>6, <3>1 DEF AttemptFails
      <4>2. req'[q].pc = "backoff" /\ req'[q].attempt = req[q].attempt
        BY <2>0, <4>1 DEF Request
      <4> QED BY <1>1, <2>6, <3>1, <4>2, Keeps DEF AttemptFails
    <3>2. CASE q = p /\ ~(req[p].attempt < MaxAttempts)
      BY <1>1, <2>0, <2>6, <3>2, Keeps DEF AttemptFails, Return, Idle
    <3>3. CASE q # p
      BY <2>0, <2>3, <2>6, <3>3 DEF AttemptFails, Return
    <3> QED BY <3>1, <3>2, <3>3
  <2>7. ASSUME NEW p \in Requests, Retry(p) PROVE Shrinks(q)
    <3>1. CASE q = p
      <4>1. req'[q].pc = "fetch" /\ req'[q].attempt = req[q].attempt + 1 /\ req[q].pc = "backoff"
        BY <2>0, <2>7, <3>1 DEF Retry, At, Request
      <4>2. Left(q) = MaxAttempts - req[q].attempt /\ Left(q)' = MaxAttempts - (req[q].attempt + 1)
        BY <4>1 DEF Left, At
      <4> QED BY <2>0, <4>2, ProxyAssumption DEF Shrinks
    <3> QED BY <2>0, <2>3, <2>7, <3>1 DEF Retry
  <2>8. ASSUME NEW p \in Requests, Abort(p) PROVE Shrinks(q)
    <3>1. CASE q = p
      <4>1. req'[q] = [req[q] EXCEPT !.aborted = TRUE]
        BY <2>0, <2>8, <3>1 DEF Abort
      <4>2. req'[q].pc = req[q].pc /\ req'[q].attempt = req[q].attempt
        BY <2>0, <4>1 DEF Request
      <4> QED BY <1>1, <4>2, Keeps
    <3> QED BY <2>0, <2>3, <2>8, <3>1 DEF Abort
  <2>9. CASE Tick
    <3>1. req'[q] = [req[q] EXCEPT !.left = Less1(req[q].left), !.pause = Less1(req[q].pause)]
      BY <2>9 DEF Tick
    <3>2. req'[q].pc = req[q].pc /\ req'[q].attempt = req[q].attempt
      BY <2>0, <3>1 DEF Request
    <3> QED BY <1>1, <3>2, Keeps
  <2>10. CASE Restart
    BY <1>1, <2>10, Keeps DEF Restart, Idle
  <2>11. CASE UNCHANGED vars
    BY <1>1, <2>11, Keeps DEF vars
  <2> QED BY <1>1, <2>2, <2>4, <2>5, <2>6, <2>7, <2>8, <2>9, <2>10, <2>11 DEF Next
<1>2. AllShrink => [circuit.open /\ circuit.since <= ResetTimeout
         => \A p \in Requests : Left(p)' <= Left(p) /\ (AttemptSent(p) => Left(p)' < Left(p))]_vars
  BY DEF Shrinks
<1> QED BY <1>1, <1>2, Inductive, PTL DEF Spec, BlockedLoadShrinks

====

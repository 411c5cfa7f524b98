---- MODULE RateLimiterProofs ----
(***************************************************************************)
(* Proofs about RateLimiter, for any number of requests, any limit and any *)
(* window: it implements FixedWindow, whatever fails, and whoever waits as  *)
(* told is refused again only in the tick of the reset.                    *)
(***************************************************************************)
EXTENDS RateLimiter, Integers, TLAPS

----------------------------------------------------------------------------
(* The invariant *)

\* The input gates let at most one request wait.
Alone == \A p, q \in Requests : p # q => At(p, "idle") \/ At(q, "idle")

\* What a request has read is still what is stored.
Fresh == \A p \in Requests : At(p, "get") => req[p].data = entry

\* A refused client waits until resetAt at least.
WaitsOut == refusal.told => entry.life <= refusal.wait + 1

\* Every request served, or about to be, was counted or let through by a fault.
ServedFor ==
  /\ window.served <= entry.count + window.faults
  /\ \A p \in Requests : req[p].pc \in {"put", "failed"} => window.served < entry.count + window.faults

IndInv == TypeOK /\ Alone /\ Fresh /\ WaitsOut /\ ServedFor

LEMMA IdleOK == Idle \in Request /\ Idle.pc = "idle"
BY LimitsAssumption DEF Idle, NoEntry, Request, Entry

\* Rounded up to whole seconds, the time told is not short of the time left.
LEMMA RoundsUp ==
  ASSUME NEW n \in Nat PROVE ((n + Second - 1) \div Second) * Second >= n
<1>1. Second \in Nat /\ Second > 0 /\ n + Second - 1 \in Nat
  BY LimitsAssumption
<1> DEFINE m == n + Second - 1
<1>2. m = Second * (m \div Second) + (m % Second) /\ m % Second \in 0..(Second - 1)
  BY <1>1
<1>3. (m \div Second) * Second = Second * (m \div Second)
  BY <1>1
<1>4. m \div Second \in Int /\ Second * (m \div Second) \in Int
  BY <1>1
<1> QED BY <1>1, <1>2, <1>3, <1>4

LEMMA CurrentOK == ASSUME NEW d \in Entry PROVE Current(d) \in Entry
<1>1. 0 \in 0..Limit /\ Window + 1 \in 0..(Window + 1)
  BY LimitsAssumption
<1> QED BY <1>1 DEF Current, Entry

LEMMA InitInd == Init => IndInv
<1>1. NoEntry \in Entry
  BY LimitsAssumption DEF NoEntry, Entry
<1> QED BY <1>1, IdleOK
        DEF Init, IndInv, TypeOK, Alone, Fresh, WaitsOut, ServedFor, At, NoRefusal, NewWindow, NoEntry

\* A handler that ends, or goes on waiting with nothing read, leaves the others alone.
LEMMA Leaves ==
  ASSUME IndInv, NEW p \in Requests, UNCHANGED entry,
         Return(p) \/ (MayRun(p) /\ \E label \in {"put", "failed"} : Await(p, label))
  PROVE  (Alone /\ Fresh)' /\ req' \in [Requests -> Request]
<1>1. ASSUME NEW label \in {"put", "failed"}
      PROVE  [Idle EXCEPT !.pc = label] \in Request /\ [Idle EXCEPT !.pc = label].pc = label
  BY IdleOK DEF Request
<1>2. CASE Return(p)
  BY <1>2, IdleOK DEF Return, IndInv, Alone, Fresh, At, TypeOK
<1>3. ASSUME MayRun(p), NEW label \in {"put", "failed"}, Await(p, label)
      PROVE  (Alone /\ Fresh)' /\ req' \in [Requests -> Request]
  BY <1>1, <1>3 DEF Await, MayRun, IndInv, Alone, Fresh, At, TypeOK
<1> QED BY <1>2, <1>3

LEMMA NextInd == ASSUME IndInv, [Next]_vars PROVE IndInv'
<1>0. /\ TypeOK /\ Alone /\ Fresh /\ WaitsOut /\ ServedFor
      /\ \A p \in Requests : req[p] \in Request
      /\ entry.count \in Nat /\ window.served \in Nat /\ window.faults \in Nat
  BY LimitsAssumption DEF IndInv, TypeOK, Entry
<1>1. ASSUME NEW p \in Requests, Check(p) PROVE IndInv'
  <2>1. [pc |-> "get", data |-> entry] \in Request
    BY <1>0 DEF TypeOK, Request
  <2>2. TypeOK'
    BY <1>0, <1>1, <2>1 DEF Check, TypeOK
  <2>3. Alone' /\ Fresh'
    BY <1>0, <1>1 DEF Check, Alone, Fresh, At, MayRun, TypeOK
  <2>4. ServedFor'
    BY <1>0, <1>1 DEF Check, ServedFor, TypeOK
  <2> QED BY <1>0, <1>1, <2>2, <2>3, <2>4 DEF Check, IndInv, WaitsOut
<1>2. ASSUME NEW p \in Requests, Refuse(p) PROVE IndInv'
  <2>1. req[p].data = entry /\ entry.life \in Nat /\ entry.life # 0
    BY <1>0, <1>2, LimitsAssumption DEF Refuse, Fresh, Current, TypeOK, Entry
  <2>2. RetryAfter(entry.life) * Second \in Nat /\ RetryAfter(entry.life) * Second + 1 >= entry.life
    <3>1. entry.life - 1 \in Nat
      BY <2>1
    <3>2. RetryAfter(entry.life) * Second >= entry.life - 1
      BY <3>1, RoundsUp DEF RetryAfter
    <3>3. RetryAfter(entry.life) * Second \in Int
      BY <3>1, LimitsAssumption DEF RetryAfter
    <3> QED BY <2>1, <3>1, <3>2, <3>3
  <2>3. Current(req[p].data).life = entry.life
    BY <2>1 DEF Current
  <2> DEFINE wait == RetryAfter(entry.life) * Second
  <2>4. refusal' = [told |-> TRUE,
                    wait |-> IF refusal.told /\ refusal.wait < wait THEN refusal.wait ELSE wait]
    BY <1>2, <2>3 DEF Refuse
  <2>5. wait \in Nat /\ entry.life <= wait + 1
    BY <2>2
  <2> HIDE DEF wait
  <2>6. refusal' \in [told : BOOLEAN, wait : Nat] /\ entry.life <= refusal'.wait + 1
    BY <1>0, <2>4, <2>5 DEF TypeOK, WaitsOut
  <2>7. UNCHANGED <<entry, window>> /\ Return(p)
    BY <1>2 DEF Refuse
  <2>8. ServedFor'
    BY <1>0, <2>7 DEF Return, ServedFor, TypeOK, Idle
  <2> QED BY <1>0, <2>6, <2>7, <2>8, Leaves DEF IndInv, TypeOK, WaitsOut
<1>3. ASSUME NEW p \in Requests, Count(p) PROVE IndInv'
  <2>1. req[p].data = entry
    BY <1>0, <1>3 DEF Count, Fresh
  <2>2. Current(entry) \in Entry /\ Current(entry).count < Limit
    BY <1>0, <1>3, <2>1, CurrentOK DEF Count, TypeOK
  <2>3. entry' = [Current(entry) EXCEPT !.count = Current(entry).count + 1]
    BY <1>3, <2>1 DEF Count
  <2>4. /\ entry' \in Entry /\ entry'.life = Current(entry).life
        /\ entry'.count = Current(entry).count + 1 /\ Current(entry).count \in Nat
    <3>1. Current(entry).count + 1 \in 0..Limit
      BY <2>2, LimitsAssumption DEF Entry
    <3> QED BY <2>2, <2>3, <3>1, LimitsAssumption DEF Entry
  <2>5. IF entry.life = 0 THEN refusal' = NoRefusal /\ window' = NewWindow
                          ELSE UNCHANGED <<refusal, window>>
    BY <1>3, <2>1 DEF Count
  <2>6. /\ refusal' \in [told : BOOLEAN, wait : Nat] /\ WaitsOut'
        /\ window' \in [served : Nat, faults : Nat]
    <3>1. CASE entry.life = 0
      <4>1. refusal' = [told |-> FALSE, wait |-> 0] /\ window' = [served |-> 0, faults |-> 0]
        BY <2>5, <3>1 DEF NoRefusal, NewWindow
      <4>2. refusal' \in [told : BOOLEAN, wait : Nat] /\ window' \in [served : Nat, faults : Nat]
        BY <4>1
      <4>3. ~refusal'.told
        BY <4>1
      <4> QED BY <4>2, <4>3 DEF WaitsOut
    <3>2. CASE entry.life # 0
      BY <1>0, <2>4, <2>5, <3>2 DEF TypeOK, WaitsOut, Current
    <3> QED BY <3>1, <3>2
  <2>7. [Idle EXCEPT !.pc = "put"] \in Request /\ [Idle EXCEPT !.pc = "put"].pc = "put"
    BY IdleOK DEF Request
  <2>8. req' = [req EXCEPT ![p] = [Idle EXCEPT !.pc = "put"]]
    BY <1>3 DEF Count, Await
  <2>9. Alone' /\ Fresh'
    BY <1>0, <1>3, <2>7, <2>8 DEF Count, Alone, Fresh, At, MayRun, TypeOK
  <2>10. window'.served < entry'.count + window'.faults
    <3>1. CASE entry.life = 0
      BY <2>4, <2>5, <3>1 DEF Current, NewWindow
    <3>2. CASE entry.life # 0
      BY <1>0, <2>4, <2>5, <3>2 DEF Current, ServedFor
    <3> QED BY <3>1, <3>2
  <2>11. window'.served \in Nat /\ entry'.count + window'.faults \in Nat
    BY <2>4, <2>6
  <2>12. ServedFor'
    BY <2>10, <2>11 DEF ServedFor
  <2> QED BY <1>0, <2>4, <2>6, <2>7, <2>8, <2>9, <2>12 DEF IndInv, TypeOK
<1>4. ASSUME NEW p \in Requests, CheckFails(p) PROVE IndInv'
  <2>1. /\ window' \in [served : Nat, faults : Nat]
        /\ window'.served = window.served /\ window'.faults = window.faults + 1
    BY <1>0, <1>4 DEF CheckFails, TypeOK
  <2>2. UNCHANGED <<entry, refusal>> /\ MayRun(p) /\ Await(p, "failed")
    BY <1>4 DEF CheckFails
  <2>3. ServedFor'
    BY <1>0, <2>1, <2>2 DEF ServedFor
  <2> QED BY <1>0, <2>1, <2>2, <2>3, Leaves DEF IndInv, TypeOK, WaitsOut
<1>5. ASSUME NEW p \in Requests, Serve(p) PROVE IndInv'
  <2>1. /\ window' \in [served : Nat, faults : Nat]
        /\ window'.served = window.served + 1 /\ window'.faults = window.faults
    BY <1>0, <1>5 DEF Serve, TypeOK
  <2>2. UNCHANGED <<entry, refusal>> /\ MayRun(p) /\ Return(p)
    BY <1>5 DEF Serve
  <2>3. \A q \in Requests : req'[q].pc \notin {"put", "failed"}
    BY <1>0, <2>2 DEF MayRun, At, Return, Idle, TypeOK
  <2>4. window.served < entry.count + window.faults
    BY <1>0, <1>5 DEF Serve, ServedFor
  <2>5. ServedFor'
    BY <1>0, <2>1, <2>2, <2>3, <2>4 DEF ServedFor
  <2> QED BY <1>0, <2>1, <2>2, <2>5, Leaves DEF IndInv, TypeOK, WaitsOut
<1>6. ASSUME NEW p \in Requests, Raise(p) PROVE IndInv'
  <2>1. UNCHANGED <<entry, refusal, window>> /\ Return(p)
    BY <1>6 DEF Raise
  <2>2. ServedFor'
    BY <1>0, <2>1 DEF Return, ServedFor, TypeOK, Idle
  <2> QED BY <1>0, <2>1, <2>2, Leaves DEF IndInv, TypeOK, WaitsOut
<1>7. CASE Restart
  BY <1>0, <1>7, IdleOK DEF Restart, IndInv, TypeOK, Alone, Fresh, WaitsOut, ServedFor, At
<1>8. CASE Tick
  <2>1. /\ entry' = [entry EXCEPT !.life = Less1(entry.life)]
        /\ refusal' = [refusal EXCEPT !.wait = Less1(refusal.wait)]
        /\ UNCHANGED window
    BY <1>8 DEF Tick
  <2>2. ASSUME NEW d \in Entry PROVE [d EXCEPT !.life = Less1(d.life)] \in Entry
    <3>1. Less1(d.life) \in 0..(Window + 1)
      BY LimitsAssumption DEF Entry, Less1
    <3> QED BY <3>1 DEF Entry
  <2>3. ASSUME NEW p \in Requests
        PROVE  /\ req'[p] \in Request /\ req'[p].pc = req[p].pc
               /\ req'[p].data = [req[p].data EXCEPT !.life = Less1(req[p].data.life)]
    <3>1. req'[p] = [req[p] EXCEPT !.data = [req[p].data EXCEPT !.life = Less1(req[p].data.life)]]
      BY <1>8 DEF Tick
    <3>2. [req[p].data EXCEPT !.life = Less1(req[p].data.life)] \in Entry
      BY <1>0, <2>2 DEF Request
    <3> QED BY <1>0, <3>1, <3>2 DEF Request
  <2>4. req' \in [Requests -> Request]
    <3>1. req' = [p \in Requests |-> req'[p]]
      BY <1>8 DEF Tick
    <3> QED BY <2>3, <3>1
  <2>5. Alone' /\ Fresh'
    BY <1>0, <2>1, <2>3 DEF Alone, Fresh, At
  <2>6. refusal' \in [told : BOOLEAN, wait : Nat] /\ WaitsOut'
    <3>1. entry.life \in Nat /\ entry'.life = Less1(entry.life)
      BY <1>0, <2>1, LimitsAssumption DEF TypeOK, Entry
    <3>2. /\ refusal.wait \in Nat /\ refusal'.wait = Less1(refusal.wait)
          /\ refusal' \in [told : BOOLEAN, wait : Nat] /\ refusal'.told = refusal.told
      BY <1>0, <2>1 DEF TypeOK, Less1
    <3> QED BY <1>0, <3>1, <3>2 DEF WaitsOut, Less1
  <2>7. entry'.count = entry.count
    BY <1>0, <2>1 DEF TypeOK, Entry
  <2>8. ServedFor'
    BY <1>0, <2>1, <2>3, <2>7 DEF ServedFor
  <2> QED BY <1>0, <2>1, <2>2, <2>4, <2>5, <2>6, <2>8 DEF IndInv, TypeOK
<1>9. CASE UNCHANGED vars
  BY <1>0, <1>9 DEF vars, IndInv, TypeOK, Alone, Fresh, WaitsOut, ServedFor, At
<1> QED BY <1>1, <1>2, <1>3, <1>4, <1>5, <1>6, <1>7, <1>8, <1>9 DEF Next

----------------------------------------------------------------------------
(* The theorems *)

LEMMA Inductive == Spec => []IndInv
<1>1. Init => IndInv
  BY InitInd
<1>2. IndInv /\ [Next]_vars => IndInv'
  BY NextInd
<1> QED BY <1>1, <1>2, PTL DEF Spec

\* Every variable of the rate limiter's model keeps its type; no window counts more than
\* Limit requests.
THEOREM TypeCorrect == Spec => []TypeOK
<1>1. IndInv => TypeOK
  BY DEF IndInv
<1> QED BY <1>1, Inductive, PTL

\* checkRateLimit behind the input gates, with what its callers do when it fails,
\* implements the fixed window: at most Limit requests counted, none refused before, and
\* none served but for a count or a fault.
THEOREM ImplementsFixedWindow == Spec => FixedWindowSpec
<1> DEFINE mapped == <<entry.count, entry.life, refusal.told, window.served, window.faults>>
<1>1. Init => Fixed!Init
  BY DEF Init, Fixed!Init, NoEntry, NoRefusal, NewWindow
<1>2. ASSUME IndInv, [Next]_vars PROVE [Fixed!Next]_mapped
  <2>0. /\ TypeOK /\ Fresh /\ ServedFor /\ entry \in Entry
        /\ entry.count \in 0..Limit /\ entry.life \in 0..(Window + 1)
    BY <1>2 DEF IndInv, TypeOK, Entry
  <2>1. ASSUME NEW p \in Requests, Count(p) PROVE Fixed!CountIn \/ Fixed!OpenWindow
    <3>1. req[p].data = entry
      BY <2>0, <2>1 DEF Count, Fresh
    <3>2. /\ entry' = [Current(entry) EXCEPT !.count = Current(entry).count + 1]
          /\ Current(entry).count < Limit
          /\ IF entry.life = 0 THEN refusal' = NoRefusal /\ window' = NewWindow
                               ELSE UNCHANGED <<refusal, window>>
      BY <2>1, <3>1 DEF Count
    <3>3. CASE entry.life = 0
      <4>1. Current(entry) = [count |-> 0, life |-> Window + 1]
        BY <3>3 DEF Current
      <4>2. entry'.count = 1 /\ entry'.life = Window + 1
        BY <3>2, <4>1
      <4> QED BY <3>2, <3>3, <4>2 DEF Fixed!OpenWindow, NoRefusal, NewWindow
    <3>4. CASE entry.life # 0
      <4>1. Current(entry) = entry
        BY <3>4 DEF Current
      <4>2. entry'.count = entry.count + 1 /\ entry'.life = entry.life /\ entry.count < Limit
        BY <2>0, <3>2, <4>1 DEF Entry
      <4>3. entry.life > 0
        BY <2>0, <3>4, LimitsAssumption
      <4> QED BY <3>2, <3>4, <4>2, <4>3 DEF Fixed!CountIn
    <3> QED BY <3>3, <3>4
  <2>2. ASSUME NEW p \in Requests, Refuse(p) PROVE Fixed!Refuse
    <3>1. req[p].data = entry /\ refusal'.told = TRUE /\ UNCHANGED <<entry, window>>
      BY <2>0, <2>2 DEF Refuse, Fresh
    <3>2. entry.life > 0 /\ entry.count = Limit
      BY <2>0, <2>2, <3>1, LimitsAssumption DEF Refuse, Current
    <3> QED BY <3>1, <3>2 DEF Fixed!Refuse
  <2>3. ASSUME NEW p \in Requests, CheckFails(p) PROVE Fixed!Fault
    <3>1. /\ window'.served = window.served /\ window'.faults = window.faults + 1
          /\ UNCHANGED <<entry, refusal>>
      BY <2>0, <2>3 DEF CheckFails, TypeOK
    <3> QED BY <3>1 DEF Fixed!Fault
  <2>4. ASSUME NEW p \in Requests, Serve(p) PROVE Fixed!Serve
    <3>1. /\ window'.served = window.served + 1 /\ window'.faults = window.faults
          /\ UNCHANGED <<entry, refusal>>
      BY <2>0, <2>4 DEF Serve, TypeOK
    <3>2. window.served < entry.count + window.faults
      BY <2>0, <2>4 DEF Serve, ServedFor
    <3> QED BY <3>1, <3>2 DEF Fixed!Serve
  <2>5. ASSUME Tick PROVE Fixed!Tick \/ UNCHANGED mapped
    <3>1. /\ entry'.life = Less1(entry.life) /\ entry'.count = entry.count
          /\ refusal'.told = refusal.told /\ UNCHANGED window
      BY <2>0, <2>5 DEF Tick, Entry, TypeOK
    <3>2. CASE entry.life = 0
      BY <3>1, <3>2 DEF Less1
    <3>3. CASE entry.life # 0
      <4>1. entry.life > 0 /\ entry'.life = entry.life - 1
        BY <2>0, <3>1, <3>3, LimitsAssumption DEF Less1
      <4> QED BY <3>1, <4>1 DEF Fixed!Tick
    <3> QED BY <3>2, <3>3
  <2>6. ASSUME UNCHANGED <<entry, refusal, window>> PROVE UNCHANGED mapped
    BY <2>6
  <2>7. ASSUME Next PROVE Fixed!Next \/ UNCHANGED mapped
    BY <2>7, <2>1, <2>2, <2>3, <2>4, <2>5, <2>6
       DEF Next, Check, Raise, Restart, Fixed!Next
  <2>8. ASSUME UNCHANGED vars PROVE UNCHANGED mapped
    BY <2>6, <2>8 DEF vars
  <2> QED BY <1>2, <2>7, <2>8
<1> QED BY <1>1, <1>2, Inductive, PTL DEF Spec, FixedWindowSpec, Fixed!Spec

\* A client that waits out retryAfter is refused by the same window only in the tick of
\* its reset.
THEOREM RefusedOnlyAtReset == Spec => RefusedAgainOnlyAtReset
<1> DEFINE AtReset == refusal.told /\ refusal.wait = 0
                        => \A p \in Requests : Refuse(p) => entry.life = 1
<1>1. ASSUME IndInv PROVE AtReset
  <2>1. SUFFICES ASSUME refusal.told, refusal.wait = 0, NEW p \in Requests, Refuse(p)
                 PROVE  entry.life = 1
    OBVIOUS
  <2>2. req[p].data = entry
    BY <1>1, <2>1 DEF Refuse, IndInv, Fresh
  <2>3. entry.life \in 0..1
    BY <1>1, <2>1, LimitsAssumption DEF IndInv, WaitsOut, TypeOK, Entry
  <2> QED BY <2>1, <2>2, <2>3, LimitsAssumption DEF Refuse, Current
<1> QED BY <1>1, Inductive, PTL DEF RefusedAgainOnlyAtReset

====

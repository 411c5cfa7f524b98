---- MODULE KeyManagerDurableObjectProofs ----
(***************************************************************************)
(* Proofs about the maintenance schedule, for any two intervals, and that  *)
(* the object runs it and the rate limiter undisturbed.                    *)
(***************************************************************************)
EXTENDS DurableObject, TLAPS

\* An instance that is not cleaning up has an alarm pending.
Armed == live => Scheduled

IndInv == TypeOK /\ Armed

LEMMA Inductive == Spec => []IndInv
<1>1. Init => IndInv
  BY DEF Init, IndInv, TypeOK, Armed
<1>2. ASSUME IndInv, [Next]_vars PROVE IndInv'
  <2>0. /\ CleanupInterval \in 0..CleanupInterval /\ RetryInterval \in 0..CleanupInterval
        /\ 0 \in 0..CleanupInterval
        /\ CleanupInterval # None /\ RetryInterval # None /\ 0 # None
    BY IntervalsAssumption
  <2>1. CASE Fetch
    BY <1>2, <2>0, <2>1 DEF Fetch, SetupMaintenance, IndInv, TypeOK, Armed, Scheduled
  <2>2. CASE AlarmFires
    BY <1>2, <2>0, <2>2 DEF AlarmFires, SetupMaintenance, IndInv, TypeOK, Armed, Scheduled
  <2>3. CASE AlarmSucceeds
    BY <1>2, <2>0, <2>3 DEF AlarmSucceeds, IndInv, TypeOK, Armed, Scheduled
  <2>4. CASE AlarmErrors
    BY <1>2, <2>0, <2>4 DEF AlarmErrors, IndInv, TypeOK, Armed, Scheduled
  <2>5. CASE Evict
    BY <1>2, <2>0, <2>5 DEF Evict, IndInv, TypeOK, Armed, Scheduled
  <2>6. CASE Tick
    <3>1. alarm - 1 \in 0..CleanupInterval /\ alarm - 1 # None
      BY <1>2, <2>6, IntervalsAssumption DEF Tick, IndInv, TypeOK
    <3> QED BY <1>2, <2>6, <3>1 DEF Tick, IndInv, TypeOK, Armed, Scheduled
  <2>7. CASE UNCHANGED vars
    BY <1>2, <2>7 DEF vars, IndInv, TypeOK, Armed, Scheduled
  <2> QED BY <1>2, <2>1, <2>2, <2>3, <2>4, <2>5, <2>6, <2>7 DEF Next
<1> QED BY <1>1, <1>2, PTL DEF Spec

\* The alarm is never set further ahead than one cleanup interval.
THEOREM TypeCorrect == Spec => []TypeOK
<1>1. IndInv => TypeOK
  BY DEF IndInv
<1> QED BY <1>1, Inductive, PTL

\* The constructor and the alarm handler never let maintenance drop out of the schedule:
\* not when a cleanup fails, nor when the object is evicted during one.
THEOREM MaintenanceNeverDropped == Spec => NeverDropped
<1>1. ASSUME IndInv, [Next]_vars PROVE [Scheduled => Scheduled']_vars
  <2>0. CleanupInterval # None /\ RetryInterval # None /\ 0 # None
    BY IntervalsAssumption
  <2>1. ASSUME Tick PROVE alarm' # None
    BY <1>1, <2>1, IntervalsAssumption DEF Tick, IndInv, TypeOK
  <2> QED BY <1>1, <2>0, <2>1 DEF Next, Fetch, SetupMaintenance, AlarmFires, AlarmSucceeds,
                                  AlarmErrors, Evict, Scheduled
<1> QED BY <1>1, Inductive, PTL DEF Spec, NeverDropped

----------------------------------------------------------------------------
(* The object as a whole *)

\* Whatever the limiter does, the object follows its maintenance schedule, so the theorems
\* above hold of it.
THEOREM ObjectRunsSchedule == ObjectSpec => Spec
<1>1. ObjectInit => Init
  BY DEF ObjectInit
<1>2. [ObjectNext]_<<vars, limiterVars>> => [Next]_vars
  BY DEF ObjectNext, Limited, EvictAll, Next
<1> QED BY <1>1, <1>2, PTL DEF ObjectSpec, Spec

\* However it is evicted and woken, the object runs the limiter as it is by itself.
THEOREM ObjectRunsLimiter == ObjectSpec => Limiter!Spec
<1>1. ObjectInit => Limiter!Init
  BY DEF ObjectInit
<1>2. [ObjectNext]_<<vars, limiterVars>> => [Limiter!Next]_(Limiter!vars)
  BY DEF ObjectNext, Limited, EvictAll, Limiter!Next, Limiter!vars, limiterVars
<1> QED BY <1>1, <1>2, PTL DEF ObjectSpec, Limiter!Spec

----------------------------------------------------------------------------
(* So what RateLimiterProofs shows of the limiter holds of the object.     *)
(* Its definitions, an instance of their own, are those of the limiter.    *)

Shown == INSTANCE RateLimiterProofs

LEMMA SameSpec == Limiter!Spec => Shown!Spec
<1>1. Limiter!Init => Shown!Init
  BY DEF Limiter!Init, Shown!Init, Limiter!NoEntry, Shown!NoEntry, Limiter!Idle, Shown!Idle,
         Limiter!NoRefusal, Shown!NoRefusal, Limiter!NewWindow, Shown!NewWindow
<1>2. Limiter!Next => Shown!Next
  BY DEF Limiter!Next, Shown!Next, Limiter!Check, Shown!Check, Limiter!Refuse, Shown!Refuse,
         Limiter!Count, Shown!Count, Limiter!CheckFails, Shown!CheckFails,
         Limiter!Serve, Shown!Serve, Limiter!Raise, Shown!Raise,
         Limiter!Restart, Shown!Restart, Limiter!Tick, Shown!Tick,
         Limiter!At, Shown!At, Limiter!Return, Shown!Return, Limiter!Await, Shown!Await,
         Limiter!MayRun, Shown!MayRun, Limiter!Less1, Shown!Less1,
         Limiter!Current, Shown!Current, Limiter!RetryAfter, Shown!RetryAfter,
         Limiter!NoEntry, Shown!NoEntry, Limiter!Idle, Shown!Idle,
         Limiter!NoRefusal, Shown!NoRefusal, Limiter!NewWindow, Shown!NewWindow
<1>3. [Limiter!Next]_(Limiter!vars) => [Shown!Next]_(Shown!vars)
  BY <1>2 DEF Limiter!vars, Shown!vars
<1> QED BY <1>1, <1>3, PTL DEF Limiter!Spec, Shown!Spec

LEMMA SameWindow == Shown!FixedWindowSpec => FixedWindowSpec
<1> DEFINE mapped == <<entry.count, entry.life, refusal.told, window.served, window.faults>>
<1>1. Shown!Fixed!Init => Limiter!Fixed!Init
  BY DEF Shown!Fixed!Init, Limiter!Fixed!Init
<1>2. [Shown!Fixed!Next]_mapped => [Limiter!Fixed!Next]_mapped
  BY DEF Shown!Fixed!Next, Limiter!Fixed!Next, Shown!Fixed!CountIn, Limiter!Fixed!CountIn,
         Shown!Fixed!OpenWindow, Limiter!Fixed!OpenWindow, Shown!Fixed!Refuse, Limiter!Fixed!Refuse,
         Shown!Fixed!Fault, Limiter!Fixed!Fault, Shown!Fixed!Serve, Limiter!Fixed!Serve,
         Shown!Fixed!Tick, Limiter!Fixed!Tick
<1> QED BY <1>1, <1>2, PTL DEF FixedWindowSpec, Limiter!FixedWindowSpec, Shown!FixedWindowSpec,
                               Limiter!Fixed!Spec, Shown!Fixed!Spec

\* Its requests served by one instance after another, the object implements the fixed window.
THEOREM ObjectLimits == ObjectSpec => FixedWindowSpec
BY LimitsAssumption, ObjectRunsLimiter, SameSpec, SameWindow, Shown!ImplementsFixedWindow, PTL
   DEF Shown!LimitsAssumption

\* And refuses nobody again who waited as told, but in the tick of the reset.
THEOREM ObjectRefusesOnlyAtReset == ObjectSpec => RefusedAgainOnlyAtReset
<1>1. Shown!RefusedAgainOnlyAtReset => RefusedAgainOnlyAtReset
  <2>1. [refusal.told /\ refusal.wait = 0
           => \A p \in Requests : Shown!Refuse(p) => entry.life = 1]_(Shown!vars)
        => [refusal.told /\ refusal.wait = 0
              => \A p \in Requests : Limiter!Refuse(p) => entry.life = 1]_(Limiter!vars)
    BY DEF Shown!Refuse, Limiter!Refuse, Shown!At, Limiter!At, Shown!MayRun, Limiter!MayRun,
           Shown!Current, Limiter!Current, Shown!RetryAfter, Limiter!RetryAfter,
           Shown!Return, Limiter!Return, Shown!Idle, Limiter!Idle,
           Shown!NoEntry, Limiter!NoEntry, Shown!vars, Limiter!vars
  <2> QED BY <2>1, PTL DEF Shown!RefusedAgainOnlyAtReset, RefusedAgainOnlyAtReset,
                           Limiter!RefusedAgainOnlyAtReset
<1> QED BY <1>1, LimitsAssumption, ObjectRunsLimiter, SameSpec, Shown!RefusedOnlyAtReset, PTL
        DEF Shown!LimitsAssumption

\* Both parts of the object keep their types, for any intervals, limit and window.
THEOREM ObjectTyped == ObjectSpec => []ObjectTypeOK
<1>1. TypeOK /\ Shown!TypeOK => ObjectTypeOK
  BY DEF ObjectTypeOK, Shown!TypeOK, Limiter!TypeOK, Shown!Entry, Limiter!Entry,
         Shown!Request, Limiter!Request
<1> QED BY <1>1, LimitsAssumption, ObjectRunsSchedule, TypeCorrect, ObjectRunsLimiter, SameSpec,
           Shown!TypeCorrect, PTL
        DEF Shown!LimitsAssumption

====

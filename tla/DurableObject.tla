---- MODULE DurableObject ----
(***************************************************************************)
(* One Durable Object (src/lib/KeyManagerDurableObject.js) with the two    *)
(* things its fetch and its alarm handler share an instance for: the       *)
(* maintenance schedule and the rate limiter.                              *)
(*                                                                         *)
(* Requests need an instance in memory, the first of them constructs it,   *)
(* and an eviction takes both what waits for the limiter's storage and the *)
(* clean-up that runs.  The alarm is hours away and a window lasts a       *)
(* minute, so each part has a clock of its own.  fetch is taken as it is   *)
(* written: it asks container.has first, a method the container lacks.     *)
(***************************************************************************)
EXTENDS KeyManagerDurableObject, Limits

CONSTANTS Requests, MaxFaults  \* those of RateLimiter

VARIABLES entry, req, refusal, window  \* those of RateLimiter

limiterVars == <<entry, req, refusal, window>>

Limiter == INSTANCE RateLimiter

\* fetch asks the limiter before anything else; the instance is there by then.
Limited ==
  /\ live
  /\ \E p \in Requests :
       \/ Limiter!Check(p) \/ Limiter!Refuse(p) \/ Limiter!Count(p)
       \/ Limiter!CheckFails(p) \/ Limiter!Serve(p) \/ Limiter!Raise(p)
  /\ UNCHANGED vars

\* What waits in the instance is lost with it, stored counts and the alarm are not.
EvictAll == Evict /\ Limiter!Restart

ObjectInit == Init /\ Limiter!Init

ObjectNext ==
  \/ Limited
  \/ EvictAll
  \/ (Fetch \/ AlarmFires \/ AlarmSucceeds \/ AlarmErrors \/ Tick) /\ UNCHANGED limiterVars
  \/ Limiter!Tick /\ UNCHANGED vars

ObjectSpec ==
  /\ ObjectInit /\ [][ObjectNext]_<<vars, limiterVars>>
  /\ WF_vars(Tick) /\ WF_vars(AlarmFires) /\ WF_vars(AlarmSucceeds \/ AlarmErrors)

----------------------------------------------------------------------------
(* Properties *)

\* Both parts keep their types in one object.
ObjectTypeOK == TypeOK /\ Limiter!TypeOK

\* Evicted with its instance at any point and woken by any event, the limiter still is the
\* fixed window it is by itself.
FixedWindowSpec == Limiter!FixedWindowSpec

\* And it refuses nobody again who waited as told, but for the tick of the reset.
RefusedAgainOnlyAtReset == Limiter!RefusedAgainOnlyAtReset

====

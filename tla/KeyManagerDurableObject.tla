---- MODULE KeyManagerDurableObject ----
(***************************************************************************)
(* The maintenance schedule of the Durable Object                          *)
(* (src/lib/KeyManagerDurableObject.js): one alarm, which the constructor  *)
(* sets on every wake-up and the alarm handler sets again when it ends.    *)
(*                                                                         *)
(* The object has one pending alarm at most; setting it replaces what was  *)
(* pending.  It outlives the instance, which is constructed on the first   *)
(* event after an eviction.  Time is kept as what the alarm still has to   *)
(* run, so it is not bounded.                                              *)
(***************************************************************************)
EXTENDS Naturals

CONSTANTS
  None,             \* no alarm is pending
  CleanupInterval,  \* maintenance.cleanupIntervalHours, in ticks
  RetryInterval     \* maintenance.retryIntervalHours, in ticks

ASSUME IntervalsAssumption ==
  /\ CleanupInterval \in Nat \ {0} /\ RetryInterval \in 1..CleanupInterval
  /\ None \notin Nat

VARIABLES
  live,     \* an instance is in memory
  alarm,    \* ticks until the pending alarm is due, or None
  running   \* the alarm handler waits for cleanupExpiredKeys

vars == <<live, alarm, running>>

\* FAULT (stands in for the next definition to show a property can fail): the new
\* interval is added to what is left of the pending one.
SetupMaintenanceAdds == alarm' = (IF alarm = None THEN 0 ELSE alarm) + CleanupInterval

\* The constructor sets the alarm a full interval ahead, whatever is pending.
SetupMaintenance == alarm' = CleanupInterval

\* An HTTP request.  It only matters to the schedule when it constructs the instance.
Fetch ==
  /\ ~live
  /\ live' = TRUE
  /\ SetupMaintenance
  /\ UNCHANGED running

\* The platform delivers the alarm, constructing the instance if need be.
AlarmFires ==
  /\ alarm = 0 /\ ~running
  /\ running' = TRUE
  /\ live' = TRUE
  /\ IF live THEN alarm' = None ELSE SetupMaintenance

\* FAULT (stands in for the next definition to show a property can fail): the alarm is
\* left as it is.
AlarmSucceedsUnset ==
  /\ running
  /\ running' = FALSE
  /\ UNCHANGED <<live, alarm>>

\* The cleanup is done: the next one is an interval ahead.
AlarmSucceeds ==
  /\ running
  /\ running' = FALSE
  /\ alarm' = CleanupInterval
  /\ UNCHANGED live

\* FAULT (as above): the error is only logged.
AlarmErrorsUnset ==
  /\ running
  /\ running' = FALSE
  /\ UNCHANGED <<live, alarm>>

\* The cleanup threw: try again sooner.
AlarmErrors ==
  /\ running
  /\ running' = FALSE
  /\ alarm' = RetryInterval
  /\ UNCHANGED live

\* The instance is dropped from memory: idle, redeployed or crashed.  The platform
\* delivers an alarm again whose handler did not end, unless another is pending.
Evict ==
  /\ live
  /\ live' = FALSE
  /\ running' = FALSE
  /\ alarm' = IF running /\ alarm = None THEN 0 ELSE alarm

Tick ==
  /\ alarm \notin {None, 0}
  /\ alarm' = alarm - 1
  /\ UNCHANGED <<live, running>>

Init == live = FALSE /\ alarm = None /\ running = FALSE

Next == Fetch \/ AlarmFires \/ AlarmSucceeds \/ AlarmErrors \/ Evict \/ Tick

Spec == Init /\ [][Next]_vars

\* Time passes, the platform delivers a due alarm and a cleanup ends one way or another.
FairSpec == Spec /\ WF_vars(Tick) /\ WF_vars(AlarmFires) /\ WF_vars(AlarmSucceeds \/ AlarmErrors)

----------------------------------------------------------------------------
(* Properties *)

TypeOK == live \in BOOLEAN /\ running \in BOOLEAN /\ alarm \in 0..CleanupInterval \union {None}

\* Once an instance has set the alarm, maintenance never drops out of the schedule: not by
\* a cleanup that fails nor by an eviction while one runs.
Scheduled == alarm # None \/ running
NeverDropped == [][Scheduled => Scheduled']_vars

\* If the object is evicted only finitely often, cleanups keep coming.
CleanupRecurs == <>[][~Evict]_vars => ((live \/ alarm # None) ~> running)

====

---- MODULE FixedWindow ----
(***************************************************************************)
(* What the rate limiter promises for one client and path.  Requests are   *)
(* counted in windows that open with the first of them and last Window     *)
(* ticks however many come; at most Limit are counted in each, and one is  *)
(* refused only when that many were.  A request is served for a count or   *)
(* for a fault of the store, never for neither, so a window serves at most *)
(* Limit requests and one more for each fault.                             *)
(***************************************************************************)
EXTENDS Naturals

CONSTANTS Limit, Window

VARIABLES
  used,     \* requests counted in the window
  life,     \* ticks until the window is over, 0 once it is
  refused,  \* whether the window has refused a request
  served,   \* requests served since the window was opened
  faults    \* checks that could not be made since then

OpenWindow ==
  /\ life = 0
  /\ used' = 1 /\ life' = Window + 1
  /\ refused' = FALSE /\ served' = 0 /\ faults' = 0

CountIn ==
  /\ life > 0 /\ used < Limit
  /\ used' = used + 1
  /\ UNCHANGED <<life, refused, served, faults>>

Refuse ==
  /\ life > 0 /\ used = Limit
  /\ refused' = TRUE
  /\ UNCHANGED <<used, life, served, faults>>

Fault ==
  /\ faults' = faults + 1
  /\ UNCHANGED <<used, life, refused, served>>

Serve ==
  /\ served < used + faults
  /\ served' = served + 1
  /\ UNCHANGED <<used, life, refused, faults>>

Tick ==
  /\ life > 0
  /\ life' = life - 1
  /\ UNCHANGED <<used, refused, served, faults>>

Init == used = 0 /\ life = 0 /\ refused = FALSE /\ served = 0 /\ faults = 0
Next == OpenWindow \/ CountIn \/ Refuse \/ Fault \/ Serve \/ Tick
Spec == Init /\ [][Next]_<<used, life, refused, served, faults>>

====

---- MODULE HalfOpen ----
(***************************************************************************)
(* ProxyService with a history of the state the error reference calls half *)
(* open (docs/reference/error-reference.md): the circuit has been open for *)
(* its timeout and one request was let through to test the upstream.       *)
(***************************************************************************)
EXTENDS ProxyService

VARIABLE probe  \* the request that was let through, until anything is heard of the upstream

HalfOpenNext ==
  \/ \E p \in Requests :
       \/ Admit(p) /\ probe' = IF circuit.open THEN {p} ELSE probe
       \/ (Answer(p) \/ AttemptFails(p)) /\ probe' = {}
       \/ (Send(p) \/ Retry(p) \/ Abort(p)) /\ UNCHANGED probe
  \/ Tick /\ UNCHANGED probe
  \/ Restart /\ probe' = {}

HalfOpenSpec == Init /\ probe = {} /\ [][HalfOpenNext]_<<vars, probe>>

\* The circuit goes back to open when the request that tests the upstream fails, as the
\* error reference has it: "HalfOpen --> Open: Failure".
HalfOpenReopens == [][\A p \in probe : AttemptFails(p) => circuit'.open]_<<vars, probe>>

====

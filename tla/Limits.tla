---- MODULE Limits ----
(***************************************************************************)
(* The limits of the rate limiter and the arithmetic of checkRateLimit     *)
(* (src/utils/security.js) on one stored entry.                            *)
(*                                                                         *)
(* resetAt is kept as the ticks until it has passed: one while it is now,  *)
(* 0 once it is over, so an expired entry and a missing one start the same *)
(* window.                                                                 *)
(***************************************************************************)
EXTENDS Naturals

CONSTANTS
  Limit,     \* limit
  Window,    \* windowMs, in ticks
  Second     \* a second, in ticks

ASSUME LimitsAssumption ==
  Limit \in Nat \ {0} /\ Window \in Nat /\ Second \in Nat \ {0}

Entry == [count : 0..Limit, life : 0..(Window + 1)]
NoEntry == [count |-> 0, life |-> 0]

\* FAULT (stands in for the next definition to show a property can fail): the seconds
\* are rounded down.
RetryAfterFloor(life) == (life - 1) \div Second

\* retryAfter, in seconds: until resetAt, rounded up.
RetryAfter(life) == (life - 1 + Second - 1) \div Second

\* FAULT (as above): a new window lasts a tick longer.
CurrentLong(d) == IF d.life = 0 THEN [count |-> 0, life |-> Window + 2] ELSE d

\* The data the decision is made on: a window that is over, or was never opened, is new.
Current(d) == IF d.life = 0 THEN [count |-> 0, life |-> Window + 1] ELSE d

====

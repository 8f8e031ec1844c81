------------------------------- MODULE Timer -------------------------------
(***************************************************************************)
(* CTimer (src/Timer.h, src/Timer.cpp): the counter every timeout of the   *)
(* server is built on.  A timer is the pair of its counter and its limit;  *)
(* the limit is one more than the configured time and the counter starts   *)
(* at one, so that a counter of zero can mean "stopped" and a limit of     *)
(* zero "never expires".                                                   *)
(*                                                                         *)
(* The counter only ever meets its limit in a comparison, so Advance holds *)
(* it at the limit instead of letting it grow on (a timer that nobody      *)
(* restarts would need 49 days to wrap around in the code).                *)
(***************************************************************************)
EXTENDS Integers

Stopped == 0

\* The counter limit of a timer configured for t units of time.
LimitOf(t) == IF t > 0 THEN t + 1 ELSE 0

\* start(): a timer without a limit does not start.
Started(limit) == IF limit > 0 THEN 1 ELSE Stopped

IsRunning(timer) == timer > 0

HasExpired(timer, limit) == limit # 0 /\ timer # 0 /\ timer >= limit

\* clock(t).
Advance(timer, limit, t) ==
    IF timer = 0 \/ limit = 0 THEN timer
    ELSE IF timer + t < limit THEN timer + t ELSE limit

\* Whether the timer has expired once t more units have passed.
ExpiresWithin(timer, limit, t) == HasExpired(Advance(timer, limit, t), limit)
=============================================================================

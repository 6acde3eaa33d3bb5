------------------------------- MODULE Clock -------------------------------
(***************************************************************************)
(* Discrete time for the components that compare dates or arm timers:      *)
(* Date.now() and the queue of timers of the event loop.  The bound keeps  *)
(* the state space of TLC finite; nothing is claimed about the last tick.  *)
(***************************************************************************)
EXTENDS Naturals, Nothing

CONSTANTS
  MaxTime,
  Never     \* a date that never comes

ASSUME ClockAssumption == MaxTime \in Nat /\ Never \notin Nat

VARIABLE now

ClockInit == now = 0

\* Time passes; the program has no say in it.
Tick == now < MaxTime /\ now' = now + 1
=============================================================================

----------------------------- MODULE DeviceFlow -----------------------------
(***************************************************************************)
(* oauth2DeviceFlow() (secrets/auth.ts): asks for a device code, shows the *)
(* user a code, then polls for the token until a deadline.  The server's   *)
(* answers are its own; the flow suspends on every request and every wait. *)
(* Time is what is left of it, so that it needs no bound.                  *)
(***************************************************************************)
EXTENDS Naturals

CONSTANTS Interval, SlowDown, Timeout  \* pollInterval, the pause of slow_down, timeout

ASSUME FlowAssumption == {Interval, SlowDown, Timeout} \subseteq Nat

VARIABLES
  flow,   \* "new", "device", "waiting", "slowed", "polling", "token", "failed", "timed out"
  left,   \* until the deadline
  wait    \* until the timer of a wait is due

flowVars == <<flow, left, wait>>

FlowInit == flow = "new" /\ left = 0 /\ wait = 0

DeviceRequest == flow = "new" /\ flow' = "device" /\ UNCHANGED <<left, wait>>

\* The loop's condition, and the wait that begins each turn of it.
LoopWith(time) ==
  \/ time > 0 /\ flow' = "waiting" /\ wait' = Interval
  \/ time = 0 /\ flow' = "timed out" /\ UNCHANGED wait

\* The code is shown; the time runs from now on.
DeviceAnswer == flow = "device" /\ left' = Timeout /\ LoopWith(Timeout)

Poll == flow = "waiting" /\ wait = 0 /\ flow' = "polling" /\ UNCHANGED <<left, wait>>

PollPending == flow = "polling" /\ LoopWith(left) /\ UNCHANGED left

PollSlowDown == flow = "polling" /\ flow' = "slowed" /\ wait' = SlowDown /\ UNCHANGED left

\* After slow_down the loop's condition is looked at again.
SlowedLongEnough == flow = "slowed" /\ wait = 0 /\ LoopWith(left) /\ UNCHANGED left

PollToken == flow = "polling" /\ flow' = "token" /\ UNCHANGED <<left, wait>>

\* An error of the server, an answer that is no JSON, a request that fails.
FlowFails == flow \in {"device", "polling"} /\ flow' = "failed" /\ UNCHANGED <<left, wait>>

OneLess(n) == IF n = 0 THEN 0 ELSE n - 1

FlowTick ==
  /\ flow \in {"waiting", "slowed", "polling"} /\ left + wait > 0
  /\ left' = OneLess(left) /\ wait' = OneLess(wait) /\ UNCHANGED flow

FlowAnswers == DeviceAnswer \/ PollPending \/ PollSlowDown \/ PollToken \/ FlowFails
FlowWaits == Poll \/ SlowedLongEnough
FlowNext == DeviceRequest \/ FlowAnswers \/ FlowWaits \/ FlowTick

\* Requests are answered, somehow; timers fire; time passes.
FlowFairness == WF_flowVars(FlowAnswers) /\ WF_flowVars(FlowWaits) /\ WF_flowVars(FlowTick)

FlowSpec == FlowInit /\ [][FlowNext]_flowVars /\ FlowFairness
-----------------------------------------------------------------------------
\* The flow is in one of its places, with times that were set.
FlowTypeOK ==
  /\ flow \in {"new", "device", "waiting", "slowed", "polling", "token", "failed", "timed out"}
  /\ left \in 0 .. Timeout /\ wait \in 0 .. Interval \cup 0 .. SlowDown

\* A flow whose user never authorizes, and whose server only ever answers
\* pending or slow_down, ends with an error: it does not poll for ever.
FlowEnds == flow = "device" ~> flow \in {"token", "failed", "timed out"}
=============================================================================

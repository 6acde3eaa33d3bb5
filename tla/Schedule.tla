------------------------------ MODULE Schedule ------------------------------
(***************************************************************************)
(* The scheduling helpers (wrappers/schedule.ts): one debounced function,  *)
(* one throttled function, one retried operation and one interval.  Times  *)
(* are what is left of them, so that they need no bound.  A timer may be   *)
(* late: it fires some time after it is due.  Functions are the caller's:  *)
(* they may throw, and a debounced one may call itself debounced.          *)
(***************************************************************************)
EXTENDS Naturals, Nothing

CONSTANTS
  Ms,           \* the delay of the debounced, throttled and repeated function
  BaseDelay, MaxAttempts,  \* of retry()
  MaxCalls      \* bound: calls of the debounced function

ASSUME ScheduleAssumption ==
  {Ms, BaseDelay, MaxAttempts, MaxCalls} \subseteq Nat /\ Ms > 0 /\ None \notin Nat

VARIABLES
  timers,    \* debounce: the armed timers, by the call that armed them: time left
  timer,     \* debounce: the variable of that name, the call whose timer it holds
  calls,     \* debounce: calls so far
  ran,       \* debounce: (history) the calls whose arguments the function ran with
  reentered, \* debounce: (history) the function has called itself
  sinceRun,  \* throttle: time since lastRun, as far as it matters
  attempt,   \* retry: the index of the loop
  trying,    \* retry: "idle", "called", "pausing", "returned", "thrown"
  pause,     \* retry: what is left of a pause
  ticking,   \* interval: time left, None when stopped
  busy       \* interval: calls of the function that have not come to their end

debounceVars == <<timers, timer, calls, ran, reentered>>
throttleVars == <<sinceRun>>
retryVars == <<attempt, trying, pause>>
intervalVars == <<ticking, busy>>
scheduleVars == <<debounceVars, throttleVars, retryVars, intervalVars>>

Call == 1 .. MaxCalls

ScheduleInit ==
  /\ timers = [c \in Call |-> None] /\ timer = None /\ calls = 0 /\ ran = {} /\ reentered = FALSE
  /\ sinceRun = Ms
  /\ attempt = 0 /\ trying = "idle" /\ pause = 0
  /\ ticking = None /\ busy = 0

Armed == {c \in Call : timers[c] # None}

-----------------------------------------------------------------------------
(* debounce.                                                               *)

\* What a call of the debounced function does: the timer it holds is cleared.
Rearmed(ts) ==
  [c \in Call |-> IF c = calls + 1 THEN Ms ELSE IF c = timer THEN None ELSE ts[c]]

Debounced ==
  /\ calls < MaxCalls
  /\ timers' = Rearmed(timers) /\ timer' = calls + 1 /\ calls' = calls + 1
  /\ UNCHANGED <<ran, reentered, throttleVars, retryVars, intervalVars>>

\* The function runs and returns, then the variable is reset.
DebounceFires(c) ==
  /\ timers[c] = 0
  /\ timers' = [timers EXCEPT ![c] = None] /\ timer' = None /\ ran' = ran \cup {c}
  /\ UNCHANGED <<calls, reentered, throttleVars, retryVars, intervalVars>>

\* It throws: the variable keeps a timer that is over.
DebounceThrows(c) ==
  /\ timers[c] = 0
  /\ timers' = [timers EXCEPT ![c] = None] /\ ran' = ran \cup {c}
  /\ UNCHANGED <<timer, calls, reentered, throttleVars, retryVars, intervalVars>>

\* It calls itself debounced: a new timer is armed, and then the variable reset.
DebounceReenters(c) ==
  /\ timers[c] = 0 /\ calls < MaxCalls
  /\ timers' = Rearmed([timers EXCEPT ![c] = None]) /\ calls' = calls + 1
  /\ timer' = None /\ ran' = ran \cup {c} /\ reentered' = TRUE
  /\ UNCHANGED <<throttleVars, retryVars, intervalVars>>

-----------------------------------------------------------------------------
(* throttle.                                                               *)

\* A call within Ms of the last run is dropped.
Throttled ==
  /\ sinceRun >= Ms
  /\ sinceRun' = 0
  /\ UNCHANGED <<debounceVars, retryVars, intervalVars>>

-----------------------------------------------------------------------------
(* retry.                                                                  *)

RetryStart ==
  /\ trying = "idle"
  /\ trying' = IF MaxAttempts = 0 THEN "thrown" ELSE "called"
  /\ UNCHANGED <<attempt, pause, debounceVars, throttleVars, intervalVars>>

AttemptReturns ==
  /\ trying = "called" /\ trying' = "returned"
  /\ UNCHANGED <<attempt, pause, debounceVars, throttleVars, intervalVars>>

AttemptFails ==
  /\ trying = "called"
  /\ IF attempt < MaxAttempts - 1
     THEN trying' = "pausing" /\ pause' = BaseDelay * 2 ^ attempt
     ELSE trying' = "thrown" /\ UNCHANGED pause
  /\ UNCHANGED <<attempt, debounceVars, throttleVars, intervalVars>>

NextAttempt ==
  /\ trying = "pausing" /\ pause = 0
  /\ trying' = "called" /\ attempt' = attempt + 1
  /\ UNCHANGED <<pause, debounceVars, throttleVars, intervalVars>>

-----------------------------------------------------------------------------
(* interval.  A function that returns a promise is not waited for.         *)

IntervalStart ==
  ticking = None /\ ticking' = Ms /\ UNCHANGED <<busy, debounceVars, throttleVars, retryVars>>

IntervalFires ==
  /\ ticking = 0 /\ busy < MaxCalls  \* (bound)
  /\ ticking' = Ms /\ busy' = busy + 1 /\ UNCHANGED <<debounceVars, throttleVars, retryVars>>

IntervalCallEnds ==
  busy > 0 /\ busy' = busy - 1 /\ UNCHANGED <<ticking, debounceVars, throttleVars, retryVars>>

IntervalStops ==
  ticking # None /\ ticking' = None /\ UNCHANGED <<busy, debounceVars, throttleVars, retryVars>>

-----------------------------------------------------------------------------
Less(t) == IF t = None \/ t = 0 THEN t ELSE t - 1

TimePasses ==
  /\ \/ \E c \in Call : timers[c] \notin {None, 0}
     \/ sinceRun < Ms \/ pause > 0 \/ ticking \notin {None, 0}
  /\ timers' = [c \in Call |-> Less(timers[c])]
  /\ sinceRun' = IF sinceRun < Ms THEN sinceRun + 1 ELSE Ms
  /\ pause' = Less(pause) /\ ticking' = Less(ticking)
  /\ UNCHANGED <<timer, calls, ran, reentered, attempt, trying, busy>>

DebounceRuns == \E c \in Call : DebounceFires(c) \/ DebounceThrows(c) \/ DebounceReenters(c)

ScheduleNext ==
  \/ Debounced \/ DebounceRuns \/ Throttled
  \/ RetryStart \/ AttemptReturns \/ AttemptFails \/ NextAttempt
  \/ IntervalStart \/ IntervalFires \/ IntervalCallEnds \/ IntervalStops \/ TimePasses

\* Time passes and timers that are due fire; an attempt comes to an end.
ScheduleFairness ==
  /\ WF_scheduleVars(TimePasses) /\ WF_scheduleVars(DebounceRuns) /\ WF_scheduleVars(NextAttempt)
  /\ WF_scheduleVars(AttemptReturns \/ AttemptFails)

ScheduleSpec == ScheduleInit /\ [][ScheduleNext]_scheduleVars /\ ScheduleFairness
-----------------------------------------------------------------------------
ScheduleTypeOK ==
  /\ timers \in [Call -> 0 .. Ms \cup {None}] /\ timer \in Call \cup {None}
  /\ calls \in 0 .. MaxCalls /\ ran \subseteq 1 .. calls /\ reentered \in BOOLEAN
  /\ sinceRun \in 0 .. Ms
  /\ attempt \in Nat /\ trying \in {"idle", "called", "pausing", "returned", "thrown"} /\ pause \in Nat
  /\ ticking \in 0 .. Ms \cup {None} /\ busy \in 0 .. MaxCalls

\* A burst of calls of a debounced function becomes one run, with the arguments
\* of the last call, Ms after it, whatever the function throws: at most the timer
\* of the last call is armed.  A function that calls itself debounced loses that.
OneTimerUnlessReentrant == reentered \/ Armed \subseteq {calls}

\* The last call of a debounced function runs in the end, even if the function
\* throws or calls itself.
LastCallRuns == \A c \in Call : calls = c ~> c \in ran \/ calls # c

\* retry() settles when every attempt does, after at most MaxAttempts of them.
RetrySettles == trying = "called" ~> trying \in {"returned", "thrown"}
=============================================================================

------------------------------ MODULE AgentRun ------------------------------
(***************************************************************************)
(* One run of an agent: the host's side (runAgent, src/agent/sandbox.ts),  *)
(* the worker process it forks (src/agent/worker.ts), and the RPC handler  *)
(* admin.agent.run around it (src/server/handler.ts), which keeps the      *)
(* script in a temporary directory.                                        *)
(*                                                                         *)
(* The two processes share a channel.  The worker logs by sending, and     *)
(* exits right after it has sent its result or its error, so what is still *)
(* in the channel then may be received before the exit event, after it, or *)
(* never.  The exit event, the error event of a process that could not be  *)
(* started and the timeout race to settle the run.                         *)
(*                                                                         *)
(* Abstracted: what the agent's code computes (it logs, and ends in one of *)
(* the ways the worker tells apart), the entries but for their place n in  *)
(* the worker's order, and the text of messages.  The init message, sent   *)
(* when the process is forked, is part of its start.                       *)
(***************************************************************************)
EXTENDS Naturals, Sequences

CONSTANTS
    Sinks,       \* the number of sinks a library caller configures
    MaxEntries   \* bound: entries the worker logs

ASSUME SinksAssumption == Sinks \in Nat
ASSUME MaxEntriesAssumption == MaxEntries \in Nat

VARIABLES
    caller,     \* "handler" (no sinks, a temporary directory) or "library"
    directory,  \* the handler's temporary directory
    answered,   \* what the handler has answered
    worker,     \* the worker process
    returned,   \* (history) the agent's function returned
    logged,     \* entries the worker has sent
    channel,    \* messages sent and not yet received
    trail,      \* auditTrail
    output,     \* what the output variable holds
    error,      \* whose message the errorMessage variable holds
    settled,    \* the settled flag
    timer,      \* the timeout
    result,     \* what the promise was resolved with
    written     \* sink -> entries written to it

handlerVars == <<caller, directory, answered>>
workerVars == <<worker, returned, logged>>
hostVars == <<trail, output, error, settled, timer, result, written>>
vars == <<handlerVars, workerVars, channel, hostVars>>

Sink == 1 .. Sinks

\* "starting": forked, its script not yet read.  "absent": it could not be
\* started, and the error event has yet to be handled; "exited0" and "exited1":
\* it has exited, and the exit event has; "gone": they have been.
Gone == {"absent", "exited0", "exited1", "killed", "gone"}
Worker == Gone \cup {"none", "starting", "running"}

Message == [type: {"audit", "result", "error"}, n: Nat]

NoResult == [code |-> 0, success |-> FALSE, output |-> "null", error |-> "none", entries |-> 0]

\* entries: (history) the length of the trail when the promise was resolved.
\* The library caller holds the trail itself, the handler answers a copy of it.
Result == [code: {0, 1, 124}, success: BOOLEAN, output: {"null", "value"},
           error: {"none", "worker", "timeout", "spawn"}, entries: Nat]

TypeOK ==
    /\ caller \in {"handler", "library"}
    /\ directory \in {"none", "made", "kept", "removed", "left"}
    /\ answered \in {"none", "result", "error"}
    /\ worker \in Worker
    /\ returned \in BOOLEAN
    /\ logged \in Nat
    /\ channel \in Seq(Message)
    /\ trail \in Seq(Nat)
    /\ output \in {"null", "value"}
    /\ error \in {"none", "worker", "timeout", "spawn"}
    /\ settled \in {"no", "resolved", "thrown"}
    /\ timer \in {"off", "armed", "fired"}
    /\ result \in Result
    /\ written \in [Sink -> Nat]

Init ==
    /\ caller \in {"handler", "library"}
    /\ directory = "none"
    /\ answered = "none"
    /\ worker = "none"
    /\ returned = FALSE
    /\ logged = 0
    /\ channel = <<>>
    /\ trail = <<>>
    /\ output = "null"
    /\ error = "none"
    /\ settled = "no"
    /\ timer = "off"
    /\ result = NoResult
    /\ written = [s \in Sink |-> 0]

----------------------------------------------------------------------------
(* The handler, up to its call of runAgent, and the start of the run.      *)

MakeDirectory ==
    /\ caller = "handler"
    /\ directory = "none"
    /\ directory' = "made"
    /\ UNCHANGED <<caller, answered, workerVars, channel, hostVars>>

\* The script cannot be written: outside the try, so the directory stays.
WriteFails ==
    /\ directory = "made"
    /\ worker = "none"
    /\ directory' = "kept"
    /\ answered' = "error"
    /\ UNCHANGED <<caller, workerVars, channel, hostVars>>

\* fork(), the listeners and, if the caller gave one, the timeout.
Start(timed) ==
    /\ worker = "none"
    /\ IF caller = "handler" THEN directory = "made" ELSE directory = "none"
    /\ worker' = "starting"
    /\ timer' = IF timed THEN "armed" ELSE "off"
    /\ UNCHANGED <<handlerVars, returned, logged, channel, trail, output, error,
                   settled, result, written>>

----------------------------------------------------------------------------
(* The worker.                                                             *)

CannotStart ==
    /\ worker = "starting"
    /\ worker' = "absent"
    /\ UNCHANGED <<handlerVars, returned, logged, channel, hostVars>>

\* The init message has come, the script is read and its imports are allowed
\* ones: its code runs, the top level first.
Load ==
    /\ worker = "starting"
    /\ worker' = "running"
    /\ UNCHANGED <<handlerVars, returned, logged, channel, hostVars>>

LogEntry ==
    /\ worker = "running"
    /\ logged < MaxEntries
    /\ logged' = logged + 1
    /\ channel' = Append(channel, [type |-> "audit", n |-> logged'])
    /\ UNCHANGED <<handlerVars, worker, returned, hostVars>>

Return ==
    /\ worker = "running"
    /\ returned' = TRUE
    /\ channel' = Append(channel, [type |-> "result", n |-> 0])
    /\ worker' = "exited0"
    /\ UNCHANGED <<handlerVars, logged, hostVars>>

\* The script cannot be loaded, exports no function, or throws.
Throw ==
    /\ worker \in {"starting", "running"}
    /\ channel' = Append(channel, [type |-> "error", n |-> 0])
    /\ worker' = "exited1"
    /\ UNCHANGED <<handlerVars, returned, logged, hostVars>>

\* The process dies of something main() does not catch, without a word.
Crash ==
    /\ worker \in {"starting", "running"}
    /\ worker' = "exited1"
    /\ UNCHANGED <<handlerVars, returned, logged, channel, hostVars>>

\* What a process that is no more had not flushed is lost (external).
Lose ==
    /\ worker \in Gone
    /\ channel # <<>>
    /\ channel' = <<>>
    /\ UNCHANGED <<handlerVars, workerVars, hostVars>>

----------------------------------------------------------------------------
(* The host.                                                               *)

\* The newest entry first, as a list of recent activity would have it.
BugReceiveNewestFirst ==
    /\ channel # <<>>
    /\ channel' = Tail(channel)
    /\ LET m == Head(channel) IN
          /\ trail' = IF m.type = "audit" THEN <<m.n>> \o trail ELSE trail
          /\ output' = IF m.type = "result" THEN "value" ELSE output
          /\ error' = IF m.type = "error" THEN "worker" ELSE error
    /\ UNCHANGED <<handlerVars, workerVars, settled, timer, result, written>>

\* The message listener stays for as long as messages come, settled or not.
Receive ==
    /\ channel # <<>>
    /\ channel' = Tail(channel)
    /\ LET m == Head(channel) IN
          /\ trail' = IF m.type = "audit" THEN Append(trail, m.n) ELSE trail
          /\ output' = IF m.type = "result" THEN "value" ELSE output
          /\ error' = IF m.type = "error" THEN "worker" ELSE error
    /\ UNCHANGED <<handlerVars, workerVars, settled, timer, result, written>>

Configured == IF caller = "library" THEN Sink ELSE {}

\* The sinks are written and the promise is resolved.  The handler, whose
\* continuation runs before the next event, copies the trail and removes its
\* directory.
Resolve(code, message) ==
    /\ written' = [s \in Sink |-> IF s \in Configured THEN Len(trail) ELSE 0]
    /\ result' = [code |-> code, success |-> (code = 0 /\ message = "none"),
                  output |-> output, error |-> message, entries |-> Len(trail)]
    /\ settled' = "resolved"

\* A sink throws at entry i: settled is set, the promise is never resolved.
SinkThrows(i, s) ==
    /\ i \in DOMAIN trail
    /\ s \in Configured
    /\ written' = [t \in Sink |-> IF t < s THEN i ELSE i - 1]
    /\ settled' = "thrown"
    /\ UNCHANGED result

\* finish(): the first to settle the run decides; a later call returns.
Finish(code, message) ==
    \/ settled # "no" /\ UNCHANGED <<settled, result, written>>
    \/ settled = "no" /\ Resolve(code, message)
    \/ settled = "no" /\ \E i \in DOMAIN trail, s \in Sink : SinkThrows(i, s)

\* A process that has sent no error is taken to have ended well.
BugExitTrustsMessages ==
    /\ worker \in {"exited0", "exited1", "killed"}
    /\ worker' = "gone"
    /\ Finish(IF error = "none" THEN 0 ELSE 1, error)
    /\ UNCHANGED <<handlerVars, returned, logged, channel, trail, output, error, timer>>

\* The exit code decides, whatever message has come.
ExitEvent ==
    /\ worker \in {"exited0", "exited1", "killed"}
    /\ worker' = "gone"
    /\ Finish(IF worker = "exited0" THEN 0 ELSE 1, error)
    /\ UNCHANGED <<handlerVars, returned, logged, channel, trail, output, error, timer>>

\* The error listener leaves settling the run to the exit event.
BugErrorWaitsForExit ==
    /\ worker = "absent"
    /\ worker' = "gone"
    /\ error' = "spawn"
    /\ UNCHANGED <<settled, result, written>>
    /\ UNCHANGED <<handlerVars, returned, logged, channel, trail, output, timer>>

ErrorEvent ==
    /\ worker = "absent"
    /\ worker' = "gone"
    /\ error' = "spawn"
    /\ Finish(1, "spawn")
    /\ UNCHANGED <<handlerVars, returned, logged, channel, trail, output, timer>>

\* The code of a process ended by SIGKILL.
BugTimeoutAsKilled ==
    /\ timer = "armed"
    /\ settled = "no"
    /\ timer' = "fired"
    /\ error' = "timeout"
    /\ worker' = IF worker \in {"starting", "running"} THEN "killed" ELSE worker
    /\ Finish(137, "timeout")
    /\ UNCHANGED <<handlerVars, returned, logged, channel, trail, output>>

\* The timeout answers and leaves the process alone.
BugTimeoutSparesWorker ==
    /\ timer = "armed"
    /\ timer' = "fired"
    /\ error' = IF settled = "no" THEN "timeout" ELSE error
    /\ Finish(124, "timeout")
    /\ UNCHANGED <<handlerVars, workerVars, channel, trail, output>>

\* The timeout, which is not cleared when the run settles otherwise.
Timeout ==
    /\ timer = "armed"
    /\ timer' = "fired"
    /\ IF settled # "no" THEN UNCHANGED <<worker, error, settled, result, written>>
       ELSE /\ error' = "timeout"
            /\ worker' = IF worker \in {"starting", "running"} THEN "killed" ELSE worker
            /\ Finish(124, "timeout")
    /\ UNCHANGED <<handlerVars, returned, logged, channel, trail, output>>

\* The handler answers and removes the directory when the run goes well.
BugAnswerKeepsDirectory ==
    /\ caller = "handler"
    /\ settled = "resolved"
    /\ answered = "none"
    /\ answered' = "result"
    /\ directory' = IF result.success THEN "removed" ELSE directory
    /\ UNCHANGED <<caller, workerVars, channel, hostVars>>

\* The handler past its await, and its finally block: a directory that rm cannot
\* remove is left, and nobody is told.
Answer ==
    /\ caller = "handler"
    /\ settled = "resolved"
    /\ answered = "none"
    /\ answered' = "result"
    /\ directory' \in {"removed", "left"}
    /\ UNCHANGED <<caller, workerVars, channel, hostVars>>

----------------------------------------------------------------------------

Agent == CannotStart \/ Load \/ LogEntry \/ Return \/ Throw \/ Crash \/ Lose

Host == Receive \/ ExitEvent \/ ErrorEvent \/ Timeout

Next ==
    \/ MakeDirectory \/ WriteFails \/ Answer
    \/ \E timed \in BOOLEAN : Start(timed)
    \/ Agent
    \/ Host

\* Events are handled and timers fire.  The agent need not return.
Fairness == WF_vars(ExitEvent) /\ WF_vars(ErrorEvent) /\ WF_vars(Timeout) /\ WF_vars(Answer)

Spec == Init /\ [][Next]_vars /\ Fairness

----------------------------------------------------------------------------
(* What a run promises.                                                    *)

\* However exit, messages, start-up error and timeout race, a run reported as
\* successful is one whose function returned, an output is one it returned, and
\* a run reported as timed out has the timeout's code and message (finish() and
\* its three callers, sandbox.ts:58-124).
ResultIsHonest ==
    settled = "resolved" =>
        /\ result.success => returned /\ result.code = 0 /\ result.error = "none"
        /\ result.output = "value" => returned
        /\ result.code = 124 <=> result.error = "timeout"

\* The trail the host holds, and what each sink was given of it, is an initial
\* piece of what the worker logged, in order and without repetition: entries
\* may be missing at its end, never in the middle, even those that arrive after
\* the run was settled (the message listener, sandbox.ts:89-98).
TrailInOrder ==
    /\ Len(trail) <= logged
    /\ \A i \in DOMAIN trail : trail[i] = i
    /\ \A s \in Sink : written[s] <= Len(trail)

\* When a run is settled its process has ended, could not start, or has been
\* killed: nothing of it acts after its answer, and the directory the worker
\* reads its script from is not removed under it.
OverWhenSettled == settled # "no" => worker \in Gone

\* However the run ends, the handler has tried to remove its directory when it
\* answers ("left": rm refused, handler.ts:549).  It does not try only when it
\* could not write the script (mkdtemp and writeFile stand before the try,
\* handler.ts:519-523).
DirectoryRemoved ==
    answered # "none" =>
        \/ directory \in {"removed", "left"}
        \/ answered = "error" /\ directory = "kept" /\ worker = "none"

\* A run whose process is no more, or that has a timeout, is settled, and the
\* handler answers it, whatever became of the messages.
RunSettles ==
    /\ (worker \in Gone) ~> (settled # "no")
    /\ (timer = "armed") ~> (settled # "no")
    /\ (caller = "handler" /\ settled # "no") ~> (answered = "result")

=============================================================================

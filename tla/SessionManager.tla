--------------------------- MODULE SessionManager ---------------------------
(***************************************************************************)
(* The session manager (src/server/session.ts) behind its RPC handlers     *)
(* (src/server/handler.ts): sessions are created, mounted, destroyed; code *)
(* is executed in them against a timeout; what the code does is logged in  *)
(* the audit trail (module AuditTrail).                                    *)
(*                                                                         *)
(* One event loop runs everything, so a step here is what happens between  *)
(* two suspensions: a handler up to its await, a piece of an execution's   *)
(* code up to its next await, the continuation of an execution after the   *)
(* race it waits for has settled, a timer.  An execution keeps its session *)
(* object: it goes on after the session is destroyed, and its code goes on *)
(* after the timeout has answered the call.                                *)
(*                                                                         *)
(* Abstracted: the code itself.  What it does next is a free choice among  *)
(* an audited read, an audited change of the VFS, a change that is not     *)
(* audited (cp, writeJson), finishing in any of the ways the manager or    *)
(* the handler tells apart, leaving callbacks behind, and never yielding.  *)
(* The values computed, the VFS's content (module LiveMount has its own),  *)
(* the scope (PluginRegistry has the plugin part) and durations are left   *)
(* out.                                                                    *)
(***************************************************************************)
EXTENDS AuditTrail

CONSTANT MaxSessions   \* bound: sessions created

ASSUME SessionAssumption == MaxSessions \in Nat /\ Session = 1 .. MaxSessions
ASSUME ActorAssumption == IsFiniteSet(Actor)

\* The calls of session.execute.
Request == Actor

VARIABLES
    sessions,         \* the keys of the manager's Map
    counter,          \* sessions created so far; the next id is counter + 1
    creation,         \* session -> the state of the session.create call
    executions,       \* session -> its executions counter
    totalExecutions,  \* counters.totalExecutions
    job,              \* call -> the execution it started
    blocked           \* code of some execution runs without ever yielding

managerVars == <<sessions, counter, creation, executions, totalExecutions, job, blocked>>
vars == <<auditVars, managerVars>>

\* How an execution can end.  "error" is every error of the code's own: the
\* handler answers another RPC code when its message holds "Capability denied"
\* or "timed out", which changes nothing here.
Outcome == {"ok", "error", "timeout"}

\* text: what the code is run as: an expression, which may be run again as
\* statements, or once only (a declaration, or statements).
\* race: what Promise.race settled with.  count: the auditEntries of the
\* answer.  touched: (history) the expression that is running changed the VFS.
\* linger: callbacks the code left behind may still run.
Job == [session: Session \cup {0},
        text: {"none", "once", "expr"},
        code: {"none", "running", "done"},
        linger: BOOLEAN,
        touched: BOOLEAN,
        timer: {"off", "armed", "fired"},
        race: {"open"} \cup Outcome,
        answer: {"none", "not_found"} \cup Outcome,
        count: Nat]

NoJob == [session |-> 0, text |-> "none", code |-> "none",
          linger |-> FALSE, touched |-> FALSE, timer |-> "off",
          race |-> "open", answer |-> "none", count |-> 0]

TypeOK ==
    /\ AuditTypeOK
    /\ sessions \subseteq Session
    /\ counter \in 0 .. MaxSessions
    /\ creation \in [Session -> {"none", "mounting", "answered"}]
    /\ executions \in [Session -> Nat]
    /\ totalExecutions \in Nat
    /\ job \in [Request -> Job]
    /\ blocked \in BOOLEAN

Init ==
    /\ AuditInit
    /\ sessions = {}
    /\ counter = 0
    /\ creation = [s \in Session |-> "none"]
    /\ executions = [s \in Session |-> 0]
    /\ totalExecutions = 0
    /\ job = [r \in Request |-> NoJob]
    /\ blocked = FALSE

Unsent(r) == job[r] = NoJob
Accepted(r) == job[r].session # 0
Answered(r) == job[r].answer # "none"

----------------------------------------------------------------------------
(* Sessions.                                                               *)

\* session.create: the session is in the map, for session.list and every other
\* call to see, before the optional mountFromDisk is awaited.
Create(mount) ==
    /\ counter < MaxSessions
    /\ counter' = counter + 1
    /\ sessions' = sessions \cup {counter'}
    /\ creation' = [creation EXCEPT ![counter'] = IF mount THEN "mounting" ELSE "answered"]
    /\ UNCHANGED <<executions, totalExecutions, job, blocked, auditVars>>

\* mountFromDisk returns, or throws and the catch of handleRequest answers the
\* error: the session stays in the map either way.
MountEnds(s) ==
    /\ creation[s] = "mounting"
    /\ creation' = [creation EXCEPT ![s] = "answered"]
    /\ UNCHANGED <<sessions, counter, executions, totalExecutions, job, blocked, auditVars>>

\* Ids are handed out again once their session is gone.
BugDestroyFreesId(s) ==
    /\ s \in sessions
    /\ sessions' = sessions \ {s}
    /\ counter' = counter - 1
    /\ UNCHANGED <<creation, executions, totalExecutions, job, blocked, auditVars>>

\* A session that goes is taken out of the server's count of executions.
BugDestroyUncounts(s) ==
    /\ s \in sessions
    /\ sessions' = sessions \ {s}
    /\ totalExecutions' = totalExecutions - 1
    /\ UNCHANGED <<counter, creation, executions, job, blocked, auditVars>>

Destroy(s) ==
    /\ s \in sessions
    /\ sessions' = sessions \ {s}
    /\ UNCHANGED <<counter, creation, executions, totalExecutions, job, blocked, auditVars>>

----------------------------------------------------------------------------
(* session.execute, up to its first suspension.                            *)

Count(s) ==
    /\ executions' = [executions EXCEPT ![s] = @ + 1]
    /\ totalExecutions' = totalExecutions + 1

ExecuteUnknown(r, s) ==
    /\ Unsent(r)
    /\ s \notin sessions
    /\ job' = [job EXCEPT ![r].answer = "not_found"]
    /\ UNCHANGED <<sessions, counter, creation, executions, totalExecutions, blocked, auditVars>>

\* The text does not transpile: counted, and execute() throws before it sets
\* the timer.
ExecuteRejected(r, s) ==
    /\ Unsent(r)
    /\ s \in sessions
    /\ Count(s)
    /\ job' = [job EXCEPT ![r].session = s, ![r].race = "error"]
    /\ UNCHANGED <<sessions, counter, creation, blocked, auditVars>>

\* The per-session counter is incremented when the execution ends well.
BugStartUncounted(r, s, form) ==
    /\ Unsent(r)
    /\ s \in sessions
    /\ totalExecutions' = totalExecutions + 1
    /\ job' = [job EXCEPT ![r] = [NoJob EXCEPT
                   !.session = s, !.text = form,
                   !.code = "running", !.timer = "armed"]]
    /\ UNCHANGED <<sessions, counter, creation, executions, blocked, auditVars>>

\* Declarations and statements are run without the race against the timeout.
BugStartNoDeadline(r, s, form) ==
    /\ Unsent(r)
    /\ s \in sessions
    /\ Count(s)
    /\ job' = [job EXCEPT ![r] = [NoJob EXCEPT
                   !.session = s, !.text = form,
                   !.code = "running",
                   !.timer = IF form = "once" THEN "off" ELSE "armed"]]
    /\ UNCHANGED <<sessions, counter, creation, blocked, auditVars>>

\* The timer is set and the code starts; for statements, which do
\* not parse as an expression, new Function() has already failed once.
ExecuteStart(r, s, form) ==
    /\ Unsent(r)
    /\ s \in sessions
    /\ Count(s)
    /\ job' = [job EXCEPT ![r] = [NoJob EXCEPT
                   !.session = s, !.text = form,
                   !.code = "running", !.timer = "armed"]]
    /\ UNCHANGED <<sessions, counter, creation, blocked, auditVars>>

----------------------------------------------------------------------------
(* The code, a piece at a time.                                            *)

Alive(r) == job[r].code = "running" \/ job[r].linger
RunsExpr(r) == job[r].code = "running" /\ job[r].text = "expr"

\* The logger is asked for its entry without the stream sink being written.
BugAuditedCallLocalOnly(r, changes, cut) ==
    /\ Alive(r)
    /\ Len(globalEntries) < MaxEntries
    /\ LET s == job[r].session
       IN local' = [local EXCEPT ![s] =
              Append(@, [session |-> s, by |-> r, n |-> Len(local[s]) + 1])]
    /\ UNCHANGED <<globalEntries, listeners, feed, aborted, registered, pager>>
    /\ UNCHANGED managerVars

\* An audited call: the entry first, then, unless a listener threw, the effect.
AuditedCall(r, changes, cut) ==
    /\ Alive(r)
    /\ Log(job[r].session, r, cut)
    /\ job' = [job EXCEPT ![r].touched = @ \/ (changes /\ cut = NoThrow /\ RunsExpr(r))]
    /\ UNCHANGED <<sessions, counter, creation, executions, totalExecutions, blocked>>

\* cp and writeJson change the VFS and log nothing; the guard leaves out the
\* steps whose effect is not recorded here.
UnauditedChange(r) ==
    /\ RunsExpr(r)
    /\ ~ job[r].touched
    /\ job' = [job EXCEPT ![r].touched = TRUE]
    /\ UNCHANGED <<sessions, counter, creation, executions, totalExecutions, blocked, auditVars>>

\* The promise of the code settles.  The race takes the outcome unless the
\* timeout has already settled it.
CodeEnds(r, outcome, leaves) ==
    /\ job[r].code = "running"
    /\ job' = [job EXCEPT ![r].code = "done", ![r].linger = @ \/ leaves,
                          ![r].touched = FALSE,
                          ![r].race = IF @ = "open" THEN outcome ELSE @]
    /\ UNCHANGED <<sessions, counter, creation, executions, totalExecutions, blocked, auditVars>>

\* An expression throws a SyntaxError, its own or one it let
\* through (JSON.parse), and the timeout has not answered: the same text is run
\* again, as statements, under the same timeout.
RunAgain(r, leaves) ==
    /\ RunsExpr(r)
    /\ job[r].race = "open"
    /\ job' = [job EXCEPT ![r].text = "once", ![r].linger = @ \/ leaves,
                          ![r].touched = FALSE]
    /\ UNCHANGED <<sessions, counter, creation, executions, totalExecutions, blocked, auditVars>>

\* while (true) {}: no other step of the process will ever run.
NeverYields(r) ==
    /\ Alive(r)
    /\ blocked' = TRUE
    /\ UNCHANGED <<sessions, counter, creation, executions, totalExecutions, job, auditVars>>

----------------------------------------------------------------------------
(* The timer and the answer.                                               *)

\* A settled race is continued (microtasks) before the loop turns to a timer.
Settled(r) == job[r].race # "open" /\ ~ Answered(r)

TimerFires(r) ==
    /\ job[r].timer = "armed"
    /\ \A q \in Request : ~ Settled(q)
    /\ job' = [job EXCEPT ![r].timer = "fired", ![r].race = "timeout"]
    /\ UNCHANGED <<sessions, counter, creation, executions, totalExecutions, blocked, auditVars>>

\* The timer is cleared only on the way to a value.
BugAnswerKeepsTimer(r) ==
    /\ Settled(r)
    /\ job' = [job EXCEPT ![r].answer = job[r].race,
                          ![r].timer = IF @ = "armed" /\ job[r].race = "ok" THEN "off" ELSE @,
                          ![r].count = IF job[r].race = "ok" THEN Len(local[job[r].session])
                                                             ELSE 0]
    /\ UNCHANGED <<sessions, counter, creation, executions, totalExecutions, blocked, auditVars>>

\* The handler reads the log's length before it awaits the execution.
BugAnswerCountsOthers(r) ==
    /\ Settled(r)
    /\ job' = [job EXCEPT ![r].answer = job[r].race,
                          ![r].timer = IF @ = "armed" THEN "off" ELSE @,
                          ![r].count = Cardinality({n \in DOMAIN local[job[r].session] :
                                           local[job[r].session][n].by # r})]
    /\ UNCHANGED <<sessions, counter, creation, executions, totalExecutions, blocked, auditVars>>

\* execute() past the race, its finally block, and the handler past its await:
\* a value is answered with the length the session's log has by now.
Answer(r) ==
    /\ Settled(r)
    /\ job' = [job EXCEPT ![r].answer = job[r].race,
                          ![r].timer = IF @ = "armed" THEN "off" ELSE @,
                          ![r].count = IF job[r].race = "ok" THEN Len(local[job[r].session])
                                                             ELSE 0]
    /\ UNCHANGED <<sessions, counter, creation, executions, totalExecutions, blocked, auditVars>>

----------------------------------------------------------------------------

\* What the clients of the audit trail do beside the sessions.
Subscribers ==
    /\ \/ \E c \in Client, f \in Filter : Connect(c, f)
       \/ \E c \in Client : Disconnect(c) \/ Cleanup(c)
       \/ \E p \in Reader, f \in Filter : StartPaging(p, f)
       \/ \E p \in Reader : QueryPage(p)
    /\ UNCHANGED managerVars

Lifecycle ==
    \/ \E mount \in BOOLEAN : Create(mount)
    \/ \E s \in Session : MountEnds(s) \/ Destroy(s)

Execution ==
    \E r \in Request :
        \/ \E s \in Session : \/ ExecuteUnknown(r, s)
                              \/ ExecuteRejected(r, s)
                              \/ \E form \in {"once", "expr"} : ExecuteStart(r, s, form)
        \/ \E changes \in BOOLEAN, s \in Session :
              /\ s = job[r].session
              /\ \E cut \in Cuts(s) : AuditedCall(r, changes, cut)
        \/ UnauditedChange(r)
        \/ \E outcome \in {"ok", "error"}, leaves \in BOOLEAN : CodeEnds(r, outcome, leaves)
        \/ \E leaves \in BOOLEAN : RunAgain(r, leaves)
        \/ NeverYields(r)
        \/ TimerFires(r)
        \/ Answer(r)

Next == ~ blocked /\ (Lifecycle \/ Execution \/ Subscribers)

\* The loop runs continuations and fires timers that are due.  Code need not
\* finish, nobody has to call.
Fairness ==
    \A r \in Request :
        /\ WF_vars(~ blocked /\ TimerFires(r))
        /\ WF_vars(~ blocked /\ Answer(r))

Spec == Init /\ [][Next]_vars /\ Fairness

----------------------------------------------------------------------------
(* What the manager promises.                                              *)

\* Every accepted call is counted once, in its session's counter and in the
\* server's, however it ends and whether or not the session still exists (the
\* two increments of execute() before anything that can throw).
CallsAreCounted ==
    /\ \A s \in Session : executions[s] = Cardinality({r \in Request : job[r].session = s})
    /\ totalExecutions = Cardinality({r \in Request : Accepted(r)})

\* A destroyed session is final: its id never comes back and no call is ever
\* accepted in it again, although calls it accepted before may still run
\* (create(), destroy() and the lookup of execute()).
DestroyedIsFinal ==
    [][\A s \in Session : (creation[s] # "none" /\ s \notin sessions) =>
          /\ s \notin sessions'
          /\ executions'[s] = executions[s]]_vars

\* An answered call has no timer left that could fire (session.ts:533: the
\* timer is always cleared, "to prevent the rejection from firing after
\* execution completes and crashing the process"), on every way out of execute().
NoTimerOutlivesItsCall == \A r \in Request : Answered(r) => job[r].timer # "armed"

\* The auditEntries of a successful answer covers every entry the call logged,
\* other calls logging meanwhile or not; only callbacks the code left behind
\* log after it (handler.ts:153, read after the await).
AnswerCoversItsEntries ==
    \A r \in Request : (job[r].answer = "ok" /\ ~ job[r].linger) =>
        \A n \in DOMAIN local[job[r].session] :
            local[job[r].session][n].by = r => n <= job[r].count

\* Every accepted call is answered, whatever its code does, unless some code
\* never yields: the timeout needs no cooperation from code that waits, and
\* cannot interrupt code that runs (the race of execute() and its timer).
EveryCallAnswered == \A r \in Request : Accepted(r) ~> (Answered(r) \/ blocked)

\* session.ts:515, "If it's a syntax error (not timeout), try as statements":
\* the second attempt is for text that did not parse, of which nothing has run.
RetryRepeatsNothing ==
    [][\A r \in Request :
          (job[r].text = "expr" /\ job'[r].text = "once") => ~ job[r].touched]_vars

=============================================================================

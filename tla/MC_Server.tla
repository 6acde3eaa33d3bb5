------------------------------ MODULE MC_Server ------------------------------
(***************************************************************************)
(* The RPC handlers in one run: admin.agent.run, with a worker that logs   *)
(* up to three entries, for the handler or for a library caller with two   *)
(* sinks, and every other method, with two sessions and two requests that  *)
(* wait.  The two share no state; the initial state chooses which moves.   *)
(***************************************************************************)
EXTENDS AgentRun, Rpc

VARIABLE part  \* the part that moves

ServerInit ==
  /\ part \in {"agent", "rpc"}
  /\ Init /\ RpcInit
  /\ part = "rpc" => caller = "handler"

ServerNext ==
  /\ UNCHANGED part
  /\ \/ part = "agent" /\ Next /\ UNCHANGED rpcVars
     \/ part = "rpc" /\ RpcNext /\ UNCHANGED vars

serverVars == <<part, vars, rpcVars>>

\* The fairness of AgentRun, when it moves.
ServerFairness ==
  /\ WF_vars(part = "agent" /\ ExitEvent) /\ WF_vars(part = "agent" /\ ErrorEvent)
  /\ WF_vars(part = "agent" /\ Timeout) /\ WF_vars(part = "agent" /\ Answer)

ServerSpec == ServerInit /\ [][ServerNext]_serverVars /\ ServerFairness
-----------------------------------------------------------------------------
\* What a client may take an answer for: an error changed nothing it should not, an
\* id finds its own session or none, every session is live or was destroyed once.
AnswersCanBeReliedOn == RpcTypeOK /\ ErrorsLeaveNothing /\ IdsFindTheirOwn /\ SessionsAddUp

\* A run that has been reported leaves no process, and one that was answered no
\* directory the handler has not tried to remove, but for one whose script could
\* not be written.
NothingOutlivesARun == OverWhenSettled /\ DirectoryRemoved
==============================================================================

----------------------------- MODULE Extension -----------------------------
(***************************************************************************)
(* The editor extension (.pi/extensions/bunshell/index.ts): it creates a   *)
(* session of the server when the editor's session starts, runs the tools  *)
(* in it, and destroys it when the editor shuts down.  Each of these waits *)
(* for an answer, and the editor, which is external, may go on meanwhile.  *)
(* The server may stop, which ends its sessions.                           *)
(***************************************************************************)
EXTENDS Naturals, FiniteSets, Nothing

CONSTANTS
  MaxStarts,  \* bound: starts of an editor session
  MaxTools,   \* bound: tool calls in flight
  MaxStops    \* bound: stops of the server

ASSUME ExtensionAssumption == {MaxStarts, MaxTools, MaxStops} \subseteq Nat /\ None \notin 1 .. MaxStarts

Handler == 1 .. MaxStarts  \* also the session that it makes: ids are not used again
AllowedToolNames == {"bunshell_execute", "bunshell_fs", "bunshell_audit"}

VARIABLES
  sessionId,   \* state.sessionId: None, or the session that tools are run in
  serving,     \* whether the server is up
  live,        \* the sessions it has for the extension
  starts,      \* handler -> how far session_start is
  shutdowns,   \* the handlers of session_shutdown that wait: [id, sent]
  tools,       \* the tool calls in flight: [id, session, ran], ran None until the server has run it
  stops,
  overlapped,  \* a start or a shutdown began while one of them was in flight, or in place of the other
  unanswered   \* a request was answered with an error, or not at all

extensionVars == <<sessionId, serving, live, starts, shutdowns, tools, stops, overlapped, unanswered>>

ExtensionInit ==
  /\ sessionId = None /\ serving \in BOOLEAN /\ live = {} /\ starts = [h \in Handler |-> "none"]
  /\ shutdowns = {} /\ tools = {} /\ stops = 0 /\ overlapped = FALSE /\ unanswered = FALSE

Busy == shutdowns # {} \/ \E h \in Handler : starts[h] \in {"health", "creating", "created"}

\* The tools are registered and the others switched off, whatever becomes of it.
SessionStart(h) ==
  /\ starts[h] = "none" /\ (h > 1 => starts[h - 1] # "none")
  /\ starts' = [starts EXCEPT ![h] = "health"] /\ sessionId' = None
  /\ overlapped' = (overlapped \/ Busy \/ sessionId # None)
  /\ UNCHANGED <<serving, live, shutdowns, tools, stops, unanswered>>

\* GET / is answered by the server, or by another, or not.
HealthAnswers(h) ==
  /\ starts[h] = "health"
  /\ starts' = [starts EXCEPT ![h] = IF serving THEN "creating" ELSE "over"]
  /\ UNCHANGED <<sessionId, serving, live, shutdowns, tools, stops, overlapped, unanswered>>

\* session.create makes the session before it mounts the directory.
CreateReaches(h) ==
  /\ starts[h] = "creating" /\ serving
  /\ starts' = [starts EXCEPT ![h] = "created"] /\ live' = live \cup {h}
  /\ UNCHANGED <<sessionId, serving, shutdowns, tools, stops, overlapped, unanswered>>

CreateAnswers(h) ==
  /\ starts[h] = "created" /\ serving
  /\ starts' = [starts EXCEPT ![h] = "over"] /\ sessionId' = h
  /\ UNCHANGED <<serving, live, shutdowns, tools, stops, overlapped, unanswered>>

\* The mount has failed, or the server is gone.
CreateFails(h) ==
  /\ starts[h] = "created" \/ (starts[h] = "creating" /\ ~serving)
  /\ starts' = [starts EXCEPT ![h] = "over"] /\ unanswered' = TRUE
  /\ UNCHANGED <<sessionId, serving, live, shutdowns, tools, stops, overlapped>>

\* Without a session there is nothing to wait for.
SessionShutdown ==
  /\ IF sessionId = None THEN UNCHANGED shutdowns
     ELSE shutdowns' = shutdowns \cup {[id |-> sessionId, sent |-> FALSE]}
  /\ overlapped' = (overlapped \/ Busy)
  /\ UNCHANGED <<sessionId, serving, live, starts, tools, stops, unanswered>>

DestroyReaches(s) ==
  /\ ~s.sent /\ serving
  /\ shutdowns' = (shutdowns \ {s}) \cup {[s EXCEPT !.sent = TRUE]} /\ live' = live \ {s.id}
  /\ UNCHANGED <<sessionId, serving, starts, tools, stops, overlapped, unanswered>>

\* Whatever came of it, and whatever the session is by now.
ShutdownEnds(s) ==
  /\ s.sent \/ ~serving
  /\ shutdowns' = shutdowns \ {s} /\ sessionId' = None
  /\ UNCHANGED <<serving, live, starts, tools, stops, overlapped, unanswered>>

\* A tool call that the editor lets through (tool_call blocks those of other names)
\* asks for the session of that moment, if there is one.
Free == {n \in 1 .. MaxTools : \A t \in tools : t.id # n}
ToolCall(name) ==
  /\ name \in AllowedToolNames /\ sessionId # None /\ Free # {}
  /\ tools' = tools \cup {[id |-> CHOOSE n \in Free : TRUE, session |-> sessionId, ran |-> None]}
  /\ UNCHANGED <<sessionId, serving, live, starts, shutdowns, stops, overlapped, unanswered>>

ToolReaches(t) ==
  /\ t.ran = None /\ serving
  /\ tools' = (tools \ {t}) \cup {[t EXCEPT !.ran = IF t.session \in live THEN "done" ELSE "refused"]}
  /\ UNCHANGED <<sessionId, serving, live, starts, shutdowns, stops, overlapped, unanswered>>

ToolEnds(t) ==
  /\ t.ran # None \/ ~serving
  /\ tools' = tools \ {t}
  /\ UNCHANGED <<sessionId, serving, live, starts, shutdowns, stops, overlapped, unanswered>>

ServerStopsServing ==
  /\ serving /\ stops < MaxStops /\ stops' = stops + 1 /\ serving' = FALSE /\ live' = {}
  /\ UNCHANGED <<sessionId, starts, shutdowns, tools, overlapped, unanswered>>
ServerServes ==
  /\ ~serving /\ serving' = TRUE
  /\ UNCHANGED <<sessionId, live, starts, shutdowns, tools, stops, overlapped, unanswered>>

ExtensionNext ==
  \/ \E h \in Handler : SessionStart(h) \/ HealthAnswers(h) \/ CreateReaches(h) \/ CreateAnswers(h) \/ CreateFails(h)
  \/ SessionShutdown \/ \E s \in shutdowns : DestroyReaches(s) \/ ShutdownEnds(s)
  \/ \E name \in AllowedToolNames : ToolCall(name)
  \/ \E t \in tools : ToolReaches(t) \/ ToolEnds(t)
  \/ ServerStopsServing \/ ServerServes

ExtensionSpec == ExtensionInit /\ [][ExtensionNext]_extensionVars
-----------------------------------------------------------------------------
ExtensionTypeOK ==
  /\ sessionId \in Handler \cup {None} /\ live \subseteq Handler
  /\ starts \in [Handler -> {"none", "health", "creating", "created", "over"}]
  /\ shutdowns \subseteq [id : Handler, sent : BOOLEAN]
  /\ tools \subseteq [id : 1 .. MaxTools, session : Handler, ran : {None, "done", "refused"}]
  /\ {serving, overlapped, unanswered} \subseteq BOOLEAN /\ stops \in 0 .. MaxStops

\* When starts and shutdowns take turns and every request is answered, the server has
\* at most one session for the editor, which is the one that its tools use or that is
\* being made: across the server's and the editor's restarts, none is left behind.
\* An overlap leaves one: a shutdown finds nothing to destroy while the session is
\* being made, or forgets the one that was made while it waited.
NoSessionLeft ==
  ~overlapped /\ ~unanswered =>
    live \subseteq {h \in Handler : h = sessionId \/ starts[h] = "created"} /\ Cardinality(live) <= 1
=============================================================================

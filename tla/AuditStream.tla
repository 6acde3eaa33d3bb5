---------------------------- MODULE AuditStream ----------------------------
(***************************************************************************)
(* The dashboard's hook on /events (dashboard/src/hooks/use-audit-stream): *)
(* it keeps one EventSource, opens another when it fails, waiting longer   *)
(* each time, and starts anew when the session it is for changes.  The     *)
(* server, which may go away and come back, and EventSource are external.  *)
(* Of the filters the one on the session stands for all.                   *)
(***************************************************************************)
EXTENDS Naturals, Sequences, FiniteSets, Nothing

CONSTANTS
  Watchable,   \* sessions
  MaxBackoff,  \* in seconds
  MaxShown,    \* entries that are kept
  MaxOutages,  \* bound: how often the server goes away
  MaxViews     \* bound: how often the session, or the page, is changed

ASSUME ViewAssumption ==
  /\ {MaxBackoff, MaxShown, MaxOutages, MaxViews} \subseteq Nat /\ MaxBackoff > 0
  /\ None \notin Watchable \cup [filter : Watchable]

VARIABLES
  watched,     \* None when the page is closed, or the session that is shown
  connections, \* the event sources that are not closed: [id, filter, open, cut]
  esRef,       \* the id of the newest, 0 before the first
  retry,       \* None, or what the timer will connect to
  backoff, connected,
  shown,       \* the entries, newest first: [of, wanted], the session when it came
  serverUp, outages, views

streamViewVars == <<watched, connections, esRef, retry, backoff, connected, shown, serverUp, outages, views>>
outsideVars == <<serverUp, outages, views>>

\* connect(): a number that no open connection has.
NewSource(filter, others) ==
  LET n == CHOOSE n \in 1 .. 3 : \A c \in others : c.id # n
  IN  connections' = others \cup {[id |-> n, filter |-> filter, open |-> FALSE, cut |-> FALSE]} /\ esRef' = n

StreamViewInit ==
  /\ watched \in Watchable /\ connections = {[id |-> 1, filter |-> watched, open |-> FALSE, cut |-> FALSE]} /\ esRef = 1
  /\ retry = None /\ backoff = 1 /\ connected = FALSE /\ shown = <<>>
  /\ serverUp = TRUE /\ outages = 0 /\ views = 0

OnOpen(c) ==
  /\ serverUp /\ ~c.open /\ ~c.cut /\ connections' = (connections \ {c}) \cup {[c EXCEPT !.open = TRUE]}
  /\ connected' = TRUE /\ backoff' = 1
  /\ UNCHANGED <<watched, esRef, retry, shown, outsideVars>>

\* The server sends an entry of the session it was asked for.
OnMessage(c) ==
  /\ serverUp /\ c.open /\ ~c.cut
  /\ shown' = SubSeq(<<[of |-> c.filter, wanted |-> watched]>> \o shown, 1, IF Len(shown) < MaxShown THEN Len(shown) + 1 ELSE MaxShown)
  /\ UNCHANGED <<watched, connections, esRef, retry, backoff, connected, outsideVars>>

Later(n) == IF 2 * n < MaxBackoff THEN 2 * n ELSE MaxBackoff

\* The source is closed, so that it does not reconnect on its own.
OnError(c) ==
  /\ ~serverUp \/ c.cut
  /\ connections' = connections \ {c} /\ connected' = FALSE
  /\ backoff' = Later(backoff) /\ retry' = [filter |-> c.filter]
  /\ UNCHANGED <<watched, esRef, shown, outsideVars>>

RetryFires ==
  /\ retry # None /\ NewSource(retry.filter, connections) /\ retry' = None
  /\ UNCHANGED <<watched, backoff, connected, shown, outsideVars>>

\* The effect's cleanup, and its next run for the session s, if the page is still
\* open; what was shown stays.
ChangesView(s) ==
  /\ views < MaxViews /\ views' = views + 1 /\ watched # None /\ watched' = s /\ s # watched
  /\ LET others == {c \in connections : c.id # esRef}
     IN  IF s = None THEN connections' = others /\ UNCHANGED esRef ELSE NewSource(s, others)
  /\ retry' = None
  /\ UNCHANGED <<backoff, connected, shown, serverUp, outages>>

\* Every connection is cut, also if the server is back before the browser says so.
ServerStops ==
  /\ serverUp /\ outages < MaxOutages /\ serverUp' = FALSE /\ outages' = outages + 1
  /\ connections' = {[c EXCEPT !.cut = TRUE] : c \in connections}
  /\ UNCHANGED <<watched, esRef, retry, backoff, connected, shown, views>>
ServerStarts ==
  /\ ~serverUp /\ serverUp' = TRUE
  /\ UNCHANGED <<watched, connections, esRef, retry, backoff, connected, shown, outages, views>>

StreamViewNext ==
  \/ \E c \in connections : OnOpen(c) \/ OnMessage(c) \/ OnError(c)
  \/ RetryFires \/ ServerStops \/ ServerStarts
  \/ \E s \in Watchable \cup {None} : ChangesView(s)

StreamViewSpec ==
  /\ StreamViewInit /\ [][StreamViewNext]_streamViewVars
  /\ WF_streamViewVars(\E c \in connections : OnOpen(c)) /\ WF_streamViewVars(\E c \in connections : OnError(c))
  /\ WF_streamViewVars(RetryFires)
-----------------------------------------------------------------------------
StreamViewTypeOK ==
  /\ watched \in Watchable \cup {None} /\ esRef \in 0 .. 3 /\ {connected, serverUp} \subseteq BOOLEAN
  /\ connections \subseteq [id : 1 .. 3, filter : Watchable, open : BOOLEAN, cut : BOOLEAN]
  /\ retry \in {None} \cup [filter : Watchable] /\ backoff \in 1 .. MaxBackoff /\ Len(shown) <= MaxShown
  /\ outages \in 0 .. MaxOutages /\ views \in 0 .. MaxViews

\* However failures, timers and changes of the session follow on each other, an open
\* page has exactly one connection or one timer that will make it, for the session
\* it shows, and a closed page has none; so no entry arrives of a session that is
\* not shown (those that came before a change stay).
OneStream ==
  /\ Cardinality(connections) + (IF retry = None THEN 0 ELSE 1) = (IF watched = None THEN 0 ELSE 1)
  /\ \A c \in connections : c.filter = watched
  /\ retry # None => retry.filter = watched
  /\ \A n \in 1 .. Len(shown) : shown[n].of = shown[n].wanted

\* A page that stays open is connected again when the server stays up.
StreamRecovers == <>[](serverUp /\ watched # None) => <>[]connected
=============================================================================

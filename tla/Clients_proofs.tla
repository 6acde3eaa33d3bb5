--------------------------- MODULE Clients_proofs ---------------------------
(***************************************************************************)
(* Proofs about the parts that MC_Clients puts side by side, for any       *)
(* values of their constants.  (AuditTrail has its own module.)            *)
(*                                                                         *)
(* Extension: while starts and shutdowns take turns there is one start or  *)
(* one session, and no third thing (TakesTurns).                           *)
(* VfsBrowser: ShowsOwnSaves needs that the server never has less than     *)
(* was confirmed (ServerIsNewer), so that a fetch that starts after the    *)
(* confirmation sees it (FetchesAreNewer).                                 *)
(* Repl: a verdict is a line's own when nothing else was written to        *)
(* check.ts since, and then the timer too holds that code (OwnVerdicts); a *)
(* line in flight knows every later one (LinesInOrder).                    *)
(* CommandLine: what the stages so far have been (StagesSoFar).            *)
(* Terminal: a check with the newest number that is not about what is      *)
(* shown tells of a change without a check (ChecksInOrder); depths add up  *)
(* over the lines of a text, as brackets are counted (PlacesAdd).          *)
(***************************************************************************)
EXTENDS MC_Clients, AuditTrail_proofs

----------------------------------------------------------------------------
(* The editor extension.                                                   *)

Pending(h) == starts[h] \in {"health", "creating", "created"}

\* A server that is down has no sessions.  While starts and shutdowns take turns, a
\* start found no session and makes its own, a shutdown destroys the one the tools
\* use, and between the two the server has no other.
TakesTurns ==
    /\ \A h \in Handler : Pending(h) =>
          /\ sessionId = None /\ shutdowns = {} /\ live \subseteq {h} /\ (live = {} \/ starts[h] = "created")
          /\ \A k \in Handler : Pending(k) => k = h
    /\ \A s \in shutdowns : s.id = sessionId /\ (s.sent => live = {}) /\ \A t \in shutdowns : t = s
    /\ (\A h \in Handler : ~Pending(h)) => live \subseteq {sessionId}

ExtensionIInv ==
    /\ ExtensionTypeOK /\ (~serving => live = {})
    /\ ~overlapped /\ ~unanswered => TakesTurns

LEMMA ExtensionTyped == ExtensionTypeOK /\ [ExtensionNext]_extensionVars => ExtensionTypeOK'
<1> SUFFICES ASSUME ExtensionTypeOK, [ExtensionNext]_extensionVars PROVE ExtensionTypeOK'
    OBVIOUS
<1> USE DEF ExtensionTypeOK
<1>1. ASSUME NEW h \in Handler, SessionStart(h) \/ HealthAnswers(h) PROVE ExtensionTypeOK'
    BY <1>1 DEF SessionStart, HealthAnswers, Busy
<1>2. ASSUME NEW h \in Handler, CreateReaches(h) \/ CreateAnswers(h) \/ CreateFails(h) PROVE ExtensionTypeOK'
    BY <1>2 DEF CreateReaches, CreateAnswers, CreateFails
<1>3. CASE SessionShutdown
    <2>1. shutdowns' \subseteq [id : Handler, sent : BOOLEAN]
        <3>1. sessionId # None => [id |-> sessionId, sent |-> FALSE] \in [id : Handler, sent : BOOLEAN]
            OBVIOUS
        <3>2. IF sessionId = None THEN shutdowns' = shutdowns
              ELSE shutdowns' = shutdowns \cup {[id |-> sessionId, sent |-> FALSE]}
            BY <1>3 DEF SessionShutdown
        <3>3. CASE sessionId = None
            BY <3>2, <3>3
        <3>4. CASE sessionId # None
            <4>1. shutdowns' = shutdowns \cup {[id |-> sessionId, sent |-> FALSE]}
                BY <3>2, <3>4
            <4> QED
                BY <3>1, <3>4, <4>1
        <3> QED
            BY <3>3, <3>4
    <2>2. /\ UNCHANGED <<sessionId, serving, live, starts, tools, stops, unanswered>>
          /\ overlapped' = (overlapped \/ Busy)
        BY <1>3 DEF SessionShutdown
    <2>3. Busy \in BOOLEAN
        BY DEF Busy
    <2> QED
        BY <2>1, <2>2, <2>3
<1>4. ASSUME NEW s \in shutdowns, DestroyReaches(s) \/ ShutdownEnds(s) PROVE ExtensionTypeOK'
    <2>1. shutdowns' \subseteq [id : Handler, sent : BOOLEAN]
        <3>1. [s EXCEPT !.sent = TRUE] \in [id : Handler, sent : BOOLEAN]
            OBVIOUS
        <3>2. shutdowns' \subseteq shutdowns \cup {[s EXCEPT !.sent = TRUE]}
            BY <1>4 DEF DestroyReaches, ShutdownEnds
        <3> QED
            BY <3>1, <3>2
    <2>2. /\ UNCHANGED <<serving, starts, tools, stops, overlapped, unanswered>>
          /\ sessionId' \in {sessionId, None} /\ live' \subseteq live
        BY <1>4 DEF DestroyReaches, ShutdownEnds
    <2> QED
        BY <2>1, <2>2
<1>5. ASSUME NEW name \in AllowedToolNames, ToolCall(name) PROVE ExtensionTypeOK'
    <2>1. PICK n \in 1 .. MaxTools : tools' = tools \cup {[id |-> n, session |-> sessionId, ran |-> None]}
        <3>1. Free \subseteq 1 .. MaxTools /\ Free # {}
            BY <1>5 DEF ToolCall, Free
        <3>3. (CHOOSE n \in Free : TRUE) \in Free
            BY <3>1
        <3> QED
            BY <1>5, <3>1, <3>3 DEF ToolCall
    <2>2. sessionId \in Handler /\ UNCHANGED <<sessionId, serving, live, starts, shutdowns, stops, overlapped, unanswered>>
        BY <1>5 DEF ToolCall
    <2>3. [id |-> n, session |-> sessionId, ran |-> None] \in [id : 1 .. MaxTools, session : Handler, ran : {None, "done", "refused"}]
        BY <2>2
    <2> QED
        BY <2>1, <2>2, <2>3
<1>6. ASSUME NEW t \in tools, ToolReaches(t) \/ ToolEnds(t) PROVE ExtensionTypeOK'
    <2>1. UNCHANGED <<sessionId, serving, live, starts, shutdowns, stops, overlapped, unanswered>>
        BY <1>6 DEF ToolReaches, ToolEnds
    <2>2. ASSUME NEW r \in {"done", "refused"}
          PROVE  [t EXCEPT !.ran = r] \in [id : 1 .. MaxTools, session : Handler, ran : {None, "done", "refused"}]
        OBVIOUS
    <2>3. tools' \subseteq tools \cup {[t EXCEPT !.ran = r] : r \in {"done", "refused"}}
        BY <1>6 DEF ToolReaches, ToolEnds
    <2> QED
        BY <2>1, <2>2, <2>3
<1>7. CASE ServerStopsServing \/ ServerServes
    <2>1. /\ UNCHANGED <<sessionId, starts, shutdowns, tools, overlapped, unanswered>>
          /\ serving' \in BOOLEAN /\ live' \subseteq live
        BY <1>7 DEF ServerStopsServing, ServerServes
    <2>2. stops' = stops \/ (stops < MaxStops /\ stops' = stops + 1)
        BY <1>7 DEF ServerStopsServing, ServerServes
    <2>3. MaxStops \in Nat
        BY ExtensionAssumption
    <2>4. stops' \in 0 .. MaxStops
        BY <2>2, <2>3
    <2> QED
        BY <2>1, <2>4
<1>8. CASE UNCHANGED extensionVars
    BY <1>8 DEF extensionVars
<1> QED
    BY <1>1, <1>2, <1>3, <1>4, <1>5, <1>6, <1>7, <1>8 DEF ExtensionNext

\* What a step of the extension may leave alone, for a state in which they take turns.
LEMMA TurnsKept ==
    ASSUME ExtensionTypeOK, TakesTurns, UNCHANGED <<sessionId, starts, shutdowns>>, live' \subseteq live
    PROVE  TakesTurns'
<1>1. \A h \in Handler : Pending(h)' <=> Pending(h)
    BY DEF Pending
<1>2. \A s \in shutdowns : s.sent => live' = {}
    BY DEF TakesTurns
<1>3. \A h \in Handler : Pending(h) => live' \subseteq {h} /\ (live' = {} \/ starts[h] = "created")
    BY DEF TakesTurns
<1> QED
    BY <1>1, <1>2, <1>3 DEF TakesTurns

LEMMA NextTakesTurns ==
    ASSUME ExtensionTypeOK, ~serving => live = {}, TakesTurns, ExtensionNext, ~overlapped', ~unanswered'
    PROVE  TakesTurns'
<1>0. /\ starts \in [Handler -> {"none", "health", "creating", "created", "over"}]
      /\ live \subseteq Handler /\ shutdowns \subseteq [id : Handler, sent : BOOLEAN]
    BY DEF ExtensionTypeOK
<1>1. ASSUME NEW h \in Handler, SessionStart(h) PROVE TakesTurns'
    <2>1. /\ sessionId = None /\ sessionId' = None /\ shutdowns = {} /\ \A k \in Handler : ~Pending(k)
          /\ starts' = [starts EXCEPT ![h] = "health"] /\ UNCHANGED <<live, shutdowns>>
        BY <1>1 DEF SessionStart, Busy, Pending
    <2>2. live = {}
        BY <1>0, <2>1, ExtensionAssumption DEF TakesTurns, Handler
    <2>3. \A k \in Handler : Pending(k)' <=> k = h
        BY <1>0, <2>1 DEF Pending
    <2> QED
        BY <2>1, <2>2, <2>3 DEF TakesTurns
<1>2. ASSUME NEW h \in Handler, HealthAnswers(h) PROVE TakesTurns'
    <2>1. /\ starts[h] = "health" /\ UNCHANGED <<sessionId, live, shutdowns>>
          /\ starts' = [starts EXCEPT ![h] = IF serving THEN "creating" ELSE "over"]
        BY <1>2 DEF HealthAnswers
    <2>2. sessionId = None /\ shutdowns = {} /\ live = {} /\ \A k \in Handler : Pending(k) => k = h
        BY <2>1 DEF TakesTurns, Pending
    <2>3. \A k \in Handler : Pending(k)' => k = h
        BY <1>0, <2>1, <2>2 DEF Pending
    <2> QED
        BY <2>1, <2>2, <2>3 DEF TakesTurns
<1>3. ASSUME NEW h \in Handler, CreateReaches(h) PROVE TakesTurns'
    <2>1. /\ starts[h] = "creating" /\ starts' = [starts EXCEPT ![h] = "created"] /\ live' = live \cup {h}
          /\ UNCHANGED <<sessionId, shutdowns>>
        BY <1>3 DEF CreateReaches
    <2>2. sessionId = None /\ shutdowns = {} /\ live = {} /\ \A k \in Handler : Pending(k) => k = h
        BY <2>1 DEF TakesTurns, Pending
    <2>3. starts'[h] = "created" /\ \A k \in Handler : Pending(k)' <=> k = h
        BY <1>0, <2>1, <2>2 DEF Pending
    <2> QED
        BY <2>1, <2>2, <2>3 DEF TakesTurns
<1>4. ASSUME NEW h \in Handler, CreateAnswers(h) PROVE TakesTurns'
    <2>1. /\ starts[h] = "created" /\ starts' = [starts EXCEPT ![h] = "over"] /\ sessionId' = h
          /\ UNCHANGED <<live, shutdowns>>
        BY <1>4 DEF CreateAnswers
    <2>2. shutdowns = {} /\ live \subseteq {h} /\ \A k \in Handler : Pending(k) => k = h
        BY <2>1 DEF TakesTurns, Pending
    <2>3. \A k \in Handler : ~Pending(k)'
        BY <1>0, <2>1, <2>2 DEF Pending
    <2> QED
        BY <2>1, <2>2, <2>3 DEF TakesTurns
<1>5. ASSUME NEW h \in Handler, CreateFails(h) PROVE FALSE
    BY <1>5 DEF CreateFails
<1>6. CASE SessionShutdown
    <2>1. shutdowns = {} /\ (\A k \in Handler : ~Pending(k)) /\ UNCHANGED <<sessionId, starts, live>>
        BY <1>6 DEF SessionShutdown, Busy, Pending
    <2> DEFINE s == [id |-> sessionId, sent |-> FALSE]
    <2>2. s.id = sessionId /\ s.sent = FALSE
        OBVIOUS
    <2>3. shutdowns' \subseteq {s}
        BY <1>6, <2>1 DEF SessionShutdown
    <2> HIDE DEF s
    <2>4. live \subseteq {sessionId} /\ \A k \in Handler : ~Pending(k)'
        BY <2>1 DEF TakesTurns, Pending
    <2> QED
        BY <2>1, <2>2, <2>3, <2>4 DEF TakesTurns
<1>7. ASSUME NEW s \in shutdowns, DestroyReaches(s) PROVE TakesTurns'
    <2> DEFINE t == [s EXCEPT !.sent = TRUE]
    <2>1. t.id = s.id /\ t.sent = TRUE
        BY <1>0
    <2>2. shutdowns' = (shutdowns \ {s}) \cup {t} /\ live' = live \ {s.id} /\ UNCHANGED <<sessionId, starts>>
        BY <1>7 DEF DestroyReaches
    <2> HIDE DEF t
    <2>3. s.id = sessionId /\ (\A u \in shutdowns : u = s) /\ (\A k \in Handler : ~Pending(k)) /\ live \subseteq {sessionId}
        BY DEF TakesTurns
    <2>4. shutdowns' = {t} /\ live' = {}
        BY <2>2, <2>3
    <2>5. \A k \in Handler : ~Pending(k)'
        BY <2>2, <2>3 DEF Pending
    <2> QED
        BY <2>1, <2>2, <2>3, <2>4, <2>5 DEF TakesTurns
<1>8. ASSUME NEW s \in shutdowns, ShutdownEnds(s) PROVE TakesTurns'
    <2>1. /\ s.sent \/ ~serving
          /\ shutdowns' = shutdowns \ {s} /\ sessionId' = None /\ UNCHANGED <<live, starts>>
        BY <1>8 DEF ShutdownEnds
    <2>2. live = {} /\ (\A u \in shutdowns : u = s) /\ (\A k \in Handler : ~Pending(k))
        BY <2>1 DEF TakesTurns
    <2>3. shutdowns' = {} /\ live' = {} /\ \A k \in Handler : ~Pending(k)'
        BY <2>1, <2>2 DEF Pending
    <2> QED
        BY <2>3 DEF TakesTurns
<1>9. ASSUME \/ \E name \in AllowedToolNames : ToolCall(name)
             \/ \E t \in tools : ToolReaches(t) \/ ToolEnds(t)
             \/ ServerStopsServing \/ ServerServes
      PROVE  TakesTurns'
    <2>1. UNCHANGED <<sessionId, starts, shutdowns>> /\ live' \subseteq live
        BY <1>9 DEF ToolCall, ToolReaches, ToolEnds, ServerStopsServing, ServerServes
    <2> QED
        BY <2>1, TurnsKept
<1> QED
    BY <1>1, <1>2, <1>3, <1>4, <1>5, <1>6, <1>7, <1>8, <1>9 DEF ExtensionNext

LEMMA ExtensionInvariant == ExtensionInit /\ [][ExtensionNext]_extensionVars => []ExtensionIInv
<1>1. ExtensionInit => ExtensionIInv
    <2> SUFFICES ASSUME ExtensionInit PROVE ExtensionIInv
        OBVIOUS
    <2>1. ExtensionTypeOK
        <3>1. MaxStops \in Nat
            BY ExtensionAssumption
        <3>2. stops \in 0 .. MaxStops
            BY <3>1 DEF ExtensionInit
        <3>3. starts \in [Handler -> {"none", "health", "creating", "created", "over"}]
            BY DEF ExtensionInit
        <3> QED
            BY <3>2, <3>3 DEF ExtensionInit, ExtensionTypeOK
    <2>2. TakesTurns /\ live = {}
        BY DEF ExtensionInit, TakesTurns, Pending
    <2> QED
        BY <2>1, <2>2 DEF ExtensionIInv
<1>2. ExtensionIInv /\ [ExtensionNext]_extensionVars => ExtensionIInv'
    <2> SUFFICES ASSUME ExtensionIInv, [ExtensionNext]_extensionVars PROVE ExtensionIInv'
        OBVIOUS
    <2>1. ExtensionTypeOK /\ ExtensionTypeOK' /\ (~serving => live = {}) /\ (~overlapped /\ ~unanswered => TakesTurns)
        BY ExtensionTyped DEF ExtensionIInv
    <2>2. CASE UNCHANGED extensionVars
        BY <2>1, <2>2, TurnsKept DEF extensionVars, ExtensionIInv
    <2>3. CASE ExtensionNext
        <3> DEFINE Grows == (overlapped => overlapped') /\ (unanswered => unanswered') /\ (~serving' => live' = {})
        <3>n. {serving, overlapped, unanswered, Busy} \subseteq BOOLEAN /\ (~serving => live = {})
            BY <2>1 DEF ExtensionTypeOK, Busy
        <3>a. ASSUME NEW h \in Handler, SessionStart(h) \/ HealthAnswers(h) \/ CreateReaches(h) \/ CreateAnswers(h) \/ CreateFails(h)
              PROVE  Grows
            BY <3>n, <3>a DEF SessionStart, HealthAnswers, CreateReaches, CreateAnswers, CreateFails
        <3>b. ASSUME NEW s \in shutdowns, DestroyReaches(s) \/ ShutdownEnds(s) PROVE Grows
            BY <3>n, <3>b DEF DestroyReaches, ShutdownEnds
        <3>c. ASSUME NEW t \in tools, ToolReaches(t) \/ ToolEnds(t) PROVE Grows
            BY <3>n, <3>c DEF ToolReaches, ToolEnds
        <3>d. ASSUME SessionShutdown \/ (\E name \in AllowedToolNames : ToolCall(name)) \/ ServerStopsServing \/ ServerServes
              PROVE  Grows
            BY <3>n, <3>d DEF SessionShutdown, ToolCall, ServerStopsServing, ServerServes
        <3>1. Grows
            BY <2>3, <3>a, <3>b, <3>c, <3>d DEF ExtensionNext
        <3>2. ~overlapped' /\ ~unanswered' => TakesTurns'
            BY <2>1, <2>3, <3>1, NextTakesTurns
        <3> QED
            BY <2>1, <3>1, <3>2 DEF ExtensionIInv
    <2> QED
        BY <2>2, <2>3
<1> QED
    BY <1>1, <1>2, PTL

\* While starts and shutdowns of the editor take turns and every request is answered,
\* the server has at most one session for it, the one its tools use or the one being
\* made, for any number of restarts of either (index.ts of the extension).
THEOREM EditorLeavesNoSession ==
    ExtensionInit /\ [][ExtensionNext]_extensionVars => [](ExtensionTypeOK /\ NoSessionLeft)
<1>1. ExtensionIInv => NoSessionLeft
    <2> SUFFICES ASSUME ExtensionIInv, ~overlapped, ~unanswered
                 PROVE  live \subseteq {h \in Handler : h = sessionId \/ starts[h] = "created"} /\ Cardinality(live) <= 1
        BY DEF NoSessionLeft
    <2>1. live \subseteq Handler /\ TakesTurns
        BY DEF ExtensionIInv, ExtensionTypeOK
    <2>2. PICK x : live \subseteq {x} /\ (x = sessionId \/ live = {} \/ starts[x] = "created")
        BY <2>1 DEF TakesTurns
    <2>3. IsFiniteSet({x}) /\ Cardinality({x}) = 1
        BY FS_Singleton
    <2>4. Cardinality(live) <= 1
        BY <2>2, <2>3, FS_Subset
    <2> QED
        BY <2>1, <2>2, <2>4
<1>2. ExtensionIInv => ExtensionTypeOK
    BY DEF ExtensionIInv
<1> QED
    BY <1>1, <1>2, ExtensionInvariant, PTL

----------------------------------------------------------------------------
(* The file browser.                                                       *)

Content == 0 .. MaxWrites \cup {None}
RenderedPage == {None} \cup [selected : File \cup {None}]
ChangeRecord ==
    [id : 1 .. MaxCalls, does : {"save", "create", "delete"}, file : File, of : File, made : Content, page : RenderedPage]

\* The server's content of a file is newer than every write of it that was confirmed or
\* that awaits its answer, unless the file has been removed since.
ServerIsNewer ==
    /\ \A f \in File : saved[f] <= written
          /\ (onServer[f] # None => saved[f] <= onServer[f] /\ onServer[f] <= written)
    /\ \A c \in changes : c.does # "delete" /\ c.made # None =>
          c.made <= written /\ (onServer[c.file] # None => c.made <= onServer[c.file])

\* What a fetch has seen is at least what was confirmed, or the confirmation missed the
\* file; and so is what is cached, or it is being fetched again.
FetchesAreNewer ==
    \A f \in File :
      /\ fetching[f] # None /\ fetching[f].saw # None /\ fetching[f].saw < saved[f] => missed[f]
      /\ cached[f] # None /\ cached[f] < saved[f] => fetching[f] # None \/ missed[f]

BrowserTyped ==
    /\ onServer \in [File -> Content] /\ cached \in [File -> Content]
    /\ written \in 0 .. MaxWrites /\ saved \in [File -> 0 .. MaxWrites] /\ missed \in [File -> BOOLEAN]
    /\ fetching \in [File -> {None} \cup [saw : Content]]
    /\ {selectedFile, editing} \subseteq File \cup {None}
    /\ called \in 0 .. MaxCalls /\ changes \subseteq ChangeRecord

BrowserIInv == BrowserTyped /\ SaveGoesHome /\ ServerIsNewer /\ FetchesAreNewer

LEMMA FetchTyped == Fetch \in [saw : Content] /\ Fetch.saw = None /\ Fetch # None
<1>1. None \in Content
    BY DEF Content
<1>2. Fetch \in [saw : Content] /\ Fetch.saw = None
    BY <1>1 DEF Fetch
<1>3. None \notin [saw : Content]
    BY BrowserAssumption DEF Content
<1> QED
    BY <1>2, <1>3

\* Requests that start a fetch anew are no loss.
LEMMA FetchesStart ==
    ASSUME BrowserTyped, NEW requests \in [File -> {None} \cup [saw : Content]], NEW f \in File,
           NEW started \in Mounted(f, requests)
    PROVE  /\ started \in [File -> {None} \cup [saw : Content]]
           /\ \A g \in File : started[g] = requests[g] \/ (requests[g] = None /\ started[g] = Fetch)
<1>1. started = requests \/ started = [requests EXCEPT ![f] = IF requests[f] = None THEN Fetch ELSE requests[f]]
    BY DEF Mounted
<1> QED
    BY <1>1, FetchTyped

LEMMA InvalidatedFetches ==
    ASSUME BrowserTyped, NEW f \in File \cup {None}
    PROVE  /\ Invalidated(f) \in [File -> {None} \cup [saw : Content]]
           /\ \A g \in File : Invalidated(f)[g] = IF g = f /\ g = selectedFile /\ ~Loading(g) THEN Fetch ELSE fetching[g]
<1>1. fetching \in [File -> {None} \cup [saw : Content]] /\ None \notin File
    BY BrowserAssumption DEF BrowserTyped
<1>2. CASE f # None /\ f = selectedFile /\ ~Loading(f)
    <2>1. Invalidated(f) = [fetching EXCEPT ![f] = Fetch]
        BY <1>2 DEF Invalidated
    <2> QED
        BY <1>1, <1>2, <2>1, FetchTyped
<1>3. CASE ~(f # None /\ f = selectedFile /\ ~Loading(f))
    <2>1. Invalidated(f) = fetching
        BY <1>3 DEF Invalidated
    <2>2. \A g \in File : ~(g = f /\ g = selectedFile /\ ~Loading(g))
        BY <1>1, <1>3
    <2> QED
        BY <1>1, <2>1, <2>2
<1> QED
    BY <1>2, <1>3

\* As long as the confirmed saves, the cache and what is missed stay, fetches may start.
LEMMA StartsKeepNewer ==
    ASSUME BrowserTyped, FetchesAreNewer, UNCHANGED <<cached, saved, missed>>,
           \A g \in File : fetching'[g] = fetching[g] \/ fetching'[g] = Fetch
    PROVE  FetchesAreNewer'
<1> SUFFICES ASSUME NEW g \in File
             PROVE  /\ fetching'[g] # None /\ fetching'[g].saw # None /\ fetching'[g].saw < saved[g] => missed[g]
                    /\ cached[g] # None /\ cached[g] < saved[g] => fetching'[g] # None \/ missed[g]
    BY DEF FetchesAreNewer
<1>1. CASE fetching'[g] = fetching[g]
    BY <1>1 DEF FetchesAreNewer
<1>2. CASE fetching'[g] = Fetch
    BY <1>2, FetchTyped
<1> QED
    BY <1>1, <1>2

LEMMA SelectionKeeps ==
    ASSUME BrowserIInv, NEW f \in File, SelectFile(f)
    PROVE  BrowserIInv'
<1>1. /\ selectedFile' = f /\ fetching' \in {fetching} \cup Mounted(f, fetching) /\ editing' = None
      /\ UNCHANGED <<cached, onServer, written, called, changes, saved, missed>>
    BY DEF SelectFile, Selects, serverVars, ghostVars
<1>2. /\ fetching' \in [File -> {None} \cup [saw : Content]]
      /\ \A g \in File : fetching'[g] = fetching[g] \/ fetching'[g] = Fetch
    <2>1. BrowserTyped /\ fetching \in [File -> {None} \cup [saw : Content]]
        BY DEF BrowserIInv, BrowserTyped
    <2> QED
        BY <1>1, <2>1, FetchesStart
<1>3. BrowserTyped'
    BY <1>1, <1>2 DEF BrowserIInv, BrowserTyped
<1>4. SaveGoesHome' /\ ServerIsNewer'
    BY <1>1 DEF BrowserIInv, SaveGoesHome, ServerIsNewer
<1>5. FetchesAreNewer'
    BY <1>1, <1>2, StartsKeepNewer DEF BrowserIInv
<1> QED
    BY <1>3, <1>4, <1>5 DEF BrowserIInv

LEMMA EditorKeeps ==
    ASSUME BrowserIInv, ChangeDirectory \/ StartEditing \/ CloseEditor
    PROVE  BrowserIInv'
<1>1. UNCHANGED <<onServer, written, cached, fetching, called, changes, saved, missed>>
    BY DEF ChangeDirectory, StartEditing, CloseEditor, serverVars, queryVars, ghostVars
<1>2. BrowserTyped'
    BY <1>1 DEF BrowserIInv, BrowserTyped, ChangeDirectory, StartEditing, CloseEditor
<1>3. ServerIsNewer' /\ FetchesAreNewer'
    BY <1>1 DEF BrowserIInv, ServerIsNewer, FetchesAreNewer
<1>4. editing' # None /\ selectedFile' # None => editing' = selectedFile'
    BY DEF ChangeDirectory, StartEditing, CloseEditor
<1>5. SaveGoesHome'
    BY <1>1, <1>4 DEF BrowserIInv, SaveGoesHome
<1> QED
    BY <1>2, <1>3, <1>5 DEF BrowserIInv

LEMMA SupersededIsSame ==
    ASSUME BrowserTyped, NEW does, NEW d \in Superseded(does)
    PROVE  d \in ChangeRecord /\ \E c \in changes :
             d.id = c.id /\ d.does = c.does /\ d.file = c.file /\ d.of = c.of /\ d.made = c.made
<1>1. [selected |-> selectedFile] \in RenderedPage
    BY DEF BrowserTyped, RenderedPage
<1>2. PICK c \in changes : d = c \/ d = [c EXCEPT !.page = [selected |-> selectedFile]]
    BY DEF Superseded
<1>3. c \in ChangeRecord
    BY DEF BrowserTyped
<1>4. CASE d = c
    BY <1>3, <1>4
<1>5. CASE d = [c EXCEPT !.page = [selected |-> selectedFile]]
    <2> DEFINE page == [selected |-> selectedFile]
    <2>1. page \in RenderedPage /\ d = [c EXCEPT !.page = page]
        BY <1>1, <1>5
    <2> HIDE DEF page
    <2>2. d \in ChangeRecord /\ d.id = c.id /\ d.does = c.does /\ d.file = c.file /\ d.of = c.of /\ d.made = c.made
        BY <1>3, <2>1 DEF ChangeRecord
    <2> QED
        BY <2>2
<1> QED
    BY <1>2, <1>4, <1>5

LEMMA SendingKeeps ==
    ASSUME BrowserIInv, NEW does \in {"save", "create", "delete"}, NEW f \in File, Sends(does, f, f)
    PROVE  BrowserIInv'
<1> DEFINE new == [id |-> called + 1, does |-> does, file |-> f, of |-> f, made |-> None, page |-> None]
<1>1. called \in 0 .. MaxCalls /\ called < MaxCalls /\ called' = called + 1 /\ MaxCalls \in Nat
    BY BrowserAssumption DEF Sends, BrowserIInv, BrowserTyped
<1>2. new \in ChangeRecord
    BY <1>1 DEF ChangeRecord, Content, RenderedPage
<1>3. new.of = f /\ new.file = f /\ new.made = None
    OBVIOUS
<1>4. /\ changes' = Superseded(does) \cup {new}
      /\ UNCHANGED <<onServer, written, cached, fetching, selectedFile, editing, saved, missed>>
    BY DEF Sends, serverVars, queryVars, editorVars, ghostVars
<1> HIDE DEF new
<1>5. \A d \in Superseded(does) : d \in ChangeRecord /\ \E c \in changes :
             d.id = c.id /\ d.does = c.does /\ d.file = c.file /\ d.of = c.of /\ d.made = c.made
    BY SupersededIsSame DEF BrowserIInv
<1>6. BrowserTyped'
    <2>1. called' \in 0 .. MaxCalls
        BY <1>1
    <2>2. changes' \subseteq ChangeRecord
        BY <1>2, <1>4, <1>5
    <2> QED
        BY <1>4, <2>1, <2>2 DEF BrowserIInv, BrowserTyped
<1>7. SaveGoesHome'
    BY <1>3, <1>4, <1>5 DEF BrowserIInv, SaveGoesHome
<1>8. ServerIsNewer'
    <2>1. \A d \in changes' : d.does # "delete" /\ d.made # None =>
             d.made <= written /\ (onServer[d.file] # None => d.made <= onServer[d.file])
        BY <1>3, <1>4, <1>5 DEF BrowserIInv, ServerIsNewer
    <2> QED
        BY <1>4, <2>1 DEF BrowserIInv, ServerIsNewer
<1>9. FetchesAreNewer'
    BY <1>4 DEF BrowserIInv, FetchesAreNewer
<1> QED
    BY <1>6, <1>7, <1>8, <1>9 DEF BrowserIInv

\* A request that changes something is over, or has failed.
LEMMA FailureKeeps ==
    ASSUME BrowserIInv, NEW c \in changes, ChangeFails(c)
    PROVE  BrowserIInv'
<1>1. /\ changes' \subseteq changes
      /\ UNCHANGED <<onServer, written, cached, fetching, selectedFile, editing, called, saved, missed>>
    BY DEF ChangeFails, serverVars, queryVars, editorVars, ghostVars
<1>2. BrowserTyped'
    BY <1>1 DEF BrowserIInv, BrowserTyped
<1>3. SaveGoesHome' /\ ServerIsNewer' /\ FetchesAreNewer'
    BY <1>1 DEF BrowserIInv, SaveGoesHome, ServerIsNewer, FetchesAreNewer
<1> QED
    BY <1>2, <1>3 DEF BrowserIInv

LEMMA FetchKeeps ==
    ASSUME BrowserIInv, Refetches \/ \E f \in File : FetchReads(f) \/ FetchReturns(f) \/ FetchFails(f)
    PROVE  BrowserIInv'
<1>0. UNCHANGED <<onServer, written, selectedFile, editing, called, changes, saved>>
    BY DEF Refetches, FetchReads, FetchReturns, FetchFails, serverVars, editorVars, ghostVars
<1>1. SaveGoesHome' /\ ServerIsNewer'
    BY <1>0 DEF BrowserIInv, SaveGoesHome, ServerIsNewer
<1>2. BrowserTyped /\ ServerIsNewer /\ FetchesAreNewer
    BY DEF BrowserIInv
<1>3. /\ fetching \in [File -> {None} \cup [saw : Content]] /\ cached \in [File -> Content]
      /\ onServer \in [File -> Content] /\ missed \in [File -> BOOLEAN] /\ saved \in [File -> 0 .. MaxWrites]
    BY <1>2 DEF BrowserTyped
<1> DEFINE Fetches(h) == h \in {None} \cup [saw : Content]
           Newer(g) ==
               /\ fetching'[g] # None /\ fetching'[g].saw # None /\ fetching'[g].saw < saved[g] => missed'[g]
               /\ cached'[g] # None /\ cached'[g] < saved[g] => fetching'[g] # None \/ missed'[g]
<1>4. ASSUME NEW g \in File, UNCHANGED <<fetching[g], cached[g], missed[g]>> PROVE Newer(g)
    BY <1>2, <1>4 DEF FetchesAreNewer
<1>5. CASE Refetches
    <2>1. fetching' = [fetching EXCEPT ![selectedFile] = Fetch] /\ UNCHANGED <<cached, missed, saved>>
        BY <1>5 DEF Refetches, ghostVars
    <2>2. fetching' \in [File -> {None} \cup [saw : Content]]
        BY <1>3, <2>1, FetchTyped
    <2>3. BrowserTyped'
        BY <1>0, <1>2, <2>1, <2>2 DEF BrowserTyped
    <2>4. \A g \in File : fetching'[g] = fetching[g] \/ fetching'[g] = Fetch
        BY <1>3, <2>1
    <2>5. FetchesAreNewer'
        BY <1>2, <2>1, <2>4, StartsKeepNewer
    <2> QED
        BY <1>1, <2>3, <2>5 DEF BrowserIInv
<1>6. ASSUME NEW f \in File, FetchReads(f) PROVE BrowserIInv'
    <2> DEFINE read == [fetching[f] EXCEPT !.saw = onServer[f]]
    <2>1. fetching' = [fetching EXCEPT ![f] = read] /\ UNCHANGED <<cached, missed, saved>>
        BY <1>6 DEF FetchReads, ghostVars
    <2>2. fetching[f] \in [saw : Content] /\ onServer[f] \in Content /\ onServer[f] # None
        BY <1>3, <1>6, FetchTyped DEF FetchReads
    <2>3. read \in [saw : Content] /\ read.saw = onServer[f]
        BY <2>2
    <2>4. saved[f] <= onServer[f]
        BY <1>2, <2>2 DEF ServerIsNewer
    <2> HIDE DEF read
    <2>5. fetching' \in [File -> {None} \cup [saw : Content]]
        BY <1>3, <2>1, <2>3
    <2>6. BrowserTyped'
        BY <1>0, <1>2, <2>1, <2>5 DEF BrowserTyped
    <2>7. Newer(f)
        <3>1. fetching'[f] = read
            BY <1>3, <2>1
        <3>2. read # None
            BY <2>3, BrowserAssumption DEF Content
        <3>3. onServer[f] \in 0 .. MaxWrites /\ saved[f] \in 0 .. MaxWrites /\ MaxWrites \in Nat
            BY <1>3, <2>2, BrowserAssumption DEF Content
        <3>4. ~ (read.saw < saved[f])
            BY <2>3, <2>4, <3>3
        <3> QED
            BY <3>1, <3>2, <3>4
    <2>8. \A g \in File : Newer(g)
        BY <1>3, <1>4, <2>1, <2>7
    <2> QED
        BY <1>0, <1>1, <2>6, <2>8 DEF BrowserIInv, FetchesAreNewer
<1>7. ASSUME NEW f \in File, FetchReturns(f) PROVE BrowserIInv'
    <2>1. /\ fetching[f] # None /\ fetching[f].saw # None
          /\ cached' = [cached EXCEPT ![f] = fetching[f].saw] /\ fetching' = [fetching EXCEPT ![f] = None]
          /\ missed' = [missed EXCEPT ![f] = missed[f] /\ fetching[f].saw < saved[f]]
        BY <1>7 DEF FetchReturns
    <2>2. fetching[f] \in [saw : Content]
        BY <1>3, <2>1
    <2>3. fetching[f].saw \in Content
        BY <2>2
    <2>4. cached' \in [File -> Content] /\ fetching' \in [File -> {None} \cup [saw : Content]]
        BY <1>3, <2>1, <2>3
    <2>5. (missed[f] /\ fetching[f].saw < saved[f]) \in BOOLEAN
        OBVIOUS
    <2>6. missed' \in [File -> BOOLEAN]
        BY <1>3, <2>1, <2>5
    <2>7. BrowserTyped'
        BY <1>0, <1>2, <2>4, <2>6 DEF BrowserTyped
    <2>8. Newer(f)
        <3>1. cached'[f] = fetching[f].saw /\ fetching'[f] = None
            BY <1>3, <2>1
        <3>2. missed'[f] = (missed[f] /\ fetching[f].saw < saved[f])
            BY <1>3, <2>1
        <3>3. fetching[f].saw < saved[f] => missed[f]
            BY <1>2, <2>1 DEF FetchesAreNewer
        <3> QED
            BY <3>1, <3>2, <3>3
    <2>9. \A g \in File : Newer(g)
        <3> SUFFICES ASSUME NEW g \in File PROVE Newer(g)
            OBVIOUS
        <3>1. g # f => UNCHANGED <<fetching[g], cached[g], missed[g]>>
            BY <1>3, <2>1
        <3> QED
            BY <1>4, <2>8, <3>1
    <2> QED
        BY <1>0, <1>1, <2>7, <2>9 DEF BrowserIInv, FetchesAreNewer
<1>8. ASSUME NEW f \in File, FetchFails(f) PROVE BrowserIInv'
    <2>1. /\ fetching' = [fetching EXCEPT ![f] = None] /\ missed' = [missed EXCEPT ![f] = saved[f] > 0]
          /\ UNCHANGED cached
        BY <1>8 DEF FetchFails
    <2>2. fetching' \in [File -> {None} \cup [saw : Content]] /\ missed' \in [File -> BOOLEAN]
        BY <1>3, <2>1
    <2>3. BrowserTyped'
        BY <1>0, <1>2, <2>1, <2>2 DEF BrowserTyped
    <2>4. \A g \in File : Newer(g)
        <3> SUFFICES ASSUME NEW g \in File PROVE Newer(g)
            OBVIOUS
        <3>1. g # f => UNCHANGED <<fetching[g], cached[g], missed[g]>>
            BY <1>3, <2>1
        <3>2. fetching'[f] = None /\ missed'[f] = (saved[f] > 0)
            BY <1>3, <2>1
        <3>3. cached[f] # None /\ cached[f] < saved[f] => saved[f] > 0
            BY <1>0, <1>3 DEF Content
        <3> QED
            BY <1>4, <2>1, <3>1, <3>2, <3>3
    <2> QED
        BY <1>0, <1>1, <2>3, <2>4 DEF BrowserIInv, FetchesAreNewer
<1> QED
    BY <1>5, <1>6, <1>7, <1>8

\* A write or a removal at the server has the newest number.
LEMMA WriteIsNewest ==
    ASSUME BrowserIInv, NEW f \in File, NEW content, content \in {written + 1, None, onServer[f]},
           written' = written + 1, written < MaxWrites, onServer' = [onServer EXCEPT ![f] = content],
           UNCHANGED <<saved, cached, fetching, selectedFile, editing, called, missed>>,
           changes' \subseteq ChangeRecord,
           \A d \in changes' : \/ d \in changes
                               \/ /\ d.of = d.file /\ d.file = f /\ d.made = written + 1
                                  /\ d.does # "delete" => content = written + 1
    PROVE  BrowserIInv'
<1>1. /\ MaxWrites \in Nat /\ written \in 0 .. MaxWrites /\ onServer \in [File -> Content]
      /\ saved \in [File -> 0 .. MaxWrites] /\ changes \subseteq ChangeRecord /\ None \notin 0 .. MaxWrites
    BY BrowserAssumption DEF BrowserIInv, BrowserTyped
<1>2. written + 1 \in 0 .. MaxWrites /\ written + 1 # None
    BY <1>1
<1>3. onServer' \in [File -> Content]
    BY <1>1, <1>2 DEF Content
<1>4. BrowserTyped'
    BY <1>2, <1>3 DEF BrowserIInv, BrowserTyped
<1>5. SaveGoesHome'
    BY DEF BrowserIInv, SaveGoesHome
<1>6. \A g \in File : saved[g] <= written + 1 /\ (onServer'[g] # None => saved[g] <= onServer'[g] /\ onServer'[g] <= written + 1)
    <2> SUFFICES ASSUME NEW g \in File
                 PROVE  saved[g] <= written + 1 /\ (onServer'[g] # None => saved[g] <= onServer'[g] /\ onServer'[g] <= written + 1)
        OBVIOUS
    <2>1. saved[g] \in 0 .. MaxWrites /\ saved[g] <= written
        BY <1>1 DEF BrowserIInv, ServerIsNewer
    <2>2. CASE g = f /\ content # onServer[f]
        <3>1. onServer'[g] = content
            BY <1>1, <2>2
        <3> QED
            BY <1>1, <2>1, <2>2, <3>1
    <2>3. CASE g # f \/ content = onServer[f]
        <3>1. onServer'[g] = onServer[g] /\ onServer[g] \in Content
            BY <1>1, <2>3
        <3>2. onServer[g] # None => onServer[g] \in 0 .. MaxWrites /\ saved[g] <= onServer[g] /\ onServer[g] <= written
            BY <3>1 DEF BrowserIInv, ServerIsNewer, Content
        <3> QED
            BY <1>1, <2>1, <3>1, <3>2
    <2> QED
        BY <2>2, <2>3
<1>7. ASSUME NEW d \in changes', d.does # "delete", d.made # None
      PROVE  d.made <= written + 1 /\ (onServer'[d.file] # None => d.made <= onServer'[d.file])
    <2>1. d.file \in File /\ d.made \in 0 .. MaxWrites
        BY <1>7 DEF ChangeRecord, Content
    <2>2. onServer'[d.file] = IF d.file = f THEN content ELSE onServer[d.file]
        BY <1>1, <2>1
    <2>3. CASE d \in changes
        <3>1. d.made <= written /\ (onServer[d.file] # None => d.made <= onServer[d.file])
            BY <1>7, <2>3 DEF BrowserIInv, ServerIsNewer
        <3>2. d.made <= written + 1
            BY <1>1, <2>1, <3>1
        <3> QED
            BY <2>2, <3>1, <3>2
    <2>4. CASE d.file = f /\ d.made = written + 1 /\ content = written + 1
        BY <1>1, <2>2, <2>4
    <2> QED
        BY <1>7, <2>3, <2>4
<1>8. ServerIsNewer'
    BY <1>6, <1>7 DEF ServerIsNewer
<1>9. FetchesAreNewer'
    BY DEF BrowserIInv, FetchesAreNewer
<1> QED
    BY <1>4, <1>5, <1>8, <1>9 DEF BrowserIInv

LEMMA WritingKeeps ==
    ASSUME BrowserIInv, (\E f \in File : SessionWrites(f)) \/ (\E c \in changes : Reaches(c))
    PROVE  BrowserIInv'
<1>1. ASSUME NEW f \in File, SessionWrites(f) PROVE BrowserIInv'
    <2>1. PICK content \in {written + 1, None} : onServer' = [onServer EXCEPT ![f] = content]
        BY <1>1 DEF SessionWrites
    <2>2. /\ written' = written + 1 /\ written < MaxWrites
          /\ UNCHANGED <<saved, cached, fetching, selectedFile, editing, called, missed, changes>>
        BY <1>1 DEF SessionWrites, queryVars, editorVars, ghostVars
    <2>3. changes \subseteq ChangeRecord
        BY DEF BrowserIInv, BrowserTyped
    <2> QED
        BY <2>1, <2>2, <2>3, WriteIsNewest
<1>2. ASSUME NEW c \in changes, Reaches(c) PROVE BrowserIInv'
    <2> DEFINE d == [c EXCEPT !.made = written + 1]
    <2> DEFINE contents == IF c.does = "delete" THEN {None, onServer[c.file]} ELSE {written + 1}
    <2>0. \E content \in contents : onServer' = [onServer EXCEPT ![c.file] = content]
        BY <1>2 DEF Reaches
    <2>1. PICK content \in contents : onServer' = [onServer EXCEPT ![c.file] = content]
        BY <2>0
    <2>2. /\ written' = written + 1 /\ written < MaxWrites /\ changes' = (changes \ {c}) \cup {d}
          /\ UNCHANGED <<saved, cached, fetching, selectedFile, editing, called, missed>>
        BY <1>2 DEF Reaches, queryVars, editorVars, ghostVars
    <2>3. c \in ChangeRecord /\ changes \subseteq ChangeRecord /\ written \in 0 .. MaxWrites /\ c.of = c.file
        BY DEF BrowserIInv, BrowserTyped, SaveGoesHome
    <2>4. written + 1 \in Content
        BY <2>2, <2>3, BrowserAssumption DEF Content
    <2>5. d \in ChangeRecord
        BY <2>3, <2>4 DEF ChangeRecord
    <2>6. d.of = c.of /\ d.file = c.file /\ d.does = c.does /\ d.made = written + 1 /\ c.file \in File
        BY <2>3 DEF ChangeRecord
    <2>7. content \in {written + 1, None, onServer[c.file]} /\ (d.does # "delete" => content = written + 1)
        BY <2>1, <2>6
    <2> HIDE DEF d, contents
    <2>8. \A e \in changes' : \/ e \in changes
                              \/ /\ e.of = e.file /\ e.file = c.file /\ e.made = written + 1
                                 /\ e.does # "delete" => content = written + 1
        BY <2>2, <2>3, <2>6, <2>7
    <2>9. changes' \subseteq ChangeRecord
        BY <2>2, <2>3, <2>5
    <2>10. PICK f \in File : f = c.file
        BY <2>6
    <2>11. /\ onServer' = [onServer EXCEPT ![f] = content] /\ content \in {written + 1, None, onServer[f]}
           /\ \A e \in changes' : \/ e \in changes
                                  \/ /\ e.of = e.file /\ e.file = f /\ e.made = written + 1
                                     /\ e.does # "delete" => content = written + 1
        BY <2>1, <2>7, <2>8, <2>10
    <2> QED
        BY <2>2, <2>9, <2>11, WriteIsNewest
<1> QED
    BY <1>1, <1>2

LEMMA SelectedForIsFile ==
    ASSUME BrowserTyped, NEW c \in changes
    PROVE  SelectedFor(c) \in File \cup {None}
<1>1. c \in ChangeRecord /\ selectedFile \in File \cup {None}
    BY DEF BrowserTyped
<1>2. c.page \in RenderedPage
    BY <1>1 DEF ChangeRecord
<1> QED
    BY <1>1, <1>2 DEF SelectedFor, Newest, RenderedPage

LEMMA DeleteKeeps ==
    ASSUME BrowserIInv, NEW c \in changes, DeleteSucceeds(c)
    PROVE  BrowserIInv'
<1>1. /\ changes' \subseteq changes /\ fetching' = Invalidated(SelectedFor(c))
      /\ selectedFile' \in {None, selectedFile}
      /\ UNCHANGED <<onServer, written, cached, editing, called, saved, missed>>
    BY DEF DeleteSucceeds, serverVars, ghostVars
<1>2. BrowserTyped
    BY DEF BrowserIInv
<1>3. /\ fetching' \in [File -> {None} \cup [saw : Content]]
      /\ \A g \in File : fetching'[g] = fetching[g] \/ fetching'[g] = Fetch
    BY <1>1, <1>2, SelectedForIsFile, InvalidatedFetches
<1>4. BrowserTyped'
    BY <1>1, <1>2, <1>3 DEF BrowserTyped
<1>5. SaveGoesHome' /\ ServerIsNewer'
    BY <1>1 DEF BrowserIInv, SaveGoesHome, ServerIsNewer
<1>6. FetchesAreNewer'
    BY <1>1, <1>3, StartsKeepNewer DEF BrowserIInv
<1> QED
    BY <1>4, <1>5, <1>6 DEF BrowserIInv

\* The content of the file that is selected, in the page of the call and now, is fetched
\* anew, unless it is being fetched for the first time; others have missed the confirmation.
LEMMA WriteKeeps ==
    ASSUME BrowserIInv, NEW c \in changes, WriteSucceeds(c)
    PROVE  BrowserIInv'
<1> DEFINE page == SelectedFor(c)
           refreshed == page = c.file /\ selectedFile = c.file /\ ~Loading(c.file)
<1>1. /\ changes' \subseteq changes /\ c.does # "delete" /\ c.made # None
      /\ editing' = None /\ UNCHANGED <<called, onServer, written, cached>>
      /\ saved' = [saved EXCEPT ![c.file] = IF c.made > saved[c.file] THEN c.made ELSE saved[c.file]]
      /\ missed' = [missed EXCEPT ![c.file] = ~refreshed]
      /\ \/ selectedFile' = c.file /\ fetching' \in Mounted(c.file, Invalidated(page))
         \/ selectedFile' = selectedFile /\ fetching' = Invalidated(page)
    BY DEF WriteSucceeds, serverVars
<1>2. /\ BrowserTyped /\ c \in ChangeRecord /\ None \notin 0 .. MaxWrites /\ MaxWrites \in Nat
      /\ saved \in [File -> 0 .. MaxWrites] /\ missed \in [File -> BOOLEAN] /\ onServer \in [File -> Content]
      /\ written \in 0 .. MaxWrites /\ fetching \in [File -> {None} \cup [saw : Content]]
    BY BrowserAssumption DEF BrowserIInv, BrowserTyped
<1>3. c.file \in File /\ c.made \in 0 .. MaxWrites
    BY <1>1, <1>2 DEF ChangeRecord, Content
<1>4. page \in File \cup {None}
    BY <1>2, SelectedForIsFile
<1> HIDE DEF page
<1>5. /\ fetching' \in [File -> {None} \cup [saw : Content]]
      /\ \A g \in File : fetching'[g] = fetching[g] \/ fetching'[g] = Fetch
      /\ refreshed => fetching'[c.file] = Fetch
    <2>1. /\ Invalidated(page) \in [File -> {None} \cup [saw : Content]]
          /\ \A g \in File : Invalidated(page)[g] =
               IF g = page /\ g = selectedFile /\ ~Loading(g) THEN Fetch ELSE fetching[g]
        BY <1>2, <1>4, InvalidatedFetches
    <2>2. CASE fetching' = Invalidated(page)
        BY <1>3, <2>1, <2>2
    <2>3. CASE fetching' \in Mounted(c.file, Invalidated(page))
        <3>1. /\ fetching' \in [File -> {None} \cup [saw : Content]]
              /\ \A g \in File : \/ fetching'[g] = Invalidated(page)[g]
                                 \/ Invalidated(page)[g] = None /\ fetching'[g] = Fetch
            BY <1>2, <1>3, <2>1, <2>3, FetchesStart
        <3>2. Fetch # None
            BY FetchTyped
        <3> QED
            BY <1>3, <2>1, <3>1, <3>2
    <2> QED
        BY <1>1, <2>2, <2>3
<1>6. refreshed \in BOOLEAN
    OBVIOUS
<1>7. saved' \in [File -> 0 .. MaxWrites] /\ missed' \in [File -> BOOLEAN]
    BY <1>1, <1>2, <1>3, <1>6
<1>8. BrowserTyped'
    BY <1>1, <1>2, <1>3, <1>5, <1>7 DEF BrowserTyped
<1>9. SaveGoesHome'
    BY <1>1 DEF BrowserIInv, SaveGoesHome
<1>10. \A g \in File : g # c.file => saved'[g] = saved[g] /\ missed'[g] = missed[g]
    BY <1>1, <1>2
<1>11. saved'[c.file] \in {c.made, saved[c.file]} /\ (~refreshed => missed'[c.file])
    BY <1>1, <1>2, <1>3
<1>12. ServerIsNewer'
    <2>1. c.made <= written /\ (onServer[c.file] # None => c.made <= onServer[c.file])
        BY <1>1 DEF BrowserIInv, ServerIsNewer
    <2>2. \A g \in File : saved'[g] <= written /\ (onServer[g] # None => saved'[g] <= onServer[g] /\ onServer[g] <= written)
        BY <1>3, <1>10, <1>11, <2>1 DEF BrowserIInv, ServerIsNewer
    <2> QED
        BY <1>1, <2>2 DEF BrowserIInv, ServerIsNewer
<1>13. FetchesAreNewer'
    <2> SUFFICES ASSUME NEW g \in File
                 PROVE  /\ fetching'[g] # None /\ fetching'[g].saw # None /\ fetching'[g].saw < saved'[g] => missed'[g]
                        /\ cached[g] # None /\ cached[g] < saved'[g] => fetching'[g] # None \/ missed'[g]
        BY <1>1 DEF FetchesAreNewer
    <2>1. CASE g = c.file /\ refreshed
        <3>1. fetching'[g] = Fetch
            BY <1>5, <2>1
        <3> QED
            BY <3>1, FetchTyped
    <2>2. CASE g = c.file /\ ~refreshed
        BY <1>11, <2>2
    <2>3. CASE g # c.file
        <3>1. saved'[g] = saved[g] /\ missed'[g] = missed[g]
            BY <1>10, <2>3
        <3>2. CASE fetching'[g] = Fetch
            BY <3>2, FetchTyped
        <3>3. CASE fetching'[g] = fetching[g]
            BY <3>1, <3>3 DEF BrowserIInv, FetchesAreNewer
        <3> QED
            BY <1>5, <3>2, <3>3
    <2> QED
        BY <2>1, <2>2, <2>3
<1> QED
    BY <1>8, <1>9, <1>12, <1>13 DEF BrowserIInv

LEMMA BrowserStarts == BrowserInit => BrowserIInv
<1> SUFFICES ASSUME BrowserInit PROVE BrowserIInv
    OBVIOUS
<1>0. MaxWrites \in Nat /\ MaxCalls \in Nat /\ None \notin 0 .. MaxWrites
    BY BrowserAssumption
<1>1. 0 \in 0 .. MaxWrites /\ 0 \in 0 .. MaxCalls /\ 0 \in Content /\ None \in Content
    BY <1>0 DEF Content
<1>2. BrowserTyped
    BY <1>1 DEF BrowserInit, BrowserTyped
<1>3. SaveGoesHome /\ FetchesAreNewer
    BY DEF BrowserInit, SaveGoesHome, FetchesAreNewer
<1>4. ServerIsNewer
    BY DEF BrowserInit, ServerIsNewer
<1> QED
    BY <1>2, <1>3, <1>4 DEF BrowserIInv

LEMMA BrowserSteps == BrowserIInv /\ [BrowserNext]_browserVars => BrowserIInv'
<1> SUFFICES ASSUME BrowserIInv, [BrowserNext]_browserVars PROVE BrowserIInv'
    OBVIOUS
<1>1. CASE ChangeDirectory \/ StartEditing \/ CloseEditor
    BY <1>1, EditorKeeps
<1>2. CASE SaveEdit
    <2>1. selectedFile \in File /\ Sends("save", selectedFile, selectedFile)
        BY <1>2, BrowserAssumption DEF SaveEdit, BrowserIInv, BrowserTyped, SaveGoesHome
    <2> QED
        BY <2>1, SendingKeeps
<1>3. ASSUME NEW f \in File, CreateFile(f) \/ DeleteFile(f) PROVE BrowserIInv'
    <2>1. Sends("create", f, f) \/ Sends("delete", f, f)
        BY <1>3 DEF CreateFile, DeleteFile
    <2> QED
        BY <2>1, SendingKeeps
<1>4. ASSUME NEW f \in File, SelectFile(f) PROVE BrowserIInv'
    BY <1>4, SelectionKeeps
<1>5. CASE Refetches \/ \E f \in File : FetchReads(f) \/ FetchReturns(f) \/ FetchFails(f)
    BY <1>5, FetchKeeps
<1>6. CASE (\E f \in File : SessionWrites(f)) \/ (\E c \in changes : Reaches(c))
    BY <1>6, WritingKeeps
<1>7. ASSUME NEW c \in changes, WriteSucceeds(c) PROVE BrowserIInv'
    BY <1>7, WriteKeeps
<1>8. ASSUME NEW c \in changes, DeleteSucceeds(c) PROVE BrowserIInv'
    BY <1>8, DeleteKeeps
<1>9. ASSUME NEW c \in changes, ChangeFails(c) PROVE BrowserIInv'
    BY <1>9, FailureKeeps
<1>10. CASE UNCHANGED browserVars
    BY <1>10 DEF browserVars, BrowserIInv, BrowserTyped, SaveGoesHome, ServerIsNewer, FetchesAreNewer
<1> QED
    BY <1>1, <1>2, <1>3, <1>4, <1>5, <1>6, <1>7, <1>8, <1>9, <1>10 DEF BrowserNext

\* The requests that change something are told apart by their ids.
RequestsDiffer ==
    /\ \A c \in changes : c.id <= called
    /\ \A c, d \in changes : c.id = d.id => c = d

LEMMA RequestsStayApart == BrowserIInv /\ RequestsDiffer /\ [BrowserNext]_browserVars => RequestsDiffer'
<1> SUFFICES ASSUME BrowserIInv, RequestsDiffer, [BrowserNext]_browserVars PROVE RequestsDiffer'
    OBVIOUS
<1>1. changes \subseteq ChangeRecord /\ called \in 0 .. MaxCalls /\ MaxCalls \in Nat /\ BrowserTyped
    BY BrowserAssumption DEF BrowserIInv, BrowserTyped
<1>2. ASSUME UNCHANGED called, changes' \subseteq changes PROVE RequestsDiffer'
    BY <1>2 DEF RequestsDiffer
<1>3. CASE UNCHANGED browserVars
    BY <1>2, <1>3 DEF browserVars
<1>4. CASE \/ Refetches \/ ChangeDirectory \/ StartEditing \/ CloseEditor
           \/ \E f \in File : SelectFile(f) \/ SessionWrites(f) \/ FetchReads(f) \/ FetchReturns(f) \/ FetchFails(f)
    <2>1. UNCHANGED <<called, changes>>
        BY <1>4 DEF Refetches, ChangeDirectory, StartEditing, CloseEditor, SelectFile, SessionWrites, FetchReads,
                    FetchReturns, FetchFails
    <2> QED
        BY <1>2, <2>1
<1>5. ASSUME NEW does \in {"save", "create", "delete"}, NEW f, NEW of, Sends(does, f, of) PROVE RequestsDiffer'
    <2> DEFINE new == [id |-> called + 1, does |-> does, file |-> f, of |-> of, made |-> None, page |-> None]
    <2>1. changes' = Superseded(does) \cup {new} /\ new.id = called + 1 /\ called' = called + 1
        BY <1>5 DEF Sends
    <2> HIDE DEF new
    <2>2. \A d \in Superseded(does) : d \in ChangeRecord /\ \E c \in changes : d.id = c.id
        BY <1>1, SupersededIsSame
    <2>3. \A d \in Superseded(does) : d.id \in Nat /\ d.id <= called
        BY <1>1, <2>2 DEF RequestsDiffer, ChangeRecord
    <2>4. \A d \in changes' : d.id <= called'
        BY <1>1, <2>1, <2>3
    <2>5. ASSUME NEW c \in Superseded(does), NEW d \in Superseded(does), c.id = d.id PROVE c = d
        <3> DEFINE Sup(e) == IF Newest(e) /\ (e.does = "delete" <=> does = "delete")
                             THEN [e EXCEPT !.page = [selected |-> selectedFile]] ELSE e
        <3>1. PICK x \in changes : c = Sup(x)
            BY DEF Superseded
        <3>2. PICK y \in changes : d = Sup(y)
            BY DEF Superseded
        <3>3. \A e \in changes : Sup(e).id = e.id
            BY <1>1 DEF ChangeRecord
        <3>4. x = y
            BY <1>1, <2>5, <3>1, <3>2, <3>3 DEF RequestsDiffer
        <3> QED
            BY <3>1, <3>2, <3>4
    <2>6. \A d \in Superseded(does) : d.id # called + 1
        BY <1>1, <2>3
    <2>7. \A c, d \in changes' : c.id = d.id => c = d
        BY <2>1, <2>5, <2>6
    <2> QED
        BY <2>4, <2>7 DEF RequestsDiffer
<1>6. CASE SaveEdit \/ \E f \in File : CreateFile(f) \/ DeleteFile(f)
    BY <1>5, <1>6 DEF SaveEdit, CreateFile, DeleteFile
<1>7. ASSUME NEW c \in changes, Reaches(c) PROVE RequestsDiffer'
    <2> DEFINE reached == [c EXCEPT !.made = written + 1]
    <2>1. changes' = (changes \ {c}) \cup {reached} /\ UNCHANGED called
        BY <1>7 DEF Reaches
    <2>2. reached.id = c.id
        BY <1>1 DEF ChangeRecord
    <2> HIDE DEF reached
    <2> QED
        BY <2>1, <2>2 DEF RequestsDiffer
<1>8. CASE \E c \in changes : WriteSucceeds(c) \/ DeleteSucceeds(c) \/ ChangeFails(c)
    <2>1. UNCHANGED called /\ changes' \subseteq changes
        BY <1>8 DEF WriteSucceeds, DeleteSucceeds, ChangeFails
    <2> QED
        BY <1>2, <2>1
<1> QED
    BY <1>3, <1>4, <1>6, <1>7, <1>8 DEF BrowserNext

\* However files are selected, created and deleted and requests overtake each other, a
\* save takes to a file what was read from it, and the selected file is shown as it was
\* before a confirmed save only while it is fetched (vfs-browser.tsx).
THEOREM BrowserShowsAndSaves ==
    BrowserInit /\ [][BrowserNext]_browserVars => [](BrowserTypeOK /\ SaveGoesHome /\ ShowsOwnSaves)
<1>1. BrowserInit => RequestsDiffer
    BY DEF BrowserInit, RequestsDiffer
<1>2. BrowserIInv => SaveGoesHome /\ ShowsOwnSaves
    BY DEF BrowserIInv, FetchesAreNewer, ShowsOwnSaves
<1>3. BrowserIInv /\ RequestsDiffer => BrowserTypeOK
    <2> SUFFICES ASSUME BrowserIInv, RequestsDiffer PROVE BrowserTypeOK
        OBVIOUS
    <2>1. \A c \in changes : c \in ChangeRecord /\ c.id <= called /\ called \in Nat
        BY DEF BrowserIInv, BrowserTyped, RequestsDiffer
    <2>2. \A c \in changes : c \in [id : 1 .. called, does : {"save", "create", "delete"}, file : File, of : File,
                                    made : Content, page : RenderedPage]
        BY <2>1 DEF ChangeRecord
    <2> QED
        BY <2>2 DEF BrowserIInv, BrowserTyped, RequestsDiffer, BrowserTypeOK, Content, RenderedPage
<1> QED
    BY <1>1, <1>2, <1>3, BrowserStarts, BrowserSteps, RequestsStayApart, PTL

----------------------------------------------------------------------------
(* The TypeScript shell.                                                   *)

Stage == {"none", "checking", "running", "again", "refused", "done", "failed"}
LineRecord ==
    [at : Stage, code : Code \cup {None}, saw : Code \cup {None}, excused : BOOLEAN,
     others : BOOLEAN, with : SUBSET Line, runs : 0 .. 2]

\* A line that is being checked alone: check.ts holds its code, or will again.
CheckedAlone(l) ==
    checkFile = lines[l].code /\ checkTimer \in {None, lines[l].code} /\ lines[l].saw \in {None, lines[l].code}

OwnVerdicts ==
    /\ text \in Code => checkTimer \in {None, text}
    /\ checkTimer # None => checkVersion > 0
    /\ \A l \in Line :
          /\ lines[l].at \in {"none", "checking"} => lines[l].runs = 0
          /\ lines[l].at = "running" => lines[l].runs = 1
          /\ lines[l].at = "checking" /\ ~lines[l].others => CheckedAlone(l)
    /\ VerdictIsOwn

\* Lines that are in flight know those that came later; the bound one is over.
LinesInOrder ==
    /\ \A l \in Line : lines[l].at # "none" => l <= submitted
    /\ \A l, k \in Line : l \in InFlight /\ l < k /\ k <= submitted => k \in lines[l].with
    /\ bound # None => lines[bound].at = "done"
    /\ LatestBinding

ReplIInv == ReplTypeOK /\ OwnVerdicts /\ LinesInOrder

LEMMA LinesAreNumbers == Line \subseteq Nat \ {0} /\ Cardinality(Line) \in Nat /\ (\A n \in Nat \ {0} : n <= Cardinality(Line) => n \in Line)
<1>1. Cardinality(Line) \in Nat /\ Line = 1 .. Cardinality(Line)
    BY FS_CardinalityType, ReplAssumption
<1> QED
    BY <1>1

LEMMA ReplStarts == ReplInit => ReplIInv
<1> SUFFICES ASSUME ReplInit PROVE ReplIInv
    OBVIOUS
<1>1. NoLine \in LineRecord
    BY DEF NoLine, LineRecord, Stage
<1>2. lines \in [Line -> LineRecord] /\ \A l \in Line : lines[l] = NoLine
    BY <1>1 DEF ReplInit
<1>3. NoLine.at = "none" /\ NoLine.runs = 0
    BY DEF NoLine
<1>4. ReplTypeOK
    <2>1. 0 \in 0 .. MaxChecks /\ 0 \in 0 .. Cardinality(Line)
        BY ReplAssumption, LinesAreNumbers
    <2> QED
        BY <1>2, <2>1 DEF ReplInit, ReplTypeOK, LineRecord, Stage
<1>5. OwnVerdicts
    <2>1. \A l \in Line : lines[l].at = "none" /\ lines[l].runs = 0
        BY <1>2, <1>3
    <2> QED
        BY <2>1 DEF ReplInit, OwnVerdicts, VerdictIsOwn
<1>6. LinesInOrder
    <2>1. \A l \in Line : lines[l].at = "none"
        BY <1>2, <1>3
    <2> QED
        BY <2>1 DEF ReplInit, LinesInOrder, LatestBinding, InFlight
<1> QED
    BY <1>4, <1>5, <1>6 DEF ReplIInv

\* What the type invariant says of a state, as the steps need it.
LEMMA ReplTypes ==
    ASSUME ReplTypeOK
    PROVE  /\ lines \in [Line -> LineRecord] /\ submitted \in Nat /\ checkVersion \in Nat
           /\ text \in Code \cup {Empty, DotCommand} /\ checkTimer \in Code \cup {None} /\ checkFile \in Code \cup {None}
           /\ (bound # None => bound \in Line) /\ Empty \notin Code /\ DotCommand \notin Code /\ None \notin Code
BY LinesAreNumbers, ReplAssumption DEF ReplTypeOK, LineRecord, Stage

LEMMA TypingKeeps ==
    ASSUME ReplIInv, NEW new \in Code \cup {Empty, DotCommand}, Types(new)
    PROVE  ReplIInv'
<1>1. ReplTypeOK /\ lines \in [Line -> LineRecord] /\ MaxChecks \in Nat
    BY ReplTypes, ReplAssumption DEF ReplIInv
<1>2. /\ text' = new /\ UNCHANGED <<checkFile, inBackground, submitted, bound>>
      /\ lines' = [l \in Line |-> [lines[l] EXCEPT !.others = lines[l].others \/ l \in Checking]]
      /\ badge' \in {"idle", "checking"}
      /\ \/ new \notin Code /\ UNCHANGED <<checkTimer, checkVersion>>
         \/ new \in Code /\ checkTimer' = new /\ checkVersion' = checkVersion + 1 /\ checkVersion < MaxChecks
    BY ReplAssumption DEF Types, Changed
<1>3. ASSUME NEW l \in Line
      PROVE  /\ lines'[l] \in LineRecord
             /\ lines'[l].at = lines[l].at /\ lines'[l].code = lines[l].code /\ lines'[l].saw = lines[l].saw
             /\ lines'[l].excused = lines[l].excused /\ lines'[l].with = lines[l].with /\ lines'[l].runs = lines[l].runs
             /\ (lines[l].others => lines'[l].others) /\ (lines[l].at = "checking" => lines'[l].others)
    <2> DEFINE o == lines[l].others \/ l \in Checking
    <2>1. lines'[l] = [lines[l] EXCEPT !.others = o] /\ lines[l] \in LineRecord
        BY <1>1, <1>2
    <2>2. o \in BOOLEAN /\ (lines[l].others => o) /\ (lines[l].at = "checking" => o)
        BY DEF Checking
    <2> HIDE DEF o
    <2>3. lines'[l] \in LineRecord /\ lines'[l].others = o
        BY <2>1, <2>2 DEF LineRecord
    <2>4. /\ lines'[l].at = lines[l].at /\ lines'[l].code = lines[l].code /\ lines'[l].saw = lines[l].saw
          /\ lines'[l].excused = lines[l].excused /\ lines'[l].with = lines[l].with /\ lines'[l].runs = lines[l].runs
        BY <2>1 DEF LineRecord
    <2> QED
        BY <2>2, <2>3, <2>4
<1>4. ReplTypeOK'
    <2>1. lines' \in [Line -> LineRecord]
        BY <1>2, <1>3
    <2>2. checkVersion' \in 0 .. MaxChecks /\ checkTimer' \in Code \cup {None}
        BY <1>1, <1>2 DEF ReplTypeOK
    <2> QED
        BY <1>1, <1>2, <2>1, <2>2 DEF ReplTypeOK, LineRecord, Stage
<1>5. OwnVerdicts'
    <2>1. text' \in Code => checkTimer' \in {None, text'}
        BY <1>2
    <2>2. checkTimer' # None => checkVersion' > 0
        BY <1>1, <1>2 DEF ReplIInv, OwnVerdicts, ReplTypeOK
    <2>3. \A l \in Line : /\ lines'[l].at \in {"none", "checking"} => lines'[l].runs = 0
                          /\ lines'[l].at = "running" => lines'[l].runs = 1
                          /\ lines'[l].at = "checking" => lines'[l].others
        BY <1>3 DEF ReplIInv, OwnVerdicts
    <2>4. VerdictIsOwn'
        BY <1>3 DEF ReplIInv, OwnVerdicts, VerdictIsOwn
    <2> QED
        BY <2>1, <2>2, <2>3, <2>4 DEF OwnVerdicts
<1>6. LinesInOrder'
    <2>1. InFlight' = InFlight
        BY <1>3 DEF InFlight
    <2>2. bound # None => bound \in Line
        BY <1>1, ReplTypes
    <2>3. bound' = bound /\ submitted' = submitted /\ LinesInOrder
        BY <1>2 DEF ReplIInv
    <2>4. \A l \in Line : lines'[l].at # "none" => l <= submitted'
        BY <1>3, <2>3 DEF LinesInOrder
    <2>5. \A l, k \in Line : l \in InFlight' /\ l < k /\ k <= submitted' => k \in lines'[l].with
        BY <1>3, <2>1, <2>3 DEF LinesInOrder
    <2>6. bound' # None => lines'[bound'].at = "done"
        BY <1>3, <2>2, <2>3 DEF LinesInOrder
    <2>7. LatestBinding'
        BY <1>3, <2>2, <2>3 DEF LinesInOrder, LatestBinding
    <2> QED
        BY <2>4, <2>5, <2>6, <2>7 DEF LinesInOrder
<1> QED
    BY <1>4, <1>5, <1>6 DEF ReplIInv

\* The background checks take their turn; the lines stay.
LEMMA BackgroundKeeps ==
    ASSUME ReplIInv, CheckStarts \/ \E c \in inBackground : CheckReads(c) \/ CheckReturns(c)
    PROVE  ReplIInv'
<1>1. UNCHANGED <<text, checkVersion, lines, submitted, bound>>
    BY DEF CheckStarts, CheckReads, CheckReturns
<1>2. ReplTypeOK /\ MaxChecks \in Nat /\ checkVersion \in 0 .. MaxChecks /\ inBackground \subseteq [version : 1 .. MaxChecks, saw : Code \cup {None}]
    BY ReplAssumption DEF ReplIInv, ReplTypeOK
<1>3. LinesInOrder'
    BY <1>1 DEF ReplIInv, LinesInOrder, LatestBinding, InFlight
<1>4. ASSUME ReplTypeOK', \/ UNCHANGED <<checkTimer, checkFile>>
                          \/ checkTimer' = None /\ checkFile' = checkTimer /\ checkTimer # None
      PROVE  ReplIInv'
    <2>1. \A l \in Line : CheckedAlone(l) => CheckedAlone(l)'
        BY <1>1, <1>4 DEF CheckedAlone
    <2>2. OwnVerdicts'
        BY <1>1, <1>4, <2>1 DEF ReplIInv, OwnVerdicts, VerdictIsOwn
    <2> QED
        BY <1>3, <1>4, <2>2 DEF ReplIInv
<1>5. CASE CheckStarts
    <2> DEFINE c == [version |-> checkVersion, saw |-> None]
    <2>1. checkTimer # None /\ checkTimer' = None /\ checkFile' = checkTimer /\ inBackground' = inBackground \cup {c} /\ UNCHANGED badge
        BY <1>5 DEF CheckStarts
    <2>2. checkVersion \in 1 .. MaxChecks
        BY <1>2, <2>1 DEF ReplIInv, OwnVerdicts
    <2>3. c \in [version : 1 .. MaxChecks, saw : Code \cup {None}]
        BY <2>2
    <2> HIDE DEF c
    <2>4. ReplTypeOK'
        BY <1>1, <1>2, <2>1, <2>3 DEF ReplTypeOK
    <2> QED
        BY <1>4, <2>1, <2>4
<1>6. ASSUME NEW c \in inBackground, CheckReads(c) PROVE ReplIInv'
    <2> DEFINE d == [c EXCEPT !.saw = checkFile]
    <2>1. inBackground' = (inBackground \ {c}) \cup {d} /\ UNCHANGED <<badge, checkTimer, checkFile>>
        BY <1>6 DEF CheckReads
    <2>2. d \in [version : 1 .. MaxChecks, saw : Code \cup {None}]
        BY <1>2, ReplTypes
    <2> HIDE DEF d
    <2>3. ReplTypeOK'
        BY <1>1, <1>2, <2>1, <2>2 DEF ReplTypeOK
    <2> QED
        BY <1>4, <2>1, <2>3
<1>7. ASSUME NEW c \in inBackground, CheckReturns(c) PROVE ReplIInv'
    <2>1. inBackground' \subseteq inBackground /\ badge' \in {badge, "ok", "error"} /\ UNCHANGED <<checkTimer, checkFile>>
        BY <1>7 DEF CheckReturns, Verdict
    <2>2. ReplTypeOK'
        BY <1>1, <1>2, <2>1 DEF ReplTypeOK
    <2> QED
        BY <1>4, <2>1, <2>2
<1> QED
    BY <1>5, <1>6, <1>7

LEMMA SubmittingKeeps ==
    ASSUME ReplIInv, SubmitsDot \/ Submits
    PROVE  ReplIInv'
<1>1. /\ ReplTypeOK /\ lines \in [Line -> LineRecord] /\ submitted \in Nat /\ (bound # None => bound \in Line)
      /\ Empty \notin Code /\ OwnVerdicts /\ LinesInOrder /\ text' = Empty
      /\ UNCHANGED <<checkTimer, checkVersion, inBackground, bound>>
    BY ReplTypes DEF ReplIInv, SubmitsDot, Submits, Cleared
<1>2. CASE SubmitsDot
    <2>1. badge' = "idle" /\ UNCHANGED <<checkFile, lines, submitted>>
        BY <1>2 DEF SubmitsDot, Cleared
    <2>2. ReplTypeOK'
        BY <1>1, <2>1 DEF ReplTypeOK
    <2>3. OwnVerdicts'
        BY <1>1, <2>1 DEF OwnVerdicts, CheckedAlone, VerdictIsOwn
    <2>4. LinesInOrder'
        BY <1>1, <2>1 DEF LinesInOrder, LatestBinding, InFlight
    <2> QED
        BY <2>2, <2>3, <2>4 DEF ReplIInv
<1>3. CASE Submits
    <2>0. PICK n \in Line : n = submitted + 1
        BY <1>3 DEF Submits
    <2> DEFINE new == [NoLine EXCEPT !.at = "checking", !.code = text, !.with = InFlight]
    <2>1. /\ text \in Code /\ n \in Line /\ submitted' = n /\ badge' = "checking" /\ checkFile' = text
          /\ lines' = [l \in Line |->
                         IF l = n THEN new
                         ELSE IF l \in InFlight THEN [lines[l] EXCEPT !.others = TRUE, !.with = lines[l].with \cup {n}]
                         ELSE lines[l]]
        BY <1>3, <2>0 DEF Submits
    <2>2. /\ new \in LineRecord /\ new.at = "checking" /\ new.code = text /\ new.saw = None /\ new.runs = 0
        <3>1. NoLine \in LineRecord /\ NoLine.saw = None /\ NoLine.runs = 0
            BY DEF NoLine, LineRecord, Stage
        <3>2. InFlight \in SUBSET Line /\ text \in Code
            BY <2>1 DEF InFlight
        <3> QED
            BY <3>1, <3>2 DEF LineRecord, Stage
    <2>3. lines'[n] = new
        BY <2>1
    <2> HIDE DEF new
    <2>4. ASSUME NEW l \in Line, l # n
          PROVE  /\ lines'[l] \in LineRecord
                 /\ lines'[l].at = lines[l].at /\ lines'[l].code = lines[l].code /\ lines'[l].saw = lines[l].saw
                 /\ lines'[l].excused = lines[l].excused /\ lines'[l].runs = lines[l].runs
                 /\ (lines[l].others => lines'[l].others) /\ lines[l].with \subseteq lines'[l].with
                 /\ (l \in InFlight => lines'[l].others /\ n \in lines'[l].with)
        <3>1. lines[l] \in LineRecord
            BY <1>1
        <3>2. CASE l \in InFlight
            <4>1. lines'[l] = [lines[l] EXCEPT !.others = TRUE, !.with = lines[l].with \cup {n}]
                BY <2>1, <2>4, <3>2
            <4>2. lines[l].with \cup {n} \in SUBSET Line
                BY <2>1, <3>1 DEF LineRecord
            <4>3. lines'[l] \in LineRecord /\ lines'[l].others = TRUE /\ lines'[l].with = lines[l].with \cup {n}
                BY <3>1, <4>1, <4>2 DEF LineRecord
            <4>4. /\ lines'[l].at = lines[l].at /\ lines'[l].code = lines[l].code /\ lines'[l].saw = lines[l].saw
                  /\ lines'[l].excused = lines[l].excused /\ lines'[l].runs = lines[l].runs
                BY <3>1, <4>1 DEF LineRecord
            <4> QED
                BY <4>3, <4>4
        <3>3. CASE l \notin InFlight
            <4>1. lines'[l] = lines[l]
                BY <2>1, <2>4, <3>3
            <4> QED
                BY <3>1, <3>3, <4>1
        <3> QED
            BY <3>2, <3>3
    <2>5. ReplTypeOK'
        <3>0. lines' = [l \in Line |-> lines'[l]] /\ \A l \in Line : lines'[l] \in LineRecord
            BY <2>1, <2>2, <2>3, <2>4
        <3>1. lines' \in [Line -> LineRecord]
            BY <3>0
        <3>2. submitted' \in 0 .. Cardinality(Line)
            <4>1. n \in 1 .. Cardinality(Line)
                BY <2>0, ReplAssumption
            <4>2. submitted' = n
                BY <2>1
            <4>3. Cardinality(Line) \in Nat
                BY LinesAreNumbers
            <4> QED
                BY <4>1, <4>2, <4>3
        <3> QED
            BY <1>1, <2>1, <3>1, <3>2 DEF ReplTypeOK, LineRecord, Stage
    <2>6. OwnVerdicts'
        <3>1. \A l \in Line : /\ lines'[l].at \in {"none", "checking"} => lines'[l].runs = 0
                              /\ lines'[l].at = "running" => lines'[l].runs = 1
            BY <1>1, <2>2, <2>3, <2>4 DEF OwnVerdicts
        <3>2. CheckedAlone(n)'
            <4>1. checkTimer' \in {None, text}
                BY <1>1, <2>1 DEF OwnVerdicts
            <4> QED
                BY <2>1, <2>2, <2>3, <4>1 DEF CheckedAlone
        <3>3. \A l \in Line : l # n /\ lines'[l].at = "checking" => lines'[l].others
            BY <2>4 DEF InFlight
        <3>4. VerdictIsOwn'
            <4> SUFFICES ASSUME NEW l \in Line, lines'[l].runs > 0, ~lines'[l].excused, ~lines'[l].others
                         PROVE  lines'[l].saw = lines'[l].code
                BY DEF VerdictIsOwn
            <4>1. l # n
                BY <2>2, <2>3
            <4> QED
                BY <1>1, <2>4, <4>1 DEF OwnVerdicts, VerdictIsOwn
        <3>5. checkTimer' # None => checkVersion' > 0
            BY <1>1 DEF OwnVerdicts
        <3> QED
            BY <1>1, <3>1, <3>2, <3>3, <3>4, <3>5 DEF OwnVerdicts
    <2>7. LinesInOrder'
        <3>1. Line \subseteq Nat \ {0}
            BY LinesAreNumbers
        <3>2. \A l \in Line : lines'[l].at # "none" => l <= n
            <4> SUFFICES ASSUME NEW l \in Line, lines'[l].at # "none" PROVE l <= n
                OBVIOUS
            <4>1. CASE l = n
                BY <2>0, <1>1, <4>1
            <4>2. CASE l # n
                <5>1. l <= submitted
                    BY <1>1, <2>4, <4>2 DEF LinesInOrder
                <5> QED
                    BY <1>1, <2>0, <3>1, <5>1
            <4> QED
                BY <4>1, <4>2
        <3>3. InFlight' \subseteq InFlight \cup {n}
            BY <2>4 DEF InFlight
        <3>4. ASSUME NEW l \in Line, NEW k \in Line, l \in InFlight', l < k, k <= n PROVE k \in lines'[l].with
            <4>1. l # n /\ l \in InFlight
                BY <1>1, <2>0, <3>1, <3>3, <3>4
            <4>2. CASE k = n
                BY <2>4, <4>1, <4>2
            <4>3. CASE k # n
                <5>1. k <= submitted
                    BY <1>1, <2>0, <3>1, <3>4, <4>3
                <5> QED
                    BY <1>1, <2>4, <3>4, <4>1, <5>1 DEF LinesInOrder
            <4> QED
                BY <4>2, <4>3
        <3>5. bound # None => bound \in Line /\ bound # n /\ lines[bound].at = "done"
            <4>1. bound # None => bound \in Line /\ lines[bound].at = "done" /\ bound <= submitted
                BY <1>1 DEF LinesInOrder
            <4> QED
                BY <1>1, <2>0, <3>1, <4>1
        <3>6. bound # None => lines'[bound].at = "done"
            BY <2>4, <3>5
        <3>7. LatestBinding'
            <4> SUFFICES ASSUME bound # None, NEW l \in Line, l > bound, lines'[l].at = "done", lines'[l].code \in Binds
                         PROVE  l \in lines'[bound].with
                BY <1>1 DEF LatestBinding
            <4>1. l # n
                BY <2>2, <2>3
            <4>2. l \in lines[bound].with
                BY <1>1, <2>4, <4>1 DEF LinesInOrder, LatestBinding
            <4> QED
                BY <2>4, <3>5, <4>2
        <3> QED
            BY <1>1, <2>1, <3>2, <3>4, <3>6, <3>7 DEF LinesInOrder
    <2> QED
        BY <2>5, <2>6, <2>7 DEF ReplIInv
<1> QED
    BY <1>2, <1>3

\* A line goes on by itself: its place, and how often it has run, change as its stage
\* says, and its code, those it was in flight with, and what else was done stay.
LEMMA LineKeeps ==
    ASSUME ReplIInv, NEW l \in Line, NEW r \in LineRecord, lines' = [lines EXCEPT ![l] = r],
           UNCHANGED <<checkTimer, checkVersion, checkFile, inBackground, submitted>>,
           text' \in {text, Empty}, badge' \in {badge, "idle", "ok", "error"},
           r.code = lines[l].code /\ r.with = lines[l].with /\ r.others = lines[l].others,
           r.at # "none" /\ (r.at \in {"checking", "running", "again"} => l \in InFlight) /\ l <= submitted,
           r.at = "checking" => r.runs = 0 /\ (~r.others => r.saw \in {None, r.code} /\ lines[l].at = "checking"),
           r.at = "running" => r.runs = 1,
           r.runs > 0 /\ ~r.excused /\ ~r.others => r.saw = r.code,
           \/ bound' = bound /\ (r.at = "done" => r.code \notin Binds \/ lines[l].at = "done")
           \/ bound' = l /\ r.at = "done" /\ l \in InFlight,
           lines[l].at = "done" => r.at = "done"
    PROVE  ReplIInv'
<1>1. /\ ReplTypeOK /\ lines \in [Line -> LineRecord] /\ submitted \in Nat /\ (bound # None => bound \in Line)
      /\ Empty \notin Code /\ OwnVerdicts /\ LinesInOrder /\ Line \subseteq Nat \ {0} /\ None \notin Line
    BY ReplTypes, LinesAreNumbers, ReplAssumption DEF ReplIInv
<1>2. /\ lines' \in [Line -> LineRecord] /\ lines'[l] = r /\ \A k \in Line : k # l => lines'[k] = lines[k]
    BY <1>1
<1>3. ReplTypeOK'
    <2>1. bound' \in Line \cup {None}
        BY <1>1
    <2> QED
        BY <1>1, <1>2, <2>1 DEF ReplTypeOK, LineRecord, Stage
<1>4. OwnVerdicts'
    <2>1. text' \in Code => checkTimer' \in {None, text'}
        BY <1>1 DEF OwnVerdicts
    <2>2. ASSUME NEW k \in Line
          PROVE  /\ lines'[k].at \in {"none", "checking"} => lines'[k].runs = 0
                 /\ lines'[k].at = "running" => lines'[k].runs = 1
                 /\ lines'[k].at = "checking" /\ ~lines'[k].others => CheckedAlone(k)'
                 /\ lines'[k].runs > 0 /\ ~lines'[k].excused /\ ~lines'[k].others => lines'[k].saw = lines'[k].code
        <3>1. CASE k = l
            <4>1. r.at = "checking" /\ ~r.others => CheckedAlone(l)
                BY <1>1 DEF OwnVerdicts
            <4>2. r.at = "checking" /\ ~r.others => CheckedAlone(k)'
                BY <1>2, <3>1, <4>1 DEF CheckedAlone
            <4> QED
                BY <1>2, <3>1, <4>2
        <3>2. CASE k # l
            <4>1. lines'[k] = lines[k]
                BY <1>2, <3>2
            <4>2. CheckedAlone(k) => CheckedAlone(k)'
                BY <4>1 DEF CheckedAlone
            <4> QED
                BY <1>1, <4>1, <4>2 DEF OwnVerdicts, VerdictIsOwn
        <3> QED
            BY <3>1, <3>2
    <2>3. checkTimer' # None => checkVersion' > 0
        BY <1>1 DEF OwnVerdicts
    <2> QED
        BY <2>1, <2>2, <2>3 DEF OwnVerdicts, VerdictIsOwn
<1>5. LinesInOrder'
    <2>1. \A k \in Line : lines'[k].at # "none" => k <= submitted
        BY <1>1, <1>2 DEF LinesInOrder
    <2>2. InFlight' \subseteq InFlight /\ \A k \in Line : lines'[k].with = lines[k].with /\ lines'[k].code = lines[k].code
        BY <1>2 DEF InFlight
    <2>3. \A k, m \in Line : k \in InFlight' /\ k < m /\ m <= submitted => m \in lines'[k].with
        BY <1>1, <2>2 DEF LinesInOrder
    <2>4. CASE bound' = bound /\ (r.at = "done" => r.code \notin Binds \/ lines[l].at = "done")
        <3>1. \A k \in Line : lines'[k].at = "done" /\ lines'[k].code \in Binds => lines[k].at = "done"
            BY <1>2, <2>2, <2>4
        <3>2. bound # None => lines'[bound].at = "done"
            BY <1>1, <1>2 DEF LinesInOrder
        <3>3. LatestBinding'
            BY <1>1, <2>2, <2>4, <3>1 DEF LinesInOrder, LatestBinding
        <3> QED
            BY <2>1, <2>3, <2>4, <3>2, <3>3 DEF LinesInOrder
    <2>5. CASE bound' = l /\ r.at = "done" /\ l \in InFlight
        <3>1. \A k \in Line : k > l /\ lines'[k].at = "done" => k \in lines'[l].with
            <4> SUFFICES ASSUME NEW k \in Line, k > l, lines'[k].at = "done" PROVE k \in lines'[l].with
                OBVIOUS
            <4>1. k <= submitted /\ l < k
                BY <1>1, <2>1
            <4>2. k \in lines[l].with
                BY <1>1, <2>5, <4>1 DEF LinesInOrder
            <4> QED
                BY <2>2, <4>2
        <3>2. lines'[bound'].at = "done" /\ LatestBinding'
            BY <1>2, <2>5, <3>1 DEF LatestBinding
        <3> QED
            BY <2>1, <2>3, <3>2 DEF LinesInOrder
    <2> QED
        BY <2>4, <2>5
<1> QED
    BY <1>3, <1>4, <1>5 DEF ReplIInv

LEMMA LineGoing ==
    ASSUME ReplIInv, NEW l \in Line, LineGoesOn(l)
    PROVE  ReplIInv'
<1>1. /\ ReplTypeOK /\ lines \in [Line -> LineRecord] /\ lines[l] \in LineRecord /\ checkFile \in Code \cup {None}
      /\ OwnVerdicts /\ LinesInOrder /\ None \notin Code
    BY ReplTypes DEF ReplIInv
<1>2. \A r \in LineRecord : lines' = [lines EXCEPT ![l] = r] =>
          lines'[l] = r
    BY <1>1
<1>3. /\ lines[l].at # "none" => l <= submitted
      /\ lines[l].at \in {"checking", "running", "again"} => l \in InFlight
    BY <1>1 DEF LinesInOrder, InFlight
<1>4. CASE LineReads(l)
    <2> DEFINE r == [lines[l] EXCEPT !.saw = checkFile]
    <2>1. /\ lines[l].at = "checking" /\ lines' = [lines EXCEPT ![l] = r]
          /\ UNCHANGED <<text, badge, checkTimer, checkVersion, checkFile, inBackground, submitted, bound>>
        BY <1>1, <1>4 DEF LineReads
    <2>2. r \in LineRecord /\ r.at = "checking" /\ r.code = lines[l].code /\ r.with = lines[l].with /\ r.others = lines[l].others
        BY <1>1, <2>1 DEF LineRecord
    <2>3. r.runs = lines[l].runs /\ r.excused = lines[l].excused /\ r.saw = checkFile
        BY <1>1 DEF LineRecord
    <2> HIDE DEF r
    <2>4. r.runs = 0 /\ (~r.others => r.saw = r.code)
        BY <1>1, <2>1, <2>2, <2>3 DEF OwnVerdicts, CheckedAlone
    <2> QED
        BY <1>3, <2>1, <2>2, <2>4, LineKeeps
<1>5. ASSUME NEW how \in {"refused", "done", "failed"}, NEW status \in {"ok", "error"}, LineEnds(l, how, status),
             UNCHANGED <<checkFile, inBackground, submitted>>, lines[l].at \in {"checking", "running", "again"},
             IF how = "done" THEN bound' = IF lines[l].code \in Binds THEN l ELSE bound ELSE bound' = bound
      PROVE  ReplIInv'
    <2> DEFINE r == [lines[l] EXCEPT !.at = how]
    <2>1. /\ lines' = [lines EXCEPT ![l] = r] /\ text' = Empty /\ badge' \in {"idle", "ok", "error"}
          /\ UNCHANGED <<checkTimer, checkVersion, checkFile, inBackground, submitted>>
        BY <1>1, <1>5 DEF LineEnds, Cleared
    <2>2. r \in LineRecord /\ r.at = how /\ r.code = lines[l].code /\ r.with = lines[l].with /\ r.others = lines[l].others
        BY <1>1 DEF LineRecord, Stage
    <2>3. r.runs = lines[l].runs /\ r.excused = lines[l].excused /\ r.saw = lines[l].saw
        BY <1>1 DEF LineRecord
    <2> HIDE DEF r
    <2>4. r.runs > 0 /\ ~r.excused /\ ~r.others => r.saw = r.code
        BY <1>1, <2>2, <2>3 DEF OwnVerdicts, VerdictIsOwn
    <2>5. \/ bound' = bound /\ (r.at = "done" => r.code \notin Binds)
          \/ bound' = l /\ r.at = "done"
        BY <1>5, <2>2
    <2> QED
        BY <1>3, <1>5, <2>1, <2>2, <2>4, <2>5, LineKeeps
<1>6. CASE Refuses(l)
    BY <1>5, <1>6 DEF Refuses, LineEnds, Cleared
<1>7. CASE Returns(l)
    BY <1>5, <1>7 DEF Returns, LineEnds, Cleared
<1>8. CASE Fails(l)
    BY <1>5, <1>8 DEF Fails, LineEnds, Cleared
<1>9. ASSUME NEW failed \in BOOLEAN, Evaluates(l, failed) PROVE ReplIInv'
    <2> DEFINE r == [lines[l] EXCEPT !.at = "running", !.runs = 1, !.excused = failed]
    <2>1. /\ lines[l].at = "checking" /\ lines' = [lines EXCEPT ![l] = r] /\ (failed \/ lines[l].saw # None)
          /\ UNCHANGED <<text, badge, checkTimer, checkVersion, checkFile, inBackground, submitted, bound>>
        BY <1>1, <1>9 DEF Evaluates
    <2>2. r \in LineRecord /\ r.at = "running" /\ r.code = lines[l].code /\ r.with = lines[l].with /\ r.others = lines[l].others
        <3>1. "running" \in Stage /\ 1 \in 0 .. 2
            BY DEF Stage
        <3>2. r.at = "running" /\ r.code = lines[l].code /\ r.with = lines[l].with /\ r.others = lines[l].others
            BY <1>1 DEF LineRecord
        <3>3. r \in LineRecord
            BY <1>1, <3>1 DEF LineRecord
        <3> QED
            BY <3>2, <3>3
    <2>3. r.runs = 1 /\ r.excused = failed /\ r.saw = lines[l].saw
        BY <1>1 DEF LineRecord
    <2> HIDE DEF r
    <2>4. r.runs > 0 /\ ~r.excused /\ ~r.others => r.saw = r.code
        BY <1>1, <2>1, <2>2, <2>3 DEF OwnVerdicts, CheckedAlone
    <2> QED
        BY <1>3, <2>1, <2>2, <2>3, <2>4, LineKeeps
<1>10. CASE Throws(l)
    <2> DEFINE r == [lines[l] EXCEPT !.at = "again", !.runs = lines[l].runs + 1]
    <2>1. /\ lines[l].at = "running" /\ lines' = [lines EXCEPT ![l] = r]
          /\ UNCHANGED <<text, badge, checkTimer, checkVersion, checkFile, inBackground, submitted, bound>>
        BY <1>1, <1>10 DEF Throws
    <2>2. lines[l].runs = 1
        BY <1>1, <2>1 DEF OwnVerdicts
    <2>3. r \in LineRecord /\ r.at = "again" /\ r.code = lines[l].code /\ r.with = lines[l].with /\ r.others = lines[l].others
        <3>1. "again" \in Stage /\ lines[l].runs + 1 \in 0 .. 2
            BY <2>2 DEF Stage
        <3>2. r.at = "again" /\ r.code = lines[l].code /\ r.with = lines[l].with /\ r.others = lines[l].others
            BY <1>1 DEF LineRecord
        <3>3. r \in LineRecord
            BY <1>1, <3>1 DEF LineRecord
        <3> QED
            BY <3>2, <3>3
    <2>4. r.runs = 2 /\ r.excused = lines[l].excused /\ r.saw = lines[l].saw
        BY <1>1, <2>2 DEF LineRecord
    <2> HIDE DEF r
    <2>5. r.runs > 0 /\ ~r.excused /\ ~r.others => r.saw = r.code
        BY <1>1, <2>2, <2>3, <2>4 DEF OwnVerdicts, VerdictIsOwn
    <2> QED
        BY <1>3, <2>1, <2>3, <2>4, <2>5, LineKeeps
<1> QED
    BY <1>4, <1>6, <1>7, <1>8, <1>9, <1>10 DEF LineGoesOn

LEMMA ReplSteps == ReplIInv /\ [ReplNext]_replVars => ReplIInv'
<1> SUFFICES ASSUME ReplIInv, [ReplNext]_replVars PROVE ReplIInv'
    OBVIOUS
<1>1. CASE UNCHANGED replVars
    BY <1>1 DEF replVars, ReplIInv, ReplTypeOK, OwnVerdicts, CheckedAlone, VerdictIsOwn, LinesInOrder, LatestBinding, InFlight
<1> QED
    BY <1>1, TypingKeeps, BackgroundKeeps, SubmittingKeeps, LineGoing DEF ReplNext

\* A line runs on tsc's verdict on itself when nothing else was typed or submitted
\* meanwhile, and a variable holds the value of the latest line that binds it unless
\* the two were in flight together (repl.ts, typecheck.ts).
THEOREM ReplRunsWhatItChecked == ReplInit /\ [][ReplNext]_replVars => [](ReplTypeOK /\ VerdictIsOwn /\ LatestBinding)
<1>1. ReplIInv => ReplTypeOK /\ VerdictIsOwn /\ LatestBinding
    BY DEF ReplIInv, OwnVerdicts, LinesInOrder
<1> QED
    BY <1>1, ReplStarts, ReplSteps, PTL

----------------------------------------------------------------------------
(* Pipelines of the shell.                                                 *)

\* What has been done by the stages so far.
StagesSoFar ==
    /\ pipeline \in Pipelines /\ stageAt \in 0 .. Len(pipeline)
    /\ \A n \in 2 .. stageAt : pipeline[n].name \in PipeOperators
    /\ answer = "data" => stageAt = Len(pipeline)
    /\ {shellCwd, processCwd} \subseteq Folder

PipelineIInv == StagesSoFar /\ PipelineIsHonest /\ CwdsTogether

LEMMA Lengths == \A p \in Pipelines : Len(p) \in Nat \ {0}
BY CommandLineAssumption

LEMMA PipelineSteps == PipelineIInv /\ [PipelineNext]_commandVars => PipelineIInv'
<1> SUFFICES ASSUME PipelineIInv, [PipelineNext]_commandVars PROVE PipelineIInv'
    OBVIOUS
<1>1. /\ pipeline \in Pipelines /\ stageAt \in 0 .. Len(pipeline) /\ Len(pipeline) \in Nat \ {0} /\ None # "data"
      /\ None \notin {"done", "failed", "refused"}
      /\ \A n \in 2 .. stageAt : pipeline[n].name \in PipeOperators
    BY Lengths, CommandLineAssumption DEF PipelineIInv, StagesSoFar
<1>2. CASE UNCHANGED commandVars
    BY <1>2 DEF commandVars, PipelineIInv, StagesSoFar, PipelineIsHonest, PromisesFile, CwdsTogether, First
<1>3. CASE Exits \/ Refused \/ RunsFirst \/ FirstThrows
    <2>1. /\ answer = None /\ stageAt = 0 /\ answer' # "data" /\ stageAt' \in {0, 1}
          /\ UNCHANGED <<pipeline, shellCwd, processCwd, lastCd>>
        BY <1>1, <1>3 DEF Exits, Refused, RunsFirst, FirstThrows, Starts, Runs, Ends
    <2>2. effects' = effects \/ (effects' = effects \cup {First.name} /\ Len(First.args) >= Primary[First.name].needs)
        BY <1>3 DEF Exits, Refused, RunsFirst, FirstThrows, Runs
    <2>3. StagesSoFar' /\ CwdsTogether'
        BY <1>1, <2>1 DEF PipelineIInv, StagesSoFar, CwdsTogether
    <2>4. First' = First /\ PromisesFile' = PromisesFile
        BY <2>1 DEF First, PromisesFile
    <2>5. \A name \in effects' : \/ name = First.name /\ Len(First.args) >= Primary[name].needs
                                 \/ name = "tojson" /\ PromisesFile
      <3>1. \A name \in effects : \/ name = First.name /\ Len(First.args) >= Primary[name].needs
                                  \/ name = "tojson" /\ PromisesFile
        BY DEF PipelineIInv, PipelineIsHonest
      <3>2. CASE effects' = effects
        BY <3>1, <3>2
      <3>3. CASE effects' = effects \cup {First.name} /\ Len(First.args) >= Primary[First.name].needs
        BY <3>1, <3>3
      <3> QED
        BY <2>2, <3>2, <3>3
    <2>6. PipelineIsHonest'
        BY <2>1, <2>4, <2>5 DEF PipelineIsHonest
    <2> QED
        BY <2>3, <2>6 DEF PipelineIInv
<1>4. CASE Cd
    <2>1. answer = None /\ stageAt = 0 /\ answer' # "data" /\ stageAt' \in {0, 1} /\ UNCHANGED <<pipeline, effects>>
        BY <1>1, <1>4 DEF Cd, ChangesDirectory, Starts
    <2>2. \/ lastCd' = "done" /\ shellCwd' \in Folder /\ processCwd' = shellCwd'
          \/ lastCd' \in {"failed", "refused"} /\ shellCwd' \in Folder \cup {shellCwd} /\ processCwd' = processCwd
        BY <1>4, Zenon DEF Cd, ChangesDirectory
    <2>3. StagesSoFar'
        BY <1>1, <2>1, <2>2 DEF PipelineIInv, StagesSoFar
    <2>4. CwdsTogether'
        BY <1>1, <2>2 DEF CwdsTogether
    <2>5. PipelineIsHonest'
        BY <2>1 DEF PipelineIInv, PipelineIsHonest, PromisesFile, First
    <2> QED
        BY <2>3, <2>4, <2>5 DEF PipelineIInv
<1>5. CASE Pipes
    <2>1. /\ answer = None /\ answer' = None /\ stageAt > 0 /\ stageAt < Len(pipeline) /\ stageAt' = stageAt + 1
          /\ pipeline[stageAt + 1].name \in PipeOperators
          /\ UNCHANGED <<pipeline, effects, shellCwd, processCwd, lastCd>>
        BY <1>5 DEF Pipes, Piping, Stage1, Role
    <2>2. \A n \in 2 .. stageAt' : pipeline[n].name \in PipeOperators
        BY <1>1, <2>1
    <2>3. StagesSoFar'
        BY <1>1, <2>1, <2>2 DEF PipelineIInv, StagesSoFar
    <2>4. PipelineIsHonest' /\ CwdsTogether'
        BY <1>1, <2>1 DEF PipelineIInv, PipelineIsHonest, PromisesFile, CwdsTogether, First
    <2> QED
        BY <2>3, <2>4 DEF PipelineIInv
<1>6. CASE CannotPipe
    <2>1. Role(Stage1) # "writer"
        BY DEF Role, PipeOperators
    <2>2. answer' = "error" /\ UNCHANGED <<pipeline, stageAt, effects, shellCwd, processCwd, lastCd>>
        BY <1>6, <2>1 DEF CannotPipe, Ends
    <2> QED
        BY <1>1, <2>2 DEF PipelineIInv, StagesSoFar, PipelineIsHonest, PromisesFile, CwdsTogether, First
<1>7. CASE Gives
    <2>1. stageAt = Len(pipeline) /\ answer' = "data" /\ UNCHANGED <<pipeline, stageAt, effects, shellCwd, processCwd, lastCd>>
        BY <1>7 DEF Gives, Ends
    <2>2. StagesSoFar' /\ CwdsTogether'
        BY <1>1, <2>1 DEF PipelineIInv, StagesSoFar, CwdsTogether
    <2>3. PipelineIsHonest'
        BY <1>1, <2>1 DEF PipelineIInv, PipelineIsHonest, PromisesFile, First
    <2> QED
        BY <2>2, <2>3 DEF PipelineIInv
<1>8. ASSUME NEW p \in Pipelines, NextPipeline(p) PROVE PipelineIInv'
    <2>1. /\ pipeline' = p /\ stageAt' = 0 /\ effects' = {} /\ answer' = None
          /\ UNCHANGED <<shellCwd, processCwd, lastCd>>
        BY <1>8 DEF NextPipeline
    <2>2. 0 \in 0 .. Len(p) /\ 2 .. 0 = {}
        BY Lengths
    <2>3. StagesSoFar' /\ CwdsTogether'
        BY <1>1, <2>1, <2>2 DEF PipelineIInv, StagesSoFar, CwdsTogether
    <2>4. PipelineIsHonest'
        BY <1>1, <2>1 DEF PipelineIsHonest, PromisesFile
    <2> QED
        BY <2>3, <2>4 DEF PipelineIInv
<1> QED
    BY <1>2, <1>3, <1>4, <1>5, <1>6, <1>7, <1>8 DEF PipelineNext, commandVars

\* Of data: its kind, and that an array has no more than is listed.
Kind == {"array", "text", "value"}
DataTyped(d) ==
    /\ d.kind \in Kind /\ d.items \in 0 .. MaxListed \cup {1, 2}
    /\ d.kind = "array" => d.items \in 0 .. MaxListed

LEMMA KindsAreGiven == \A name \in DOMAIN Primary : Primary[name].gives \in Kind
<1>1. \A name \in DOMAIN ShellCommands : ShellCommands[name].gives \in Kind
    BY DEF ShellCommands, Cmd, Kind
<1>2. \A name \in DOMAIN FileCommands : FileCommands[name].gives \in Kind
    BY DEF FileCommands, Cmd, Changing, Kind
<1>3. \A name \in DOMAIN TextCommands : TextCommands[name].gives \in Kind
    BY DEF TextCommands, Cmd, Kind
<1>4. \A name \in DOMAIN OtherCommands : OtherCommands[name].gives \in Kind
    BY DEF OtherCommands, Cmd, Changing, Kind
<1> QED
    <2> SUFFICES ASSUME NEW name \in DOMAIN Primary PROVE Primary[name].gives \in Kind
        OBVIOUS
    <2> DEFINE g == CHOOSE group \in Groups : name \in DOMAIN group
    <2>1. (\E group \in Groups : name \in DOMAIN group) /\ Primary[name] = g[name]
        BY DEF Primary
    <2>2. g \in Groups /\ name \in DOMAIN g
        BY <2>1
    <2> HIDE DEF g
    <2>3. g[name].gives \in Kind
        BY <1>1, <1>2, <1>3, <1>4, <2>2 DEF Groups
    <2> QED
        BY <2>1, <2>3

LEMMA DataIsTyped == 
    /\ \A n \in 0 .. MaxListed : DataTyped(Array(n))
    /\ DataTyped(Text1(1)) /\ DataTyped(Text1(2)) /\ DataTyped(Value)
<1>1. MaxListed \in Nat
    BY CommandLineAssumption
<1> QED
    BY <1>1 DEF DataTyped, Array, Text1, Value, Kind

LEMMA AppliedTyped ==
    ASSUME NEW cmd, cmd.name \in PipeOperators, NEW d, DataTyped(d), NEW e \in Applied(cmd, d),
           cmd.name \in {"take", "skip"} /\ cmd.args # <<>> => cmd.args[1] \in Nat
    PROVE  DataTyped(e)
<1>1. CASE cmd.name \in {"count", "tojson"}
    <2>1. e \in {Value, Text1(1)}
        BY <1>1 DEF Applied
    <2> QED
        BY <2>1, DataIsTyped
<1>2. CASE cmd.name \notin {"count", "tojson"} /\ d.kind # "array"
    <2>1. e = d
        BY <1>2 DEF Applied, IsArray
    <2> QED
        BY <2>1
<1>3. CASE cmd.name \notin {"count", "tojson"} /\ d.kind = "array"
    <2> DEFINE n == d.items
    <2>0. n \in 0 .. MaxListed /\ MaxListed \in Nat
        BY <1>3, CommandLineAssumption DEF DataTyped
    <2>1. e \in OfArray(cmd, n)
        BY <1>3 DEF Applied, IsArray
    <2> HIDE DEF n
    <2>a. ASSUME NEW k \in 0 .. n, e = Array(k) PROVE DataTyped(e)
        <3>1. k \in 0 .. MaxListed
            BY <2>0
        <3> QED
            BY <2>a, <3>1, DataIsTyped
    <2>2. CASE cmd.name = "filter"
        <3>1. e \in {Array(k) : k \in IF cmd.args = <<>> THEN {n} ELSE FilterKeeps(cmd.args[1], n)}
            BY <2>1, <2>2 DEF OfArray
        <3>2. FilterKeeps(cmd.args[1], n) \subseteq 0 .. n
            BY <2>0 DEF FilterKeeps
        <3>3. \E k \in 0 .. n : e = Array(k)
            BY <2>0, <3>1, <3>2
        <3> QED
            BY <2>a, <3>3
    <2>3. CASE cmd.name \in {"sortby", "pluck"}
        <3>1. e = Array(n) /\ n \in 0 .. n
            BY <2>0, <2>1, <2>3 DEF OfArray
        <3> QED
            BY <2>a, <3>1
    <2>4. CASE cmd.name = "take"
        <3>1. e = Array(IF cmd.args = <<>> THEN n ELSE Least(cmd.args[1], n))
            BY <2>1, <2>4 DEF OfArray
        <3>2. cmd.args # <<>> => Least(cmd.args[1], n) \in 0 .. n
            BY <2>0, <2>4 DEF Least
        <3>3. \E k \in 0 .. n : e = Array(k)
            BY <2>0, <3>1, <3>2
        <3> QED
            BY <2>a, <3>3
    <2>5. CASE cmd.name = "skip"
        <3>1. e = Array(IF cmd.args = <<>> THEN n ELSE n - Least(cmd.args[1], n))
            BY <2>1, <2>5 DEF OfArray
        <3>2. cmd.args # <<>> => n - Least(cmd.args[1], n) \in 0 .. n
            BY <2>0, <2>5 DEF Least
        <3>3. \E k \in 0 .. n : e = Array(k)
            BY <2>0, <3>1, <3>2
        <3> QED
            BY <2>a, <3>3
    <2>6. CASE cmd.name = "uniq"
        <3>1. e \in {Array(k) : k \in Least(1, n) .. n}
            BY <2>1, <2>6 DEF OfArray
        <3>2. Least(1, n) .. n \subseteq 0 .. n
            BY <2>0 DEF Least
        <3> QED
            BY <2>a, <3>1, <3>2
    <2>7. CASE cmd.name \in {"first", "last"}
        <3>1. e = Value
            BY <2>1, <2>7 DEF OfArray
        <3> QED
            BY <3>1, DataIsTyped
    <2> QED
        BY <1>3, <2>2, <2>3, <2>4, <2>5, <2>6, <2>7 DEF PipeOperators
<1> QED
    BY <1>1, <1>2, <1>3 DEF DataTyped

\* There is data when a stage has been.
CommandIInv == CommandLineTypeOK /\ IF stageAt = 0 THEN data = None ELSE DataTyped(data)

LEMMA CommandTyped ==
    ASSUME CommandIInv, PipelineIInv, [PipelineNext]_commandVars
    PROVE  CommandIInv'
<1>1. /\ CommandLineTypeOK /\ pipeline \in Pipelines /\ Len(pipeline) \in Nat \ {0} /\ stageAt \in 0 .. Len(pipeline)
      /\ (IF stageAt = 0 THEN data = None ELSE DataTyped(data))
    BY Lengths DEF CommandIInv, CommandLineTypeOK, PipelineNext, commandVars, Exits, Refused,
       RunsFirst, FirstThrows, Cd, Pipes, CannotPipe, Gives, NextPipeline, Ends
<1>2. CASE UNCHANGED commandVars
    BY <1>1, <1>2 DEF commandVars, CommandIInv, CommandLineTypeOK
<1>3. CASE Exits \/ Refused \/ FirstThrows
    <2>1. /\ answer' \in {"exit", "quit", "clear", "error", "threw"} /\ UNCHANGED <<pipeline, stageAt, data, shellCwd, processCwd, lastCd>>
        BY <1>3 DEF Exits, Refused, FirstThrows, Ends
    <2>2. effects' \subseteq DOMAIN Primary \cup {"tojson"}
        BY <1>1, <1>3 DEF Exits, Refused, FirstThrows, Runs, CommandLineTypeOK
    <2> QED
        BY <1>1, <2>1, <2>2 DEF CommandIInv, CommandLineTypeOK
<1>4. CASE RunsFirst
    <2>1. /\ First.name \in DOMAIN Primary /\ stageAt' = 1 /\ data' \in Given(Primary[First.name].gives)
          /\ UNCHANGED <<pipeline, answer, shellCwd, processCwd, lastCd>>
        BY <1>4 DEF RunsFirst, Runs
    <2>2. effects' \subseteq DOMAIN Primary \cup {"tojson"}
        BY <1>1, <1>4, <2>1 DEF RunsFirst, CommandLineTypeOK
    <2>3. Primary[First.name].gives \in Kind
        BY <2>1, KindsAreGiven
    <2>4. ASSUME NEW k \in Kind, NEW d \in Given(k) PROVE DataTyped(d)
        <3>1. CASE k = "array"
            BY <3>1, <2>4, DataIsTyped DEF Given
        <3>2. CASE k = "text"
            <4>1. 1 .. 2 = {1, 2}
                OBVIOUS
            <4>2. \E n \in 1 .. 2 : d = Text1(n)
                BY <3>2, <2>4 DEF Given
            <4> QED
                BY <4>1, <4>2, DataIsTyped
        <3>3. CASE k = "value"
            BY <3>3, <2>4, DataIsTyped DEF Given
        <3> QED
            BY <3>1, <3>2, <3>3 DEF Kind
    <2>5. DataTyped(data') /\ stageAt' \in 0 .. Len(pipeline)
        BY <1>1, <2>1, <2>3, <2>4
    <2> QED
        BY <1>1, <2>1, <2>2, <2>5 DEF CommandIInv, CommandLineTypeOK, DataTyped
<1>5. CASE Cd
    <2>1. /\ UNCHANGED <<pipeline, effects>> /\ answer' \in {answer, "error"} /\ lastCd' \in {"done", "failed", "refused"}
          /\ (stageAt' = 1 /\ data' = Text1(1)) \/ UNCHANGED <<stageAt, data>>
          /\ shellCwd' \in Folder \cup {shellCwd} /\ processCwd' \in Folder \cup {processCwd}
        BY <1>5, Zenon DEF Cd, ChangesDirectory
    <2>2. DataTyped(Text1(1))
        BY DataIsTyped
    <2>3. (IF stageAt' = 0 THEN data' = None ELSE DataTyped(data')) /\ stageAt' \in 0 .. Len(pipeline)
        BY <1>1, <2>1, <2>2
    <2> QED
        BY <1>1, <2>1, <2>3 DEF CommandIInv, CommandLineTypeOK, DataTyped
<1>6. CASE Pipes
    <2>1. /\ stageAt > 0 /\ stageAt < Len(pipeline) /\ Stage1.name \in PipeOperators
          /\ data' \in Applied(Stage1, data) /\ stageAt' = stageAt + 1
          /\ UNCHANGED <<pipeline, effects, answer, shellCwd, processCwd, lastCd>>
        BY <1>6 DEF Pipes, Piping, Role
    <2>2. Stage1.name \in {"take", "skip"} /\ Stage1.args # <<>> => Stage1.args[1] \in Nat
        BY <1>1, <2>1, CommandLineAssumption DEF Stage1
    <2>3. DataTyped(data)
        BY <1>1, <2>1
    <2>4. DataTyped(data')
        BY <2>1, <2>2, <2>3, AppliedTyped
    <2>5. stageAt' \in 0 .. Len(pipeline) /\ stageAt' # 0
        BY <1>1, <2>1
    <2> QED
        BY <1>1, <2>1, <2>4, <2>5 DEF CommandIInv, CommandLineTypeOK, DataTyped
<1>7. CASE CannotPipe
    <2>1. Role(Stage1) # "writer"
        BY DEF Role, PipeOperators
    <2>2. answer' = "error" /\ UNCHANGED <<pipeline, stageAt, data, effects, shellCwd, processCwd, lastCd>>
        BY <1>7, <2>1 DEF CannotPipe, Ends
    <2> QED
        BY <1>1, <2>2 DEF CommandIInv, CommandLineTypeOK
<1>8. CASE Gives
    <2>1. answer' = "data" /\ UNCHANGED <<pipeline, stageAt, data, effects, shellCwd, processCwd, lastCd>>
        BY <1>8 DEF Gives, Ends
    <2> QED
        BY <1>1, <2>1 DEF CommandIInv, CommandLineTypeOK
<1>9. ASSUME NEW p \in Pipelines, NextPipeline(p) PROVE CommandIInv'
    <2>1. /\ pipeline' = p /\ stageAt' = 0 /\ data' = None /\ effects' = {} /\ answer' = None
          /\ UNCHANGED <<shellCwd, processCwd, lastCd>>
        BY <1>9 DEF NextPipeline
    <2>2. 0 \in 0 .. Len(p)
        BY Lengths
    <2> QED
        BY <1>1, <2>1, <2>2 DEF CommandIInv, CommandLineTypeOK
<1> QED
    BY <1>2, <1>3, <1>4, <1>5, <1>6, <1>7, <1>8, <1>9 DEF PipelineNext, commandVars

LEMMA CommandStarts == CommandLineInit => PipelineIInv /\ CommandIInv
<1> SUFFICES ASSUME CommandLineInit PROVE PipelineIInv /\ CommandIInv
    OBVIOUS
<1>1. pipeline \in Pipelines /\ stageAt = 0 /\ 0 \in 0 .. Len(pipeline) /\ 2 .. 0 = {} /\ None # "data"
    BY Lengths, CommandLineAssumption DEF CommandLineInit
<1>2. PipelineIInv
    BY <1>1 DEF CommandLineInit, PipelineIInv, StagesSoFar, PipelineIsHonest, CwdsTogether
<1>3. CommandIInv
    BY <1>1 DEF CommandLineInit, CommandIInv, CommandLineTypeOK
<1> QED
    BY <1>2, <1>3

\* Whatever pipelines there are: what one changes its first command has changed, with
\* the arguments that this needs, and a cd that answers with a directory has brought
\* the shell and the process there (executor.ts).
THEOREM PipelinesAreHonest ==
    CommandLineSpec => [](CommandLineTypeOK /\ PipelineIsHonest /\ CwdsTogether)
<1>1. PipelineIInv /\ CommandIInv => CommandLineTypeOK /\ PipelineIsHonest /\ CwdsTogether
    BY DEF PipelineIInv, CommandIInv
<1> QED
    BY <1>1, CommandStarts, PipelineSteps, CommandTyped, PTL DEF CommandLineSpec

----------------------------------------------------------------------------
(* The line editor.                                                        *)

LineTyped ==
    /\ buffer \in Seq(Letter) /\ savedBuffer \in Seq(Letter) /\ history \in Seq(Seq(Letter))
    /\ multiLineBuffer \in Seq(Letter) \cup {None}
    /\ cursor \in 0 .. Len(buffer) /\ historyIndex \in 0 .. Len(history) /\ Len(history) <= MaxHistory
    /\ {braceDepth, parenDepth} \subseteq Int

ChecksTyped ==
    /\ promptStatus \in {"idle", "ok", "error"}
    /\ preCheckTimer \in {None} \cup [shown : BOOLEAN] /\ preCheckVersion \in 0 .. MaxPreChecks
    /\ preChecks \subseteq [version : 1 .. MaxPreChecks, shown : BOOLEAN]
    /\ judged \in BOOLEAN /\ unscheduled \in BOOLEAN

EscapeTyped ==
    open \in BOOLEAN /\ (escBuffer = None \/ (escBuffer \in Seq(Keys \cup {"?"}) /\ Len(escBuffer) < 6))

\* A check with the newest number that is no longer about what is shown tells that the
\* line has changed since it was scheduled.
ChecksInOrder ==
    /\ preCheckTimer # None => preCheckVersion > 0 /\ (~preCheckTimer.shown => unscheduled)
    /\ \A c \in preChecks : c.version <= preCheckVersion /\ (c.version = preCheckVersion /\ ~c.shown => unscheduled)
    /\ VerdictIsOfShown

TerminalIInv == LineTyped /\ ChecksTyped /\ EscapeTyped /\ ChecksInOrder /\ DepthIsOfText

LEMMA TerminalBounds == MaxLine \in Nat /\ MaxText \in Nat /\ MaxHistory \in Nat /\ MaxPreChecks \in Nat
BY TerminalAssumption

\* What runs when the line changes has the same numbers and is about it no longer.
LEMMA OutdatedChecks ==
    ASSUME ChecksTyped, Outdates
    PROVE  /\ preChecks' \subseteq [version : 1 .. MaxPreChecks, shown : BOOLEAN]
           /\ \A d \in preChecks' : ~d.shown /\ \E c \in preChecks : d.version = c.version
           /\ \A c \in preChecks : \E d \in preChecks' : d.version = c.version
<1>1. preChecks \subseteq [version : 1 .. MaxPreChecks, shown : BOOLEAN]
    BY DEF ChecksTyped
<1>2. \A c \in preChecks :
          /\ [c EXCEPT !.shown = FALSE] \in [version : 1 .. MaxPreChecks, shown : BOOLEAN]
          /\ [c EXCEPT !.shown = FALSE].version = c.version /\ [c EXCEPT !.shown = FALSE].shown = FALSE
    BY <1>1
<1>3. preChecks' = {[c EXCEPT !.shown = FALSE] : c \in preChecks}
    BY DEF Outdates
<1> QED
    BY <1>2, <1>3

LEMMA UnscheduledKeeps ==
    ASSUME ChecksTyped, ChecksInOrder, Unscheduled, promptStatus' \in {promptStatus, "idle"},
           preCheckTimer' = None \/ LeavesTimer
    PROVE  ChecksTyped' /\ ChecksInOrder'
<1>1. unscheduled' = TRUE /\ judged' = (promptStatus' = "idle") /\ preCheckVersion' = preCheckVersion /\ Outdates
    BY DEF Unscheduled
<1>2. [shown |-> FALSE] \in [shown : BOOLEAN]
    OBVIOUS
<1>3. preCheckTimer' \in {None} \cup [shown : BOOLEAN] /\ (preCheckTimer' # None => preCheckTimer # None)
    BY <1>2 DEF LeavesTimer
<1>4. ChecksTyped'
    BY <1>1, <1>3, OutdatedChecks DEF ChecksTyped
<1>5. \A d \in preChecks' : d.version <= preCheckVersion
    BY <1>1, OutdatedChecks DEF ChecksInOrder
<1>6. ChecksInOrder'
    BY <1>1, <1>3, <1>5 DEF ChecksInOrder, VerdictIsOfShown
<1> QED
    BY <1>4, <1>6

LEMMA ScheduledKeeps ==
    ASSUME ChecksTyped, ChecksInOrder, NEW b, Scheduled(b)
    PROVE  ChecksTyped' /\ ChecksInOrder'
<1>1. CASE promptStatus' = "idle" /\ LeavesTimer /\ Unscheduled
    BY <1>1, UnscheduledKeeps
<1>2. CASE /\ preCheckVersion < MaxPreChecks /\ preCheckVersion' = preCheckVersion + 1
           /\ preCheckTimer' = [shown |-> TRUE] /\ UNCHANGED promptStatus
           /\ Outdates /\ judged' = (promptStatus = "idle") /\ unscheduled' = FALSE
    <2>0. preCheckVersion \in 0 .. MaxPreChecks /\ MaxPreChecks \in Nat /\ preCheckTimer' # None
          /\ preCheckTimer' \in [shown : BOOLEAN] /\ preCheckTimer'.shown = TRUE
        <3>1. [shown |-> TRUE] \in [shown : BOOLEAN] /\ [shown |-> TRUE].shown = TRUE
            OBVIOUS
        <3>2. [shown |-> TRUE] # None
            BY <3>1, TerminalAssumption
        <3>3. preCheckVersion \in 0 .. MaxPreChecks /\ MaxPreChecks \in Nat
            BY TerminalBounds DEF ChecksTyped
        <3> QED
            BY <1>2, <3>1, <3>2, <3>3
    <2>1. ChecksTyped'
        <3>1. preCheckVersion' \in 0 .. MaxPreChecks
            BY <1>2, <2>0
        <3>2. preChecks' \subseteq [version : 1 .. MaxPreChecks, shown : BOOLEAN]
            BY <1>2, OutdatedChecks
        <3>3. promptStatus' \in {"idle", "ok", "error"} /\ judged' \in BOOLEAN /\ unscheduled' \in BOOLEAN
            BY <1>2 DEF ChecksTyped
        <3> QED
            BY <2>0, <3>1, <3>2, <3>3 DEF ChecksTyped
    <2>2. \A d \in preChecks' : d.version \in 1 .. MaxPreChecks /\ d.version <= preCheckVersion
        BY OutdatedChecks, <1>2 DEF ChecksInOrder
    <2>3. \A d \in preChecks' : d.version <= preCheckVersion' /\ d.version # preCheckVersion'
        BY <1>2, <2>0, <2>2
    <2>4. preCheckVersion' > 0
        BY <1>2, <2>0
    <2> QED
        BY <1>2, <2>0, <2>1, <2>3, <2>4 DEF ChecksInOrder, VerdictIsOfShown
<1> QED
    BY <1>1, <1>2 DEF Scheduled

LEMMA CheckingKeeps ==
    ASSUME TerminalIInv, PreCheckStarts \/ \E c \in preChecks : PreCheckReturns(c)
    PROVE  TerminalIInv'
<1>1. UNCHANGED <<lineVars, historyVars, depthVars, escBuffer, open, preCheckVersion, unscheduled>>
    BY DEF PreCheckStarts, PreCheckReturns
<1>2. LineTyped' /\ EscapeTyped' /\ DepthIsOfText'
    BY <1>1 DEF lineVars, historyVars, depthVars, TerminalIInv, LineTyped, EscapeTyped, DepthIsOfText
<1>3. ChecksTyped /\ ChecksInOrder /\ MaxPreChecks \in Nat
    BY TerminalBounds DEF TerminalIInv
<1>4. CASE PreCheckStarts
    <2> DEFINE c == [version |-> preCheckVersion, shown |-> preCheckTimer.shown]
    <2>1. /\ preCheckTimer # None /\ preCheckTimer' = None /\ preChecks' = preChecks \cup {c}
          /\ UNCHANGED <<promptStatus, judged>>
        BY <1>4 DEF PreCheckStarts
    <2>2. preCheckTimer \in [shown : BOOLEAN] /\ preCheckVersion \in 1 .. MaxPreChecks
        BY <1>3, <2>1 DEF ChecksTyped, ChecksInOrder
    <2>3. c \in [version : 1 .. MaxPreChecks, shown : BOOLEAN] /\ c.version = preCheckVersion /\ c.shown = preCheckTimer.shown
        BY <2>2
    <2> HIDE DEF c
    <2>4. ChecksTyped'
        BY <1>1, <1>3, <2>1, <2>3 DEF ChecksTyped
    <2>5. ChecksInOrder'
        BY <1>1, <1>3, <2>1, <2>2, <2>3 DEF ChecksInOrder, VerdictIsOfShown
    <2> QED
        BY <1>2, <2>4, <2>5 DEF TerminalIInv
<1>5. ASSUME NEW c \in preChecks, PreCheckReturns(c) PROVE TerminalIInv'
    <2>1. /\ preChecks' = preChecks \ {c} /\ UNCHANGED preCheckTimer
          /\ IF c.version = preCheckVersion THEN promptStatus' \in {"ok", "error"} /\ judged' = c.shown
             ELSE UNCHANGED <<promptStatus, judged>>
        BY <1>5 DEF PreCheckReturns
    <2>2. c.shown \in BOOLEAN
        BY <1>3 DEF ChecksTyped
    <2>3. ChecksTyped'
        BY <1>1, <1>3, <2>1, <2>2 DEF ChecksTyped
    <2>4. VerdictIsOfShown'
        <3>1. CASE c.version = preCheckVersion
            <4>1. judged' = c.shown /\ (~c.shown => unscheduled)
                BY <1>3, <2>1, <3>1 DEF ChecksInOrder
            <4> QED
                BY <1>1, <4>1 DEF VerdictIsOfShown
        <3>2. CASE c.version # preCheckVersion
            BY <1>1, <1>3, <2>1, <3>2 DEF ChecksInOrder, VerdictIsOfShown
        <3> QED
            BY <3>1, <3>2
    <2>5. ChecksInOrder'
        BY <1>1, <1>3, <2>1, <2>4 DEF ChecksInOrder
    <2> QED
        BY <1>2, <2>3, <2>5 DEF TerminalIInv
<1> QED
    BY <1>4, <1>5

\* The places of some characters in two texts one after the other.
LEMMA PlacesAdd ==
    ASSUME NEW S, NEW s \in Seq(S), NEW t \in Seq(S), NEW chars
    PROVE  /\ Cardinality(Places(s, chars)) \in Nat /\ Cardinality(Places(t, chars)) \in Nat
           /\ Cardinality(Places(s \o t, chars)) = Cardinality(Places(s, chars)) + Cardinality(Places(t, chars))
<1> DEFINE m == Len(s)
           n == Len(t)
           A == Places(s, chars)
           B == Places(t, chars)
           C == {k \in m + 1 .. m + n : t[k - m] \in chars}
<1>0. m \in Nat /\ n \in Nat /\ DOMAIN s = 1 .. m /\ DOMAIN t = 1 .. n
    BY LenProperties
<1>1. /\ s \o t \in Seq(S) /\ Len(s \o t) = m + n /\ DOMAIN (s \o t) = 1 .. m + n
      /\ \A i \in 1 .. m + n : (s \o t)[i] = IF i <= m THEN s[i] ELSE t[i - m]
    BY ConcatProperties, LenProperties
<1> HIDE DEF m, n
<1>2. A = {k \in 1 .. m : s[k] \in chars} /\ B = {k \in 1 .. n : t[k] \in chars}
    BY <1>0 DEF Places
<1>3. IsFiniteSet(1 .. m) /\ IsFiniteSet(1 .. n) /\ IsFiniteSet(m + 1 .. m + n)
    BY <1>0, FS_Interval
<1>4. A \subseteq 1 .. m /\ B \subseteq 1 .. n /\ C \subseteq m + 1 .. m + n
    BY <1>2
<1>5. IsFiniteSet(A) /\ IsFiniteSet(B) /\ IsFiniteSet(C)
    BY <1>3, <1>4, FS_Subset
<1>6. Places(s \o t, chars) = A \cup C
    <2>1. Places(s \o t, chars) = {k \in 1 .. m + n : (s \o t)[k] \in chars}
        BY <1>1 DEF Places
    <2>2. ASSUME NEW k \in 1 .. m + n PROVE (s \o t)[k] \in chars <=> k \in A \cup C
        BY <1>0, <1>1, <1>2
    <2>3. A \cup C \subseteq 1 .. m + n
        BY <1>0, <1>4
    <2> QED
        BY <2>1, <2>2, <2>3
<1>7. A \cap C = {}
    BY <1>0, <1>4
<1>8. Cardinality(C) = Cardinality(B)
    <2> DEFINE f == [k \in B |-> k + m]
    <2>1. f \in [B -> C]
        BY <1>0, <1>2
    <2>2. \A i, j \in B : f[i] = f[j] => i = j
        BY <1>0, <1>4
    <2>3. \A k \in C : \E i \in B : f[i] = k
        <3> SUFFICES ASSUME NEW k \in C PROVE k - m \in B /\ f[k - m] = k
            OBVIOUS
        <3>1. k - m \in 1 .. n /\ t[k - m] \in chars /\ k \in Nat
            BY <1>0
        <3>2. k - m \in B
            BY <1>2, <3>1
        <3> QED
            BY <1>0, <3>1, <3>2
    <2> HIDE DEF f
    <2>4. f \in Bijection(B, C)
        BY <2>1, <2>2, <2>3 DEF Bijection, Injection, Surjection, IsInjective
    <2>5. ExistsBijection(B, C)
        BY <2>4 DEF ExistsBijection
    <2> HIDE DEF C, B
    <2> QED
        BY <1>5, <2>5, FS_Bijection
<1> HIDE DEF A, B, C
<1>9. Cardinality(A) \in Nat /\ Cardinality(B) \in Nat
    BY <1>5, FS_CardinalityType
<1>10. Cardinality(A \cup C) = Cardinality(A) + Cardinality(C) - Cardinality({})
    BY <1>5, <1>7, FS_Union
<1>11. Cardinality({}) = 0
    BY FS_EmptySet
<1> QED
    BY <1>6, <1>8, <1>9, <1>10, <1>11 DEF A, B

\* A break between two texts opens and closes nothing.
LEMMA BreaksAreNeutral ==
    ASSUME NEW s \in Seq(Letter), NEW t \in Seq(Letter)
    PROVE  /\ BraceDepth(t) \in Int /\ ParenDepth(t) \in Int
           /\ BraceDepth(s \o <<Break>> \o t) = BraceDepth(s) + BraceDepth(t)
           /\ ParenDepth(s \o <<Break>> \o t) = ParenDepth(s) + ParenDepth(t)
<1>1. <<Break>> \in Seq(Letter) /\ s \o <<Break>> \in Seq(Letter)
    BY ConcatProperties DEF Letter
<1>2. ASSUME NEW chars, Break \notin chars
      PROVE  /\ Cardinality(Places(s, chars)) \in Nat /\ Cardinality(Places(t, chars)) \in Nat
             /\ Cardinality(Places(s \o <<Break>> \o t, chars)) = Cardinality(Places(s, chars)) + Cardinality(Places(t, chars))
    <2>1. Places(<<Break>>, chars) = {}
        BY <1>2 DEF Places
    <2>2. Cardinality(Places(<<Break>>, chars)) = 0
        BY <2>1, FS_EmptySet
    <2>3. /\ Cardinality(Places(s, chars)) \in Nat
          /\ Cardinality(Places(s \o <<Break>>, chars)) = Cardinality(Places(s, chars)) + Cardinality(Places(<<Break>>, chars))
        BY <1>1, PlacesAdd
    <2>4. /\ Cardinality(Places(t, chars)) \in Nat
          /\ Cardinality(Places((s \o <<Break>>) \o t, chars)) = Cardinality(Places(s \o <<Break>>, chars)) + Cardinality(Places(t, chars))
        BY <1>1, PlacesAdd
    <2> QED
        BY <2>2, <2>3, <2>4
<1>3. Break \notin {"{", "("} /\ Break \notin {"}", ")"} /\ Break \notin {"("} /\ Break \notin {")"}
    BY DEF Break
<1>4. ASSUME NEW opening, NEW closing, Break \notin opening, Break \notin closing
      PROVE  /\ Depth(t, opening, closing) \in Int
             /\ Depth(s \o <<Break>> \o t, opening, closing) = Depth(s, opening, closing) + Depth(t, opening, closing)
    <2>1. /\ Cardinality(Places(s, opening)) \in Nat /\ Cardinality(Places(t, opening)) \in Nat
          /\ Cardinality(Places(s \o <<Break>> \o t, opening)) = Cardinality(Places(s, opening)) + Cardinality(Places(t, opening))
        BY <1>2, <1>4
    <2>2. /\ Cardinality(Places(s, closing)) \in Nat /\ Cardinality(Places(t, closing)) \in Nat
          /\ Cardinality(Places(s \o <<Break>> \o t, closing)) = Cardinality(Places(s, closing)) + Cardinality(Places(t, closing))
        BY <1>2, <1>4
    <2> QED
        BY <2>1, <2>2 DEF Depth
<1>5. /\ BraceDepth(t) \in Int
      /\ BraceDepth(s \o <<Break>> \o t) = BraceDepth(s) + BraceDepth(t)
    BY <1>3, <1>4 DEF BraceDepth
<1>6. /\ ParenDepth(t) \in Int
      /\ ParenDepth(s \o <<Break>> \o t) = ParenDepth(s) + ParenDepth(t)
    BY <1>3, <1>4 DEF ParenDepth
<1> QED
    BY <1>5, <1>6

\* The line as the cursor divides it.
LEMMA LineDivided ==
    ASSUME LineTyped
    PROVE  /\ BeforeCursor \in Seq(Letter) /\ Len(BeforeCursor) = cursor
           /\ AfterCursor \in Seq(Letter) /\ Len(AfterCursor) = Len(buffer) - cursor
           /\ cursor \in Nat /\ Len(buffer) \in Nat /\ cursor <= Len(buffer)
<1>1. buffer \in Seq(Letter) /\ Len(buffer) \in Nat /\ cursor \in 0 .. Len(buffer)
    BY LenProperties DEF LineTyped
<1>2. \A i \in 1 .. Len(buffer) : buffer[i] \in Letter
    BY <1>1, ElementOfSeq
<1>3. \A i \in 1 .. cursor : buffer[i] \in Letter
    BY <1>1, <1>2
<1>4. \A i \in cursor + 1 .. Len(buffer) : buffer[i] \in Letter
    BY <1>1, <1>2
<1>5. BeforeCursor \in Seq(Letter) /\ Len(BeforeCursor) = IF 1 <= cursor THEN cursor - 1 + 1 ELSE 0
    BY <1>1, <1>3, SubSeqProperties DEF BeforeCursor
<1>6. /\ AfterCursor \in Seq(Letter)
      /\ Len(AfterCursor) = IF cursor + 1 <= Len(buffer) THEN Len(buffer) - (cursor + 1) + 1 ELSE 0
    BY <1>1, <1>4, SubSeqProperties DEF AfterCursor
<1> QED
    BY <1>1, <1>5, <1>6

\* The line is edited, and the place in the history may change.
LEMMA EditingKeeps ==
    ASSUME TerminalIInv, NEW b \in Seq(Letter), NEW n \in 0 .. Len(b), Edited(b, n),
           history' = history, historyIndex' \in 0 .. Len(history), savedBuffer' \in Seq(Letter), EscapeTyped'
    PROVE  TerminalIInv'
<1>1. buffer' = b /\ cursor' = n /\ Scheduled(b) /\ UNCHANGED <<multiLineBuffer, braceDepth, parenDepth>>
    BY DEF Edited, depthVars
<1>2. LineTyped'
    BY <1>1 DEF TerminalIInv, LineTyped
<1>3. ChecksTyped' /\ ChecksInOrder'
    BY <1>1, ScheduledKeeps DEF TerminalIInv
<1>4. DepthIsOfText'
    BY <1>1 DEF TerminalIInv, DepthIsOfText
<1> QED
    BY <1>2, <1>3, <1>4 DEF TerminalIInv

LEMMA MovingKeeps ==
    ASSUME TerminalIInv, NEW n \in 0 .. Len(buffer), Moved(n), EscapeTyped'
    PROVE  TerminalIInv'
<1>1. cursor' = n /\ UNCHANGED <<buffer, historyVars, depthVars, open, checkVars>>
    BY DEF Moved
<1>2. LineTyped' /\ DepthIsOfText'
    BY <1>1 DEF historyVars, depthVars, TerminalIInv, LineTyped, DepthIsOfText
<1>3. ChecksTyped' /\ ChecksInOrder'
    BY <1>1 DEF checkVars, TerminalIInv, ChecksTyped, ChecksInOrder, VerdictIsOfShown
<1> QED
    BY <1>2, <1>3 DEF TerminalIInv

LEMMA StandingKeeps ==
    ASSUME TerminalIInv, UNCHANGED <<lineVars, historyVars, depthVars, checkVars>>, EscapeTyped'
    PROVE  TerminalIInv'
<1>1. LineTyped' /\ DepthIsOfText'
    BY DEF lineVars, historyVars, depthVars, TerminalIInv, LineTyped, DepthIsOfText
<1>2. ChecksTyped' /\ ChecksInOrder'
    BY DEF checkVars, TerminalIInv, ChecksTyped, ChecksInOrder, VerdictIsOfShown
<1> QED
    BY <1>1, <1>2 DEF TerminalIInv

LEMMA DeletingKeeps ==
    ASSUME TerminalIInv, DeleteChar, EscapeTyped'
    PROVE  TerminalIInv'
<1>1. LineTyped
    BY DEF TerminalIInv
<1>2. /\ cursor < Len(buffer) /\ Edited(BeforeCursor \o Tail(AfterCursor), cursor)
      /\ UNCHANGED <<history, historyIndex, savedBuffer>>
    BY DEF DeleteChar, historyVars
<1>3. AfterCursor # <<>>
    <2>1. Len(<<>>) = 0
        OBVIOUS
    <2> QED
        BY <1>1, <1>2, <2>1, LineDivided
<1>4. Tail(AfterCursor) \in Seq(Letter)
    BY <1>1, <1>3, LineDivided, HeadTailProperties
<1>5. /\ BeforeCursor \o Tail(AfterCursor) \in Seq(Letter)
      /\ Len(BeforeCursor \o Tail(AfterCursor)) = Len(BeforeCursor) + Len(Tail(AfterCursor))
    BY <1>1, <1>4, LineDivided, ConcatProperties
<1>6. cursor \in 0 .. Len(BeforeCursor \o Tail(AfterCursor))
    <2>1. Len(Tail(AfterCursor)) \in Nat
        BY <1>4, LenProperties
    <2> QED
        BY <1>1, <1>5, <2>1, LineDivided
<1>7. history' = history /\ historyIndex' \in 0 .. Len(history) /\ savedBuffer' \in Seq(Letter)
    BY <1>1, <1>2 DEF LineTyped
<1> QED
    BY <1>2, <1>5, <1>6, <1>7, EditingKeeps

LEMMA HistoryKeeps ==
    ASSUME TerminalIInv, HistoryUp \/ HistoryDown, EscapeTyped'
    PROVE  TerminalIInv'
<1>1. /\ history \in Seq(Seq(Letter)) /\ Len(history) \in Nat /\ historyIndex \in 0 .. Len(history)
      /\ buffer \in Seq(Letter) /\ savedBuffer \in Seq(Letter)
      /\ \A i \in 1 .. Len(history) : history[i] \in Seq(Letter)
    BY LenProperties, ElementOfSeq DEF TerminalIInv, LineTyped
<1>2. ASSUME NEW b \in Seq(Letter), Edited(b, Len(b)), history' = history, historyIndex' \in 0 .. Len(history),
             savedBuffer' \in {buffer, savedBuffer}
      PROVE  TerminalIInv'
    <2>1. Len(b) \in 0 .. Len(b)
        BY LenProperties
    <2> QED
        BY <1>1, <1>2, <2>1, EditingKeeps
<1>3. CASE HistoryUp
    <2>1. /\ history # <<>> /\ historyIndex # 1
          /\ historyIndex' = IF historyIndex = 0 THEN Len(history) ELSE historyIndex - 1
          /\ savedBuffer' \in {buffer, savedBuffer} /\ history' = history
          /\ Edited(history[historyIndex'], Len(history[historyIndex']))
        BY <1>3 DEF HistoryUp
    <2>2. Len(history) # 0
        BY <1>1, <2>1, EmptySeq
    <2>3. historyIndex' \in 1 .. Len(history)
        BY <1>1, <2>1, <2>2
    <2> QED
        BY <1>1, <1>2, <2>1, <2>3
<1>4. CASE HistoryDown
    <2> DEFINE b == IF historyIndex' = 0 THEN savedBuffer ELSE history[historyIndex']
    <2>1. /\ historyIndex # 0 /\ historyIndex' = (IF historyIndex < Len(history) THEN historyIndex + 1 ELSE 0)
          /\ Edited(b, Len(b)) /\ UNCHANGED <<history, savedBuffer>>
        BY <1>4 DEF HistoryDown
    <2>2. historyIndex' \in 0 .. Len(history)
        BY <1>1, <2>1
    <2>3. b \in Seq(Letter)
        BY <1>1, <2>2
    <2> HIDE DEF b
    <2> QED
        BY <1>2, <2>1, <2>2, <2>3
<1> QED
    BY <1>3, <1>4

LEMMA Inserted ==
    ASSUME LineTyped, NEW ch \in Typeable
    PROVE  /\ BeforeCursor \o <<ch>> \o AfterCursor \in Seq(Letter)
           /\ cursor + 1 \in 0 .. Len(BeforeCursor \o <<ch>> \o AfterCursor)
<1>1. <<ch>> \in Seq(Letter) /\ Len(<<ch>>) = 1
    BY DEF Letter
<1>2. BeforeCursor \o <<ch>> \in Seq(Letter) /\ Len(BeforeCursor \o <<ch>>) = cursor + 1
    BY <1>1, LineDivided, ConcatProperties
<1>3. /\ (BeforeCursor \o <<ch>>) \o AfterCursor \in Seq(Letter)
      /\ Len((BeforeCursor \o <<ch>>) \o AfterCursor) = cursor + 1 + Len(AfterCursor)
    BY <1>2, LineDivided, ConcatProperties
<1> QED
    BY <1>3, LineDivided

\* A key that is not part of an escape sequence.
LEMMA KeyTyped == Key /\ EscapeTyped /\ UNCHANGED open => EscapeTyped'
BY DEF Key, EscapeTyped

LEMMA EditingKeysKeep ==
    ASSUME TerminalIInv, Backspace \/ KillLine \/ KillToStart \/ (\E ch \in Typeable : InsertChar(ch))
    PROVE  TerminalIInv'
<1>1. LineTyped /\ EscapeTyped /\ historyIndex \in 0 .. Len(history) /\ savedBuffer \in Seq(Letter)
    BY DEF TerminalIInv, LineTyped
<1>2. ASSUME NEW b \in Seq(Letter), NEW n \in 0 .. Len(b), Key, Edited(b, n), UNCHANGED historyVars
      PROVE  TerminalIInv'
    <2>1. EscapeTyped'
        BY <1>1, <1>2, KeyTyped DEF Edited
    <2>2. history' = history /\ historyIndex' \in 0 .. Len(history) /\ savedBuffer' \in Seq(Letter)
        BY <1>1, <1>2 DEF historyVars
    <2> QED
        BY <1>2, <2>1, <2>2, EditingKeeps
<1>3. ASSUME NEW ch \in Typeable, InsertChar(ch) PROVE TerminalIInv'
    <2>1. Key /\ Edited(BeforeCursor \o <<ch>> \o AfterCursor, cursor + 1) /\ UNCHANGED historyVars
        BY <1>3 DEF InsertChar
    <2> QED
        BY <1>1, <1>2, <2>1, Inserted
<1>4. CASE Backspace
    <2>1. Key /\ cursor > 0 /\ Edited(Front(BeforeCursor) \o AfterCursor, cursor - 1) /\ UNCHANGED historyVars
        BY <1>4 DEF Backspace
    <2>2. \A i \in 1 .. Len(BeforeCursor) : BeforeCursor[i] \in Letter
        BY <1>1, LineDivided, ElementOfSeq
    <2>3. \A i \in 1 .. Len(BeforeCursor) - 1 : BeforeCursor[i] \in Letter
        BY <1>1, <2>2, LineDivided
    <2>4. /\ Front(BeforeCursor) \in Seq(Letter)
          /\ Len(Front(BeforeCursor)) = IF 1 <= cursor - 1 THEN cursor - 1 - 1 + 1 ELSE 0
        BY <1>1, <2>3, LineDivided, SubSeqProperties DEF Front
    <2>5. /\ Front(BeforeCursor) \o AfterCursor \in Seq(Letter)
          /\ Len(Front(BeforeCursor) \o AfterCursor) = Len(Front(BeforeCursor)) + Len(AfterCursor)
        <3>1. AfterCursor \in Seq(Letter)
            BY <1>1, LineDivided
        <3> QED
            BY <2>4, <3>1, ConcatProperties
    <2>6. cursor - 1 \in 0 .. Len(Front(BeforeCursor) \o AfterCursor)
        BY <1>1, <2>1, <2>4, <2>5, LineDivided
    <2> QED
        BY <1>2, <2>1, <2>5, <2>6
<1>5. CASE KillLine
    <2>1. Key /\ Edited(BeforeCursor, cursor) /\ UNCHANGED historyVars
        BY <1>5 DEF KillLine
    <2>2. BeforeCursor \in Seq(Letter) /\ cursor \in 0 .. Len(BeforeCursor)
        BY <1>1, LineDivided
    <2> QED
        BY <1>2, <2>1, <2>2
<1>6. CASE KillToStart
    <2>1. Key /\ Edited(AfterCursor, 0) /\ UNCHANGED historyVars
        BY <1>6 DEF KillToStart
    <2>2. AfterCursor \in Seq(Letter) /\ 0 \in 0 .. Len(AfterCursor)
        BY <1>1, LineDivided
    <2> QED
        BY <1>2, <2>1, <2>2
<1> QED
    BY <1>3, <1>4, <1>5, <1>6

\* What changes the line without a check.
LEMMA TabAndBreakKeep ==
    ASSUME TerminalIInv, CtrlC \/ \E ch \in Typeable : HandleTab(ch)
    PROVE  TerminalIInv'
<1>1. LineTyped /\ ChecksTyped /\ ChecksInOrder /\ EscapeTyped /\ DepthIsOfText
    BY DEF TerminalIInv
<1>2. Key /\ UNCHANGED <<historyVars, open, promptStatus>> /\ LeavesTimer /\ Unscheduled
    BY DEF CtrlC, HandleTab
<1>3. ChecksTyped' /\ ChecksInOrder' /\ EscapeTyped'
    BY <1>1, <1>2, UnscheduledKeeps, KeyTyped
<1>4. CASE CtrlC
    <2>1. buffer' = <<>> /\ cursor' = 0 /\ multiLineBuffer' = None /\ braceDepth' = 0 /\ parenDepth' = 0
        BY <1>4 DEF CtrlC
    <2>2. <<>> \in Seq(Letter) /\ Len(<<>>) = 0
        OBVIOUS
    <2>3. LineTyped' /\ DepthIsOfText'
        BY <1>1, <1>2, <2>1, <2>2 DEF LineTyped, DepthIsOfText, historyVars
    <2> QED
        BY <1>3, <2>3 DEF TerminalIInv
<1>5. ASSUME NEW ch \in Typeable, HandleTab(ch) PROVE TerminalIInv'
    <2>1. buffer' = BeforeCursor \o <<ch>> \o AfterCursor /\ cursor' = cursor + 1 /\ UNCHANGED depthVars
        BY <1>5 DEF HandleTab
    <2>2. buffer' \in Seq(Letter) /\ cursor' \in 0 .. Len(buffer')
        BY <1>1, <2>1, Inserted
    <2>3. LineTyped' /\ DepthIsOfText'
        BY <1>1, <1>2, <2>1, <2>2 DEF LineTyped, DepthIsOfText, historyVars, depthVars
    <2> QED
        BY <1>3, <2>3 DEF TerminalIInv
<1> QED
    BY <1>4, <1>5

LEMMA EnterKeeps ==
    ASSUME TerminalIInv, Enter
    PROVE  TerminalIInv'
<1> DEFINE code == IF multiLineBuffer = None THEN buffer ELSE multiLineBuffer \o <<Break>> \o buffer
           brace == braceDepth + BraceDepth(buffer)
           paren == parenDepth + ParenDepth(buffer)
<1>1. LineTyped /\ ChecksTyped /\ ChecksInOrder /\ EscapeTyped /\ DepthIsOfText
    BY DEF TerminalIInv
<1>2. /\ Key /\ Len(history) < MaxHistory /\ buffer' = <<>> /\ cursor' = 0 /\ historyIndex' = 0
      /\ promptStatus' = "idle" /\ preCheckTimer' = None /\ Unscheduled /\ UNCHANGED <<savedBuffer, open>>
      /\ IF brace <= 0 /\ paren <= 0 THEN Submitted(code)
         ELSE multiLineBuffer' = code /\ braceDepth' = brace /\ parenDepth' = paren /\ UNCHANGED history
    BY DEF Enter
<1>3. ChecksTyped' /\ ChecksInOrder' /\ EscapeTyped'
    BY <1>1, <1>2, UnscheduledKeeps, KeyTyped
<1>4. buffer \in Seq(Letter) /\ braceDepth \in Int /\ parenDepth \in Int /\ (multiLineBuffer # None => multiLineBuffer \in Seq(Letter))
    BY <1>1 DEF LineTyped
<1>5. BraceDepth(buffer) \in Int /\ ParenDepth(buffer) \in Int
    BY <1>4, BreaksAreNeutral
<1>6. code \in Seq(Letter) /\ BraceDepth(code) = brace /\ ParenDepth(code) = paren
    <2>1. CASE multiLineBuffer = None
        BY <1>1, <1>4, <1>5, <2>1 DEF DepthIsOfText
    <2>2. CASE multiLineBuffer # None
        <3>1. <<Break>> \in Seq(Letter)
            BY DEF Letter
        <3>2. code = multiLineBuffer \o <<Break>> \o buffer /\ code \in Seq(Letter)
            BY <1>4, <2>2, <3>1, ConcatProperties
        <3>3. braceDepth = BraceDepth(multiLineBuffer) /\ parenDepth = ParenDepth(multiLineBuffer)
            BY <1>1, <2>2 DEF DepthIsOfText
        <3> QED
            BY <1>4, <2>2, <3>2, <3>3, BreaksAreNeutral
    <2> QED
        BY <2>1, <2>2
<1>7. brace \in Int /\ paren \in Int /\ code # None
    <2>1. code # None
        <3> HIDE DEF code
        <3> QED
            BY <1>6, TerminalAssumption
    <2> QED
        BY <1>4, <1>5, <2>1
<1> HIDE DEF code, brace, paren
<1>8. <<>> \in Seq(Letter) /\ Len(<<>>) = 0 /\ Len(history) \in Nat /\ MaxHistory \in Nat /\ history \in Seq(Seq(Letter))
    BY <1>1, LenProperties, TerminalBounds DEF LineTyped
<1>9. CASE ~(brace <= 0 /\ paren <= 0)
    <2>1. multiLineBuffer' = code /\ braceDepth' = brace /\ parenDepth' = paren /\ history' = history
        BY <1>2, <1>9
    <2>2. LineTyped'
        BY <1>1, <1>2, <1>6, <1>7, <1>8, <2>1 DEF LineTyped
    <2>3. brace > 0 \/ paren > 0
        BY <1>7, <1>9
    <2>4. DepthIsOfText'
        BY <1>6, <1>7, <2>1, <2>3 DEF DepthIsOfText
    <2> QED
        BY <1>3, <2>2, <2>4 DEF TerminalIInv
<1>10. CASE brace <= 0 /\ paren <= 0
    <2> DEFINE entry == [n \in DOMAIN code |-> IF code[n] = Break THEN Literal ELSE code[n]]
    <2>1. /\ multiLineBuffer' = None /\ braceDepth' = 0 /\ parenDepth' = 0
          /\ history' = history \/ history' = Append(history, entry)
        BY <1>2, <1>10 DEF Submitted
    <2>2. entry \in Seq(Letter)
        <3>1. DOMAIN code = 1 .. Len(code) /\ Len(code) \in Nat /\ \A n \in 1 .. Len(code) : code[n] \in Letter
            BY <1>6, LenProperties, ElementOfSeq
        <3>2. \A n \in 1 .. Len(code) : (IF code[n] = Break THEN Literal ELSE code[n]) \in Letter
            BY <3>1 DEF Letter
        <3> QED
            BY <3>1, <3>2
    <2> HIDE DEF entry
    <2>3. history' \in Seq(Seq(Letter)) /\ Len(history') \in {Len(history), Len(history) + 1}
        <3>1. Append(history, entry) \in Seq(Seq(Letter)) /\ Len(Append(history, entry)) = Len(history) + 1
            BY <1>8, <2>2, AppendProperties
        <3> QED
            BY <1>8, <2>1, <3>1
    <2>4. Len(history') <= MaxHistory /\ 0 \in 0 .. Len(history')
        BY <1>2, <1>8, <2>3
    <2>5. LineTyped'
        BY <1>1, <1>2, <1>8, <2>1, <2>3, <2>4 DEF LineTyped
    <2>6. DepthIsOfText'
        BY <2>1 DEF DepthIsOfText
    <2> QED
        BY <1>3, <2>5, <2>6 DEF TerminalIInv
<1> QED
    BY <1>9, <1>10

\* What a key of the keyboard, or the sequence that stands for it, does to the line.
LEMMA EscapesKeep ==
    ASSUME TerminalIInv, EscapeTyped',
           \/ MoveHome \/ MoveEnd \/ MoveLeft \/ MoveRight \/ DeleteChar \/ HistoryUp \/ HistoryDown
           \/ \E acts \in BOOLEAN : Stays(acts)
    PROVE  TerminalIInv'
<1>1. cursor \in 0 .. Len(buffer) /\ Len(buffer) \in Nat
    BY LineDivided DEF TerminalIInv, LineTyped
<1>2. ASSUME NEW n \in 0 .. Len(buffer), Moved(n) PROVE TerminalIInv'
    BY <1>2, MovingKeeps
<1>3. CASE MoveHome \/ MoveEnd \/ MoveLeft \/ MoveRight
    <2>1. \E n \in 0 .. Len(buffer) : Moved(n)
        BY <1>1, <1>3 DEF MoveHome, MoveEnd, MoveLeft, MoveRight
    <2> QED
        BY <1>2, <2>1
<1>4. CASE \E acts \in BOOLEAN : Stays(acts)
    BY <1>4, StandingKeeps DEF Stays
<1> QED
    BY <1>3, <1>4, DeletingKeeps, HistoryKeeps

LEMMA KeysMoveKeep ==
    ASSUME TerminalIInv, (Key /\ MoveHome) \/ (Key /\ MoveEnd) \/ CtrlD
    PROVE  TerminalIInv'
<1>1. EscapeTyped
    BY DEF TerminalIInv
<1>2. CASE Key /\ (MoveHome \/ MoveEnd)
    <2>1. UNCHANGED open
        BY <1>2 DEF MoveHome, MoveEnd, Moved
    <2>2. EscapeTyped'
        BY <1>1, <1>2, <2>1, KeyTyped
    <2> QED
        BY <1>2, <2>2, EscapesKeep
<1>3. CASE CtrlD
    <2>1. CASE DeleteChar
        <3>1. Key /\ UNCHANGED open
            BY <1>3, <2>1 DEF CtrlD, DeleteChar, Edited
        <3>2. EscapeTyped'
            BY <1>1, <3>1, KeyTyped
        <3> QED
            BY <2>1, <3>2, EscapesKeep
    <2>2. CASE open' = FALSE /\ UNCHANGED <<lineVars, historyVars, depthVars, checkVars>>
        <3>1. EscapeTyped'
            BY <1>1, <1>3, <2>2 DEF CtrlD, Key, EscapeTyped
        <3> QED
            BY <2>2, <3>1, StandingKeeps
    <2> QED
        BY <1>3, <2>1, <2>2 DEF CtrlD
<1> QED
    BY <1>2, <1>3

LEMMA EscapeKeeps ==
    ASSUME TerminalIInv, Escape \/ \E ch \in Keys : InEscape(ch)
    PROVE  TerminalIInv'
<1>1. EscapeTyped
    BY DEF TerminalIInv
<1>2. CASE Escape
    <2>1. escBuffer' = <<>> /\ <<>> \in Seq(Keys \cup {"?"}) /\ Len(<<>>) = 0
          /\ UNCHANGED <<lineVars, historyVars, depthVars, open, checkVars>>
        BY <1>2 DEF Escape
    <2>2. EscapeTyped'
        BY <1>1, <2>1 DEF EscapeTyped
    <2> QED
        BY <2>1, <2>2, StandingKeeps
<1>3. ASSUME NEW ch \in Keys, InEscape(ch) PROVE TerminalIInv'
    <2> DEFINE read == Append(escBuffer, ch)
    <2>1. escBuffer # None /\ escBuffer \in Seq(Keys \cup {"?"}) /\ Len(escBuffer) < 6
        BY <1>1, <1>3 DEF InEscape, EscapeTyped
    <2>2. read \in Seq(Keys \cup {"?"}) /\ Len(read) \in Nat
        BY <2>1, AppendProperties, LenProperties
    <2>3. CASE read \in EscapeSequences /\ escBuffer' = None /\ Does(read)
        <3>1. \/ MoveHome \/ MoveEnd \/ MoveLeft \/ MoveRight \/ DeleteChar \/ HistoryUp \/ HistoryDown
              \/ \E acts \in BOOLEAN : Stays(acts)
            <4> HIDE DEF read
            <4>1. (history # <<>> /\ historyIndex # 1) \in BOOLEAN /\ (historyIndex # 0) \in BOOLEAN
                  /\ (cursor < Len(buffer)) \in BOOLEAN /\ (cursor > 0) \in BOOLEAN
                OBVIOUS
            <4> QED
                BY <2>3, <4>1 DEF EscapeSequences, Does
        <3>2. UNCHANGED open
            BY <3>1 DEF MoveHome, MoveEnd, MoveLeft, MoveRight, Moved, DeleteChar, HistoryUp, HistoryDown, Edited, Stays
        <3>3. EscapeTyped'
            BY <1>1, <2>3, <3>2 DEF EscapeTyped
        <3> QED
            BY <3>1, <3>3, EscapesKeep
    <2>4. CASE /\ escBuffer' = IF Len(read) > 5 THEN None
                               ELSE IF \E s \in EscapeSequences : IsPrefix(read, s) THEN read
                               ELSE [n \in DOMAIN read |-> "?"]
               /\ UNCHANGED <<lineVars, historyVars, depthVars, open, checkVars>>
        <3>1. /\ [n \in DOMAIN read |-> "?"] \in Seq(Keys \cup {"?"})
              /\ Len([n \in DOMAIN read |-> "?"]) = Len(read)
            <4> HIDE DEF read
            <4>1. DOMAIN read = 1 .. Len(read)
                BY <2>2, LenProperties
            <4> QED
                BY <2>2, <4>1
        <3> HIDE DEF read
        <3>2. EscapeTyped'
            BY <1>1, <2>2, <2>4, <3>1 DEF EscapeTyped
        <3> QED
            BY <2>4, <3>2, StandingKeeps
    <2> QED
        BY <1>3, <2>3, <2>4 DEF InEscape
<1> QED
    BY <1>2, <1>3

LEMMA TerminalStarts == TerminalInit => TerminalIInv
<1> SUFFICES ASSUME TerminalInit PROVE TerminalIInv
    OBVIOUS
<1>1. <<>> \in Seq(Letter) /\ <<>> \in Seq(Seq(Letter)) /\ Len(<<>>) = 0
    OBVIOUS
<1>2. LineTyped
    BY <1>1, TerminalBounds DEF TerminalInit, LineTyped
<1>3. EscapeTyped /\ DepthIsOfText
    BY DEF TerminalInit, EscapeTyped, DepthIsOfText
<1>4. ChecksTyped
    <2>1. {} \subseteq [version : 1 .. MaxPreChecks, shown : BOOLEAN]
        OBVIOUS
    <2>2. preCheckVersion \in 0 .. MaxPreChecks /\ preCheckTimer = None
        BY TerminalBounds DEF TerminalInit
    <2>3. promptStatus \in {"idle", "ok", "error"} /\ judged \in BOOLEAN /\ unscheduled \in BOOLEAN /\ preChecks = {}
        BY DEF TerminalInit
    <2> QED
        BY <2>1, <2>2, <2>3 DEF ChecksTyped
<1>5. ChecksInOrder
    BY DEF TerminalInit, ChecksInOrder, VerdictIsOfShown
<1> QED
    BY <1>2, <1>3, <1>4, <1>5 DEF TerminalIInv

LEMMA TerminalSteps == TerminalIInv /\ [TerminalNext]_terminalVars => TerminalIInv'
<1> SUFFICES ASSUME TerminalIInv, [TerminalNext]_terminalVars PROVE TerminalIInv'
    OBVIOUS
<1>1. CASE UNCHANGED terminalVars
    <2>1. UNCHANGED <<lineVars, historyVars, depthVars, checkVars>> /\ UNCHANGED <<escBuffer, open>>
        BY <1>1 DEF terminalVars
    <2>2. EscapeTyped'
        BY <2>1 DEF TerminalIInv, EscapeTyped
    <2> QED
        BY <2>1, <2>2, StandingKeeps
<1>2. CASE TerminalNext
    BY <1>2, EditingKeysKeep, TabAndBreakKeep, KeysMoveKeep, EnterKeeps, EscapeKeeps, CheckingKeeps DEF TerminalNext
<1> QED
    BY <1>1, <1>2

\* Whatever keys come in whatever order: the colour of the prompt is the verdict on
\* what is shown or a newer one is on its way, and the depths are those of the lines
\* that wait for more (terminal.ts).
THEOREM TerminalShowsItsVerdict ==
    TerminalInit /\ [][TerminalNext]_terminalVars => [](TerminalTypeOK /\ VerdictIsOfShown /\ DepthIsOfText)
<1>1. TerminalIInv => TerminalTypeOK /\ VerdictIsOfShown /\ DepthIsOfText
    BY DEF TerminalIInv, LineTyped, ChecksTyped, EscapeTyped, ChecksInOrder, TerminalTypeOK
<1> QED
    BY <1>1, TerminalStarts, TerminalSteps, PTL

----------------------------------------------------------------------------
(* The parts together: each moves as it does alone, or not at all.         *)

LEMMA PartsMoveAlone ==
    /\ ClientsInit => /\ AuditInit /\ CommandLineInit /\ ReplInit /\ TerminalInit
                      /\ BrowserInit /\ ExtensionInit
    /\ [ClientsNext]_<<part, clientVars>> =>
          /\ [AuditNext]_auditVars /\ [PipelineNext]_commandVars /\ [ReplNext]_replVars
          /\ [TerminalNext]_terminalVars /\ [BrowserNext]_browserVars /\ [ExtensionNext]_extensionVars
<1>1. ClientsInit => /\ AuditInit /\ CommandLineInit /\ ReplInit /\ TerminalInit
                     /\ BrowserInit /\ ExtensionInit
    BY DEF ClientsInit
<1>2. [ClientsNext]_<<part, clientVars>> =>
          /\ [AuditNext]_auditVars /\ [PipelineNext]_commandVars /\ [ReplNext]_replVars
          /\ [TerminalNext]_terminalVars /\ [BrowserNext]_browserVars /\ [ExtensionNext]_extensionVars
    BY Zenon DEF ClientsNext, clientVars
<1> QED
    BY <1>1, <1>2

\* Every part of what users see keeps to its types, for any values of the constants.
THEOREM ClientsTyped == ClientsSpec => []ClientsTypeOK
<1>1. AuditTypeOK /\ CommandLineTypeOK /\ ReplTypeOK /\ TerminalTypeOK /\ BrowserTypeOK /\ ExtensionTypeOK
         => ClientsTypeOK
    BY DEF ClientsTypeOK
<1>2. AuditInit /\ [][AuditNext]_auditVars => []AuditTypeOK
    BY TrailTyped DEF AuditSpec
<1> QED
    BY <1>1, <1>2, PartsMoveAlone, PipelinesAreHonest, ReplRunsWhatItChecked, TerminalShowsItsVerdict,
       BrowserShowsAndSaves, EditorLeavesNoSession, PTL DEF ClientsSpec, CommandLineSpec

\* The shells run what was checked and show what they found, for any pipelines, lines,
\* keys and bounds (executor.ts, repl.ts, tui.ts, terminal.ts).
THEOREM ClientsShellIsHonest == ClientsSpec => []ShellIsHonest
<1>1. PipelineIsHonest /\ CwdsTogether /\ VerdictIsOwn /\ LatestBinding /\ VerdictIsOfShown /\ DepthIsOfText
         => ShellIsHonest
    BY DEF ShellIsHonest
<1> QED
    BY <1>1, PartsMoveAlone, PipelinesAreHonest, ReplRunsWhatItChecked, TerminalShowsItsVerdict, PTL
       DEF ClientsSpec, CommandLineSpec

\* The dashboard shows and saves the file that is selected, and the editor leaves no
\* session behind, for any files, writes, restarts and requests in flight.
THEOREM ClientsViewsKeepUp == ClientsSpec => []ViewsKeepUp
<1>1. SaveGoesHome /\ ShowsOwnSaves /\ NoSessionLeft => ViewsKeepUp
    BY DEF ViewsKeepUp
<1> QED
    BY <1>1, PartsMoveAlone, BrowserShowsAndSaves, EditorLeavesNoSession, PTL DEF ClientsSpec

=============================================================================

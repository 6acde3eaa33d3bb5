----------------------------- MODULE MC_Toolbox -----------------------------
(***************************************************************************)
(* Thirteen parts of the wrapper library that do not touch each other,     *)
(* checked in one run: the initial state chooses which of them moves and   *)
(* the others stay as they began.                                          *)
(***************************************************************************)
EXTENDS PluginRegistry, Schedule, DeviceFlow, Capabilities, Wrappers, ProcessRun, DockerHandles,
        LineReader, StreamPipe, Text, AuditStream

VARIABLE part  \* the part that moves

CONSTANTS p1, p2, good, bad, a1, a2, e1

MCGranted == {p1}
MCValid == {good}

MCItem == {"*", "t/*", "t/f", "t/link", "e/f"}
MCMatches ==
  {<<i, "*">> : i \in MCItem} \cup {<<i, "t/*">> : i \in {"t/f", "t/link", "t/*"}}
  \cup {<<i, i>> : i \in {"t/f", "t/link", "e/f"}}
MCRealPath == [i \in MCItem |-> IF i = "t/link" THEN "e/f" ELSE i]
MCRealPattern == [i \in MCItem |-> i]
Cap(kind, items, ports) == [kind |-> kind, items |-> items, ports |-> ports]
MCOffered ==
  {Cap("fs:read", <<i>>, <<>>) : i \in {"t/*", "t/link", "t/f"}}
  \cup {Cap("process:spawn", items, <<>>) : items \in {<<"t/f">>, <<"t/f", "e/f">>}}
  \cup {Cap("net:fetch", <<"t/f">>, ports) : ports \in {<<>>, <<1>>}}

MCStages ==
  LET stage == {"filter", "map", "flatMap", "take", "skip", "unique", "chunk", "scan", "takeWhile", "skipWhile"}
  IN  {<<s>> : s \in stage} \cup {<<s, t>> : s, t \in stage}
MCYieldable == {<<0>>, <<1>>, <<1, 2>>}

ToolboxInit ==
  /\ part \in {"plugins", "schedule", "flow", "contexts", "wrappers", "process", "stream", "port", "lines", "pipe", "csv", "words", "view"}
  /\ Init /\ ScheduleInit /\ FlowInit /\ ContextsInit /\ StreamInit /\ WaitInit
  /\ IF part = "wrappers" THEN CallInit ELSE CallInit /\ name = "kill" /\ granted = {}
  /\ IF part = "process" THEN ProcessInit ELSE ProcessInit /\ caller = "pipe"
  /\ IF part = "lines" THEN ReaderInit ELSE ReaderInit /\ reader = "output"
  /\ IF part = "pipe" THEN PipeInit ELSE PipeInit /\ stages = <<"map">> /\ sink = "first"
  /\ IF part = "csv" THEN CsvInit ELSE CsvInit /\ delimiter = Tab /\ row = [f \in 1 .. Fields |-> <<>>]
  /\ IF part = "words" THEN TypingInit ELSE TypingInit /\ typed = [word |-> <<Letter>>, style |-> "single"]
  /\ IF part = "view" THEN StreamViewInit ELSE StreamViewInit /\ watched = CHOOSE s \in Watchable : TRUE

\* What is not the part's stays.
ToolboxNext ==
  /\ UNCHANGED part
  /\ \/ part = "plugins" /\ Next
        /\ UNCHANGED <<scheduleVars, flowVars, contexts, callVars, processVars, streamVars, waitVars, readerVars, pipeVars, csvVars, typingVars, streamViewVars>>
     \/ part = "schedule" /\ ScheduleNext
        /\ UNCHANGED <<vars, flowVars, contexts, callVars, processVars, streamVars, waitVars, readerVars, pipeVars, csvVars, typingVars, streamViewVars>>
     \/ part = "flow" /\ FlowNext
        /\ UNCHANGED <<vars, scheduleVars, contexts, callVars, processVars, streamVars, waitVars, readerVars, pipeVars, csvVars, typingVars, streamViewVars>>
     \/ part = "contexts" /\ ContextsNext
        /\ UNCHANGED <<vars, scheduleVars, flowVars, callVars, processVars, streamVars, waitVars, readerVars, pipeVars, csvVars, typingVars, streamViewVars>>
     \/ part = "wrappers" /\ CallNext
        /\ UNCHANGED <<vars, scheduleVars, flowVars, contexts, processVars, streamVars, waitVars, readerVars, pipeVars, csvVars, typingVars, streamViewVars>>
     \/ part = "process" /\ ProcessNext
        /\ UNCHANGED <<vars, scheduleVars, flowVars, contexts, callVars, streamVars, waitVars, readerVars, pipeVars, csvVars, typingVars, streamViewVars>>
     \/ part = "stream" /\ StreamNext
        /\ UNCHANGED <<vars, scheduleVars, flowVars, contexts, callVars, processVars, waitVars, readerVars, pipeVars, csvVars, typingVars, streamViewVars>>
     \/ part = "port" /\ WaitNext
        /\ UNCHANGED <<vars, scheduleVars, flowVars, contexts, callVars, processVars, streamVars, readerVars, pipeVars, csvVars, typingVars, streamViewVars>>
     \/ part = "lines" /\ ReaderNext
        /\ UNCHANGED <<vars, scheduleVars, flowVars, contexts, callVars, processVars, streamVars, waitVars, pipeVars, csvVars, typingVars, streamViewVars>>
     \/ part = "pipe" /\ PipeNext
        /\ UNCHANGED <<vars, scheduleVars, flowVars, contexts, callVars, processVars, streamVars, waitVars, readerVars, csvVars, typingVars, streamViewVars>>
     \/ part = "csv" /\ CsvNext
        /\ UNCHANGED <<vars, scheduleVars, flowVars, contexts, callVars, processVars, streamVars, waitVars, readerVars, pipeVars, typingVars, streamViewVars>>
     \/ part = "words" /\ ParsesLine
        /\ UNCHANGED <<vars, scheduleVars, flowVars, contexts, callVars, processVars, streamVars, waitVars, readerVars, pipeVars, csvVars, streamViewVars>>
     \/ part = "view" /\ StreamViewNext
        /\ UNCHANGED <<vars, scheduleVars, flowVars, contexts, callVars, processVars, streamVars, waitVars, readerVars, pipeVars, csvVars, typingVars>>

toolboxVars == <<part, vars, scheduleVars, flowVars, contexts, callVars, processVars, streamVars, waitVars, readerVars, pipeVars, csvVars, typingVars, streamViewVars>>

\* The fairness of the parts that have some.
ToolboxFairness ==
  /\ WF_scheduleVars(part = "schedule" /\ TimePasses)
  /\ WF_scheduleVars(part = "schedule" /\ DebounceRuns)
  /\ WF_scheduleVars(part = "schedule" /\ NextAttempt)
  /\ WF_scheduleVars(part = "schedule" /\ (AttemptReturns \/ AttemptFails))
  /\ WF_flowVars(part = "flow" /\ FlowAnswers)
  /\ WF_flowVars(part = "flow" /\ FlowWaits)
  /\ WF_flowVars(part = "flow" /\ FlowTick)
  /\ WF_processVars(part = "process" /\ TimerFires)
  /\ WF_processVars(part = "process" /\ OutputEnds)
  /\ WF_processVars(part = "process" /\ ProcessReturns)
  /\ WF_streamVars(part = "stream" /\ \E c \in Caller : KillEnds(c))
  /\ WF_streamVars(part = "stream" /\ PollEnds)
  /\ WF_waitVars(part = "port" /\ Connects)
  /\ WF_waitVars(part = "port" /\ PauseEnds)
  /\ WF_waitVars(part = "port" /\ WaitTick)
  /\ WF_streamViewVars(part = "view" /\ \E c \in connections : OnOpen(c))
  /\ WF_streamViewVars(part = "view" /\ \E c \in connections : OnError(c))
  /\ WF_streamViewVars(part = "view" /\ RetryFires)

ToolboxSpec == ToolboxInit /\ [][ToolboxNext]_toolboxVars /\ ToolboxFairness
-----------------------------------------------------------------------------
\* Every part keeps to its types.
ToolboxTypeOK ==
  /\ TypeOK /\ ScheduleTypeOK /\ FlowTypeOK /\ ContextsTypeOK /\ ProcessTypeOK /\ StreamTypeOK
  /\ WaitTypeOK /\ ReaderTypeOK /\ PipeTypeOK /\ CsvTypeOK /\ TypingTypeOK /\ StreamViewTypeOK


\* Text comes out as it went in: lines of a reader, rows of a table, words of a
\* command line.
TextArrives == LinesAreWhole /\ CsvRoundTrip /\ WordsArrive

\* So do the items of a pipe; a success of a command is its own, an open port is
\* found.
DataArrives == PipeDelivers /\ SuccessIsItsOwn /\ FoundUnlessLate

\* Nothing is left over where nobody would see it: no second timer, no container, no
\* second connection to /events.
NothingLeftOver == OneTimerUnlessReentrant /\ NothingLeftBehind /\ OneStream

\* What has begun ends: a debounced call runs, a retry settles, a flow ends, a
\* command with a timeout is told to end and one that has ended is returned from, a
\* container's cleanup and a wait for a port end if docker's commands do, and a
\* dashboard that lost its stream has it again (it begins without one, so this
\* is asked only where it moves).
WorkEnds ==
  /\ LastCallRuns /\ RetrySettles /\ FlowEnds /\ SpawnReturns /\ KillEnding /\ WaitEnds
  /\ part = "view" => StreamRecovers
=============================================================================

---------------------------- MODULE CommandLine ----------------------------
(***************************************************************************)
(* Command lines of the shell: how the commands that parsePipeline() makes *)
(* of a line (see Text) are executed (src/repl/executor.ts): the first is  *)
(* a command, the others are operators on its data.  Of data only its kind *)
(* and the number of its items are kept, and of a path that it is one.     *)
(***************************************************************************)
EXTENDS Naturals, SequencesExt, Nothing

CONSTANTS
  MaxListed,  \* bound: items of an array
  Pipelines,  \* the pipelines that are executed: sequences of commands
  Folder      \* the directories there are

ASSUME CommandLineAssumption ==
  /\ MaxListed \in Nat
  /\ None \notin {"data", "text", "error", "threw", "exit", "quit", "clear", "done", "failed", "refused"}
  /\ \A p \in Pipelines :
       /\ Len(p) \in Nat \ {0}
       /\ \A n \in 1 .. Len(p) : p[n].name \in {"take", "skip"} /\ p[n].args # <<>> => p[n].args[1] \in Nat

VARIABLES
  pipeline,    \* the commands that are executed
  stageAt,     \* how many of them have been
  data,        \* what the last of them made
  effects,     \* what they have changed: names of commands
  answer,      \* None, or how the pipeline has ended
  shellCwd, processCwd,  \* state.cwd and the working directory of the process
  lastCd       \* how the last cd has ended

commandVars == <<pipeline, stageAt, data, effects, answer, shellCwd, processCwd, lastCd>>

-----------------------------------------------------------------------------
(* What the commands need and give, in the order of the switch.            *)

Cmd(needs, gives) == [needs |-> needs, gives |-> gives, changes |-> FALSE]
Changing(needs, gives) == [needs |-> needs, gives |-> gives, changes |-> TRUE]

ShellCommands ==
  [pwd |-> Cmd(0, "text"), caps |-> Cmd(0, "array"), audit |-> Cmd(0, "array"), help |-> Cmd(0, "text")]
FileCommands ==
  [ls |-> Cmd(0, "array"), cat |-> Cmd(1, "text"), stat |-> Cmd(1, "value"), exists |-> Cmd(1, "value"),
   find |-> Cmd(2, "array"), du |-> Cmd(0, "value"), mkdir |-> Changing(1, "text"),
   write |-> Changing(2, "value"), rm |-> Changing(1, "text"), cp |-> Changing(2, "text"),
   mv |-> Changing(2, "text")]
TextCommands ==
  [grep |-> Cmd(2, "array"), head |-> Cmd(1, "text"), tail |-> Cmd(1, "text"), wc |-> Cmd(1, "value")]
OtherCommands ==
  [ps |-> Cmd(0, "array"), kill |-> Changing(1, "text"), exec |-> Changing(1, "value"),
   run |-> Changing(1, "value"), fetch |-> Changing(1, "value"), ping |-> Cmd(1, "value"),
   env |-> Cmd(0, "array"), getenv |-> Cmd(1, "text"), setenv |-> Changing(2, "text"),
   uname |-> Cmd(0, "value"), uptime |-> Cmd(0, "text"), whoami |-> Cmd(0, "text"),
   hostname |-> Cmd(0, "text"), df |-> Cmd(0, "array")]
Groups == {ShellCommands, FileCommands, TextCommands, OtherCommands}
Primary ==
  [name \in UNION {DOMAIN group : group \in Groups} |-> (CHOOSE group \in Groups : name \in DOMAIN group)[name]]

\* The commands of the category "pipe".
PipeOperators ==
  {"filter", "sortby", "take", "skip", "count", "pluck", "uniq", "first", "last", "tojson"}

-----------------------------------------------------------------------------
(* The operators.                                                          *)

IsArray(d) == d.kind = "array"
Array(n) == [kind |-> "array", items |-> n]
Text1(n) == [kind |-> "text", items |-> n]  \* with n lines
Value == [kind |-> "value", items |-> 0]

Least(m, n) == IF m < n THEN m ELSE n

Comparisons == <<<<"=">>, <<"!", "=">>, <<">">>, <<"<">>, <<">", "=">>, <<"<", "=">>, <<"~">>>>

\* The alternatives of the regular expression are tried in their order: what is left
\* of "size>=5" after ">" is "=5", which no number is greater than.
Compared(written) ==
  LET fits == {n \in DOMAIN Comparisons : IsPrefix(Comparisons[n], written)}
  IN  Comparisons[Min(fits)]

FilterKeeps(written, n) == IF Compared(written) = written THEN 0 .. n ELSE {0}

\* What an operator may make of an array of n items.
OfArray(cmd, n) ==
  LET arg == cmd.args
  IN  CASE cmd.name = "filter" -> {Array(k) : k \in IF arg = <<>> THEN {n} ELSE FilterKeeps(arg[1], n)}
        [] cmd.name \in {"sortby", "pluck"} -> {Array(n)}
        [] cmd.name = "take" -> {Array(IF arg = <<>> THEN n ELSE Least(arg[1], n))}
        [] cmd.name = "skip" -> {Array(IF arg = <<>> THEN n ELSE n - Least(arg[1], n))}
        [] cmd.name = "uniq" -> {Array(k) : k \in Least(1, n) .. n}
        [] cmd.name \in {"first", "last"} -> {Value}

\* Of other data; most leave it as it is.
Applied(cmd, d) ==
  CASE cmd.name = "count" -> {Value}
    [] cmd.name = "tojson" -> {Text1(1)}
    [] OTHER -> IF IsArray(d) THEN OfArray(cmd, d.items) ELSE {d}

-----------------------------------------------------------------------------
CommandLineInit ==
  /\ pipeline \in Pipelines /\ stageAt = 0 /\ data = None /\ effects = {} /\ answer = None
  /\ shellCwd \in Folder /\ processCwd = shellCwd /\ lastCd = None

Ends(how) == answer' = how /\ UNCHANGED pipeline

First == pipeline[1]
Starts == answer = None /\ stageAt = 0

Exits ==
  /\ Starts /\ First.name \in {"exit", "quit", "clear"} /\ Ends(First.name)
  /\ UNCHANGED <<stageAt, data, effects, shellCwd, processCwd, lastCd>>

\* An unknown command, an operator in the first place, an argument too few, or help
\* that is asked about a command there is not.
Refused ==
  /\ Starts /\ First.name \notin {"exit", "quit", "clear", "cd"}
  /\ First.name \in DOMAIN Primary =>
       Len(First.args) < Primary[First.name].needs \/ (First.name = "help" /\ First.args # <<>>)
  /\ Ends("error")
  /\ UNCHANGED <<stageAt, data, effects, shellCwd, processCwd, lastCd>>

Runs == Starts /\ First.name \in DOMAIN Primary /\ Len(First.args) >= Primary[First.name].needs

Given(kind) ==
  CASE kind = "array" -> {Array(n) : n \in 0 .. MaxListed}
    [] kind = "text" -> {Text1(n) : n \in 1 .. 2}
    [] kind = "value" -> {Value}

RunsFirst ==
  /\ Runs /\ stageAt' = 1 /\ data' \in Given(Primary[First.name].gives)
  /\ effects' = IF Primary[First.name].changes THEN effects \cup {First.name} ELSE effects
  /\ UNCHANGED <<pipeline, answer, shellCwd, processCwd, lastCd>>

\* The wrapper throws, before its effect or after it: so does executePipeline().
FirstThrows ==
  /\ Runs /\ Ends("threw")
  /\ effects' \in {effects, IF Primary[First.name].changes THEN effects \cup {First.name} ELSE effects}
  /\ UNCHANGED <<stageAt, data, shellCwd, processCwd, lastCd>>

\* cd: what is no directory is refused; chdir() follows setCwd() and may still throw.
ChangesDirectory(d) ==
  /\ shellCwd' = d
  /\ \/ processCwd' = d /\ lastCd' = "done" /\ stageAt' = 1 /\ data' = Text1(1) /\ UNCHANGED answer
     \/ processCwd' = processCwd /\ lastCd' = "failed" /\ answer' = "error" /\ UNCHANGED <<stageAt, data>>

Cd ==
  /\ Starts /\ First.name = "cd"
  /\ \/ \E d \in Folder : ChangesDirectory(d)
     \/ lastCd' = "refused" /\ answer' = "error" /\ UNCHANGED <<shellCwd, processCwd, stageAt, data>>
  /\ UNCHANGED <<pipeline, effects>>

\* The category is looked at before the command that would write a file.
Role(cmd) ==
  IF cmd.name \in PipeOperators THEN "operator"
  ELSE IF cmd.name = "tojson" /\ cmd.args # <<>> THEN "writer" ELSE "none"

Stage1 == pipeline[stageAt + 1]
Piping == answer = None /\ stageAt > 0 /\ stageAt < Len(pipeline)

Pipes ==
  /\ Piping /\ Role(Stage1) = "operator"
  /\ data' \in Applied(Stage1, data) /\ stageAt' = stageAt + 1
  /\ UNCHANGED <<pipeline, effects, answer, shellCwd, processCwd, lastCd>>

CannotPipe ==
  /\ Piping /\ Role(Stage1) # "operator"
  /\ effects' = IF Role(Stage1) = "writer" THEN effects \cup {"tojson"} ELSE effects
  /\ Ends(IF Role(Stage1) = "writer" THEN "text" ELSE "error")
  /\ UNCHANGED <<stageAt, data, shellCwd, processCwd, lastCd>>

Gives ==
  /\ answer = None /\ stageAt = Len(pipeline) /\ Ends("data")
  /\ UNCHANGED <<stageAt, data, effects, shellCwd, processCwd, lastCd>>

\* The next line of the same shell.
NextPipeline(p) ==
  /\ answer \notin {None, "exit", "quit"} /\ pipeline' = p /\ stageAt' = 0 /\ data' = None
  /\ effects' = {} /\ answer' = None
  /\ UNCHANGED <<shellCwd, processCwd, lastCd>>

PipelineNext ==
  Exits \/ Refused \/ RunsFirst \/ FirstThrows \/ Cd \/ Pipes \/ CannotPipe \/ Gives
  \/ \E p \in Pipelines : NextPipeline(p)

CommandLineSpec == CommandLineInit /\ [][PipelineNext]_commandVars
-----------------------------------------------------------------------------
CommandLineTypeOK ==
  /\ pipeline \in Pipelines /\ stageAt \in 0 .. Len(pipeline)
  /\ data = None \/ data.items \in 0 .. MaxListed \cup {1, 2}
  /\ effects \subseteq DOMAIN Primary \cup {"tojson"}
  /\ answer \in {None, "data", "text", "error", "threw", "exit", "quit", "clear"}
  /\ {shellCwd, processCwd} \subseteq Folder /\ lastCd \in {None, "done", "failed", "refused"}

\* The help of tojson promises a file, and the code has a place that writes it.
PromisesFile == \E n \in 2 .. Len(pipeline) : pipeline[n].name = "tojson" /\ pipeline[n].args # <<>>

\* A pipeline changes things with its first command only, so nothing at all when that
\* is refused, although it may then fail at a later stage; nothing is said of a file
\* that tojson promises (it is never written). Data comes only of pipelines whose
\* other commands are operators.
PipelineIsHonest ==
  /\ \A name \in effects :
       \/ name = First.name /\ Len(First.args) >= Primary[name].needs
       \/ name = "tojson" /\ PromisesFile
  /\ answer = "data" => \A n \in 2 .. Len(pipeline) : pipeline[n].name \in PipeOperators

\* The shell and the process are in the same directory when a cd has answered with
\* one: they part when chdir() throws after setCwd(), which answers with an error.
CwdsTogether == lastCd \in {None, "done"} => shellCwd = processCwd
=============================================================================

----------------------------- MODULE ProcessRun -----------------------------
(***************************************************************************)
(* Running a command and collecting its output: spawn() and exec()         *)
(* (src/wrappers/process.ts), runDocker() (src/wrappers/docker.ts) and,    *)
(* without a timer, pipeSpawn() (src/wrappers/stream.ts).  The output ends *)
(* when nobody holds its pipes: not the command, and nobody it left them   *)
(* to.  A command may ignore the signal of the timer, which is sent once,  *)
(* and whoever it left its pipes to may keep them: then the call waits on. *)
(***************************************************************************)
EXTENDS Nothing

ASSUME ResultAssumption == None \notin {"output", "exit", "success", "failure", "timeout"}

VARIABLES
  caller,   \* "spawn", "exec", "docker", "pipe"
  command,  \* "running", "zero", "other": how it exited; "killed"
  holders,  \* who holds the pipes of the output: the command, an heir of it
  signalled,\* the command has been sent the signal
  limit,    \* the timer: "none", "armed", "fired", "cleared"
  waiting,  \* what the call waits for: "output", "exit", None
  result    \* "success", "failure", "timeout" (exit code 124, or the error of runDocker)

processVars == <<caller, command, holders, signalled, limit, waiting, result>>

\* The command has been started, with a timer if there is a timeout.
ProcessInit ==
  /\ caller \in {"spawn", "exec", "docker", "pipe"}
  /\ limit \in IF caller = "docker" THEN {"armed"}
               ELSE IF caller = "spawn" THEN {"armed", "none"} ELSE {"none"}
  /\ command = "running" /\ holders = {"command"} /\ signalled = FALSE
  /\ waiting = "output" /\ result = None

CommandForks ==
  /\ "command" \in holders /\ holders' = holders \cup {"heir"}
  /\ UNCHANGED <<caller, command, signalled, limit, waiting, result>>

HeirEnds ==
  /\ "heir" \in holders /\ holders' = holders \ {"heir"}
  /\ UNCHANGED <<caller, command, signalled, limit, waiting, result>>

\* It may go on without its output.
CommandCloses ==
  /\ holders' = holders \ {"command"}
  /\ UNCHANGED <<caller, command, signalled, limit, waiting, result>>

CommandExits(how) ==
  /\ command = "running" /\ command' = how /\ holders' = holders \ {"command"}
  /\ UNCHANGED <<caller, signalled, limit, waiting, result>>

\* It dies of the signal, unless it handles or ignores it.
CommandDies == signalled /\ CommandExits("killed")

\* timedOut is set whether or not the command is still there to be killed.
TimerFires ==
  /\ limit = "armed" /\ limit' = "fired" /\ signalled' = (command = "running")
  /\ UNCHANGED <<caller, command, holders, waiting, result>>

OutputEnds ==
  /\ waiting = "output" /\ holders = {} /\ waiting' = "exit"
  /\ UNCHANGED <<caller, command, holders, signalled, limit, result>>

\* The exit code is known: the timer is cleared and the result made.
ProcessReturns ==
  /\ waiting = "exit" /\ command # "running" /\ waiting' = None
  /\ limit' = IF limit = "armed" THEN "cleared" ELSE limit
  /\ result' = CASE limit = "fired" -> "timeout"
                 [] limit # "fired" /\ command = "zero" -> "success"
                 [] OTHER -> "failure"
  /\ UNCHANGED <<caller, command, holders, signalled>>

ProcessNext ==
  \/ CommandForks \/ HeirEnds \/ CommandCloses \/ CommandExits("zero") \/ CommandExits("other") \/ CommandDies
  \/ TimerFires \/ OutputEnds \/ ProcessReturns

\* Timers fire and what has happened is noticed. Of the command nothing is assumed,
\* not that it obeys the signal: there is no second one.
ProcessFairness ==
  WF_processVars(TimerFires) /\ WF_processVars(OutputEnds) /\ WF_processVars(ProcessReturns)

ProcessSpec == ProcessInit /\ [][ProcessNext]_processVars /\ ProcessFairness
-----------------------------------------------------------------------------
ProcessTypeOK ==
  /\ caller \in {"spawn", "exec", "docker", "pipe"} /\ command \in {"running", "zero", "other", "killed"}
  /\ holders \subseteq {"command", "heir"} /\ signalled \in BOOLEAN /\ limit \in {"none", "armed", "fired", "cleared"}
  /\ waiting \in {"output", "exit", None} /\ result \in {"success", "failure", "timeout", None}

\* A success is the command's own: it exited with 0, all of its output was read,
\* and nobody had told it to end (one that handles the signal may exit with 0 too).
SuccessIsItsOwn == result = "success" => command = "zero" /\ holders = {} /\ ~signalled

\* A command with a timeout is told to end unless it has ended. The call returns
\* when the command has ended and nobody holds its pipes, timeout or not: if that
\* never comes the call never returns, and no timeout helps.
SpawnReturns ==
  /\ limit = "armed" ~> signalled \/ command # "running"
  /\ (command # "running" /\ holders = {}) ~> result # None
=============================================================================

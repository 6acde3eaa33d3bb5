---------------------------- MODULE DockerHandles ----------------------------
(***************************************************************************)
(* What the handles of containers do (src/wrappers/docker.ts).             *)
(*                                                                         *)
(* dockerRunStreaming(): a container whose output is iterated while it     *)
(* runs.  Docker makes the container, and writes its id to a file in a     *)
(* temporary directory, when it has the image; the call waits ten seconds  *)
(* for that.  The consumer may iterate, stop, and call kill(); both lead   *)
(* to killContainer(), which lets the first one in.                        *)
(*                                                                         *)
(* waitForPort() of a container in the background (createDaemonHandle):    *)
(* connect, look at the container, wait, until it is time.  Time is what   *)
(* is left of it.                                                          *)
(***************************************************************************)
EXTENDS Naturals, Nothing

CONSTANTS
  Killer,    \* those that may call kill(), besides the iterator's finally
  Iterator   \* that finally

ASSUME KillersAssumption == Iterator \notin Killer

VARIABLES
  stream,     \* "new", "polling", "made", "iterating", "over"; "thrown"
  client,     \* the docker command: "none", "running", "ended"
  container,  \* "none", "running", "exited", "removed"
  cid,        \* the handle has the container's id
  directory,  \* the temporary directory is there
  killed,     \* the flag of that name
  killing,    \* who is inside killContainer, and where: "kill", "rm", "directory"
  answered,   \* those whose call has returned
  failing     \* (history) what could not be removed: "container", "directory"

streamVars == <<stream, client, container, cid, directory, killed, killing, answered, failing>>

Caller == Killer \cup {Iterator}

StreamInit ==
  /\ stream = "new" /\ client = "none" /\ container = "none" /\ cid = FALSE /\ directory = FALSE
  /\ killed = FALSE /\ killing = [c \in Caller |-> "out"] /\ answered = {} /\ failing = {}

-----------------------------------------------------------------------------
(* Docker.                                                                 *)

\* The image is there, perhaps after a long pull: the container runs and its id
\* is written.
DockerCreates ==
  /\ client = "running" /\ container = "none" /\ container' = "running"
  /\ UNCHANGED <<stream, client, cid, directory, killed, killing, answered, failing>>

\* There is no such image.
DockerRefuses ==
  /\ client = "running" /\ container = "none" /\ client' = "ended"
  /\ UNCHANGED <<stream, container, cid, directory, killed, killing, answered, failing>>

ContainerExits ==
  /\ container = "running" /\ container' = "exited" /\ client' = "ended"
  /\ UNCHANGED <<stream, cid, directory, killed, killing, answered, failing>>

-----------------------------------------------------------------------------
(* The call.                                                               *)

StreamStart ==
  /\ stream = "new" /\ directory' = TRUE
  /\ \/ stream' = "polling" /\ client' = "running"
     \/ stream' = "thrown" /\ UNCHANGED client  \* there is no docker: the directory stays
  /\ UNCHANGED <<container, cid, killed, killing, answered, failing>>

\* The id's file is read, or ten seconds are over.
PollEnds ==
  /\ stream = "polling" /\ stream' = "made" /\ cid' \in {FALSE, container # "none"}
  /\ UNCHANGED <<client, container, directory, killed, killing, answered, failing>>

IterationBegins ==
  /\ stream = "made" /\ stream' = "iterating"
  /\ UNCHANGED <<client, container, cid, directory, killed, killing, answered, failing>>

\* killContainer: for all but the first that is all; docker's command is killed.
Entered(c) ==
  IF killed THEN answered' = answered \cup {c} /\ UNCHANGED <<killed, killing, client>>
  ELSE /\ killed' = TRUE /\ client' = "ended"
       /\ killing' = [killing EXCEPT ![c] = IF cid THEN "kill" ELSE "directory"]
       /\ UNCHANGED answered

\* The output has ended, or the consumer has left the loop.
IterationEnds ==
  /\ stream = "iterating" /\ stream' = "over" /\ Entered(Iterator)
  /\ UNCHANGED <<container, cid, directory, failing>>

KillCalled(c) ==
  /\ stream \in {"made", "iterating", "over"} /\ killing[c] = "out" /\ c \notin answered
  /\ Entered(c)
  /\ UNCHANGED <<stream, container, cid, directory, failing>>

\* docker kill; an error, as that the container has exited, is swallowed.
DockerKill(c) ==
  /\ killing[c] = "kill" /\ killing' = [killing EXCEPT ![c] = "rm"]
  /\ container' \in {container, IF container = "running" THEN "exited" ELSE container}
  /\ UNCHANGED <<stream, client, cid, directory, killed, answered, failing>>

BugDockerRm(c) ==
  /\ killing[c] = "rm" /\ killing' = [killing EXCEPT ![c] = "directory"]
  /\ \/ container' = (IF container = "exited" THEN "removed" ELSE container) /\ UNCHANGED failing
     \/ failing' = failing \cup {"container"} /\ UNCHANGED container
  /\ UNCHANGED <<stream, client, cid, directory, killed, answered>>

\* docker rm -f, which also removes a container that runs; an error is swallowed.
DockerRm(c) ==
  /\ killing[c] = "rm" /\ killing' = [killing EXCEPT ![c] = "directory"]
  /\ \/ container' = "removed" /\ UNCHANGED failing
     \/ failing' = failing \cup {"container"} /\ UNCHANGED container
  /\ UNCHANGED <<stream, client, cid, directory, killed, answered>>

\* An error of the removal is swallowed.
KillEnds(c) ==
  /\ killing[c] = "directory" /\ killing' = [killing EXCEPT ![c] = "out"]
  /\ \/ directory' = FALSE /\ UNCHANGED failing
     \/ failing' = failing \cup {"directory"} /\ UNCHANGED directory
  /\ answered' = answered \cup {c}
  /\ UNCHANGED <<stream, client, container, cid, killed>>

KillGoesOn == \E c \in Caller : DockerKill(c) \/ DockerRm(c) \/ KillEnds(c)

StreamNext ==
  \/ DockerCreates \/ DockerRefuses \/ ContainerExits
  \/ StreamStart \/ PollEnds \/ IterationBegins \/ IterationEnds
  \/ KillGoesOn \/ \E c \in Killer : KillCalled(c)

\* A removal of files ends, and so do ten seconds; docker's commands have a timer,
\* but may ignore its signal.
StreamFairness == WF_streamVars(\E c \in Caller : KillEnds(c)) /\ WF_streamVars(PollEnds)

StreamSpec == StreamInit /\ [][StreamNext]_streamVars /\ StreamFairness
-----------------------------------------------------------------------------
StreamTypeOK ==
  /\ stream \in {"new", "polling", "made", "iterating", "over", "thrown"}
  /\ client \in {"none", "running", "ended"} /\ container \in {"none", "running", "exited", "removed"}
  /\ {cid, directory, killed} \subseteq BOOLEAN /\ failing \subseteq {"container", "directory"} /\ answered \subseteq Caller
  /\ killing \in [Caller -> {"out", "kill", "rm", "directory"}]

\* When iterating is over, or somebody's kill(), and nobody is still at it, the
\* directory is gone and so is the container, but for what could not be removed (no
\* error says so), and a container that was made after the ten seconds, when its id
\* was no longer read.
NothingLeftBehind ==
  answered # {} /\ (\A c \in Caller : killing[c] = "out") =>
    /\ ~directory \/ "directory" \in failing
    /\ container \in {"none", "removed"} \/ "container" \in failing \/ ~cid

\* A kill() that was called leads to that, once, if docker's commands end.
KillEnding ==
  []<>(\A c \in Caller : killing[c] \notin {"kill", "rm"}) =>
    (killed ~> \A c \in Caller : killing[c] = "out")

-----------------------------------------------------------------------------
(* Waiting for a port.                                                     *)

CONSTANTS Patience, Pause  \* timeout and interval

ASSUME WaitAssumption == {Patience, Pause} \subseteq Nat /\ None \notin Nat

VARIABLES
  turn,     \* "new", "connect", "status", "pausing"; "true", "false", "thrown"
  patience, \* until the deadline
  pausing,  \* of a pause
  port,     \* for how long the port has been open, up to Pause + 1; None
  alive     \* the container runs

waitVars == <<turn, patience, pausing, port, alive>>

LoopTurn(time) == IF time > 0 THEN "connect" ELSE "false"

WaitInit ==
  /\ patience = Patience /\ turn = "new" /\ pausing = 0 /\ port = None /\ alive = TRUE

WaitStart == turn = "new" /\ turn' = LoopTurn(patience) /\ UNCHANGED <<patience, pausing, port, alive>>

PortOpens == alive /\ port = None /\ port' = 0 /\ UNCHANGED <<turn, patience, pausing, alive>>
DaemonExits == alive /\ alive' = FALSE /\ port' = None /\ UNCHANGED <<turn, patience, pausing>>

\* What it takes to connect and to ask for the status is short beside the interval.
Connects ==
  /\ turn = "connect" /\ turn' = IF port # None THEN "true" ELSE "status"
  /\ UNCHANGED <<patience, pausing, port, alive>>

StatusAnswers ==
  /\ turn = "status"
  /\ IF alive THEN turn' = "pausing" /\ pausing' = Pause ELSE turn' = "false" /\ UNCHANGED pausing
  /\ UNCHANGED <<patience, port, alive>>

\* The docker command may take longer than its time.
StatusThrows == turn = "status" /\ turn' = "thrown" /\ UNCHANGED <<patience, pausing, port, alive>>

BugPauseEnds ==
  /\ turn = "pausing" /\ pausing = 0 /\ turn' = "connect"
  /\ UNCHANGED <<patience, pausing, port, alive>>

PauseEnds ==
  /\ turn = "pausing" /\ pausing = 0 /\ turn' = LoopTurn(patience)
  /\ UNCHANGED <<patience, pausing, port, alive>>

WaitTick ==
  /\ turn = "pausing" /\ pausing > 0
  /\ pausing' = pausing - 1 /\ patience' = IF patience = 0 THEN 0 ELSE patience - 1
  /\ port' = IF port \in {None, Pause + 1} THEN port ELSE port + 1
  /\ UNCHANGED <<turn, alive>>

WaitNext ==
  \/ PortOpens \/ DaemonExits \/ WaitStart \/ Connects \/ StatusAnswers \/ StatusThrows \/ PauseEnds \/ WaitTick

\* Time passes, for the system's connect too; docker need not answer.
WaitFairness == WF_waitVars(Connects) /\ WF_waitVars(PauseEnds) /\ WF_waitVars(WaitTick)

WaitSpec == WaitInit /\ [][WaitNext]_waitVars /\ WaitFairness

WaitTypeOK ==
  /\ turn \in {"new", "connect", "status", "pausing", "true", "false", "thrown"}
  /\ patience \in 0 .. Patience /\ pausing \in 0 .. Pause /\ port \in (0 .. Pause + 1) \cup {None}
  /\ alive \in BOOLEAN

\* false of a container that runs: its port opened in the last pause, if at all.
FoundUnlessLate == turn = "false" /\ alive => port \in {None} \cup (0 .. Pause)

\* A wait for a port that never opens, of a container that runs on, ends, if docker
\* always answers: the deadline is looked at between its answers only.
WaitEnds ==
  []<>(turn # "status") => (turn = "connect" ~> turn \in {"true", "false", "thrown"})
=============================================================================

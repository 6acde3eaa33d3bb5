------------------------------ MODULE Wrappers ------------------------------
(***************************************************************************)
(* What the wrapper functions (src/wrappers) do in their context's name:   *)
(* each is the set of the scripts that one call of it may follow, and a    *)
(* script the sequence of its demands, audit entries and effects.  Things  *)
(* are named by the part they have in the call.  Parsing, formatting and   *)
(* command lines are left out, and functions that touch neither context    *)
(* nor world (text, crypto, data).                                         *)
(*                                                                         *)
(* A call goes through one of its scripts, in a context that was granted   *)
(* some of what the script asks for; an effect may fail, and an error ends *)
(* the call but for what a finally does.  Contexts do not change, and      *)
(* calls meet in the audit trail only, whose module has their              *)
(* interleavings: here is one call.                                        *)
(***************************************************************************)
EXTENDS Naturals, Sequences, TLC

Demand(kind, thing) == [step |-> "demand", need |-> <<kind, thing>>]
\* A demand or check whose denial is no error: the next skipped steps are left out.
Tried(kind, thing, skipped) == [step |-> "tried", need |-> <<kind, thing>>, skipped |-> skipped]
Log(kind) == [step |-> "log", kind |-> kind]
Act(kind, thing) == [step |-> "act", need |-> <<kind, thing>>]
\* An effect whose failure is caught.
Attempt(kind, thing) == [step |-> "attempt", need |-> <<kind, thing>>]
\* Something is opened, or is open; cleanup is what the finally around the rest does.
Open(thing, cleanup) == [step |-> "open", thing |-> thing, cleanup |-> cleanup]
Close(thing) == [step |-> "close", thing |-> thing]
Return == [step |-> "return"]

\* The shape of most wrappers: a demand, an entry, and then the effect.
Asked(kind, thing) == <<Demand(kind, thing), Log(kind), Act(kind, thing)>>

\* A stat before the entry, whose errors are caught.
Look(thing) == Attempt("stat", thing)

ReadsPath == Asked("fs:read", "path")
WritesPath == Asked("fs:write", "path")
Spawns(binary) == Asked("process:spawn", binary)

-----------------------------------------------------------------------------
(* fs.ts                                                                   *)

\* Every entry of a directory is checked; one that is not allowed is left out.
Walk == <<Tried("fs:read", "entry", 1), Attempt("fs:read", "entry")>>

FsReading ==
  [ls |-> {ReadsPath, ReadsPath \o Walk}, cat |-> {ReadsPath}, stat |-> {ReadsPath},
   exists |-> {<<Demand("fs:read", "path"), Log("fs:read"), Attempt("fs:read", "path")>>}]

FsWriting ==
  [mkdir |-> {WritesPath}, write |-> {WritesPath}, readJson |-> {ReadsPath}, writeJson |-> {WritesPath},
   rm |-> {Asked("fs:delete", "path"),
           <<Demand("fs:delete", "path"), Demand("fs:delete", "below path"), Log("fs:delete"),
             Act("fs:delete", "path"), Act("fs:delete", "below path")>>}]

CopyDemands == <<Demand("fs:read", "source"), Demand("fs:write", "dest")>>
Copies ==
  <<Log("fs:read"), Log("fs:write"), Act("fs:read", "source"), Act("fs:write", "dest")>>

\* The demands for what is below a directory stand in the try around its stat:
\* one that is denied is caught with the errors of that.
FsCopyAndFind ==
  [cp |-> {CopyDemands \o <<Look("source")>> \o Copies,
           CopyDemands
           \o <<Look("source"), Tried("fs:read", "below source", 1), Tried("fs:write", "below dest", 0)>>
           \o Copies \o <<Act("fs:read", "below source"), Act("fs:write", "below dest")>>},
   mv |-> {CopyDemands \o <<Demand("fs:delete", "source"), Log("fs:write"),
             Act("fs:write", "dest"), Act("fs:delete", "source")>>},
   find |-> {ReadsPath, ReadsPath \o Walk}, du |-> {ReadsPath, ReadsPath \o Walk}]

\* touch writes a file whose times cannot be set.
FsChanging ==
  [chmod |-> {WritesPath},
   createSymlink |-> {<<Demand("fs:read", "target"), Demand("fs:write", "path"),
                        Log("fs:write"), Act("fs:write", "path")>>},
   readLink |-> {ReadsPath},
   touch |-> {<<Demand("fs:write", "path"), Log("fs:write"), Attempt("fs:write", "path")>>,
              <<Demand("fs:write", "path"), Log("fs:write"), Attempt("fs:write", "path"),
                Act("fs:write", "path")>>},
   append |-> {WritesPath}]

FsWatching ==
  [truncate |-> {WritesPath}, realPath |-> {ReadsPath},
   watchPath |-> {<<Demand("fs:read", "path"), Log("fs:read"), Open("watcher", <<>>),
                    Act("fs:read", "path")>>},
   globFiles |-> {ReadsPath, ReadsPath \o Walk}]

-----------------------------------------------------------------------------
(* git.ts, db.ts, archive.ts                                               *)

RunGit == {Spawns("git")}

GitQueries == [gitStatus |-> RunGit, gitLog |-> RunGit, gitDiff |-> RunGit]
GitChanges ==
  [gitBranch |-> RunGit, gitAdd |-> RunGit, gitCommit |-> RunGit, gitPush |-> RunGit,
   gitPull |-> RunGit, gitClone |-> RunGit, gitStash |-> RunGit]

DbDemands ==
  <<Demand("db:query", "path"), Demand("fs:read", "path"), Demand("fs:write", "path"),
    Log("db:query")>>
DbStatement == <<Log("db:query"), Act("db:query", "path")>>
DbClose == <<Log("db:query"), Close("database")>>

\* The database is opened, and then asked for its journal mode.
DbOpened == DbDemands \o <<Open("database", <<>>), Act("db:query", "path")>>

\* The handle asks for nothing more; what its methods do is logged.
DbOpen ==
  [dbOpen |-> {DbOpened, DbOpened \o DbStatement, DbOpened \o DbStatement \o DbClose}]


\* The try begins when dbOpen has returned.
DbOnce ==
  LET once == {DbOpened \o <<Open("database", DbClose)>> \o DbStatement}
  IN  [dbQuery |-> once, dbExec |-> once]

Packing(asks) ==
  <<Demand("fs:write", "dest")>> \o asks
  \o <<Log("fs:write"), Act("fs:read", "path"), Act("fs:write", "dest")>>

\* Path by path tar demands and then looks at what it is: as in cp, a denied
\* demand for what is below a directory is caught. zip only demands.
TarAsks == <<Demand("fs:read", "path"), Look("path")>>
TarAsksMore == <<Demand("fs:read", "other path"), Look("other path")>>
Tars ==
  {Packing(TarAsks),
   Packing(TarAsks \o <<Tried("fs:read", "below path", 0)>>) \o <<Act("fs:read", "below path")>>,
   Packing(TarAsks \o TarAsksMore) \o <<Act("fs:read", "other path")>>}

ZipAsks == <<Demand("fs:read", "path")>>
Zips ==
  {Packing(ZipAsks), Packing(ZipAsks) \o <<Act("fs:read", "below path")>>,
   Packing(ZipAsks \o <<Demand("fs:read", "other path")>>) \o <<Act("fs:read", "other path")>>}

Unpacks ==
  <<Demand("fs:read", "archive"), Demand("fs:write", "dest"), Demand("fs:write", "below dest"),
    Log("fs:write"), Act("fs:write", "dest"), Act("fs:read", "archive"),
    Act("fs:write", "below dest")>>

Archives == [tar |-> Tars, untar |-> {Unpacks}, zip |-> Zips]

Compression ==
  LET squeezes == {<<Demand("fs:read", "path"), Demand("fs:write", "dest"), Log("fs:write"),
                     Act("fs:read", "path"), Act("fs:write", "dest")>>}
  IN  [unzip |-> {Unpacks}, gzip |-> squeezes, gunzip |-> squeezes]

-----------------------------------------------------------------------------
(* net.ts, ws.ts, server.ts, process.ts, stream.ts                         *)

\* Where the platform's fetch goes: to the host, and from there wherever a
\* redirect leads, which nobody is asked about.
Redirected == <<Act("net:fetch", "elsewhere")>>

Fetches == Asked("net:fetch", "host")

Downloads(redirected) ==
  <<Demand("net:fetch", "host"), Demand("fs:write", "dest"), Log("net:fetch"),
    Act("net:fetch", "host")>> \o redirected \o <<Act("fs:write", "dest")>>

NetCalls ==
  [netFetch |-> {Fetches, Fetches \o Redirected}, ping |-> {Spawns("ping")},
   download |-> {Downloads(<<>>), Downloads(Redirected)}]
NetDig == [dig |-> {Spawns("dig")}]

\* No redirect is followed. Messages of an open socket are neither asked for nor logged, its close is logged.
WsConnect ==
  LET opened == Fetches \o <<Open("socket", <<>>)>>
  IN  [wsConnect |-> {opened, opened \o <<Act("net:fetch", "host")>>,
                      opened \o <<Log("net:fetch"), Close("socket")>>}]

Serve ==
  LET opened == Asked("net:listen", "port") \o <<Open("server", <<>>)>>
  IN  [serve |-> {opened, opened \o <<Log("net:listen"), Close("server")>>}]

ProcessCalls == [ps |-> {Spawns("ps")}, kill |-> {Spawns("kill")}]
SpawnCalls == [spawn |-> {Spawns("command")}, exec |-> {Spawns("command")}]

\* A stream that was read to its end, or whose read fails, closes its file; when
\* the reader leaves before, only the line reader is closed. tailStream asks for
\* the size of the file before its try begins.
StreamCalls ==
  [lineStream |->
     {<<Demand("fs:read", "path"), Log("fs:read"), Open("file", <<Close("file")>>),
        Act("fs:read", "path")>>,
      <<Demand("fs:read", "path"), Log("fs:read"), Open("file", <<>>), Attempt("fs:read", "path")>>},
   tailStream |-> {<<Demand("fs:read", "path"), Log("fs:read"), Open("file", <<>>),
                     Act("stat", "path"), Open("file", <<Close("file")>>),
                     Act("fs:read", "path")>>}]
PipeCalls == [pipeSpawn |-> {Spawns("command")}, streamSpawn |-> {Spawns("command")}]

-----------------------------------------------------------------------------
(* os.ts, env.ts, system.ts, user.ts, text.ts, cmux.ts                     *)

Interacts == Asked("os:interact", "desktop")

\* The clipboard is asked for once, and every use of it logged.
OsCalls ==
  [openUrl |-> {Interacts},
   openFile |-> {<<Demand("os:interact", "desktop"), Demand("fs:read", "path"),
                   Log("os:interact"), Act("os:interact", "desktop")>>},
   notify |-> {Interacts},
   clipboard |-> {<<Demand("os:interact", "desktop")>>,
                  <<Demand("os:interact", "desktop"), Log("os:interact"),
                    Act("os:interact", "desktop")>>}]

EnvCalls ==
  [env |-> {Asked("env:read", "*")}, getEnv |-> {Asked("env:read", "key")},
   setEnv |-> {Asked("env:write", "key")}]

SystemCalls ==
  LET looks == {Asked("env:read", "*")}
  IN  [uname |-> looks, uptime |-> looks, whoami |-> looks, hostname |-> looks, df |-> {Spawns("df")}]

UserCalls ==
  [currentUser |-> {Asked("env:read", "*")}, users |-> {Asked("fs:read", "/etc/passwd")},
   groups |-> {Asked("fs:read", "/etc/group")}]

\* Given a text instead of a file, grep asks for nothing.
Grep == [grep |-> {ReadsPath, <<>>}]

\* A cmux that is not there is the answer of detect and ping, an error elsewhere.
CmuxProbe == {<<Demand("os:interact", "desktop"), Log("os:interact"), Attempt("os:interact", "desktop")>>}
CmuxWorkspaces == [cmuxDetect |-> CmuxProbe, cmuxWorkspace |-> {Interacts}]
CmuxWindowsAndPanes == [cmuxWindow |-> {Interacts}, cmuxPane |-> {Interacts}]
CmuxSendAndRead == [cmuxSend |-> {Interacts}, cmuxReadScreen |-> {Interacts}]
CmuxNotices == [cmuxNotify |-> {Interacts}, cmuxStatus |-> {Interacts}]
CmuxProgressAndLog == [cmuxProgress |-> {Interacts}, cmuxLog |-> {Interacts}]
CmuxBrowser == [cmuxBrowser |-> {Interacts}]
CmuxBuffers == [cmuxBuffer |-> {Interacts}, cmuxPing |-> CmuxProbe, cmuxMessage |-> {Interacts}]

-----------------------------------------------------------------------------
(* docker.ts                                                               *)

RunsImage == Asked("docker:run", "image")
AsksDocker == Asked("docker:run", "*")

DockerRuns == [dockerRun |-> {RunsImage}, dockerExec |-> {RunsImage}]

\* The temporary directory is removed whatever the container does.
DockerVfs ==
  [dockerVfsRun |-> {<<Demand("docker:run", "image"), Log("docker:run"),
     Open("directory", <<Close("directory")>>), Act("docker:run", "image")>>}]

DockerBuilds ==
  [dockerBuild |-> {Asked("docker:run", "tag")}, dockerPull |-> {RunsImage},
   dockerImages |-> {AsksDocker}, dockerPs |-> {AsksDocker}]
DockerManages == [dockerStop |-> {AsksDocker}, dockerRm |-> {AsksDocker}, dockerLogs |-> {AsksDocker}]

\* Nothing that is done with the handle is asked for or logged.
DockerBackground ==
  [dockerSpawnBackground |-> {RunsImage, RunsImage \o <<Act("docker:run", "image")>>}]

\* What the proxy is asked to fetch is checked, and logged whether it is or not.
ProxyRequest(redirected) ==
  <<Tried("net:fetch", "host", 3 + Len(redirected)), Log("net:fetch"),
    Attempt("net:fetch", "host")>> \o redirected \o <<Return, Log("net:fetch")>>
ProxyRequests == {ProxyRequest(<<>>), ProxyRequest(<<Attempt("net:fetch", "elsewhere")>>)}

StartEgressProxy ==
  LET started == <<Log("net:fetch"), Open("proxy", <<>>)>>
  IN  [startEgressProxy |-> {started} \cup {started \o request : request \in ProxyRequests}]

\* The container runs behind a proxy, which serves it and stops when it does.
DockerRunProxied ==
  LET runs == <<Demand("docker:run", "image"), Log("docker:run"), Log("net:fetch"),
                Open("proxy", <<Close("proxy")>>)>> \o RunsImage
  IN  [dockerRunProxied |-> {runs} \cup {runs \o request : request \in ProxyRequests}]

-----------------------------------------------------------------------------
Wrapper ==
  FsReading @@ FsWriting @@ FsCopyAndFind @@ FsChanging @@ FsWatching @@ GitQueries @@ GitChanges
  @@ DbOpen @@ DbOnce @@ Archives @@ Compression @@ NetCalls @@ NetDig @@ WsConnect @@ Serve
  @@ ProcessCalls @@ SpawnCalls @@ StreamCalls @@ PipeCalls @@ OsCalls @@ EnvCalls @@ SystemCalls
  @@ UserCalls @@ Grep @@ CmuxWorkspaces @@ CmuxWindowsAndPanes @@ CmuxSendAndRead @@ CmuxNotices
  @@ CmuxProgressAndLog @@ CmuxBrowser @@ CmuxBuffers @@ DockerRuns @@ DockerVfs @@ DockerBuilds
  @@ DockerManages @@ DockerBackground @@ StartEgressProxy @@ DockerRunProxied
-----------------------------------------------------------------------------
(* A call.                                                                 *)

VARIABLES
  name,     \* of the function that is called
  script,   \* what is left to be done of the call
  granted,  \* what check() of the context allows
  trail,    \* the kinds of the entries the call has logged
  done,     \* the effects it has had
  cleanup,  \* what its finally is to do
  opened,   \* what it has opened and not closed
  ending,   \* how it will end: "returned", "denied", "failed"
  outcome   \* how it ended, "running" before

callVars == <<name, script, granted, trail, done, cleanup, opened, ending, outcome>>

Needs(steps) ==
  {steps[n].need : n \in {m \in 1 .. Len(steps) : steps[m].step \in {"demand", "tried"}}}

CallInit ==
  /\ name \in DOMAIN Wrapper /\ script \in Wrapper[name]
  /\ granted \in SUBSET Needs(script)
  /\ trail = <<>> /\ done = {} /\ cleanup = <<>> /\ opened = {}
  /\ ending = "returned" /\ outcome = "running"

\* The next step is of this kind, and the script goes on after it.
AtStep(kind) == script # <<>> /\ Head(script).step = kind

\* An error, or a return: the finally is all that is left.
Leave(how) == script' = cleanup /\ cleanup' = <<>> /\ ending' = how
GoOn == script' = Tail(script) /\ UNCHANGED <<cleanup, ending>>

DemandStep ==
  /\ AtStep("demand")
  /\ IF Head(script).need \in granted THEN GoOn ELSE Leave("denied")
  /\ UNCHANGED <<name, granted, trail, done, opened, outcome>>

TriedStep ==
  /\ AtStep("tried")
  /\ \/ Head(script).need \in granted /\ GoOn
     \/ /\ Head(script).need \notin granted
        /\ script' = SubSeq(script, 2 + Head(script).skipped, Len(script))
        /\ UNCHANGED <<cleanup, ending>>
  /\ UNCHANGED <<name, granted, trail, done, opened, outcome>>

LogStep ==
  /\ AtStep("log") /\ GoOn
  /\ trail' = Append(trail, Head(script).kind)
  /\ UNCHANGED <<name, granted, done, opened, outcome>>

\* It may have failed after a part of it was done.
ActStep ==
  /\ script # <<>> /\ Head(script).step \in {"act", "attempt"}
  /\ done' = done \cup {Head(script).need}
  /\ \/ GoOn
     \/ (AtStep("act") /\ Leave("failed"))
  /\ UNCHANGED <<name, granted, trail, opened, outcome>>

OpenStep ==
  /\ AtStep("open")
  /\ script' = Tail(script) /\ cleanup' = Head(script).cleanup
  /\ opened' = opened \cup {Head(script).thing}
  /\ UNCHANGED <<name, granted, trail, done, ending, outcome>>

CloseStep ==
  /\ AtStep("close") /\ GoOn
  /\ opened' = opened \ {Head(script).thing}
  /\ UNCHANGED <<name, granted, trail, done, outcome>>

ReturnStep ==
  /\ AtStep("return") /\ Leave("returned")
  /\ UNCHANGED <<name, granted, trail, done, opened, outcome>>

CallEnds ==
  /\ script = <<>> /\ outcome = "running"
  /\ IF cleanup # <<>>
     THEN Leave(ending) /\ UNCHANGED outcome
     ELSE outcome' = ending /\ UNCHANGED <<script, cleanup, ending>>
  /\ UNCHANGED <<name, granted, trail, done, opened>>

CallNext ==
  DemandStep \/ TriedStep \/ LogStep \/ ActStep \/ OpenStep \/ CloseStep \/ ReturnStep \/ CallEnds

CallSpec == CallInit /\ [][CallNext]_callVars
-----------------------------------------------------------------------------
CallTypeOK ==
  /\ name \in DOMAIN Wrapper /\ Len(script) <= 14 /\ Len(cleanup) <= 2
  /\ granted \subseteq UNION {Needs(s) : s \in Wrapper[name]}
  /\ ending \in {"returned", "denied", "failed"} /\ outcome \in {"running", ending}

\* Whatever was granted, a call that is denied has done nothing, has nothing open
\* and has logged nothing: all that a function demands it demands beforehand. But
\* tar has looked at the paths it was allowed before it came to the denied one.
DeniedDoesNothing ==
  outcome = "denied" =>
    /\ opened = {} /\ trail = <<>>
    /\ done \subseteq (IF name = "tar" THEN {<<"stat", "path">>} ELSE {})

Allowed(what) ==
  what \in granted \/ (what[1] = "stat" /\ <<"fs:read", what[2]>> \in granted)

\* What cp, tar and zip do below a directory: their demand for it may be denied,
\* or is never made.
Below(what) ==
  name \in {"cp", "tar", "zip"} /\ what[2] \in {"below source", "below dest", "below path"}

\* The host that a redirect leads to is never asked for.
LedElsewhere(what) ==
  /\ name \in {"netFetch", "download", "startEgressProxy", "dockerRunProxied"}
  /\ what = <<"net:fetch", "elsewhere">>

\* Nothing is done in a context's name that it does not allow, but what is below
\* the directories of cp, tar and zip, and what a redirect leads to; and nothing
\* before an entry was logged, but that cp and tar look at what they may read.
DoneIsAllowedAndLogged ==
  \A what \in done :
    /\ Allowed(what) \/ Below(what) \/ LedElsewhere(what)
    /\ trail # <<>> \/ (name \in {"cp", "tar"} /\ what[1] = "stat")

\* What a function opened for itself is closed when it ends, whatever failed, but
\*   - the file of a lineStream whose reader leaves early;
\*   - the file of a tailStream that could not ask for its size;
\*   - a database that opens and refuses its journal mode (then nothing but the
\*     opening is logged): dbQuery and dbExec begin their try after that.
NoHandleForgotten ==
  outcome # "running" =>
    \/ opened = {}
    \/ name \in {"dbOpen", "watchPath", "wsConnect", "serve", "startEgressProxy"}
    \/ name = "lineStream" /\ outcome = "returned"
    \/ name = "tailStream" /\ done = {<<"stat", "path">>}
    \/ name \in {"dbQuery", "dbExec"} /\ outcome = "failed" /\ Len(trail) = 1
=============================================================================

-------------------------------- MODULE Rpc --------------------------------
(***************************************************************************)
(* The server as its clients see it: handleRequest() of server/handler.ts, *)
(* the dispatch of server/serve.ts and the session map of                  *)
(* server/session.ts, over the saved configurations of ConfigStore.        *)
(*                                                                         *)
(* A method without an await is answered in the turn that reads it.  The   *)
(* others wait, each in a Call of ConfigStore, while anything else is      *)
(* asked.  The server may stop at any time and be started again; its       *)
(* clients go on using the ids they were given.                            *)
(*                                                                         *)
(* Abstracted: of a VFS, whether one file is there; of a registry, what is *)
(* pending for one name; trails.  What execute() does after its answer is  *)
(* in SessionManager, what overlaps an import in PluginRegistry, and       *)
(* admin.agent.run, which touches no session, in AgentRun.                 *)
(***************************************************************************)
EXTENDS ConfigStore, Sequences, FiniteSets

CONSTANTS
  MaxSessions,  \* bound: sessions made, in all lives of the server
  MaxWork       \* bound: sessions made and requests that waited, together

ASSUME RpcAssumption == MaxSessions \in Nat /\ MaxWork \in Nat /\ IsFiniteSet(Call)

VARIABLES
  up,        \* the server runs
  counter,   \* the last number given to a session in this life of the server
  objects,   \* every session object ever made
  sessions,  \* the Map of sessions: which of the objects are in it
  requests,  \* per Call: the request that waits in it
  event,     \* what the last step let a client see: its answer
  ended      \* history: destroys answered with success in this life

inServer == <<counter, objects, sessions>>
rpcVars == <<configVars, inServer, up, requests, event, ended>>

Session == [id : (1 .. MaxSessions) \X (0 .. MaxTime), file : BOOLEAN,
            pending : {"none", "approvable", "refused"}]

\* The methods that wait, and for whom it matters which they are.
Waiting == {"create", "execute", "approve", "save", "get", "list", "launch"}

Idle == [method |-> "none", of |-> 0, changed |-> FALSE]

\* The answer says which session was asked for, and which answered.
Silent == [method |-> "none", code |-> "none", asked |-> 0, got |-> 0, changed |-> FALSE]
Reply(method, code, asked, got, changed) ==
  event' = [method |-> method, code |-> code, asked |-> asked, got |-> got, changed |-> changed]

RpcInit ==
  /\ ConfigInit
  /\ up = TRUE /\ counter = 0 /\ objects = <<>> /\ sessions = {} /\ ended = 0
  /\ requests = [c \in Call |-> Idle]
  /\ event = Silent
-----------------------------------------------------------------------------
\* mgr.get(id): clients ask for any session there ever was, and 0 is one that never was.
Asked == 0 .. Len(objects)
Got(a) == IF \E s \in sessions : a # 0 /\ objects[s].id = objects[a].id
          THEN CHOOSE s \in sessions : objects[s].id = objects[a].id ELSE 0

\* Whether the bounds leave room, a launch being about to make a session.
Launches == Cardinality({c \in Call : requests[c].method = "launch"})
MayWait(made) == Len(objects) + Launches + Cardinality({c \in Call : requests[c] # Idle}) + made < MaxWork
MayCreate == Len(objects) + Launches < MaxSessions

\* What a request has changed, of what another request can see.
Changes == <<inServer, configFile>>' # <<inServer, configFile>>

\* A call that does not wait: what it finds, and what it does there.
AtOnce(method, code, asked, got) ==
  /\ up /\ UNCHANGED <<configVars, up, requests>>
  /\ Reply(method, code, asked, got, Changes)

NotFound(a) == Got(a) = 0 /\ UNCHANGED <<inServer, ended>> /\ AtOnce("none", "SESSION_NOT_FOUND", 0, 0)

\* A call that waits, and one that has waited.
Waits(c, method, of) ==
  /\ up /\ requests[c] = Idle /\ MayWait(0)
  /\ requests' = [requests EXCEPT ![c] = [method |-> method, of |-> of, changed |-> Changes]]
  /\ event' = Silent /\ UNCHANGED <<up, ended>>
GoesOn(c, method) ==
  /\ up /\ requests[c].method = method
  /\ requests' = [requests EXCEPT ![c].changed = @ \/ Changes]
  /\ UNCHANGED <<up, ended>>
Answers(c, code) ==
  /\ LET r == requests[c] IN Reply(r.method, code, r.of, r.of, r.changed \/ Changes)
  /\ requests' = [requests EXCEPT ![c] = [Idle EXCEPT !.method = "over"]]
  /\ UNCHANGED <<up, ended>>
Settles(c, method, code) == up /\ requests[c].method = method /\ Answers(c, code)
-----------------------------------------------------------------------------
\* What is refused before a handler looks at anything.
Refuse(code) == UNCHANGED <<inServer, ended>> /\ AtOnce("none", code, 0, 0)
RefuseBody == \E code \in {"PARSE_ERROR", "INVALID_REQUEST"} : Refuse(code)
RefuseMethod == Refuse("METHOD_NOT_FOUND")
RefuseParams == Refuse("INVALID_PARAMS")

\* The id is a number and the time: a number alone would come back after a restart.
BugNewId == <<counter + 1, 0>>

NewId == <<counter + 1, now>>

\* mgr.create(), with or without a file to begin with.
Create ==
  /\ \E file \in BOOLEAN :
       objects' = Append(objects, [id |-> NewId, file |-> file, pending |-> "none"])
  /\ counter' = counter + 1
  /\ sessions' = sessions \cup {Len(objects) + 1}

SessionCreate ==
  MayCreate /\ MayWait(0) /\ Create /\ AtOnce("create", "ok", Len(objects) + 1, Len(objects) + 1) /\ UNCHANGED ended

\* With a mount the session is in the map while the disk is copied.
CreateMounts(c) == MayCreate /\ MayWait(1) /\ Create /\ UNCHANGED configVars /\ Waits(c, "create", Len(objects) + 1)

MountStores(c) ==
  /\ requests[c].method = "create"
  /\ objects' = [objects EXCEPT ![requests[c].of].file = TRUE]
  /\ event' = Silent /\ UNCHANGED <<configVars, counter, sessions>> /\ GoesOn(c, "create")

MountSettles(c) ==
  /\ UNCHANGED <<configVars, inServer>>
  /\ \E code \in {"ok", "INTERNAL_ERROR"} : Settles(c, "create", code)

\* The session is found and answered with, but stays in the map.
BugDestroy(a) ==
  /\ Got(a) # 0 /\ ended' = ended + 1
  /\ UNCHANGED inServer
  /\ AtOnce("destroy", "ok", a, Got(a))

SessionDestroy(a) ==
  /\ Got(a) # 0 /\ ended' = ended + 1
  /\ sessions' = sessions \ {Got(a)} /\ UNCHANGED <<counter, objects>>
  /\ AtOnce("destroy", "ok", a, Got(a))
-----------------------------------------------------------------------------
\* session.execute: the session is looked up once; code that does not transpile
\* is an error too.
Execute(c, a) ==
  Got(a) # 0 /\ UNCHANGED <<configVars, inServer>> /\ Waits(c, "execute", Got(a))

\* What code does to the VFS; that it is logged is SessionManager's.
CodeActs(c) ==
  /\ requests[c].method = "execute"
  /\ \E file \in BOOLEAN : objects' = [objects EXCEPT ![requests[c].of].file = file]
  /\ event' = Silent /\ UNCHANGED <<configVars, counter, sessions>> /\ GoesOn(c, "execute")

\* An error gets its code from the words in its message, whoever threw it.
ExecuteSettles(c) ==
  /\ UNCHANGED <<configVars, inServer>>
  /\ \E code \in {"ok", "CAPABILITY_DENIED", "TIMEOUT", "EXECUTION_ERROR"} : Settles(c, "execute", code)

\* The methods that look at a session: its trail, plugins, detail, snapshot.
Reads(a, code) == Got(a) # 0 /\ UNCHANGED <<inServer, ended>> /\ AtOnce("read", code, a, Got(a))
SessionAudit(a) == Reads(a, "ok")
FsSnapshot(a) == Reads(a, "ok")
ListPlugins(a) == Reads(a, "ok")
SessionDetail(a) == Reads(a, "ok")

\* Reading what is not there throws.
FsRead(a) == Got(a) # 0 /\ Reads(a, IF objects[Got(a)].file THEN "ok" ELSE "INTERNAL_ERROR")
FsList(a) == Got(a) # 0 /\ Reads(a, IF objects[Got(a)].file THEN "ok" ELSE "INTERNAL_ERROR")

\* The methods that look at every session.
Overview == UNCHANGED <<inServer, ended>> /\ AtOnce("read", "ok", 0, 0)

\* session.fs.write writes into the VFS itself, past the audited one.
FsWrite(a) ==
  /\ Got(a) # 0
  /\ objects' = [objects EXCEPT ![Got(a)].file = TRUE] /\ UNCHANGED <<counter, sessions, ended>>
  /\ AtOnce("write", "ok", a, Got(a))

\* Content null is let through and cannot be encoded: the parents it was to be
\* written under, directories the objects here do not keep, may have been made.
FsWriteNull(a) ==
  /\ Got(a) # 0 /\ up /\ UNCHANGED <<configVars, inServer, up, requests, ended>>
  /\ \E parents \in BOOLEAN : Reply("write", "INTERNAL_ERROR", a, Got(a), parents)
-----------------------------------------------------------------------------
\* The source validates and the session holds the capability, or not.
RequestPlugin(a) ==
  /\ Got(a) # 0
  /\ \E as \in {"approvable", "refused"} : objects' = [objects EXCEPT ![Got(a)].pending = as]
  /\ UNCHANGED <<counter, sessions, ended>>
  /\ AtOnce("request", "ok", a, Got(a))

\* The entry is marked and stays.
BugRejectPlugin(a) ==
  /\ Got(a) # 0
  /\ objects' = [objects EXCEPT ![Got(a)].pending = "rejected"] /\ UNCHANGED <<counter, sessions, ended>>
  /\ AtOnce("reject", "ok", a, Got(a))

\* Rejecting what is not pending is answered alike.
RejectPlugin(a) ==
  /\ Got(a) # 0
  /\ objects' = [objects EXCEPT ![Got(a)].pending = "none"] /\ UNCHANGED <<counter, sessions, ended>>
  /\ AtOnce("reject", "ok", a, Got(a))

\* approve() throws before its first await when there is nothing it may import.
ApproveThrows(a) ==
  /\ Got(a) # 0 /\ objects[Got(a)].pending # "approvable"
  /\ UNCHANGED <<inServer, ended>>
  /\ AtOnce("approve", "INTERNAL_ERROR", a, Got(a))

ApproveWaits(c, a) ==
  /\ Got(a) # 0 /\ objects[Got(a)].pending = "approvable"
  /\ UNCHANGED <<configVars, inServer>> /\ Waits(c, "approve", Got(a))

\* A failed import gives up the request too.
BugImportSettles(c) ==
  /\ requests[c].method = "approve" /\ UNCHANGED <<configVars, counter, sessions>>
  /\ LET s == requests[c].of
     IN  \/ objects' = [objects EXCEPT ![s].pending = "none"] /\ Settles(c, "approve", "ok")
         \/ objects' = [objects EXCEPT ![s].pending = "none"] /\ Settles(c, "approve", "INTERNAL_ERROR")

\* The import ends or throws; one whose module never settles waits for ever.
ImportSettles(c) ==
  /\ requests[c].method = "approve" /\ UNCHANGED <<configVars, counter, sessions>>
  /\ LET s == requests[c].of
     IN  \/ objects' = [objects EXCEPT ![s].pending = "none"] /\ Settles(c, "approve", "ok")
         \/ UNCHANGED objects /\ Settles(c, "approve", "INTERNAL_ERROR")
-----------------------------------------------------------------------------
\* admin.config.save, get, list; launch begins as get does.
ConfigRequest(c) ==
  /\ UNCHANGED inServer
  /\ \E method \in {"save", "get", "list"} \cup IF MayCreate /\ MayWait(1) THEN {"launch"} ELSE {} :
       ConfigCall(c, IF method = "launch" THEN "get" ELSE method) /\ Waits(c, method, 0)

AskedConfigs(c) == up /\ requests[c].method \in {"save", "get", "list", "launch"}

\* The call of the store goes on and is not over.
ConfigGoesOn(c) ==
  /\ AskedConfigs(c)
  /\ SaveMadeDir(c) \/ FileExists(c) \/ ReadJson(c) \/ WriteBegins(c)
  /\ calls'[c].at \notin {"answered", "undefined", "thrown"}
  /\ event' = Silent /\ UNCHANGED inServer /\ GoesOn(c, requests[c].method)

\* The store has answered: so does the handler, in the same turn.
ConfigAnswers(c) ==
  /\ AskedConfigs(c) /\ requests[c].method # "launch"
  /\ FileExists(c) \/ ReadJson(c) \/ WriteEnds(c) \/ SaveFails(c) \/ ListReads(c)
  /\ UNCHANGED inServer
  /\ \/ calls'[c].at = "answered" /\ Answers(c, "ok")
     \/ calls'[c].at = "undefined" /\ Answers(c, "CONFIG_NOT_FOUND")
     \/ calls'[c].at = "thrown" /\ Answers(c, "INTERNAL_ERROR")

\* A launch without a configuration is left without an event.
BugLaunch(c) ==
  /\ AskedConfigs(c) /\ requests[c].method = "launch"
  /\ FileExists(c) \/ ReadJson(c)
  /\ \/ calls'[c].at = "answered" /\ Create /\ Answers(c, "ok")
     \/ calls'[c].at = "undefined" /\ event' = Silent /\ UNCHANGED inServer /\ GoesOn(c, "launch")
     \/ calls'[c].at = "thrown" /\ UNCHANGED inServer /\ Answers(c, "INTERNAL_ERROR")

\* admin.config.launch creates a session from what it has read.
ConfigLaunch(c) ==
  /\ AskedConfigs(c) /\ requests[c].method = "launch"
  /\ FileExists(c) \/ ReadJson(c)
  /\ \/ calls'[c].at = "answered" /\ Create /\ Answers(c, "ok")
     \/ calls'[c].at = "undefined" /\ UNCHANGED inServer /\ Answers(c, "CONFIG_NOT_FOUND")
     \/ calls'[c].at = "thrown" /\ UNCHANGED inServer /\ Answers(c, "INTERNAL_ERROR")

\* A file that cannot be deleted is answered with deleted: false.
DeleteConfig ==
  /\ up /\ ConfigDelete /\ UNCHANGED <<inServer, up, requests, ended>>
  /\ Reply("delete", "ok", 0, 0, Changes)
-----------------------------------------------------------------------------
\* The process ends: what waited is lost, and so are the sessions.
ServerStops ==
  /\ up /\ up' = FALSE /\ Restart
  /\ sessions' = {} /\ counter' = 0 /\ ended' = 0
  /\ requests' = [c \in Call |-> IF requests[c] = Idle THEN Idle ELSE [Idle EXCEPT !.method = "over"]]
  /\ event' = Silent /\ UNCHANGED objects

\* It takes time to start.
ServerStarts ==
  /\ ~up /\ up' = TRUE /\ Tick
  /\ event' = Silent /\ UNCHANGED <<inConfigs, inServer, requests, ended>>

TimePasses == up /\ ConfigTick /\ event' = Silent /\ UNCHANGED <<inServer, up, requests, ended>>

AskSession(a) ==
  \/ NotFound(a)
  \/ SessionDestroy(a)
  \/ SessionAudit(a) \/ FsSnapshot(a) \/ ListPlugins(a) \/ SessionDetail(a) \/ FsRead(a) \/ FsList(a)
  \/ FsWrite(a) \/ FsWriteNull(a) \/ RequestPlugin(a) \/ RejectPlugin(a) \/ ApproveThrows(a)

RpcNext ==
  \/ RefuseBody \/ RefuseMethod \/ RefuseParams \/ Overview
  \/ SessionCreate \/ \E a \in Asked : AskSession(a)
  \/ \E c \in Call : \/ CreateMounts(c) \/ MountStores(c) \/ MountSettles(c)
                     \/ \E a \in Asked : Execute(c, a) \/ ApproveWaits(c, a)
                     \/ CodeActs(c) \/ ExecuteSettles(c) \/ ImportSettles(c)
                     \/ ConfigRequest(c) \/ ConfigGoesOn(c) \/ ConfigAnswers(c) \/ ConfigLaunch(c)
  \/ DeleteConfig \/ ServerStops \/ ServerStarts \/ TimePasses

\* What a request that waits may go on with, but for an import, which need not end.
Proceeds(c) == MountSettles(c) \/ ExecuteSettles(c) \/ ConfigGoesOn(c) \/ ConfigAnswers(c) \/ ConfigLaunch(c)

RpcSpec == RpcInit /\ [][RpcNext]_rpcVars
-----------------------------------------------------------------------------
\* The map, the objects, the requests and the event (the calls of the store are
\* typed there: what is done to them here are its steps).
RpcTypeOK ==
  /\ up \in BOOLEAN /\ counter \in 0 .. MaxSessions /\ ended \in 0 .. MaxSessions
  /\ objects \in Seq(Session) /\ sessions \subseteq DOMAIN objects
  /\ requests \in [Call -> [method : Waiting \cup {"none", "over"}, of : 0 .. MaxSessions, changed : BOOLEAN]]
  /\ event.asked \in 0 .. MaxSessions /\ event.got \in 0 .. MaxSessions

\* A client that gets an error may ask again: nothing was changed by what failed.
\* The exceptions are those of the code: what ran before execute() failed, the
\* session of a create whose mount failed, the file a save could not write, and the
\* directories session.fs.write makes for a content of null.
ErrorsLeaveNothing ==
  event.code # "ok" /\ event.changed => event.method \in {"execute", "create", "save", "write"}

\* An id finds the session it was given to or none, however often the server has
\* been started since: no client works in another's session.
IdsFindTheirOwn == event.asked # 0 => event.got = event.asked

\* Every session made since the server started is in the map or was destroyed by
\* exactly one answered destroy, whatever overlapped, failed or was asked twice.
SessionsAddUp == counter = Cardinality(sessions) + ended

\* Every request that waits can go on to its answer, whatever it met on the way: a
\* file that is torn or was deleted, a session that is gone.  Only an import may hang.
NoRequestIsStuck ==
  \A c \in Call : requests[c].method \in Waiting \ {"approve"} => ENABLED Proceeds(c)
=============================================================================

---------------------------- MODULE ConfigStore ----------------------------
(***************************************************************************)
(* Saved configurations (server/config-store.ts): one JSON file per id.    *)
(* Calls for different ids touch different files, so the model has one.    *)
(* Every call suspends on the file system between its steps, other calls   *)
(* go on meanwhile, and the server may stop and be started again between   *)
(* any two of them.  Left out: the ids and their pattern (an id that does  *)
(* not match is refused before the file is touched).                       *)
(***************************************************************************)
EXTENDS Clock

CONSTANT Call

ASSUME ConfigAssumption == None \notin Call /\ None \notin [savedAt : Nat, updatedAt : Nat]

VARIABLES
  configFile,     \* the file: absent, torn, or whole with the dates it holds
  calls,     \* per call: what it does, how far it is, and what it has read
  lineage   \* history: the savedAt of the last whole file, None once deleted

inConfigs == <<configFile, calls, lineage>>
configVars == <<inConfigs, now>>

Saved == [savedAt : 0 .. MaxTime, updatedAt : 0 .. MaxTime]
File == [is : {"absent", "torn"}, data : {None}] \cup [is : {"whole"}, data : Saved]
Absent == [is |-> "absent", data |-> None]
TornFile == [is |-> "torn", data |-> None]
Whole(data) == [is |-> "whole", data |-> data]

NotCalled == [op |-> "none", at |-> "idle", data |-> None, raced |-> FALSE]

ConfigInit ==
  configFile = Absent /\ calls = [c \in Call |-> NotCalled] /\ lineage = None /\ now = 0

At(c, op, step) == calls[c].op = op /\ calls[c].at = step
Goes(c, step, data) == calls' = [calls EXCEPT ![c].at = step, ![c].data = data]

\* A call is over: what it was is no longer of interest, but for how it ended.
Over(how) == [NotCalled EXCEPT !.at = how]
Ends(c, how) == calls' = [calls EXCEPT ![c] = Over(how)]

\* save() makes the directory first, list() reads it; get() asks whether the file exists.
ConfigCall(c, op) ==
  /\ calls[c] = NotCalled
  /\ calls' = [calls EXCEPT ![c] = [NotCalled EXCEPT !.op = op,
                !.at = CASE op = "save" -> "mkdir" [] op = "get" -> "exists" [] OTHER -> "readdir"]]
  /\ UNCHANGED <<configFile, lineage, now>>

SaveMadeDir(c) == At(c, "save", "mkdir") /\ Goes(c, "exists", None) /\ UNCHANGED <<configFile, lineage, now>>

\* file.exists(): without a file get() returns undefined, and save() writes a new one.
FileExists(c) ==
  /\ calls[c].op \in {"save", "get"} /\ calls[c].at = "exists"
  /\ \/ configFile # Absent /\ Goes(c, "json", None)
     \/ configFile = Absent /\ calls[c].op = "save" /\ Goes(c, "write", None)
     \/ configFile = Absent /\ calls[c].op = "get" /\ Ends(c, "undefined")
  /\ UNCHANGED <<configFile, lineage, now>>

\* file.json() throws when the file is corrupt, or gone since; so does save().
ReadJson(c) ==
  /\ calls[c].op \in {"save", "get"} /\ calls[c].at = "json"
  /\ \/ configFile.is # "whole" /\ Ends(c, "thrown")
     \/ configFile.is = "whole" /\ calls[c].op = "save" /\ Goes(c, "write", configFile.data)
     \/ configFile.is = "whole" /\ calls[c].op = "get" /\ Ends(c, "answered")
  /\ UNCHANGED <<configFile, lineage, now>>

\* savedAt is kept from what was read; the write begins and the old content is gone.
WriteBegins(c) ==
  /\ At(c, "save", "write")
  /\ LET old == calls[c].data
     IN  Goes(c, "writing", [savedAt |-> IF old = None THEN now ELSE old.savedAt, updatedAt |-> now])
  /\ configFile' = TornFile
  /\ UNCHANGED <<lineage, now>>

\* The other saves that have looked at the file when it changes.
Raced(c) == [d \in Call |-> [calls[d] EXCEPT !.raced = @ \/ (d # c /\ calls[d].at \in {"json", "write", "writing"})]]

\* The write ends.  If another ended since it began, the two may have mixed.
WriteEnds(c) ==
  /\ At(c, "save", "writing")
  /\ \/ configFile' = Whole(calls[c].data) /\ lineage' = calls[c].data.savedAt
     \/ configFile.is = "whole" /\ configFile' = TornFile /\ UNCHANGED lineage
  /\ calls' = [Raced(c) EXCEPT ![c] = Over("answered")]
  /\ UNCHANGED now

\* The write fails, and leaves what it had written.
SaveFails(c) ==
  /\ At(c, "save", "writing")
  /\ Ends(c, "thrown")
  /\ UNCHANGED <<configFile, lineage, now>>

\* list() skips a file that is corrupt, or gone since the directory was read.
ListReads(c) ==
  /\ At(c, "list", "readdir")
  /\ Ends(c, "answered")
  /\ UNCHANGED <<configFile, lineage, now>>

ConfigDelete ==
  /\ configFile' = Absent /\ lineage' = None
  /\ calls' = Raced(None)
  /\ UNCHANGED now

\* The server stops; a write that had begun leaves the file as it is.
Restart ==
  /\ calls' = [c \in Call |-> IF calls[c] = NotCalled THEN NotCalled ELSE Over("lost")]
  /\ UNCHANGED <<configFile, lineage, now>>

ConfigTick == Tick /\ UNCHANGED inConfigs

ConfigNext ==
  \/ \E c \in Call : \/ \E op \in {"save", "get", "list"} : ConfigCall(c, op)
                     \/ SaveMadeDir(c) \/ FileExists(c) \/ ReadJson(c)
                     \/ WriteBegins(c) \/ WriteEnds(c) \/ SaveFails(c) \/ ListReads(c)
  \/ ConfigDelete \/ Restart \/ ConfigTick

ConfigSpec == ConfigInit /\ [][ConfigNext]_configVars
-----------------------------------------------------------------------------
\* The file, the calls and the dates they carry.
ConfigTypeOK ==
  /\ configFile \in File /\ lineage \in 0 .. MaxTime \cup {None}
  /\ \A c \in Call : /\ calls[c].op \in {"none", "save", "get", "list"}
                     /\ calls[c].data \in Saved \cup {None} /\ calls[c].raced \in BOOLEAN

\* The date a configuration was first saved at survives every later save, and a
\* server that stopped half-way through one: only a save that overlapped another
\* save or a delete of the same id may put a date of its own in its place.
SavedAtLostOnlyByOverlap ==
  [][\A c \in Call : WriteEnds(c) /\ lineage \notin {None, lineage'} => calls[c].raced]_configVars
=============================================================================

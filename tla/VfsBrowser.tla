----------------------------- MODULE VfsBrowser -----------------------------
(***************************************************************************)
(* The dashboard's file browser                                            *)
(* (dashboard/src/pages/sessions/vfs-browser.tsx): a file is selected, its *)
(* content is fetched and cached, edited, and written back by a request    *)
(* that takes its time, while other files are selected, created and        *)
(* deleted and the session's own code writes too.  A content is kept as    *)
(* the number of the write that made it; directories are left out.         *)
(*                                                                         *)
(* React and the query cache (@tanstack/react-query) are external.         *)
(* Invalidating the content of the selected file drops the request that    *)
(* fetches it and starts another, but not its first one: as long as        *)
(* nothing is cached that goes on.  The newest write, and the newest       *)
(* delete, is answered in the page as it is then; one that another has     *)
(* superseded is answered in the page as it was when it was superseded.    *)
(***************************************************************************)
EXTENDS Naturals, Nothing

CONSTANTS
  File,        \* the files of the listing
  MaxWrites,   \* bound: writes that reach the server
  MaxCalls     \* bound: requests of the browser that change something

ASSUME BrowserAssumption ==
  /\ MaxWrites \in Nat /\ MaxCalls \in Nat
  /\ None \notin File \cup 0 .. MaxWrites /\ None \notin [saw : 0 .. MaxWrites \cup {None}]
  /\ None \notin [selected : File \cup {None}]

VARIABLES
  onServer,  \* file -> None, or its content
  written,   \* the number of the newest content
  cached,    \* file -> None, or the content that was fetched last
  fetching,  \* file -> None, or the request that fetches it: [saw], None until the server has answered
  selectedFile,
  editing,   \* None, or the file whose content the text in the editor began with
  called,    \* how many writes and deletes have been called for
  changes,   \* those in flight: [id, does, file, of, made, page], page
             \* None of the newest write and the newest delete, [selected] of others
  saved,     \* file -> the newest content of this browser's that has been confirmed
  missed     \* file -> that did not refresh it, or a fetch has failed since

browserVars ==
  <<onServer, written, cached, fetching, selectedFile, editing, called, changes, saved, missed>>

BrowserInit ==
  /\ onServer = [f \in File |-> 0] /\ written = 0
  /\ cached = [f \in File |-> None] /\ fetching = [f \in File |-> None]
  /\ selectedFile = None /\ editing = None
  /\ called = 0 /\ changes = {}
  /\ saved = [f \in File |-> 0] /\ missed = [f \in File |-> FALSE]

serverVars == <<onServer, written>>
queryVars == <<cached, fetching>>
editorVars == <<selectedFile, editing>>
ghostVars == <<saved, missed>>
-----------------------------------------------------------------------------
(* The content query of the selected file.                                 *)

Fetch == [saw |-> None]

\* Mounting the query of a file fetches what is not cached, and what was cached some
\* time ago, unless that is being done already.
Mounted(f, requests) ==
  LET fetched == [requests EXCEPT ![f] = IF @ = None THEN Fetch ELSE @]
  IN  {fetched} \cup (IF cached[f] = None THEN {} ELSE {requests})

\* (Again, it is mounted already.)
Selects(f) ==
  /\ selectedFile' = f /\ UNCHANGED cached
  /\ fetching' \in IF selectedFile = f THEN {fetching} ELSE Mounted(f, fetching)

\* The window is focused again, and the content is no longer fresh.
Refetches ==
  /\ selectedFile # None /\ fetching[selectedFile] = None
  /\ fetching' = [fetching EXCEPT ![selectedFile] = Fetch]
  /\ UNCHANGED <<serverVars, cached, editorVars, called, changes, ghostVars>>

FetchReads(f) ==
  /\ fetching[f] = Fetch /\ onServer[f] # None
  /\ fetching' = [fetching EXCEPT ![f].saw = onServer[f]]
  /\ UNCHANGED <<serverVars, cached, editorVars, called, changes, ghostVars>>

FetchReturns(f) ==
  /\ fetching[f] # None /\ fetching[f].saw # None
  /\ cached' = [cached EXCEPT ![f] = fetching[f].saw] /\ fetching' = [fetching EXCEPT ![f] = None]
  /\ missed' = [missed EXCEPT ![f] = @ /\ fetching[f].saw < saved[f]]
  /\ UNCHANGED <<serverVars, editorVars, called, changes, saved>>

\* What was cached stays.
FetchFails(f) ==
  /\ fetching[f] # None /\ fetching' = [fetching EXCEPT ![f] = None]
  /\ missed' = [missed EXCEPT ![f] = saved[f] > 0]
  /\ UNCHANGED <<serverVars, cached, editorVars, called, changes, saved>>

\* Its first fetch is under way.
Loading(f) == cached[f] = None /\ fetching[f] # None

\* invalidateVfs() of a page where f is selected, or nothing: the content of a file
\* that is shown no more is fetched when it is shown again.
Invalidated(f) ==
  IF f # None /\ f = selectedFile /\ ~Loading(f) THEN [fetching EXCEPT ![f] = Fetch] ELSE fetching

-----------------------------------------------------------------------------
(* The user.                                                               *)

BugSelectFile(f) == Selects(f) /\ UNCHANGED <<editing, serverVars, called, changes, ghostVars>>
SelectFile(f) ==
  Selects(f) /\ editing' = None /\ UNCHANGED <<serverVars, called, changes, ghostVars>>

\* A directory, the parent or a breadcrumb: the editor is hidden, not closed.
ChangeDirectory ==
  /\ selectedFile # None /\ selectedFile' = None
  /\ UNCHANGED <<editing, serverVars, queryVars, called, changes, ghostVars>>

StartEditing ==
  /\ selectedFile # None /\ editing = None /\ cached[selectedFile] # None
  /\ editing' = selectedFile
  /\ UNCHANGED <<selectedFile, serverVars, queryVars, called, changes, ghostVars>>

\* The editor is shown when the content is.
CloseEditor ==
  /\ selectedFile # None /\ editing # None /\ cached[selectedFile] # None
  /\ editing' = None /\ UNCHANGED <<selectedFile, serverVars, queryVars, called, changes, ghostVars>>

Newest(c) == c.page = None

\* writeMutation, or deleteMutation: its newest call until now is superseded.
Superseded(does) ==
  {IF Newest(c) /\ (c.does = "delete" <=> does = "delete")
   THEN [c EXCEPT !.page = [selected |-> selectedFile]] ELSE c : c \in changes}

Sends(does, f, of) ==
  /\ called < MaxCalls /\ called' = called + 1
  /\ changes' = Superseded(does)
       \cup {[id |-> called + 1, does |-> does, file |-> f, of |-> of, made |-> None, page |-> None]}
  /\ UNCHANGED <<editorVars, serverVars, queryVars, ghostVars>>

\* writeMutation.isPending is about its newest call.
Saving == \E c \in changes : c.does # "delete" /\ Newest(c)

\* handleSaveEdit(): the button is disabled while a write is pending.
SaveEdit ==
  /\ selectedFile # None /\ editing # None /\ cached[selectedFile] # None /\ ~Saving
  /\ Sends("save", selectedFile, editing)

\* handleCreateFile(), of a name that may be there; this button is never disabled.
CreateFile(f) == Sends("create", f, f)

DeleteFile(f) == Sends("delete", f, f)

-----------------------------------------------------------------------------
(* The server, and its answers.                                            *)

\* Code that removes a file may fail, which is an answer like another.
Reaches(c) ==
  /\ c.made = None /\ written < MaxWrites
  /\ written' = written + 1
  /\ \E content \in IF c.does = "delete" THEN {None, onServer[c.file]} ELSE {written + 1} :
       onServer' = [onServer EXCEPT ![c.file] = content]
  /\ changes' = (changes \ {c}) \cup {[c EXCEPT !.made = written + 1]}
  /\ UNCHANGED <<queryVars, editorVars, called, ghostVars>>

\* Code of the session writes, or removes.
SessionWrites(f) ==
  /\ written < MaxWrites /\ written' = written + 1
  /\ \E content \in {written + 1, None} : onServer' = [onServer EXCEPT ![f] = content]
  /\ UNCHANGED <<queryVars, editorVars, called, changes, ghostVars>>

\* The selectedFile of the page in which a call is answered.
SelectedFor(c) == IF Newest(c) THEN selectedFile ELSE c.page.selected

\* writeMutation succeeds: whatever is being edited by now, the editor is closed;
\* and a new file is selected, unless another write has been called for since.
WriteSucceeds(c) ==
  /\ c.does \in {"save", "create"} /\ c.made # None /\ changes' = changes \ {c}
  /\ editing' = None /\ UNCHANGED <<serverVars, called>>
  /\ saved' = [saved EXCEPT ![c.file] = IF c.made > @ THEN c.made ELSE @]
  /\ missed' = [missed EXCEPT ![c.file] =
                  ~(SelectedFor(c) = c.file /\ selectedFile = c.file /\ ~Loading(c.file))]
  /\ UNCHANGED cached
  /\ LET requests == Invalidated(SelectedFor(c))
     IN  IF c.does = "create" /\ Newest(c)
         THEN selectedFile' = c.file /\ fetching' \in Mounted(c.file, requests)
         ELSE fetching' = requests /\ UNCHANGED selectedFile

DeleteSucceeds(c) ==
  /\ c.does = "delete" /\ c.made # None /\ changes' = changes \ {c}
  /\ fetching' = Invalidated(SelectedFor(c)) /\ UNCHANGED cached
  /\ selectedFile' = IF SelectedFor(c) = c.file THEN None ELSE selectedFile
  /\ UNCHANGED <<editing, serverVars, called, ghostVars>>

\* Nothing is said, and the editor stays open.
ChangeFails(c) ==
  /\ changes' = changes \ {c}
  /\ UNCHANGED <<editorVars, serverVars, queryVars, called, ghostVars>>

BrowserNext ==
  \/ ChangeDirectory \/ StartEditing \/ CloseEditor \/ SaveEdit \/ Refetches
  \/ \E f \in File :
       SelectFile(f) \/ CreateFile(f) \/ DeleteFile(f) \/ SessionWrites(f)
         \/ FetchReads(f) \/ FetchReturns(f) \/ FetchFails(f)
  \/ \E c \in changes : Reaches(c) \/ WriteSucceeds(c) \/ DeleteSucceeds(c) \/ ChangeFails(c)

BrowserSpec == BrowserInit /\ [][BrowserNext]_browserVars
-----------------------------------------------------------------------------
BrowserTypeOK ==
  /\ onServer \in [File -> 0 .. MaxWrites \cup {None}] /\ cached \in [File -> 0 .. MaxWrites \cup {None}]
  /\ written \in 0 .. MaxWrites /\ saved \in [File -> 0 .. MaxWrites] /\ missed \in [File -> BOOLEAN]
  /\ fetching \in [File -> {None} \cup [saw : 0 .. MaxWrites \cup {None}]]
  /\ {selectedFile, editing} \subseteq File \cup {None}
  /\ called \in 0 .. MaxCalls
  /\ changes \subseteq [id : 1 .. called, does : {"save", "create", "delete"}, file : File, of : File,
                        made : 0 .. MaxWrites \cup {None}, page : {None} \cup [selected : File \cup {None}]]
  /\ \A c, d \in changes : c.id = d.id => c = d

\* What is saved to a file was read from it: however files are selected, created and
\* deleted while requests are under way, the editor never shows, and a save never
\* takes, the content of one file under the name of another.
SaveGoesHome ==
  /\ editing # None /\ selectedFile # None => editing = selectedFile
  /\ \A c \in changes : c.of = c.file

\* The selected file is shown as it was before a save of it that has been confirmed
\* only as long as it is being fetched, unless the fetch has failed or the save did
\* not refresh it: invalidateVfs() refreshes the file that is selected, not the one
\* that was written (it is selected neither when the user has gone on, nor in the
\* page of a superseded write), and no file that is being fetched for the first time.
ShowsOwnSaves ==
  \A f \in File :
    selectedFile = f /\ cached[f] # None /\ cached[f] < saved[f] => fetching[f] # None \/ missed[f]
=============================================================================

---------------------------- MODULE DockerVfsRun ----------------------------
(***************************************************************************)
(* dockerVfsRun() (src/wrappers/docker.ts) with syncToDisk()               *)
(* (src/vfs/vfs.ts): a directory of the VFS is written to a temporary      *)
(* directory, a container works on that, and what it changed is read back, *)
(* file by file, while the session's code goes on calling the same VFS.    *)
(* Files have here the paths their nodes have in the VFS.  What has been   *)
(* changed shows in a file's date; directories of the copy, the counters   *)
(* of the result and the command line are left out.                        *)
(***************************************************************************)
EXTENDS Vfs

VARIABLES
    run,         \* "none", "copying", "running", "reading", "cleaning", "done", "failed"
    syncBack,    \* an option: is anything to be read back
    copied,      \* the nodes of the Map that the loop of syncToDisk has passed
    dir,         \* the files of the temporary directory
    before,      \* those that were there before the container ran
    dated,       \* those written since, which their date shows
    unreadFiles, \* those still to be read back
    redone       \* (history) paths the session has changed since they were read back

inRun == <<run, syncBack, copied, dir, before, dated, unreadFiles, redone>>
runVars == <<treeVars, inRun>>

RunInit ==
    /\ TreeInit /\ run = "none" /\ syncBack = TRUE /\ copied = {} /\ dir = EmptyTree
    /\ before = {} /\ dated = {} /\ unreadFiles = {} /\ redone = {}

FilesOf(d) == {p \in Path : d[p] # None}

\* The temporary directory is made and the loop over the Map begins.
RunStart ==
    /\ run = "none" /\ run' = "copying" /\ syncBack' \in BOOLEAN
    /\ UNCHANGED <<treeVars, copied, dir, before, dated, unreadFiles, redone>>

\* The loop takes the nodes as they are when it gets there: it also meets those
\* that were added meanwhile.  (Its order is that of insertion; any order here.)
CopyNode(p) ==
    /\ run = "copying" /\ p \in Below(Target) \ copied /\ nodes[p] # None
    /\ copied' = copied \cup {p}
    /\ dir' = IF nodes[p] = Folder THEN dir ELSE [dir EXCEPT ![p] = nodes[p]]
    /\ UNCHANGED <<treeVars, run, syncBack, before, dated, unreadFiles, redone>>

CopyEnds ==
    /\ run = "copying" /\ \A p \in Below(Target) : nodes[p] # None => p \in copied
    /\ run' = "running" /\ before' = FilesOf(dir)
    /\ UNCHANGED <<treeVars, syncBack, copied, dir, dated, unreadFiles, redone>>

ContainerWrites(p, x) ==
    /\ run = "running" /\ p \in Below(Target)
    /\ dir' = [dir EXCEPT ![p] = x] /\ dated' = dated \cup {p}
    /\ UNCHANGED <<treeVars, run, syncBack, copied, before, unreadFiles, redone>>

ContainerRemoves(p) ==
    /\ run = "running" /\ dir[p] # None
    /\ dir' = [dir EXCEPT ![p] = None] /\ dated' = dated \ {p}
    /\ UNCHANGED <<treeVars, run, syncBack, copied, before, unreadFiles, redone>>

\* The container has ended and the directory is listed again: what is new or
\* has another date is to be read back.
DockerReturns ==
    /\ run = "running"
    /\ run' = IF syncBack THEN "reading" ELSE "cleaning"
    /\ unreadFiles' = IF syncBack THEN {p \in FilesOf(dir) : p \notin before \/ p \in dated} ELSE {}
    /\ UNCHANGED <<treeVars, syncBack, copied, dir, before, dated, redone>>

\* A file has been read and is written to the VFS, over what is there by now.
ReadBack(p) ==
    /\ run = "reading" /\ p \in unreadFiles
    /\ VfsWrite(p, dir[p])
    /\ unreadFiles' = unreadFiles \ {p}
    /\ UNCHANGED <<run, syncBack, copied, dir, before, dated, redone>>

\* In one turn, the files that the container removed are removed.
RemoveBack ==
    /\ run = "reading" /\ unreadFiles = {} /\ run' = "cleaning"
    /\ LET gone == before \ FilesOf(dir)
       IN  /\ nodes' = [p \in Path |-> IF p \in gone THEN None ELSE nodes[p]]
           /\ misused' = (misused \/ \E p \in gone : nodes[p] = Folder)
    /\ UNCHANGED <<savedTree, syncBack, copied, dir, before, dated, unreadFiles, redone>>

\* The temporary directory is removed; dir stays as a history of what it held.
RunEnds ==
    /\ run = "cleaning" /\ run' = "done"
    /\ UNCHANGED <<treeVars, syncBack, copied, dir, before, dated, unreadFiles, redone>>

\* The disk refuses, or docker does not end in time: the directory is removed,
\* and what was read back stays.
RunFails ==
    /\ run \in {"copying", "running", "reading"} /\ run' = "failed"
    /\ UNCHANGED <<treeVars, syncBack, copied, dir, before, dated, unreadFiles, redone>>

\* The paths that reading back has still to reach.
StillToCome ==
    CASE run = "reading" -> unreadFiles \cup (before \ FilesOf(dir))
      [] run \in {"cleaning", "done", "failed"} -> {}
      [] OTHER -> Path

\* A node that was deleted is met again if it comes back.
RunSession ==
    /\ VfsEdit  \* (bound: no snapshot is restored meanwhile)
    /\ copied' = {p \in copied : nodes'[p] # None}
    /\ redone' = redone \cup (Changed(nodes, nodes') \ StillToCome)
    /\ UNCHANGED <<run, syncBack, dir, before, dated, unreadFiles>>

RunNext ==
    \/ RunStart \/ CopyEnds \/ DockerReturns \/ RemoveBack \/ RunEnds \/ RunFails \/ RunSession
    \/ \E p \in Path : \/ CopyNode(p) \/ ContainerRemoves(p) \/ ReadBack(p)
                       \/ \E x \in Content : ContainerWrites(p, x)

RunSpec == RunInit /\ [][RunNext]_runVars
-----------------------------------------------------------------------------
RunTypeOK ==
    /\ TreeTypeOK /\ dir \in Tree /\ syncBack \in BOOLEAN
    /\ run \in {"none", "copying", "running", "reading", "cleaning", "done", "failed"}
    /\ copied \cup before \cup dated \cup unreadFiles \cup redone \subseteq Path

\* What the session writes to the VFS while a container works survives, but at
\* the paths the container itself wrote or removed.
ReadBackKeepsOthers ==
    [][(RemoveBack \/ \E p \in Path : ReadBack(p)) =>
         \A q \in Changed(nodes, nodes') :
           \/ q \in dated
           \/ q \in before /\ dir[q] = None
           \/ nodes[q] = None /\ nodes'[q] = Folder /\ dated \cap Below(q) # {}]_runVars

\* When the run is over the VFS has everything the container did, unless the
\* session has changed the path since it was read back.
ContainersWorkArrives ==
    run = "done" /\ syncBack =>
      \A p \in dated \cup before :
        p \in dated \/ dir[p] = None => nodes[p] = dir[p] \/ p \in redone
=============================================================================

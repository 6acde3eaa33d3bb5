------------------------------ MODULE VfsMounts ------------------------------
(***************************************************************************)
(* The two calls that copy a tree into the VFS (src/vfs/vfs.ts), each      *)
(* while the session's code calls the same VFS.                            *)
(*                                                                         *)
(* mountFromDisk() copies a directory file by file, suspended on the disk  *)
(* before each.  The walk goes a directory before what is in it; the order *)
(* among siblings is the disk's.                                           *)
(*                                                                         *)
(* mountGit() fetches the listing of a repository, sets its directories,   *)
(* then fetches its files in batches and sets those of a batch together.   *)
(* Which files a limit on size, an extension or a pattern leaves out is a  *)
(* set.                                                                    *)
(***************************************************************************)
EXTENDS Vfs, FiniteSets

CONSTANTS
    OnDisk   \* the tree on disk, by the paths its nodes get in the VFS

ASSUME MountAssumption ==
    /\ OnDisk \in Tree
    /\ \A p \in Path : OnDisk[p] # None => p \in Below(Target)
    /\ \A p \in Path : OnDisk[p] # None => \A q \in Above(p) \cap Below(Target) : OnDisk[q] = Folder

VARIABLES
    mount,    \* "none", "walking", "done", "failed"
    stored,   \* the paths the walk has stored
    changed   \* (history) the stored paths the session has changed since

inMount == <<mount, stored, changed>>
diskMountVars == <<treeVars, inMount>>

MountInit == TreeInit /\ mount = "none" /\ stored = {} /\ changed = {}

Items == {p \in Path : OnDisk[p] # None}

\* The directory is set; those above it are not made.
MountStart ==
    /\ mount = "none" /\ mount' = "walking"
    /\ nodes' = [nodes EXCEPT ![Target] = Folder]
    /\ misused' = (misused \/ \E q \in Above(Target) : nodes[q] # Folder)
    /\ UNCHANGED <<savedTree, stored, changed>>

\* An item arrives from the disk and is set, over whatever is there by now.
MountStore(p) ==
    /\ mount = "walking" /\ p \in Items \ stored
    /\ Above(p) \cap Items \subseteq stored
    /\ nodes' = [nodes EXCEPT ![p] = OnDisk[p]]
    /\ misused' = (misused \/ (\E q \in Above(p) : nodes[q] # Folder)
                           \/ (nodes[p] = Folder /\ OnDisk[p] # Folder))
    /\ stored' = stored \cup {p}
    /\ UNCHANGED <<savedTree, mount, changed>>

MountEnds ==
    /\ mount = "walking" /\ Items \subseteq stored /\ mount' = "done"
    /\ UNCHANGED <<treeVars, stored, changed>>

\* The disk refuses something: what was copied stays.
MountFails == mount = "walking" /\ mount' = "failed" /\ UNCHANGED <<treeVars, stored, changed>>

SessionCalls ==
    /\ VfsCall
    /\ changed' = changed \cup (Changed(nodes, nodes') \cap stored)
    /\ UNCHANGED <<mount, stored>>

MountNext ==
    \/ MountStart \/ MountEnds \/ MountFails \/ SessionCalls
    \/ \E p \in Path : MountStore(p)

MountSpec == MountInit /\ [][MountNext]_diskMountVars
-----------------------------------------------------------------------------
MountTypeOK ==
    /\ TreeTypeOK /\ mount \in {"none", "walking", "done", "failed"}
    /\ changed \subseteq stored /\ stored \subseteq Path

\* When the mount is done the VFS has the whole tree of the disk, but for what
\* the session has changed after it was copied: what the session wrote before,
\* and during the mount ahead of the walk, has been overwritten.
MountedUnlessChanged ==
    mount = "done" => \A p \in Items : nodes[p] = OnDisk[p] \/ p \in changed

-----------------------------------------------------------------------------
(* mountGit().                                                             *)

CONSTANTS
    Repository, \* its tree, by the paths its nodes get in the VFS
    LeftOut,    \* its files that a filter leaves out
    MaxFiles, BatchSize

ASSUME RepositoryAssumption ==
    /\ Repository \in Tree /\ LeftOut \subseteq Path
    /\ \A p \in Path : Repository[p] # None => p \in Below(Target)
    /\ \A p \in Path : Repository[p] # None =>
          \A q \in Above(p) \cap Below(Target) : Repository[q] = Folder
    /\ IsFiniteSet({p \in Path : Repository[p] # None})
    /\ MaxFiles \in Nat /\ BatchSize \in Nat \ {0}

VARIABLES
    git,            \* "none", "listing", "fetching", "done", "failed"
    filesToFetch,   \* those not fetched yet
    filesLoaded, skipped,
    loaded,         \* (history) the files that were set
    alteredSince    \* (history) those of them the session has changed since

inGit == <<git, filesToFetch, filesLoaded, skipped, loaded, alteredSince>>
gitVars == <<treeVars, inGit>>

GitInit ==
    /\ TreeInit /\ git = "none" /\ filesToFetch = {} /\ filesLoaded = 0 /\ skipped = 0
    /\ loaded = {} /\ alteredSince = {}

Blobs == {p \in Path : Repository[p] \in Content}
Trees == {p \in Path : Repository[p] = Folder}
Least(m, n) == IF m <= n THEN m ELSE n

\* The url is read and the listing requested.
GitStart ==
    /\ git = "none" /\ git' = "listing"
    /\ UNCHANGED <<treeVars, filesToFetch, filesLoaded, skipped, loaded, alteredSince>>

\* The listing comes: directories are set, those above the target are not
\* made, and the files to fetch are chosen, the rest counted as skipped.
GitListing ==
    /\ git = "listing" /\ git' = "fetching"
    /\ nodes' = [p \in Path |-> IF p \in Trees \cup {Target} THEN Folder ELSE nodes[p]]
    /\ misused' = (misused \/ \E q \in Above(Target) : nodes[q] # Folder)
    /\ \E chosen \in SUBSET (Blobs \ LeftOut) :
         /\ Cardinality(chosen) = Least(MaxFiles, Cardinality(Blobs \ LeftOut))
         /\ filesToFetch' = chosen
         /\ skipped' = Cardinality(Blobs) - Cardinality(chosen)
    /\ UNCHANGED <<savedTree, filesLoaded, loaded, alteredSince>>

\* The next files of the list, as many as a batch has.
Batches == {batch \in SUBSET filesToFetch :
              Cardinality(batch) = Least(BatchSize, Cardinality(filesToFetch))}

\* Set the files of a batch, with the directories on the way.
PutAll(t, files) ==
    [q \in Path |-> IF q \in files THEN Repository[q]
                    ELSE IF t[q] = None /\ files \cap Below(q) # {} THEN Folder ELSE t[q]]

BugGitForgetsRefused ==
    /\ git = "fetching" /\ filesToFetch # {}
    /\ \E batch \in Batches : \E came \in SUBSET batch :
         /\ nodes' = PutAll(nodes, came)
         /\ misused' = (misused \/ \E p \in came : FileInTheWay(p) \/ nodes[p] = Folder)
         /\ filesToFetch' = filesToFetch \ batch
         /\ filesLoaded' = filesLoaded + Cardinality(came)
         /\ loaded' = loaded \cup came /\ alteredSince' = alteredSince \ came
    /\ UNCHANGED <<savedTree, git, skipped>>

\* The answers for a batch are all there: those that were refused are skipped.
GitBatch ==
    /\ git = "fetching" /\ filesToFetch # {}
    /\ \E batch \in Batches : \E came \in SUBSET batch :
         /\ nodes' = PutAll(nodes, came)
         /\ misused' = (misused \/ \E p \in came : FileInTheWay(p) \/ nodes[p] = Folder)
         /\ filesToFetch' = filesToFetch \ batch
         /\ filesLoaded' = filesLoaded + Cardinality(came)
         /\ skipped' = skipped + Cardinality(batch \ came)
         /\ loaded' = loaded \cup came
    /\ UNCHANGED <<savedTree, git, alteredSince>>

GitEnds ==
    /\ git = "fetching" /\ filesToFetch = {} /\ git' = "done"
    /\ UNCHANGED <<treeVars, filesToFetch, filesLoaded, skipped, loaded, alteredSince>>

\* A request fails: what was set stays.
GitFails ==
    /\ git \in {"listing", "fetching"} /\ git' = "failed"
    /\ UNCHANGED <<treeVars, filesToFetch, filesLoaded, skipped, loaded, alteredSince>>

GitSession ==
    /\ VfsEdit  \* (bound: no snapshot is restored meanwhile)
    /\ alteredSince' = alteredSince \cup (Changed(nodes, nodes') \cap loaded)
    /\ UNCHANGED <<git, filesToFetch, filesLoaded, skipped, loaded>>

GitNext == GitStart \/ GitListing \/ GitBatch \/ GitEnds \/ GitFails \/ GitSession

GitSpec == GitInit /\ [][GitNext]_gitVars
-----------------------------------------------------------------------------
GitTypeOK ==
    /\ TreeTypeOK /\ git \in {"none", "listing", "fetching", "done", "failed"}
    /\ filesToFetch \subseteq Blobs /\ loaded \subseteq Blobs /\ alteredSince \subseteq loaded
    /\ filesLoaded \in Nat /\ skipped \in Nat

\* The result of a mount accounts for every file of the repository, and every
\* file it counts as loaded is in the VFS unless the session has changed it since.
GitResultIsTrue ==
    git = "done" => /\ filesLoaded + skipped = Cardinality(Blobs)
                    /\ filesLoaded = Cardinality(loaded)
                    /\ \A p \in loaded : nodes[p] = Repository[p] \/ p \in alteredSince
==============================================================================

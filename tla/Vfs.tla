-------------------------------- MODULE Vfs --------------------------------
(***************************************************************************)
(* The virtual file system of a session without a live mount               *)
(* (src/vfs/vfs.ts): its synchronous calls, one action each.  The modules  *)
(* about transfers compose these calls with one that copies a tree in or   *)
(* out while the session goes on.  Content is a value of Content, also     *)
(* what an append leaves; dates, modes and sizes are left out, and so are  *)
(* calls that throw before they change anything.                           *)
(***************************************************************************)
EXTENDS VfsTree

CONSTANTS
    Target,  \* the directory of the VFS a transfer is about
    Named    \* bound: the paths the session's calls name

ASSUME TargetAssumption == Target \in Path /\ Named \subseteq Path

VARIABLES
    nodes,      \* the Map
    savedTree,  \* what snapshot() last returned
    misused     \* (history) a call put a file where a directory is, or the like

treeVars == <<nodes, savedTree, misused>>

TreeInit == nodes = EmptyTree /\ savedTree = EmptyTree /\ misused = FALSE

FileInTheWay(p) == \E q \in Above(p) : nodes[q] \in Content

\* A node reached by no listing: something above it is not a directory.
Hidden(t, p) == t[p] # None /\ \E q \in Above(p) : t[q] # Folder

BugVfsWrite(p, x) ==
    /\ nodes' = [nodes EXCEPT ![p] = x]
    /\ misused' = (misused \/ FileInTheWay(p) \/ nodes[p] = Folder)
    /\ UNCHANGED savedTree

\* writeFile(): whatever was at p is replaced; no directory on the way is.
VfsWrite(p, x) ==
    /\ nodes' = Put(nodes, p, x)
    /\ misused' = (misused \/ FileInTheWay(p) \/ nodes[p] = Folder)
    /\ UNCHANGED savedTree

VfsMkdir(p) ==
    /\ nodes' = Put(nodes, p, IF nodes[p] = None THEN Folder ELSE nodes[p])
    /\ misused' = (misused \/ FileInTheWay(p))
    /\ UNCHANGED savedTree

\* append(): makes a file, or changes the one there in place; on a directory it throws.
VfsAppend(p, x) ==
    /\ nodes[p] # Folder
    /\ nodes' = IF nodes[p] = None THEN Put(nodes, p, x) ELSE [nodes EXCEPT ![p] = x]
    /\ misused' = (misused \/ (nodes[p] = None /\ FileInTheWay(p)))
    /\ UNCHANGED savedTree

\* rm(): a directory removed without its content leaves that behind.
VfsRm(p, recursive) ==
    /\ nodes' = Removed(nodes, p, recursive)
    /\ misused' = (misused \/ (nodes[p] = Folder /\ ~recursive))
    /\ UNCHANGED savedTree

VfsCp(from, to) == nodes[from] \in Content /\ VfsWrite(to, nodes[from])

\* mv().  (Bound: not of a directory below itself.)
VfsMv(from, to) ==
    /\ nodes[from] # None /\ to \notin Below(from)
    /\ Rebased(nodes, from, to) \subseteq Path
    /\ nodes' = Moved(nodes, from, to)
    /\ misused' = (misused \/ FileInTheWay(to) \/ (nodes[to] = Folder /\ from # to))
    /\ UNCHANGED savedTree

VfsSnapshot == savedTree' = nodes /\ UNCHANGED <<nodes, misused>>

VfsRestore == nodes' = savedTree /\ UNCHANGED <<savedTree, misused>>

\* A call of the session's code that changes one place or two.
VfsEdit ==
    \E p \in Named : \/ \E x \in Content : VfsWrite(p, x) \/ VfsAppend(p, x)
                     \/ VfsMkdir(p)
                     \/ \E recursive \in BOOLEAN : VfsRm(p, recursive)
                     \/ \E q \in Named : VfsCp(p, q) \/ VfsMv(p, q)

VfsCall == VfsEdit \/ VfsSnapshot \/ VfsRestore

TreeTypeOK == nodes \in Tree /\ savedTree \in Tree /\ misused \in BOOLEAN

\* Every node can be reached from the root by listing directories, unless some
\* call put a file where a directory was, went below a file, or removed a
\* directory and not what is in it.
ListedUnlessMisused == misused \/ \A p \in Path : ~Hidden(nodes, p)
=============================================================================

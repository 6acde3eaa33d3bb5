------------------------------ MODULE VfsTree ------------------------------
(***************************************************************************)
(* The trees of the virtual file system (src/vfs/vfs.ts): a map from paths *)
(* to nodes.  The root is in no tree and always there.                     *)
(***************************************************************************)
EXTENDS Naturals, Sequences, Nothing

CONSTANTS
    Path,      \* paths, as sequences of names
    Content,   \* what a file may hold
    Folder     \* a directory node

\* The directories on the way to a path are paths too.
ASSUME PathAssumption == \A p \in Path :
    /\ p \in Seq(STRING) /\ p # <<>>
    /\ \A n \in 1 .. Len(p) : SubSeq(p, 1, n) \in Path
ASSUME NodeAssumption == None \notin Content /\ Folder \notin Content /\ None # Folder

Node == Content \cup {None, Folder}
Tree == [Path -> Node]
EmptyTree == [p \in Path |-> None]

\* The directories on the way to p, and what lies below it.
Above(p) == {q \in Path : Len(q) < Len(p) /\ q = SubSeq(p, 1, Len(q))}
Below(p) == {q \in Path : p \in Above(q)}

\* Write a node, making the directories on the way (ensureParents in the VFS,
\* mkdirSync on disk).
Put(t, p, x) ==
    [q \in Path |-> IF q = p THEN x
                    ELSE IF q \in Above(p) /\ t[q] = None THEN Folder ELSE t[q]]

Take(t, p) == [t EXCEPT ![p] = None]

Prune(t, p) == [q \in Path |-> IF q \in {p} \cup Below(p) THEN None ELSE t[q]]

\* rm: a path that has no node is left alone, with whatever is below it.
Removed(t, p, recursive) ==
    IF t[p] = None THEN t ELSE IF recursive THEN Prune(t, p) ELSE Take(t, p)

Changed(t, u) == {q \in Path : t[q] # u[q]}

\* Where the nodes below a path go when it is moved.
Rebase(q, from, to) == to \o SubSeq(q, Len(from) + 1, Len(q))
Rebased(t, from, to) == {Rebase(q, from, to) : q \in {c \in Below(from) : t[c] # None}}

\* mv: the node is set at the target, then deleted at the source, then its
\* children follow.  Moved onto itself it is gone.
Moved(t, from, to) ==
    LET u == Put(t, to, t[from])
        moved == {q \in Below(from) : t[from] = Folder /\ t[q] # None}
    IN [q \in Path |->
          IF q = from \/ q \in moved THEN None
          ELSE IF \E c \in moved : Rebase(c, from, to) = q
               THEN t[CHOOSE c \in moved : Rebase(c, from, to) = q]
               ELSE u[q]]
=============================================================================

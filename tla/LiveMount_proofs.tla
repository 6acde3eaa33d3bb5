-------------------------- MODULE LiveMount_proofs --------------------------
(***************************************************************************)
(* Proofs about LiveMount, for every set of paths, ignore patterns and     *)
(* contents and any number of calls: the types, that auto-flush leaves     *)
(* nothing to review, that no file drifts apart unnoticed, and that a      *)
(* flush brings the two sides together.                                    *)
(*                                                                         *)
(* DivergenceIsTracked is not inductive.  MountIInv adds the shape of the  *)
(* two sides: a path keeps its kind, what is on disk has its directories,  *)
(* and a path has one diff, a write only if it is a file's.  TrackIInv     *)
(* adds what the load still has to do for a file that differs (ToLoad),    *)
(* and what the list must hold to tell what the agent has there (Tells).   *)
(* The disk may refuse what it is asked: every such case is in the steps.  *)
(***************************************************************************)
EXTENDS LiveMount, SequenceTheorems, WellFoundedInduction, TLAPS

----------------------------------------------------------------------------
(* Paths: which lie on the way to another, and where they go when moved.   *)

LEMMA PathSeq ==
    ASSUME NEW p \in Path
    PROVE  p \in Seq(STRING) /\ Len(p) \in Nat /\ Len(p) > 0
<1>1. p \in Seq(STRING) /\ p # <<>>
    BY PathAssumption
<1> QED
    BY <1>1, EmptySeq

LEMMA PrefixOfPrefix ==
    ASSUME NEW S, NEW s \in Seq(S), NEW n \in 0 .. Len(s), NEW m \in 0 .. n
    PROVE  /\ SubSeq(SubSeq(s, 1, n), 1, m) = SubSeq(s, 1, m)
           /\ Len(SubSeq(s, 1, n)) = n
<1> DEFINE u == SubSeq(s, 1, n)
<1>0. Len(s) \in Nat /\ \A i \in 1 .. Len(s) : s[i] \in S
    BY LenProperties
<1>1. u \in Seq(S) /\ Len(u) = n
    <2>1. \A i \in 1 .. n : s[i] \in S
        BY <1>0
    <2>2. u \in Seq(S) /\ Len(u) = IF 1 <= n THEN n - 1 + 1 ELSE 0
        BY <1>0, <2>1, SubSeqProperties
    <2> QED
        BY <1>0, <2>2
<1>2. u = Restrict(s, 1 .. n) /\ SubSeq(s, 1, m) = Restrict(s, 1 .. m)
    BY <1>0, SubSeqRestrict
<1>3. SubSeq(u, 1, m) = Restrict(u, 1 .. m)
    BY <1>1, SubSeqRestrict
<1>4. \A i \in 1 .. m : u[i] = s[i]
    BY <1>0, <1>2 DEF Restrict
<1> HIDE DEF u
<1>5. Restrict(u, 1 .. m) = Restrict(s, 1 .. m)
    BY <1>4 DEF Restrict
<1> QED
    BY <1>1, <1>2, <1>3, <1>5 DEF u

LEMMA OnTheWay ==
    ASSUME NEW p \in Path, NEW q \in Above(p)
    PROVE  q \in Path /\ q # p /\ Len(q) < Len(p) /\ q = SubSeq(p, 1, Len(q))
    BY PathSeq DEF Above

LEMMA AboveTransitive ==
    ASSUME NEW p \in Path, NEW q \in Above(p), NEW r \in Above(q)
    PROVE  r \in Above(p)
<1>1. /\ q \in Path /\ Len(q) < Len(p) /\ q = SubSeq(p, 1, Len(q))
      /\ r \in Path /\ Len(r) < Len(q) /\ r = SubSeq(q, 1, Len(r))
    BY OnTheWay
<1>2. Len(q) \in 0 .. Len(p) /\ Len(r) \in 0 .. Len(q) /\ Len(p) \in Nat
    BY <1>1, PathSeq
<1>3. SubSeq(q, 1, Len(r)) = SubSeq(p, 1, Len(r))
    <2>1. SubSeq(SubSeq(p, 1, Len(q)), 1, Len(r)) = SubSeq(p, 1, Len(r))
        BY <1>2, PathSeq, PrefixOfPrefix
    <2> QED
        BY <1>1, <2>1
<1> QED
    BY <1>1, <1>2, <1>3 DEF Above

LEMMA BelowTransitive ==
    ASSUME NEW p \in Path, NEW q \in {p} \cup Below(p), NEW x \in Path, q \in Above(x)
    PROVE  x \in Below(p)
    BY AboveTransitive DEF Below

\* The n first names of a path are a path on the way to it, or all of it.
LEMMA PrefixOnTheWay ==
    ASSUME NEW p \in Path, NEW n \in 1 .. Len(p)
    PROVE  /\ SubSeq(p, 1, n) \in {p} \cup Above(p)
           /\ SubSeq(p, 1, n) \in Path
           /\ Len(SubSeq(p, 1, n)) = n
           /\ \A q \in Above(p) : Len(q) < n => q \in Above(SubSeq(p, 1, n))
<1> DEFINE u == SubSeq(p, 1, n)
<1>0. p \in Seq(STRING) /\ Len(p) \in Nat /\ n \in 0 .. Len(p)
    BY PathSeq
<1>1. Len(u) = n
    BY <1>0, PrefixOfPrefix
<1>2. u \in Path
    BY PathAssumption
<1>3. u \in {p} \cup Above(p)
    <2>1. CASE n = Len(p)
        BY <1>0, <2>1, SubSeqFull
    <2>2. CASE n < Len(p)
        <3> HIDE DEF u
        <3>1. Len(u) < Len(p) /\ u = SubSeq(p, 1, Len(u))
            BY <1>1, <2>2 DEF u
        <3> QED
            BY <1>2, <3>1 DEF Above
    <2> QED
        BY <1>0, <2>1, <2>2
<1>4. ASSUME NEW q \in Above(p), Len(q) < n
      PROVE  q \in Above(u)
    <2>1. q \in Path /\ q = SubSeq(p, 1, Len(q)) /\ Len(q) \in Nat
        BY OnTheWay, PathSeq
    <2>2. Len(q) \in 0 .. n
        BY <1>0, <1>4, <2>1
    <2>3. SubSeq(u, 1, Len(q)) = SubSeq(p, 1, Len(q))
        BY <1>0, <2>2, PrefixOfPrefix
    <2> HIDE DEF u
    <2> QED
        BY <1>1, <1>4, <2>1, <2>3 DEF Above
<1> QED
    BY <1>1, <1>2, <1>3, <1>4

\* The first directory on the way to a path, or the path itself.
LEMMA TopOnTheWay ==
    ASSUME NEW p \in Path
    PROVE  \E q \in {p} \cup Above(p) : q \in Path /\ Above(q) = {}
<1> DEFINE u == SubSeq(p, 1, 1)
<1>1. 1 \in 1 .. Len(p)
    BY PathSeq
<1>2. u \in {p} \cup Above(p) /\ u \in Path /\ Len(u) = 1
    BY <1>1, PrefixOnTheWay
<1> HIDE DEF u
<1>3. Above(u) = {}
    <2> SUFFICES ASSUME NEW q \in Above(u) PROVE FALSE
        OBVIOUS
    <2>1. q \in Path /\ Len(q) < 1
        BY <1>2, OnTheWay
    <2> QED
        BY <2>1, PathSeq
<1> QED
    BY <1>2, <1>3

\* The next one below a directory on the way.
LEMMA NextOnTheWay ==
    ASSUME NEW p \in Path, NEW q \in Above(p)
    PROVE  \E r \in {p} \cup Above(p) : r \in Below(q) /\ Len(r) = Len(q) + 1
<1> DEFINE n == Len(q) + 1
           u == SubSeq(p, 1, n)
<1>1. n \in 1 .. Len(p) /\ Len(q) < n /\ Len(q) \in Nat
    BY OnTheWay, PathSeq
<1>2. /\ u \in {p} \cup Above(p) /\ u \in Path /\ Len(u) = n
      /\ q \in Above(u)
    BY <1>1, PrefixOnTheWay
<1> HIDE DEF u
<1> QED
    BY <1>2 DEF Below

\* What was below a path is below where it is moved.
LEMMA RebaseIsBelow ==
    ASSUME NEW from \in Path, NEW to \in Path, NEW q \in Below(from), Rebase(q, from, to) \in Path
    PROVE  Rebase(q, from, to) \in Below(to) /\ Rebase(q, from, to) # to
<1> DEFINE rest == SubSeq(q, Len(from) + 1, Len(q))
           u == to \o rest
<1>1. /\ q \in Path /\ Len(from) < Len(q) /\ q \in Seq(STRING)
      /\ Len(from) \in Nat /\ Len(q) \in Nat /\ to \in Seq(STRING) /\ Len(to) \in Nat
    BY PathSeq, OnTheWay DEF Below
<1>2. rest \in Seq(STRING) /\ Len(rest) \in Nat /\ Len(rest) > 0
    <2>1. \A i \in Len(from) + 1 .. Len(q) : q[i] \in STRING
        BY <1>1, ElementOfSeq
    <2>2. /\ rest \in Seq(STRING)
          /\ Len(rest) = IF Len(from) + 1 <= Len(q) THEN Len(q) - (Len(from) + 1) + 1 ELSE 0
        BY <1>1, <2>1, SubSeqProperties
    <2> QED
        BY <1>1, <2>2
<1> HIDE DEF rest
<1>3. u \in Seq(STRING) /\ Len(u) = Len(to) + Len(rest) /\ \A i \in 1 .. Len(to) : u[i] = to[i]
    BY <1>1, <1>2, ConcatProperties
<1>4. Len(to) \in 0 .. Len(u) /\ Len(to) < Len(u)
    BY <1>1, <1>2, <1>3
<1> HIDE DEF u
<1>5. SubSeq(u, 1, Len(to)) = to
    <2>1. SubSeq(u, 1, Len(to)) = Restrict(u, 1 .. Len(to))
        BY <1>3, <1>4, SubSeqRestrict
    <2>2. to = Restrict(to, 1 .. Len(to))
        <3>1. SubSeq(to, 1, Len(to)) = Restrict(to, 1 .. Len(to))
            BY <1>1, SubSeqRestrict
        <3> QED
            BY <1>1, <3>1, SubSeqFull
    <2>3. Restrict(u, 1 .. Len(to)) = Restrict(to, 1 .. Len(to))
        BY <1>3 DEF Restrict
    <2> QED
        BY <2>1, <2>2, <2>3
<1>6. u = Rebase(q, from, to)
    BY DEF u, rest, Rebase
<1> QED
    BY <1>4, <1>5, <1>6 DEF Below, Above

----------------------------------------------------------------------------

KindOf(p) == IF p \in Folders THEN {Folder, None} ELSE Content \cup {None}

Kinds(t) == \A p \in Path : t[p] \in KindOf(p)

IsTree(t) == \A p \in Path : t[p] # None => \A q \in Above(p) : t[q] = Folder

\* Deletions of paths, writes of files.
Deletion == {DeleteDiff(p) : p \in Path}
Writing == {PutDiff(r[1], r[2]) : r \in Files \X Content}

\* The keys of a Map are distinct.
Keyed(list) == \A i, j \in DOMAIN list : list[i].path = list[j].path => i = j

HasDiff(list, d) == \E i \in DOMAIN list : list[i] = d

MountIInv ==
    /\ TypeOK
    /\ Kinds(vfs)
    /\ Kinds(disk)
    /\ IsTree(disk)
    /\ pending \in Seq(Deletion \cup Writing)
    /\ Keyed(pending)
    /\ AutoFlushReviewsNothing

\* The load will come to p: it is there, no directory above it is ignored, and
\* it, or one of those, has been listed, or it has been read.
ToLoad(p) ==
    /\ disk[p] # None
    /\ Above(p) \cap Ignored = {}
    /\ \/ \E q \in {p} \cup Above(p) : q \in unread
       \/ \E r \in read : r[1] = p

\* The list says that p holds v, or it holds a write of p and the deletion of a
\* directory above it.
Tells(list, v, p) ==
    \/ v \in Content /\ HasDiff(list, PutDiff(p, v))
    \/ v = None /\ \E q \in {p} \cup Above(p) : HasDiff(list, DeleteDiff(q))
    \/ /\ \E x \in Content : HasDiff(list, PutDiff(p, x))
       /\ \E q \in Above(p) : HasDiff(list, DeleteDiff(q))

\* Nothing is read before it is stored when the load has ended.
LoadStores == phase # "loading" => read = {}

LoadTracks ==
    phase = "loading" =>
        /\ pending = <<>>
        /\ \A r, s \in read : r = s
        /\ \A p \in Synced : vfs[p] # disk[p] => p \in blind \/ ToLoad(p)

WatchTracks ==
    Watching => \A p \in Synced :
        vfs[p] # disk[p] => p \in events \/ p \in blind \/ Tells(pending, vfs[p], p)

TrackIInv == LoadStores /\ LoadTracks /\ WatchTracks

----------------------------------------------------------------------------
(* Paths.                                                                  *)

LEMMA AboveIsPrefix ==
    ASSUME NEW p \in Path, NEW q \in Above(p)
    PROVE  q \in Path /\ q \in Folders /\ q # p /\ Len(q) < Len(p) /\ q = SubSeq(p, 1, Len(q))
    BY OnTheWay, KindAssumption

\* A file is above nothing.
LEMMA FileAboveNothing ==
    ASSUME NEW p \in Path, NEW q \in Files
    PROVE  q \notin Above(p)
    BY AboveIsPrefix DEF Files

----------------------------------------------------------------------------
(* What the operations do to a tree.                                       *)

LEMMA PutShape ==
    ASSUME NEW t \in Tree, Kinds(t), NEW p \in Path, NEW x \in KindOf(p)
    PROVE  /\ Put(t, p, x) \in Tree /\ Kinds(Put(t, p, x)) /\ Put(t, p, x)[p] = x
           /\ \A q \in Files : q # p => Put(t, p, x)[q] = t[q]
<1>1. ASSUME NEW q \in Path PROVE Put(t, p, x)[q] \in KindOf(q) /\ Put(t, p, x)[q] \in Node
    <2>1. CASE q = p
        BY <2>1 DEF Put, KindOf, Node
    <2>2. CASE q # p /\ q \in Above(p) /\ t[q] = None
        BY <2>2, AboveIsPrefix DEF Put, KindOf, Node
    <2>3. CASE q # p /\ ~ (q \in Above(p) /\ t[q] = None)
        BY <2>3 DEF Put, Kinds, Tree
    <2> QED
        BY <2>1, <2>2, <2>3
<1>2. Put(t, p, x) \in Tree
    BY <1>1 DEF Put, Tree
<1>3. \A q \in Files : q # p => Put(t, p, x)[q] = t[q]
    BY FileAboveNothing DEF Put, Files
<1> QED
    BY <1>1, <1>2, <1>3 DEF Kinds, Put

LEMMA PutIsTree ==
    ASSUME NEW t \in Tree, Kinds(t), IsTree(t), NEW p \in Path, NEW x \in KindOf(p), x # None
    PROVE  IsTree(Put(t, p, x))
<1> SUFFICES ASSUME NEW q \in Path, Put(t, p, x)[q] # None, NEW r \in Above(q)
             PROVE  Put(t, p, x)[r] = Folder
    BY DEF IsTree
<1>1. r \in Path /\ r \in Folders /\ t[r] \in {Folder, None}
    BY AboveIsPrefix DEF Kinds, KindOf
<1>2. CASE r \in Above(p)
    <2>1. r # p
        BY <1>2, AboveIsPrefix
    <2> QED
        BY <1>1, <1>2, <2>1 DEF Put
<1>3. CASE r = p
    BY <1>1, <1>3 DEF Put, KindOf
<1>4. CASE r \notin Above(p) /\ r # p
    <2>1. q # p /\ q \notin Above(p)
        BY <1>1, <1>4, AboveTransitive
    <2>2. t[q] # None
        BY <2>1 DEF Put
    <2> QED
        BY <1>1, <1>4, <2>2 DEF Put, IsTree
<1> QED
    BY <1>2, <1>3, <1>4

\* What a write that throws may leave is a tree, and other files are as they were.
LEMMA TornShape ==
    ASSUME NEW t \in Tree, Kinds(t), IsTree(t), NEW p \in Files, NEW u \in Torn(t, p)
    PROVE  /\ u \in Tree /\ Kinds(u) /\ IsTree(u)
           /\ \A q \in Files : q # p => u[q] = t[q]
<1>1. CASE u = t
    BY <1>1
<1>2. ASSUME NEW r \in Above(p), u = Put(t, r, Folder)
      PROVE  /\ u \in Tree /\ Kinds(u) /\ IsTree(u)
             /\ \A q \in Files : u[q] = t[q]
    <2>1. r \in Path /\ r \in Folders /\ Folder \in KindOf(r) /\ Folder # None
        BY <1>2, AboveIsPrefix, NodeAssumption DEF KindOf, Files
    <2>2. \A q \in Files : q # r
        BY <2>1 DEF Files
    <2> QED
        BY <1>2, <2>1, <2>2, PutShape, PutIsTree
<1>3. ASSUME NEW x \in Content, u = Put(t, p, x)
      PROVE  /\ u \in Tree /\ Kinds(u) /\ IsTree(u)
             /\ \A q \in Files : q # p => u[q] = t[q]
    <2>1. p \in Path /\ x \in KindOf(p) /\ x # None
        BY NodeAssumption DEF KindOf, Files
    <2> QED
        BY <1>3, <2>1, PutShape, PutIsTree
<1> QED
    BY <1>1, <1>2, <1>3 DEF Torn

LEMMA PruneShape ==
    ASSUME NEW t \in Tree, Kinds(t), NEW p \in Path
    PROVE  /\ Prune(t, p) \in Tree /\ Kinds(Prune(t, p))
           /\ \A q \in Path : Prune(t, p)[q] = IF q \in {p} \cup Below(p) THEN None ELSE t[q]
    BY DEF Prune, Tree, Kinds, KindOf, Node

LEMMA PruneIsTree ==
    ASSUME NEW t \in Tree, IsTree(t), NEW p \in Path
    PROVE  IsTree(Prune(t, p))
<1> SUFFICES ASSUME NEW q \in Path, Prune(t, p)[q] # None, NEW r \in Above(q)
             PROVE  Prune(t, p)[r] = Folder
    BY DEF IsTree
<1>1. q \notin {p} \cup Below(p) /\ t[q] # None /\ r \in Path
    BY AboveIsPrefix DEF Prune
<1>2. r \notin {p} \cup Below(p)
    BY <1>1, BelowTransitive
<1> QED
    BY <1>1, <1>2 DEF Prune, IsTree

\* So is what a removal that fails may leave.
LEMMA RemainsShape ==
    ASSUME NEW t \in Tree, Kinds(t), IsTree(t), NEW p \in Path, NEW u \in Remains(t, p)
    PROVE  u \in Tree /\ Kinds(u) /\ IsTree(u)
<1>1. PICK kept \in SUBSET Below(p) :
          /\ \A q \in kept : Above(q) \cap Below(p) \subseteq kept
          /\ u = [q \in Path |-> IF q \in Below(p) \ kept THEN None ELSE t[q]]
    BY DEF Remains
<1>2. u \in Tree /\ Kinds(u)
    BY <1>1 DEF Tree, Kinds, KindOf, Node
<1>3. ASSUME NEW q \in Path, u[q] # None, NEW r \in Above(q)
      PROVE  u[r] = Folder
    <2>1. q \notin Below(p) \ kept /\ t[q] # None /\ r \in Path
        BY <1>1, <1>3, AboveIsPrefix
    <2>2. r \in Below(p) => q \in Below(p)
        BY <2>1, BelowTransitive
    <2>3. r \notin Below(p) \ kept
        BY <1>1, <2>1, <2>2
    <2> QED
        BY <1>1, <2>1, <2>3 DEF IsTree
<1> QED
    BY <1>2, <1>3 DEF IsTree

LEMMA RemovedShape ==
    ASSUME NEW t \in Tree, Kinds(t), NEW p \in Path, NEW recursive \in BOOLEAN
    PROVE  /\ Removed(t, p, recursive) \in Tree /\ Kinds(Removed(t, p, recursive))
           /\ Removed(t, p, recursive)[p] = None
           /\ \A q \in Path : \/ Removed(t, p, recursive)[q] = t[q]
                              \/ q \in {p} \cup Below(p) /\ Removed(t, p, recursive)[q] = None
<1>1. Take(t, p) \in Tree /\ Kinds(Take(t, p)) /\ Take(t, p)[p] = None
      /\ \A q \in Path : q # p => Take(t, p)[q] = t[q]
    BY DEF Take, Tree, Kinds, KindOf, Node
<1>2. CASE t[p] = None
    BY <1>2 DEF Removed
<1>3. CASE t[p] # None /\ recursive
    <2>1. Removed(t, p, recursive) = Prune(t, p)
        BY <1>3 DEF Removed
    <2> QED
        BY <2>1, PruneShape
<1>4. CASE t[p] # None /\ ~ recursive
    <2>1. Removed(t, p, recursive) = Take(t, p)
        BY <1>4 DEF Removed
    <2> QED
        BY <1>1, <2>1
<1> QED
    BY <1>2, <1>3, <1>4

LEMMA MovedShape ==
    ASSUME vfs \in Tree, Kinds(vfs), NEW from \in Path, NEW to \in Path, Movable(from, to)
    PROVE  LET t == Moved(vfs, from, to) IN
           /\ t \in Tree /\ Kinds(t) /\ t[from] = None
           /\ t[to] \in Content => to \in Files
           /\ \A q \in Files : \/ t[q] = vfs[q]
                               \/ q \in {from} \cup Below(from) /\ t[q] = None
                               \/ q \in {to} \cup Below(to)
<1> DEFINE t == Moved(vfs, from, to)
           u == Put(vfs, to, vfs[from])
           moved == {q \in Below(from) : vfs[from] = Folder /\ vfs[q] # None}
           into(q) == {c \in moved : Rebase(c, from, to) = q}
<1>1. vfs[from] \in KindOf(to)
    BY DEF Movable, SameKind, Kinds, KindOf
<1>2. u \in Tree /\ Kinds(u) /\ \A q \in Files : q # to => u[q] = vfs[q]
    BY <1>1, PutShape
<1>3. \A q \in Path : t[q] = IF q = from \/ q \in moved THEN None
                             ELSE IF into(q) # {} THEN vfs[CHOOSE c \in moved : Rebase(c, from, to) = q]
                             ELSE u[q]
    BY DEF Moved
<1>4. t = [q \in Path |-> t[q]]
    BY DEF Moved
<1> HIDE DEF t, u
<1>5. ASSUME NEW q \in Path, into(q) # {}
      PROVE  /\ vfs[CHOOSE c \in moved : Rebase(c, from, to) = q] \in KindOf(q)
             /\ q \in Below(to)
    <2> DEFINE c == CHOOSE c \in moved : Rebase(c, from, to) = q
    <2>1. c \in moved /\ Rebase(c, from, to) = q
        BY <1>5
    <2> HIDE DEF c
    <2>2. c \in Below(from) /\ c \in Path /\ vfs[c] # None
        BY <2>1 DEF Below
    <2>3. SameKind(c, q) /\ vfs[c] \in KindOf(c)
        BY <2>1, <2>2 DEF Movable, Kinds
    <2>4. q \in Below(to)
        BY <2>1, <2>2, RebaseIsBelow
    <2> QED
        BY <2>3, <2>4 DEF SameKind, KindOf, c
<1>6. ASSUME NEW q \in Path PROVE t[q] \in KindOf(q) /\ t[q] \in Node
    <2>1. t[q] \in KindOf(q)
        BY <1>2, <1>3, <1>5 DEF Kinds, KindOf
    <2> QED
        BY <2>1 DEF KindOf, Node
<1>7. t \in Tree /\ Kinds(t)
    BY <1>4, <1>6, Zenon DEF Tree, Kinds
<1>8. t[to] \in Content => to \in Files
    <2>1. t[to] \in KindOf(to)
        BY <1>6
    <2> QED
        BY <2>1, NodeAssumption DEF KindOf, Files
<1>9. \A q \in Files : \/ t[q] = vfs[q]
                       \/ q \in {from} \cup Below(from) /\ t[q] = None
                       \/ q \in {to} \cup Below(to)
    <2> SUFFICES ASSUME NEW q \in Files, q # to, q \notin Below(to)
                 PROVE  \/ t[q] = vfs[q]
                        \/ q \in {from} \cup Below(from) /\ t[q] = None
        OBVIOUS
    <2>1. q \in Path
        BY DEF Files
    <2>2. into(q) = {} /\ u[q] = vfs[q]
        BY <1>2, <1>5, <2>1
    <2> QED
        BY <1>3, <2>1, <2>2
<1>10. t[from] = None
    BY <1>3
<1> QED
    BY <1>7, <1>8, <1>9, <1>10 DEF t

----------------------------------------------------------------------------
(* The pending diffs.                                                      *)

LEMMA LargestExists ==
    ASSUME NEW k \in Nat, NEW T \in SUBSET (1 .. k), T # {}
    PROVE  \E m \in T : \A j \in T : j <= m
<1> DEFINE U == {k - i : i \in T}
<1>1. U \subseteq Nat /\ U # {}
    <2>1. \A i \in T : k - i \in Nat
        OBVIOUS
    <2>2. PICK i \in T : TRUE
        OBVIOUS
    <2>3. k - i \in U
        OBVIOUS
    <2> QED
        BY <2>1, <2>3
<1>2. PICK x \in U : \A y \in U : ~ (<<y, x>> \in OpToRel(<, Nat))
    BY <1>1, NatLessThanWellFounded, WFMin
<1>3. PICK m \in T : x = k - m
    OBVIOUS
<1>4. ASSUME NEW j \in T PROVE j <= m
    <2>1. k - j \in U /\ k - j \in Nat /\ x \in Nat
        BY <1>1
    <2>2. ~ (k - j < x)
        BY <1>2, <2>1 DEF OpToRel
    <2> QED
        BY <1>3, <2>2
<1> QED
    BY <1>4

LEMMA DiffShape ==
    ASSUME NEW d \in Deletion \cup Writing
    PROVE  /\ d.path \in Path
           /\ \/ d.action = "delete" /\ d = DeleteDiff(d.path)
              \/ /\ d.action = "put" /\ d.path \in Files /\ d.content \in Content
                 /\ d = PutDiff(d.path, d.content)
           /\ d \in Diff
<1>1. CASE d \in Deletion
    BY <1>1 DEF Deletion, DeleteDiff, Diff
<1>2. CASE d \in Writing
    <2>1. PICK r \in Files \X Content : d = PutDiff(r[1], r[2])
        BY <1>2 DEF Writing
    <2> QED
        BY <2>1 DEF PutDiff, Diff, Files
<1> QED
    BY <1>1, <1>2

LEMMA DiffsMade ==
    /\ \A p \in Path : DeleteDiff(p) \in Deletion \cup Writing
    /\ \A p \in Files, x \in Content : PutDiff(p, x) \in Deletion \cup Writing
<1>1. ASSUME NEW p \in Files, NEW x \in Content PROVE PutDiff(p, x) \in Writing
    <2>1. <<p, x>> \in Files \X Content /\ PutDiff(p, x) = PutDiff(<<p, x>>[1], <<p, x>>[2])
        OBVIOUS
    <2> QED
        BY <2>1 DEF Writing
<1> QED
    BY <1>1 DEF Deletion

\* A diff takes the place of the one its path had, or the last place.
LEMMA RecordKeeps ==
    ASSUME NEW list \in Seq(Deletion \cup Writing), Keyed(list), NEW d \in Deletion \cup Writing
    PROVE  /\ Record(list, d) \in Seq(Deletion \cup Writing)
           /\ Keyed(Record(list, d))
           /\ HasDiff(Record(list, d), d)
           /\ \A e : HasDiff(list, e) /\ e.path # d.path => HasDiff(Record(list, d), e)
<1> DEFINE D == Deletion \cup Writing
           n == Len(list)
           new == Record(list, d)
<1>1. n \in Nat /\ DOMAIN list = 1 .. n /\ list \in [1 .. n -> D]
    BY LenProperties
<1> HIDE DEF D
<1>2. CASE \E i \in DOMAIN list : list[i].path = d.path
    <2>1. new = [i \in 1 .. n |-> IF list[i].path = d.path THEN d ELSE list[i]]
        BY <1>1, <1>2 DEF Record
    <2>2. new \in Seq(D)
        BY <1>1, <2>1 DEF D
    <2> HIDE DEF new
    <2>3. DOMAIN new = 1 .. n /\ \A i \in 1 .. n : new[i] = IF list[i].path = d.path THEN d ELSE list[i]
        BY <2>1
    <2>4. \A i \in 1 .. n : new[i].path = list[i].path
        BY <2>3
    <2>5. Keyed(new)
        BY <1>1, <2>3, <2>4 DEF Keyed
    <2>6. HasDiff(new, d) /\ \A e : HasDiff(list, e) /\ e.path # d.path => HasDiff(new, e)
        BY <1>1, <1>2, <2>3 DEF HasDiff
    <2> QED
        BY <2>2, <2>5, <2>6 DEF D, new
<1>3. CASE ~ \E i \in DOMAIN list : list[i].path = d.path
    <2>1. new = Append(list, d)
        BY <1>3 DEF Record
    <2>2. new \in Seq(D)
        BY <2>1 DEF D
    <2> HIDE DEF new
    <2>3. /\ DOMAIN new = 1 .. n + 1 /\ new[n + 1] = d
          /\ \A i \in 1 .. n : new[i] = list[i]
        BY <1>1, <2>1
    <2>4. Keyed(new)
        <3> SUFFICES ASSUME NEW i \in 1 .. n + 1, NEW j \in 1 .. n + 1, new[i].path = new[j].path
                     PROVE  i = j
            BY <2>3 DEF Keyed
        <3>1. CASE i \in 1 .. n /\ j \in 1 .. n
            BY <1>1, <2>3, <3>1 DEF Keyed
        <3>2. CASE i = n + 1 \/ j = n + 1
            <4>1. \A h \in 1 .. n : new[h].path # d.path
                BY <1>1, <1>3, <2>3
            <4>2. i \in 1 .. n \/ i = n + 1
                BY <1>1
            <4>3. j \in 1 .. n \/ j = n + 1
                BY <1>1
            <4> QED
                BY <2>3, <3>2, <4>1, <4>2, <4>3
        <3> QED
            BY <1>1, <3>1, <3>2
    <2>5. HasDiff(new, d)
        BY <1>1, <2>3 DEF HasDiff
    <2>6. \A e : HasDiff(list, e) => HasDiff(new, e)
        BY <1>1, <2>3 DEF HasDiff
    <2> QED
        BY <2>2, <2>4, <2>5, <2>6 DEF D, new
<1> QED
    BY <1>2, <1>3 DEF D

LEMMA PendingShape ==
    ASSUME MountIInv
    PROVE  /\ DOMAIN pending = 1 .. Len(pending) /\ Len(pending) \in Nat
           /\ \A i \in 1 .. Len(pending) :
                 /\ pending[i].path \in Path
                 /\ \/ pending[i].action = "delete" /\ pending[i] = DeleteDiff(pending[i].path)
                    \/ /\ pending[i].action = "put" /\ pending[i].path \in Files
                       /\ pending[i].content \in Content
                       /\ pending[i] = PutDiff(pending[i].path, pending[i].content)
<1>1. pending \in Seq(Deletion \cup Writing)
    BY DEF MountIInv
<1>2. DOMAIN pending = 1 .. Len(pending) /\ Len(pending) \in Nat
    BY <1>1
<1>3. \A i \in 1 .. Len(pending) : pending[i] \in Deletion \cup Writing
    BY <1>1
<1> QED
    BY <1>2, <1>3, DiffShape

\* What a diff leaves at a path it marks.
MarkOf(d, q) == IF d.action = "delete" THEN None ELSE IF d.path = q THEN d.content ELSE Folder

\* What a flush is refused: removals, of what they are to remove, with what is above.
LEMMA RefusalsAre ==
    ASSUME NEW k \in Nat, NEW kept \in Refusals(k)
    PROVE  /\ \A i, q : <<i, q>> \in kept =>
                  i \in 1 .. k /\ pending[i].action = "delete" /\ q \in Refused(kept)
           /\ \A i, q : \A r \in Above(q) :
                  <<i, q>> \in kept /\ Marks(pending[i], r) => <<i, r>> \in kept
<1>1. /\ \A e \in kept : e \in (1 .. k) \X Path /\ pending[e[1]].action = "delete"
      /\ \A e \in kept : \A q \in Above(e[2]) : Marks(pending[e[1]], q) => <<e[1], q>> \in kept
    BY DEF Refusals
<1>2. ASSUME NEW i, NEW q, <<i, q>> \in kept
      PROVE  i \in 1 .. k /\ pending[i].action = "delete" /\ q \in Refused(kept)
    <2>1. <<i, q>>[1] = i /\ <<i, q>>[2] = q
        OBVIOUS
    <2> QED
        BY <1>1, <1>2, <2>1 DEF Refused
<1>3. ASSUME NEW i, NEW q, NEW r \in Above(q), <<i, q>> \in kept, Marks(pending[i], r)
      PROVE  <<i, r>> \in kept
    <2>1. <<i, q>>[1] = i /\ <<i, q>>[2] = q
        OBVIOUS
    <2> QED
        BY <1>1, <1>3, <2>1
<1> QED
    BY <1>2, <1>3

\* The diff leaves its mark and is not refused.
Leaves(kept, i, q) == Marks(pending[i], q) /\ <<i, q>> \notin kept

LEMMA FlushedAt ==
    ASSUME NEW k \in Nat, NEW kept, NEW q \in Path
    PROVE  \/ /\ \A j \in 1 .. k : ~ Leaves(kept, j, q)
              /\ Flushed(k, kept)[q] = disk[q]
           \/ \E m \in 1 .. k : /\ Leaves(kept, m, q)
                                /\ \A j \in 1 .. k : Leaves(kept, j, q) => j <= m
                                /\ Flushed(k, kept)[q] = MarkOf(pending[m], q)
<1> DEFINE marks == {i \in 1 .. k : Marks(pending[i], q) /\ <<i, q>> \notin kept}
           last == CHOOSE i \in marks : \A j \in marks : j <= i
<1>1. CASE marks = {}
    BY <1>1 DEF Flushed, Leaves
<1>2. CASE marks # {}
    <2>1. \E i \in marks : \A j \in marks : j <= i
        <3>1. marks \in SUBSET (1 .. k)
            OBVIOUS
        <3> HIDE DEF marks
        <3> QED
            BY <1>2, <3>1, LargestExists
    <2>2. last \in marks /\ \A j \in marks : j <= last
        BY <2>1
    <2>3. Flushed(k, kept)[q] = MarkOf(pending[last], q)
        BY <1>2 DEF Flushed, MarkOf
    <2> HIDE DEF last
    <2> QED
        BY <2>2, <2>3 DEF Leaves
<1> QED
    BY <1>1, <1>2

LEMMA FlushedShape ==
    ASSUME MountIInv, NEW k \in Nat, k <= Len(pending), NEW kept \in Refusals(k)
    PROVE  Flushed(k, kept) \in Tree /\ Kinds(Flushed(k, kept)) /\ IsTree(Flushed(k, kept))
<1> DEFINE t == Flushed(k, kept)
<1>0. disk \in Tree /\ Kinds(disk) /\ IsTree(disk)
    BY DEF MountIInv, TypeOK
<1>1. \A i \in 1 .. k : /\ pending[i].path \in Path
                        /\ \/ pending[i].action = "delete"
                           \/ /\ pending[i].action = "put" /\ pending[i].path \in Files
                              /\ pending[i].content \in Content
    <2>1. \A i \in 1 .. k : i \in 1 .. Len(pending)
        BY PendingShape
    <2> QED
        BY <2>1, PendingShape
<1>2. ASSUME NEW q \in Path PROVE t[q] \in KindOf(q)
    <2>1. CASE t[q] = disk[q]
        BY <1>0, <2>1 DEF Kinds
    <2>2. CASE \E m \in 1 .. k : Marks(pending[m], q) /\ t[q] = MarkOf(pending[m], q)
        <3>1. PICK m \in 1 .. k : Marks(pending[m], q) /\ t[q] = MarkOf(pending[m], q)
            BY <2>2
        <3> HIDE DEF t
        <3>2. CASE pending[m].action = "delete"
            BY <3>1, <3>2 DEF MarkOf, KindOf
        <3>3. CASE pending[m].action = "put" /\ pending[m].path = q
            BY <1>1, <3>1, <3>3 DEF MarkOf, KindOf, Files
        <3>4. CASE pending[m].action = "put" /\ pending[m].path # q
            <4>1. q \in Above(pending[m].path) /\ t[q] = Folder
                BY <3>1, <3>4 DEF MarkOf, Marks
            <4> QED
                BY <1>1, <4>1, AboveIsPrefix DEF KindOf
        <3> QED
            BY <1>1, <3>2, <3>3, <3>4
    <2>3. t[q] = disk[q] \/ \E m \in 1 .. k : Leaves(kept, m, q) /\ t[q] = MarkOf(pending[m], q)
        BY FlushedAt
    <2> HIDE DEF t
    <2> QED
        BY <2>1, <2>2, <2>3 DEF Leaves
<1>3. t \in Tree /\ Kinds(t)
    <2>1. \A q \in Path : t[q] \in Node
        BY <1>2 DEF KindOf, Node
    <2>2. t = [q \in Path |-> t[q]]
        BY DEF Flushed
    <2> HIDE DEF t
    <2> QED
        BY <1>2, <2>1, <2>2, Zenon DEF Tree, Kinds
<1>4. ASSUME NEW q \in Path, t[q] # None, NEW r \in Above(q)
      PROVE  t[r] = Folder
    <2>1. r \in Path /\ r \in Folders /\ \A x \in Above(r) : x \in Above(q)
        BY AboveIsPrefix, AboveTransitive
    <2>2. \A i \in 1 .. k : pending[i].action = "delete" /\ Leaves(kept, i, r) => Leaves(kept, i, q)
        <3>1. \A i \in 1 .. k : pending[i].action = "delete" /\ Marks(pending[i], r) => Marks(pending[i], q)
            BY <2>1 DEF Marks
        <3>2. \A i : Marks(pending[i], r) /\ <<i, q>> \in kept => <<i, r>> \in kept
            BY <1>4, RefusalsAre
        <3> QED
            BY <3>1, <3>2 DEF Leaves
    <2>3. \A i \in 1 .. k : pending[i].action = "put" => MarkOf(pending[i], r) = Folder
        BY <1>1, <2>1 DEF MarkOf, Files
    <2> HIDE DEF t
    <2>4. CASE /\ \A j \in 1 .. k : ~ Leaves(kept, j, q)
               /\ t[q] = disk[q]
        <3>1. disk[r] = Folder
            BY <1>0, <1>4, <2>4 DEF IsTree
        <3>2. \A i \in 1 .. k : Leaves(kept, i, r) => pending[i].action = "put"
            BY <1>1, <2>2, <2>4
        <3> QED
            BY <2>1, <2>3, <3>1, <3>2, FlushedAt DEF t
    <2>5. ASSUME NEW m \in 1 .. k, Leaves(kept, m, q), t[q] = MarkOf(pending[m], q),
                 \A j \in 1 .. k : Leaves(kept, j, q) => j <= m
          PROVE  t[r] = Folder
        <3>1. pending[m].action = "put"
            BY <1>1, <1>4, <2>5 DEF MarkOf
        <3>2. pending[m].path = q \/ q \in Above(pending[m].path)
            BY <2>5, <3>1 DEF Leaves, Marks
        <3>3. Leaves(kept, m, r)
            <4>1. Marks(pending[m], r)
                BY <1>1, <1>4, <3>1, <3>2, AboveTransitive DEF Marks
            <4>2. <<m, r>> \notin kept
                BY <3>1, RefusalsAre
            <4> QED
                BY <4>1, <4>2 DEF Leaves
        <3>4. PICK h \in 1 .. k : /\ Leaves(kept, h, r) /\ m <= h
                                  /\ t[r] = MarkOf(pending[h], r)
            BY <2>1, <3>3, FlushedAt DEF t
        <3>5. CASE pending[h].action = "delete"
            <4>1. Leaves(kept, h, q)
                BY <2>2, <3>4, <3>5
            <4>2. h = m
                BY <2>5, <3>4, <4>1
            <4> QED
                BY <3>1, <3>5, <4>2
        <3> QED
            BY <1>1, <2>3, <3>4, <3>5
    <2> QED
        BY <2>4, <2>5, FlushedAt DEF t
<1> QED
    BY <1>3, <1>4, Zenon DEF IsTree

\* What discard() makes of a file: what the disk has, or what it was.
LEMMA DiscardedAt ==
    ASSUME MountIInv, NEW k \in Nat, k <= Len(pending)
    PROVE  /\ Discarded(k) \in Tree /\ Kinds(Discarded(k))
           /\ \A q \in Files :
                 \/ /\ Discarded(k)[q] = disk[q]
                    /\ \E i \in 1 .. k : pending[i].path = q
                 \/ /\ Discarded(k)[q] = vfs[q] /\ disk[q] = None
                    /\ \E i \in 1 .. k : pending[i] = DeleteDiff(q)
                 \/ /\ Discarded(k)[q] = vfs[q]
                    /\ ~ \E i \in 1 .. k : pending[i].path = q
<1>1. \A i \in 1 .. k : pending[i].path \in Path
    BY PendingShape
<1>2. \A q \in Path : vfs[q] \in KindOf(q) /\ disk[q] \in KindOf(q)
    BY DEF MountIInv, Kinds
<1>3. ASSUME NEW q \in Path PROVE Discarded(k)[q] \in KindOf(q)
    <2>1. (\E i \in 1 .. k : q \in Above(pending[i].path)) => q \in Folders
        BY <1>1, AboveIsPrefix
    <2>2. Discarded(k)[q] \in {disk[q], vfs[q], None} \/ (q \in Folders /\ Discarded(k)[q] = Folder)
        BY <2>1 DEF Discarded
    <2> QED
        BY <1>2, <2>2 DEF KindOf
<1>4. Discarded(k) \in Tree /\ Kinds(Discarded(k))
    <2>1. \A q \in Path : Discarded(k)[q] \in Node
        BY <1>3 DEF KindOf, Node
    <2>2. Discarded(k) = [q \in Path |-> Discarded(k)[q]]
        BY DEF Discarded
    <2> QED
        BY <1>3, <2>1, <2>2, Zenon DEF Tree, Kinds
<1>5. ASSUME NEW q \in Files
      PROVE  \/ /\ Discarded(k)[q] = disk[q]
                /\ \E i \in 1 .. k : pending[i].path = q
             \/ /\ Discarded(k)[q] = vfs[q] /\ disk[q] = None
                /\ \E i \in 1 .. k : pending[i] = DeleteDiff(q)
             \/ /\ Discarded(k)[q] = vfs[q]
                /\ ~ \E i \in 1 .. k : pending[i].path = q
    <2>1. q \in Path /\ ~ \E i \in 1 .. k : q \in Above(pending[i].path)
        BY <1>1, FileAboveNothing DEF Files
    <2> QED
        BY <2>1 DEF Discarded
<1> QED
    BY <1>4, <1>5

----------------------------------------------------------------------------
(* The shape of the two sides, step by step.                               *)

LEMMA MountKept ==
    ASSUME MountIInv, vfs' \in Tree, Kinds(vfs'), disk' \in Tree, Kinds(disk'), IsTree(disk'),
           pending' \in Seq(Deletion \cup Writing), Keyed(pending'),
           policy' = "auto-flush" => pending' = <<>>,
           phase' \in {"loading", "mounted", "failed"}, unread' \subseteq Path,
           read' \subseteq Files \X Content, active' \in BOOLEAN, policy' \in {"auto-flush", "draft"},
           events' \subseteq Path, fromDisk' \in BOOLEAN, toDisk' \in BOOLEAN,
           blind' \subseteq Files, ops' \in 0 .. MaxOps
    PROVE  MountIInv'
<1>1. pending' \in Seq(Diff)
    <2>1. Deletion \cup Writing \subseteq Diff
        BY DiffShape
    <2> QED
        BY <2>1, SeqMonotonic
<1> QED
    BY <1>1 DEF MountIInv, TypeOK, AutoFlushReviewsNothing

\* What a step that keeps them has at hand.
LEMMA MountHas ==
    ASSUME MountIInv
    PROVE  /\ vfs \in Tree /\ Kinds(vfs) /\ disk \in Tree /\ Kinds(disk) /\ IsTree(disk)
           /\ pending \in Seq(Deletion \cup Writing) /\ Keyed(pending)
           /\ policy = "auto-flush" => pending = <<>>
           /\ phase \in {"loading", "mounted", "failed"} /\ unread \subseteq Path
           /\ read \subseteq Files \X Content /\ active \in BOOLEAN /\ policy \in {"auto-flush", "draft"}
           /\ events \subseteq Path /\ fromDisk \in BOOLEAN /\ toDisk \in BOOLEAN
           /\ blind \subseteq Files /\ ops \in 0 .. MaxOps
           /\ Call => ops' \in 0 .. MaxOps
           /\ \A u : Overlooked(u) => blind' \subseteq Files
           /\ \A t, reports : DiskBecomes(t, reports) /\ reports \subseteq Path => events' \subseteq Path
<1>1. Call => ops' \in 0 .. MaxOps
    BY MaxOpsAssumption DEF MountIInv, TypeOK, Call
<1> QED
    BY <1>1 DEF MountIInv, TypeOK, AutoFlushReviewsNothing, Overlooked, DiskBecomes

LEMMA FolderOf == \A p \in Folders : Folder \in KindOf(p)
    BY DEF KindOf

LEMMA ContentOf == \A p \in Files, x \in Content : p \in Path /\ x \in KindOf(p) /\ x # None
    BY NodeAssumption DEF KindOf, Files

LEMMA LoadKeepsMount == MountIInv /\ Load => MountIInv'
<1> SUFFICES ASSUME MountIInv, Load PROVE MountIInv'
    OBVIOUS
<1>1. ASSUME NEW p \in Path, LoadFolder(p) PROVE MountIInv'
    <2>1. disk[p] = Folder /\ disk[p] \in KindOf(p)
        BY <1>1, MountHas DEF LoadFolder, Kinds
    <2>2. vfs' \in Tree /\ Kinds(vfs')
        BY <1>1, <2>1, MountHas, PutShape DEF LoadFolder
    <2>3. unread' \subseteq Path
        BY <1>1, MountHas DEF LoadFolder, Below
    <2> QED
        BY <1>1, <2>2, <2>3, MountHas, MountKept DEF LoadFolder, Reading
<1>2. ASSUME NEW p \in Path, LoadRead(p) PROVE MountIInv'
    <2>1. disk[p] \in Content /\ disk[p] \in KindOf(p)
        BY <1>2, MountHas DEF LoadRead, Kinds
    <2>2. p \in Files
        BY <2>1, NodeAssumption DEF KindOf, Files
    <2>3. read' \subseteq Files \X Content
        BY <1>2, <2>1, <2>2 DEF LoadRead
    <2> QED
        BY <1>2, <2>3, MountHas, MountKept DEF LoadRead, Reading
<1>3. ASSUME NEW p \in Path, LoadFails(p) PROVE MountIInv'
    <2>1. vfs' \in Tree /\ Kinds(vfs')
        BY <1>3, MountHas, PutShape, FolderOf DEF LoadFails
    <2> QED
        BY <1>3, <2>1, MountHas, MountKept DEF LoadFails, Reading
<1>4. CASE LoadStore
    <2>1. PICK r \in read : /\ vfs' = Put(vfs, r[1], r[2])
                            /\ read' = {}
                            /\ UNCHANGED <<disk, phase, unread, active, policy, pending, events,
                                           fromDisk, toDisk, ops>>
                            /\ Overlooked({r[1]})
        BY <1>4 DEF LoadStore
    <2>2. r[1] \in Files /\ r[2] \in Content
        BY MountHas
    <2>3. vfs' \in Tree /\ Kinds(vfs')
        BY <2>1, <2>2, MountHas, PutShape, ContentOf
    <2> QED
        BY <2>1, <2>3, MountHas, MountKept
<1>5. CASE LoadEnds
    BY <1>5, MountHas, MountKept DEF LoadEnds
<1> QED
    BY <1>1, <1>2, <1>3, <1>4, <1>5 DEF Load

LEMMA UserKeepsMount == MountIInv /\ User => MountIInv'
<1>1. ASSUME MountIInv, NEW t, NEW reports, UserChanges(t, reports),
             t \in Tree, Kinds(t), IsTree(t), reports \subseteq Path
      PROVE  MountIInv'
    <2>1. disk' = t
        BY <1>1 DEF UserChanges, DiskBecomes
    <2> QED
        BY <1>1, <2>1, MountHas, MountKept DEF UserChanges, mountVars
<1>2. ASSUME MountIInv, NEW p \in Path, UserDeletes(p) PROVE MountIInv'
    BY <1>1, <1>2, MountHas, PruneShape, PruneIsTree DEF UserDeletes, Changed
<1>3. ASSUME MountIInv, NEW p \in Path, NEW x \in Content, UserSaves(p, x) PROVE MountIInv'
    <2>1. p \in Files
        BY <1>3 DEF UserSaves
    <2> QED
        BY <1>1, <1>3, <2>1, MountHas, PutShape, PutIsTree, ContentOf DEF UserSaves, Changed
<1> QED
    BY <1>2, <1>3 DEF User

LEMMA DeliverKeepsMount == ASSUME MountIInv, NEW p \in Path, Callback(p) PROVE MountIInv'
<1>1. vfs' \in Tree /\ Kinds(vfs')
    <2>1. disk[p] \in KindOf(p)
        BY MountHas DEF Kinds
    <2>2. Removed(vfs, p, TRUE) \in Tree /\ Kinds(Removed(vfs, p, TRUE))
        BY MountHas, RemovedShape
    <2>3. Put(vfs, p, disk[p]) \in Tree /\ Kinds(Put(vfs, p, disk[p]))
        BY <2>1, MountHas, PutShape
    <2>4. vfs' \in {vfs, Removed(vfs, p, TRUE), Put(vfs, p, disk[p])}
        BY DEF Callback, Deliver, DeliverFails
    <2> QED
        BY <2>2, <2>3, <2>4, MountHas
<1> QED
    BY <1>1, MountHas, MountKept DEF Callback, Deliver, DeliverFails, mountVars

LEMMA UnnoticedKeepsMount ==
    ASSUME MountIInv, NEW t, Unnoticed(t), t \in Tree, Kinds(t) PROVE MountIInv'
<1>1. vfs' = t
    BY DEF Unnoticed, AgentChanges
<1> QED
    BY <1>1, MountHas, MountKept DEF Unnoticed, AgentChanges, mountVars

\* A move, however its ends are spelled and whatever the disk refuses.
LEMMA MovesKeepMount ==
    ASSUME MountIInv, NEW from \in Path, NEW to \in Path, NEW seen, NEW fails, Moves(from, to, seen, fails)
    PROVE  MountIInv'
<1> DEFINE t      == Moved(vfs, from, to)
           out    == from \in seen
           in     == to \in seen /\ t[to] \in Content
           gone   == IF ~ out THEN {disk}
                     ELSE IF "removal" \in fails THEN Remains(disk, from) ELSE {Prune(disk, from)}
           written(g) == IF ~ in THEN {g} ELSE IF "write" \in fails THEN Torn(g, to) ELSE {Put(g, to, t[to])}
           listed == IF out THEN Record(pending, DeleteDiff(from)) ELSE pending
           auto == /\ AgentChanges(t) /\ UNCHANGED fromDisk /\ \E h : Overlooked(h)
                   /\ policy = "auto-flush" /\ UNCHANGED pending /\ toDisk' = (toDisk /\ ~ out)
                   /\ \E g \in gone : \E u \in written(g) :
                         DiskBecomes(u, Changed(disk, g) \cup Changed(disk, u) \cup (IF in THEN {to} ELSE {}))
           draft == /\ AgentChanges(t) /\ UNCHANGED fromDisk /\ \E h : Overlooked(h)
                    /\ policy # "auto-flush" /\ UNCHANGED <<disk, events, toDisk>>
                    /\ pending' = IF in THEN Record(listed, PutDiff(to, t[to])) ELSE listed
<1>1. Movable(from, to)
    BY DEF Moves
<1>2. Unnoticed(t) \/ auto \/ draft
    BY DEF Moves
<1>3. t \in Tree /\ Kinds(t) /\ (in => to \in Files)
    BY <1>1, MountHas, MovedShape
<1>4. \A g \in gone : g \in Tree /\ Kinds(g) /\ IsTree(g)
    BY MountHas, PruneShape, PruneIsTree, RemainsShape
<1>5. listed \in Seq(Deletion \cup Writing) /\ Keyed(listed)
    BY MountHas, DiffsMade, RecordKeeps
<1> HIDE DEF t, gone, listed
<1>6. \A g \in gone : \A u \in written(g) : u \in Tree /\ Kinds(u) /\ IsTree(u)
    BY <1>3, <1>4, PutShape, PutIsTree, TornShape, ContentOf
<1>7. LET p == IF in THEN Record(listed, PutDiff(to, t[to])) ELSE listed
      IN p \in Seq(Deletion \cup Writing) /\ Keyed(p)
    BY <1>3, <1>5, DiffsMade, RecordKeeps
<1>8. CASE Unnoticed(t)
    BY <1>3, <1>8, UnnoticedKeepsMount
<1>9. CASE auto
    <2>0. PICK g \in gone : \E u \in written(g) :
             DiskBecomes(u, Changed(disk, g) \cup Changed(disk, u) \cup (IF in THEN {to} ELSE {}))
        BY <1>9
    <2>1. PICK u \in written(g) :
             DiskBecomes(u, Changed(disk, g) \cup Changed(disk, u) \cup (IF in THEN {to} ELSE {}))
        BY <2>0
    <2>2. u \in Tree /\ Kinds(u) /\ IsTree(u)
        BY <1>6
    <2>3. (toDisk /\ ~ out) \in BOOLEAN
        OBVIOUS
    <2> HIDE DEF out, in, written
    <2> QED
        BY <1>3, <1>9, <2>1, <2>2, <2>3, MountHas, MountKept DEF AgentChanges, DiskBecomes, mountVars, Changed
<1>10. CASE draft
    BY <1>3, <1>7, <1>10, MountHas, MountKept DEF AgentChanges, mountVars
<1> QED
    BY <1>2, <1>8, <1>9, <1>10

\* An agent's call that is flushed or recorded.
LEMMA AgentKeepsMount == MountIInv /\ Agent => MountIInv'
<1> SUFFICES ASSUME MountIInv, Agent PROVE MountIInv'
    OBVIOUS
<1>1. ASSUME NEW p \in Path, NEW x \in Content, Write(p, x) PROVE MountIInv'
    <2>1. p \in Files
        BY <1>1 DEF Write
    <2>2. /\ Put(vfs, p, x) \in Tree /\ Kinds(Put(vfs, p, x))
          /\ Put(disk, p, x) \in Tree /\ Kinds(Put(disk, p, x)) /\ IsTree(Put(disk, p, x))
        BY <2>1, MountHas, PutShape, PutIsTree, ContentOf
    <2>3. CASE Unnoticed(Put(vfs, p, x))
        BY <2>2, <2>3, UnnoticedKeepsMount
    <2>4. CASE /\ AgentChanges(Put(vfs, p, x)) /\ UNCHANGED <<fromDisk, toDisk>> /\ Overlooked({})
               /\ policy = "auto-flush" /\ UNCHANGED pending
               /\ DiskBecomes(Put(disk, p, x), Changed(disk, Put(disk, p, x)) \cup {p})
        BY <2>2, <2>4, MountHas, MountKept DEF AgentChanges, DiskBecomes, mountVars, Changed
    <2>5. CASE /\ AgentChanges(Put(vfs, p, x)) /\ UNCHANGED <<fromDisk, toDisk>> /\ Overlooked({})
               /\ policy # "auto-flush" /\ pending' = Record(pending, PutDiff(p, x))
               /\ UNCHANGED <<disk, events>>
        <3>1. pending' \in Seq(Deletion \cup Writing) /\ Keyed(pending')
            BY <2>1, <2>5, MountHas, DiffsMade, RecordKeeps
        <3> QED
            BY <2>2, <2>5, <3>1, MountHas, MountKept DEF AgentChanges, mountVars
    <2> QED
        BY <1>1, <2>3, <2>4, <2>5 DEF Write
<1>2. ASSUME NEW p \in Path, NEW x \in Content, WriteNotFlushed(p, x) PROVE MountIInv'
    <2>1. p \in Files /\ Put(vfs, p, x) \in Tree /\ Kinds(Put(vfs, p, x))
        BY <1>2, MountHas, PutShape, ContentOf DEF WriteNotFlushed
    <2>2. PICK u \in Torn(disk, p) : DiskBecomes(u, Changed(disk, u))
        BY <1>2 DEF WriteNotFlushed
    <2>3. u \in Tree /\ Kinds(u) /\ IsTree(u)
        BY <2>1, MountHas, TornShape
    <2> QED
        BY <1>2, <2>1, <2>2, <2>3, MountHas, MountKept
           DEF WriteNotFlushed, AgentChanges, DiskBecomes, mountVars, Changed
<1>3. ASSUME NEW p \in Path, NEW recursive \in BOOLEAN, Remove(p, recursive) PROVE MountIInv'
    <2>1. /\ Removed(vfs, p, recursive) \in Tree /\ Kinds(Removed(vfs, p, recursive))
          /\ Prune(disk, p) \in Tree /\ Kinds(Prune(disk, p)) /\ IsTree(Prune(disk, p))
        BY MountHas, RemovedShape, PruneShape, PruneIsTree
    <2>2. CASE Unnoticed(Removed(vfs, p, recursive))
        BY <2>1, <2>2, UnnoticedKeepsMount
    <2>3. CASE /\ AgentChanges(Removed(vfs, p, recursive)) /\ UNCHANGED fromDisk /\ Overlooked({})
               /\ policy = "auto-flush" /\ UNCHANGED pending /\ toDisk' = FALSE
               /\ DiskBecomes(Prune(disk, p), Changed(disk, Prune(disk, p)))
        BY <2>1, <2>3, MountHas, MountKept DEF AgentChanges, DiskBecomes, mountVars, Changed
    <2>4. CASE /\ AgentChanges(Removed(vfs, p, recursive)) /\ UNCHANGED fromDisk /\ Overlooked({})
               /\ policy # "auto-flush" /\ pending' = Record(pending, DeleteDiff(p))
               /\ UNCHANGED <<disk, events, toDisk>>
        <3>1. pending' \in Seq(Deletion \cup Writing) /\ Keyed(pending')
            BY <2>4, MountHas, DiffsMade, RecordKeeps
        <3> QED
            BY <2>1, <2>4, <3>1, MountHas, MountKept DEF AgentChanges, mountVars
    <2> QED
        BY <1>3, <2>2, <2>3, <2>4 DEF Remove
<1>4. ASSUME NEW from \in Path, NEW to \in Path, Move(from, to) \/ MoveFails(from, to) \/ MoveAround(from, to)
      PROVE  MountIInv'
    BY <1>4, MovesKeepMount DEF Move, MoveFails, MoveAround
<1>5. ASSUME NEW from \in Path, NEW to \in Path, Copy(from, to) PROVE MountIInv'
    BY <1>5, MountHas, PutShape, ContentOf, UnnoticedKeepsMount DEF Copy
<1>6. ASSUME NEW p \in Path, NEW recursive \in BOOLEAN, RemoveFails(p, recursive) PROVE MountIInv'
    <2>1. Removed(vfs, p, recursive) \in Tree /\ Kinds(Removed(vfs, p, recursive))
        BY MountHas, RemovedShape
    <2>2. PICK u \in Remains(disk, p) : DiskBecomes(u, Changed(disk, u))
        BY <1>6 DEF RemoveFails
    <2>3. u \in Tree /\ Kinds(u) /\ IsTree(u)
        BY MountHas, RemainsShape
    <2> QED
        BY <1>6, <2>1, <2>2, <2>3, MountHas, MountKept
           DEF RemoveFails, AgentChanges, DiskBecomes, mountVars, Changed
<1>7. ASSUME NEW p \in Path, CallAround(p) PROVE MountIInv'
    <2>1. \A x \in Content : p \in Files => Put(vfs, p, x) \in Tree /\ Kinds(Put(vfs, p, x))
        BY MountHas, PutShape, ContentOf
    <2>2. \A recursive \in BOOLEAN : Removed(vfs, p, recursive) \in Tree /\ Kinds(Removed(vfs, p, recursive))
        BY MountHas, RemovedShape
    <2> QED
        BY <1>7, <2>1, <2>2, UnnoticedKeepsMount DEF CallAround
<1> QED
    BY <1>1, <1>2, <1>3, <1>4, <1>5, <1>6, <1>7 DEF Agent

LEMMA HolderKeepsMount == MountIInv /\ Holder => MountIInv'
<1> SUFFICES ASSUME MountIInv, Holder PROVE MountIInv'
    OBVIOUS
<1>0. /\ Len(pending) \in Nat /\ DOMAIN pending = 1 .. Len(pending)
      /\ <<>> \in Seq(Deletion \cup Writing) /\ Keyed(<<>>)
    BY PendingShape DEF Keyed
<1>1. ASSUME NEW k \in Nat, k <= Len(pending), NEW kept \in Refusals(k)
      PROVE  FlushReports(k, kept) \subseteq Path
    <2>1. \A j \in 1 .. k : pending[j].path \in Path
        BY <1>0, <1>1, PendingShape
    <2> QED
        BY <2>1 DEF FlushReports, Changed
<1>2. ASSUME FlushPending
      PROVE  /\ disk' \in Tree /\ Kinds(disk') /\ IsTree(disk') /\ events' \subseteq Path
             /\ \E h : Overlooked(h)
             /\ vfs' = vfs /\ pending' = <<>> /\ toDisk' = FALSE
    <2>1. PICK kept \in Refusals(Len(pending)) :
             /\ DiskBecomes(Flushed(Len(pending), kept), FlushReports(Len(pending), kept))
             /\ Overlooked(Refused(kept))
        BY <1>2 DEF FlushPending
    <2>2. disk' = Flushed(Len(pending), kept)
        BY <2>1 DEF DiskBecomes
    <2>3. disk' \in Tree /\ Kinds(disk') /\ IsTree(disk')
        BY <1>0, <2>2, FlushedShape
    <2>4. events' \subseteq Path
        BY <1>0, <1>1, <2>1, MountHas
    <2> QED
        BY <1>2, <2>1, <2>3, <2>4 DEF FlushPending
<1>3. CASE Flush
    BY <1>0, <1>2, <1>3, MountHas, MountKept DEF Flush, mountVars
<1>4. CASE Discard
    <2>1. vfs' \in Tree /\ Kinds(vfs')
        BY <1>0, <1>4, DiscardedAt DEF Discard
    <2> QED
        BY <1>0, <1>4, <2>1, MountHas, MountKept DEF Discard, mountVars
<1>5. CASE Unmount
    BY <1>5, MountHas, MountKept DEF Unmount
<1>6. ASSUME NEW k \in DOMAIN pending, FlushFails(k) PROVE MountIInv'
    <2>1. k - 1 \in Nat /\ k - 1 <= Len(pending) /\ pending[k].path \in Files
        BY <1>0, <1>6, PendingShape DEF FlushFails, DeleteDiff
    <2>6. PICK kept \in Refusals(k - 1) : \E u \in Torn(Flushed(k - 1, kept), pending[k].path) :
             DiskBecomes(u, FlushReports(k - 1, kept) \cup Changed(disk, u))
        BY <1>6 DEF FlushFails
    <2>2. PICK u \in Torn(Flushed(k - 1, kept), pending[k].path) :
             DiskBecomes(u, FlushReports(k - 1, kept) \cup Changed(disk, u))
        BY <2>6
    <2>3. u \in Tree /\ Kinds(u) /\ IsTree(u)
        BY <2>1, FlushedShape, TornShape
    <2>4. FlushReports(k - 1, kept) \cup Changed(disk, u) \subseteq Path
        BY <1>1, <2>1 DEF Changed
    <2>5. disk' = u /\ events' \subseteq Path
        BY <2>2, <2>4, MountHas DEF DiskBecomes
    <2> QED
        BY <1>6, <2>3, <2>5, MountHas, MountKept DEF FlushFails, mountVars
<1>7. ASSUME NEW k \in DOMAIN pending, DiscardFails(k) PROVE MountIInv'
    <2>1. k - 1 \in Nat /\ k - 1 <= Len(pending)
        BY <1>0
    <2>2. vfs' \in Tree /\ Kinds(vfs')
        BY <1>7, <2>1, DiscardedAt DEF DiscardFails
    <2> QED
        BY <1>7, <2>2, MountHas, MountKept DEF DiscardFails, mountVars
<1>8. ASSUME NEW new \in {"auto-flush", "draft"}, SetPolicy(new) PROVE MountIInv'
    <2>1. CASE new = "auto-flush" /\ pending # <<>>
        BY <1>0, <1>2, <1>8, <2>1, MountHas, MountKept DEF SetPolicy
    <2>2. CASE ~ (new = "auto-flush" /\ pending # <<>>)
        BY <1>8, <2>2, MountHas, MountKept DEF SetPolicy
    <2> QED
        BY <2>1, <2>2
<1> QED
    BY <1>3, <1>4, <1>5, <1>6, <1>7, <1>8 DEF Holder

LEMMA NextMountIInv == MountIInv /\ [Next]_vars => MountIInv'
<1>1. MountIInv /\ UNCHANGED vars => MountIInv'
    BY DEF MountIInv, TypeOK, AutoFlushReviewsNothing, vars, mountVars
<1> QED
    BY <1>1, LoadKeepsMount, UserKeepsMount, DeliverKeepsMount, AgentKeepsMount, HolderKeepsMount DEF Next

LEMMA InitMountIInv == Init => MountIInv
<1> SUFFICES ASSUME Init PROVE MountIInv
    OBVIOUS
<1>1. disk \in Tree /\ Kinds(disk) /\ IsTree(disk)
    BY DEF Init, Kinds, KindOf, IsTree
<1>2. vfs \in Tree /\ Kinds(vfs)
    BY DEF Init, Tree, Node, Kinds, KindOf
<1>3. pending = <<>> /\ pending \in Seq(Diff) /\ pending \in Seq(Deletion \cup Writing) /\ Keyed(pending)
    BY DEF Init, Keyed
<1>4. unread \subseteq Path /\ blind \subseteq Files /\ ops \in 0 .. MaxOps
    BY MaxOpsAssumption DEF Init, Files
<1> QED
    BY <1>1, <1>2, <1>3, <1>4 DEF Init, MountIInv, TypeOK, AutoFlushReviewsNothing

THEOREM MountInvariant == Spec => []MountIInv
    BY InitMountIInv, NextMountIInv, PTL DEF Spec

\* Every variable of the mount keeps its type.
THEOREM MountTyped == Spec => []TypeOK
<1>1. MountIInv => TypeOK
    BY DEF MountIInv
<1> QED
    BY <1>1, MountInvariant, PTL

\* Under auto-flush nothing waits for a review, whatever became of earlier
\* flushes (setPolicy(), live-mount.ts:489-497).
THEOREM MountAutoFlush == Spec => []AutoFlushReviewsNothing
<1>1. MountIInv => AutoFlushReviewsNothing
    BY DEF MountIInv
<1> QED
    BY <1>1, MountInvariant, PTL

----------------------------------------------------------------------------
(* No file drifts apart unnoticed: the steps that leave the diffs alone.   *)

LEMMA OverlookedMeans ==
    ASSUME NEW u, Overlooked(u), NEW p \in Synced, vfs'[p] # disk'[p]
    PROVE  p \in blind' <=> p \in blind \/ p \in u
    BY DEF Overlooked, Synced

LEMMA SyncedIsFile == \A p \in Synced : p \in Files /\ p \in Path /\ p \notin Ignored /\ p \notin Outside
    BY DEF Synced, Files

\* A file whose two sides change is told of, or overlooked.
LEMMA SameDiffsTrack ==
    ASSUME TrackIInv, UNCHANGED <<phase, unread, read, active, pending>>,
           \A p \in Synced : vfs'[p] # disk'[p] =>
               /\ p \in blind => p \in blind'
               /\ p \in events => p \in events' \/ p \in blind'
               /\ (phase = "loading" \/ Watching) /\ ~ (vfs'[p] = vfs[p] /\ disk'[p] = disk[p])
                      => p \in blind' \/ (Watching /\ p \in events')
    PROVE  TrackIInv'
<1>1. Watching' <=> Watching
    BY DEF Watching
<1>2. LoadTracks'
    <2> SUFFICES ASSUME phase = "loading"
                 PROVE  /\ pending' = <<>>
                        /\ \A r, s \in read' : r = s
                        /\ \A p \in Synced : vfs'[p] # disk'[p] => p \in blind' \/ ToLoad(p)'
        BY Zenon DEF LoadTracks
    <2>1. ~ Watching
        BY DEF Watching
    <2>2. ASSUME NEW p \in Synced, vfs'[p] # disk'[p], p \notin blind' PROVE ToLoad(p)'
        <3>1. vfs'[p] = vfs[p] /\ disk'[p] = disk[p] /\ p \notin blind
            BY <2>1, <2>2
        <3>2. ToLoad(p)
            BY <2>2, <3>1 DEF TrackIInv, LoadTracks
        <3> QED
            BY <3>1, <3>2 DEF ToLoad
    <2> QED
        BY <2>2 DEF TrackIInv, LoadTracks
<1>3. WatchTracks'
    <2> SUFFICES ASSUME Watching, NEW p \in Synced, vfs'[p] # disk'[p], p \notin events', p \notin blind'
                 PROVE  Tells(pending', vfs'[p], p)
        BY <1>1 DEF WatchTracks
    <2>1. vfs'[p] = vfs[p] /\ disk'[p] = disk[p] /\ p \notin blind /\ p \notin events
        OBVIOUS
    <2>2. Tells(pending, vfs[p], p)
        BY <2>1 DEF TrackIInv, WatchTracks
    <2> QED
        BY <2>1, <2>2
<1> QED
    BY <1>2, <1>3 DEF TrackIInv, LoadStores

LEMMA UnnoticedTracks == ASSUME TrackIInv, NEW t, Unnoticed(t) PROVE TrackIInv'
<1>1. /\ vfs' = t /\ disk' = disk /\ events' = events /\ Overlooked(Changed(vfs, t))
      /\ UNCHANGED <<phase, unread, read, active, pending>>
    BY DEF Unnoticed, AgentChanges, mountVars
<1>2. ASSUME NEW p \in Synced, vfs'[p] # disk'[p]
      PROVE  /\ p \in blind => p \in blind'
             /\ vfs'[p] # vfs[p] => p \in blind'
    BY <1>1, <1>2, OverlookedMeans, SyncedIsFile DEF Changed
<1> QED
    BY <1>1, <1>2, SameDiffsTrack

LEMMA UserTracks == TrackIInv /\ User => TrackIInv'
<1>1. ASSUME TrackIInv, NEW t, NEW reports, UserChanges(t, reports), Changed(disk, t) \subseteq reports
      PROVE  TrackIInv'
    <2> DEFINE unseen == IF Watching THEN {} ELSE reports
    <2>1. /\ vfs' = vfs /\ disk' = t /\ Overlooked(unseen)
          /\ events' = IF Watching THEN events \cup reports ELSE events
          /\ UNCHANGED <<phase, unread, read, active, pending>>
        BY <1>1 DEF UserChanges, DiskBecomes, mountVars
    <2> HIDE DEF unseen
    <2>2. ASSUME NEW p \in Synced, vfs'[p] # disk'[p]
          PROVE  /\ p \in blind => p \in blind'
                 /\ disk'[p] # disk[p] => p \in blind' \/ (Watching /\ p \in events')
        <3>1. disk'[p] # disk[p] => p \in reports
            BY <1>1, <2>1, SyncedIsFile DEF Changed
        <3> QED
            BY <2>1, <2>2, <3>1, OverlookedMeans DEF unseen
    <2>3. \A p : p \in events => p \in events'
        BY <2>1
    <2> QED
        BY <1>1, <2>1, <2>2, <2>3, SameDiffsTrack
<1>2. ASSUME TrackIInv, NEW p \in Path, UserDeletes(p) PROVE TrackIInv'
    BY <1>1, <1>2 DEF UserDeletes
<1>3. ASSUME TrackIInv, NEW p \in Path, NEW x \in Content, UserSaves(p, x) PROVE TrackIInv'
    BY <1>1, <1>3 DEF UserSaves
<1> QED
    BY <1>2, <1>3 DEF User

LEMMA DeliverFailsTracks == ASSUME MountIInv, TrackIInv, NEW p \in Path, DeliverFails(p) PROVE TrackIInv'
<1>1. /\ vfs' = vfs /\ disk' = disk /\ events' = events \ {p} /\ Overlooked({p})
      /\ UNCHANGED <<phase, unread, read, active, pending>>
    BY DEF DeliverFails, mountVars
<1>2. ASSUME NEW q \in Synced, vfs'[q] # disk'[q]
      PROVE  (q \in blind => q \in blind') /\ (q = p => q \in blind')
    BY <1>1, <1>2, OverlookedMeans
<1> QED
    BY <1>1, <1>2, SameDiffsTrack

LEMMA DeliverTracks == ASSUME MountIInv, TrackIInv, NEW p \in Path, Deliver(p) PROVE TrackIInv'
<1>1. /\ disk' = disk /\ events' = events \ {p} /\ Overlooked(IF toDisk THEN {p} ELSE {})
      /\ UNCHANGED <<phase, unread, read, active, pending>>
    BY DEF Deliver, mountVars
<1>2. ASSUME NEW q \in Synced, vfs'[q] # disk'[q]
      PROVE  /\ q \in blind => q \in blind'
             /\ q = p => q \in blind'
             /\ vfs'[q] = vfs[q]
    <2>0. q \in Files /\ q \in Path /\ q \notin Ignored
        BY SyncedIsFile
    <2>1. q \in blind' <=> q \in blind \/ (q = p /\ toDisk)
        <3>1. q \in blind' <=> q \in blind \/ q \in IF toDisk THEN {p} ELSE {}
            BY <1>1, <1>2, OverlookedMeans
        <3> QED
            BY <3>1
    <2>2. CASE p \in Ignored \/ toDisk
        <3>1. vfs' = vfs
            BY <2>2 DEF Deliver
        <3> QED
            BY <2>0, <2>1, <2>2, <3>1
    <2>3. CASE ~ (p \in Ignored \/ toDisk) /\ disk[p] # None
        <3>1. vfs' = Put(vfs, p, disk[p]) /\ disk[p] \in KindOf(p)
            BY <2>3, MountHas DEF Deliver, Kinds
        <3>2. vfs'[p] = disk[p] /\ (q # p => vfs'[q] = vfs[q])
            BY <2>0, <3>1, MountHas, PutShape
        <3> QED
            BY <1>1, <1>2, <2>1, <3>2
    <2>4. CASE ~ (p \in Ignored \/ toDisk) /\ disk[p] = None
        <3>1. vfs' = Removed(vfs, p, TRUE)
            BY <2>4 DEF Deliver
        <3>2. \/ vfs'[q] = vfs[q]
              \/ q \in {p} \cup Below(p) /\ vfs'[q] = None
            BY <2>0, <3>1, MountHas, RemovedShape
        <3>3. vfs'[p] = None
            BY <3>1, MountHas, RemovedShape
        <3>4. \A x \in Below(p) : disk[x] = None
            BY <2>4, MountHas, NodeAssumption DEF Below, IsTree
        <3> QED
            BY <1>1, <1>2, <2>1, <2>4, <3>2, <3>3, <3>4
    <2> QED
        BY <2>2, <2>3, <2>4
<1> QED
    BY <1>1, <1>2, SameDiffsTrack

----------------------------------------------------------------------------
(* The load.                                                               *)

LEMMA LoadKeepsTracks == MountIInv /\ TrackIInv /\ Load => TrackIInv'
<1> SUFFICES ASSUME MountIInv, TrackIInv, Load PROVE TrackIInv'
    OBVIOUS
<1>0. /\ phase = "loading" =>
           /\ pending = <<>> /\ (\A r, s \in read : r = s) /\ ~ Watching
           /\ \A p \in Synced : vfs[p] # disk[p] => p \in blind \/ ToLoad(p)
      /\ IsTree(disk)
    BY MountHas DEF TrackIInv, LoadTracks, Watching
<1>1. ASSUME NEW p \in Path, LoadFolder(p) PROVE TrackIInv'
    <2>1. /\ phase = "loading" /\ phase' = phase /\ disk[p] = Folder /\ read = {}
          /\ UNCHANGED <<disk, pending, read, blind>> /\ vfs' = Put(vfs, p, Folder)
          /\ unread' = (unread \ {p}) \cup
                 {q \in Below(p) \ Ignored : disk[q] # None /\ Len(q) = Len(p) + 1}
        BY <1>1 DEF LoadFolder, Reading
    <2>2. ASSUME NEW x \in Synced, vfs'[x] # disk'[x], x \notin blind PROVE ToLoad(x)'
        <3>0. x \in Files /\ x \in Path /\ x \notin Ignored
            BY SyncedIsFile
        <3>1. Folder \in KindOf(p)
            BY <2>1, MountHas DEF Kinds
        <3>2. x # p /\ vfs'[x] = vfs[x]
            BY <2>1, <2>2, <3>0, <3>1, MountHas, PutShape
        <3>3. ToLoad(x)
            BY <1>0, <2>1, <2>2, <3>2
        <3>4. PICK q \in {x} \cup Above(x) : q \in unread
            BY <2>1, <3>3 DEF ToLoad
        <3>5. \E r \in {x} \cup Above(x) : r \in unread'
            <4>1. CASE q # p
                BY <2>1, <3>4, <4>1
            <4>2. CASE q = p
                <5>1. PICK r \in {x} \cup Above(x) : r \in Below(p) /\ Len(r) = Len(p) + 1
                    BY <3>0, <3>2, <3>4, <4>2, NextOnTheWay
                <5>2. r \notin Ignored
                    BY <3>0, <3>3, <5>1 DEF ToLoad
                <5>3. disk[r] # None
                    BY <1>0, <3>0, <3>3, <5>1, NodeAssumption DEF ToLoad, IsTree
                <5> QED
                    BY <2>1, <5>1, <5>2, <5>3
            <4> QED
                BY <4>1, <4>2
        <3> QED
            BY <2>1, <3>3, <3>5 DEF ToLoad
    <2> QED
        BY <1>0, <2>1, <2>2 DEF TrackIInv, LoadStores, LoadTracks, WatchTracks, Watching
<1>2. ASSUME NEW p \in Path, LoadRead(p) PROVE TrackIInv'
    <2>1. /\ phase = "loading" /\ phase' = phase /\ disk[p] \in Content /\ read = {}
          /\ UNCHANGED <<vfs, disk, pending, blind>>
          /\ read' = {<<p, disk[p]>>} /\ unread' = unread \ {p}
        BY <1>2 DEF LoadRead, Reading
    <2>2. ASSUME NEW x \in Synced, vfs'[x] # disk'[x], x \notin blind PROVE ToLoad(x)'
        <3>0. x \in Path
            BY SyncedIsFile
        <3>1. ToLoad(x)
            BY <1>0, <2>1, <2>2
        <3>2. PICK q \in {x} \cup Above(x) : q \in unread
            BY <2>1, <3>1 DEF ToLoad
        <3>3. p \notin Above(x)
            BY <1>0, <2>1, <3>0, <3>1, NodeAssumption DEF ToLoad, IsTree
        <3>4. \/ \E r \in {x} \cup Above(x) : r \in unread'
              \/ \E r \in read' : r[1] = x
            BY <2>1, <3>2, <3>3
        <3> QED
            BY <2>1, <3>1, <3>4 DEF ToLoad
    <2> QED
        BY <1>0, <2>1, <2>2 DEF TrackIInv, LoadStores, LoadTracks, WatchTracks, Watching
<1>3. ASSUME NEW p \in Path, LoadFails(p) PROVE TrackIInv'
    BY <1>3 DEF LoadFails, Reading, TrackIInv, LoadStores, LoadTracks, WatchTracks, Watching
<1>4. CASE LoadStore
    <2>1. PICK r \in read : /\ vfs' = Put(vfs, r[1], r[2]) /\ read' = {}
                            /\ UNCHANGED <<disk, phase, unread, active, pending, events>>
                            /\ Overlooked({r[1]})
        BY <1>4 DEF LoadStore
    <2>2. r[1] \in Files /\ r[2] \in KindOf(r[1]) /\ r[1] \in Path
        BY MountHas, ContentOf
    <2>3. ASSUME phase = "loading", NEW x \in Synced, vfs'[x] # disk'[x], x \notin blind' PROVE ToLoad(x)'
        <3>1. x # r[1] /\ x \notin blind
            BY <2>1, <2>3, OverlookedMeans
        <3>2. vfs'[x] = vfs[x]
            BY <2>1, <2>2, <3>1, MountHas, PutShape, SyncedIsFile
        <3>3. ToLoad(x)
            BY <1>0, <2>1, <2>3, <3>1, <3>2
        <3>4. ~ \E s \in read : s[1] = x
            BY <1>0, <2>3, <3>1
        <3> QED
            BY <2>1, <3>3, <3>4 DEF ToLoad
    <2>4. ASSUME Watching PROVE FALSE
        <3>1. read = {}
            BY <2>4 DEF Watching, TrackIInv, LoadStores
        <3> QED
            BY <3>1
    <2> QED
        BY <1>0, <2>1, <2>3, <2>4 DEF TrackIInv, LoadStores, LoadTracks, WatchTracks, Watching
<1>5. CASE LoadEnds
    <2>1. \A p \in Synced : ~ ToLoad(p)
        BY <1>5 DEF LoadEnds, ToLoad
    <2> QED
        BY <1>0, <1>5, <2>1 DEF LoadEnds, TrackIInv, LoadStores, LoadTracks, WatchTracks
<1> QED
    BY <1>1, <1>2, <1>3, <1>4, <1>5 DEF Load

----------------------------------------------------------------------------
(* The agent, under auto-flush and in a draft.                             *)

\* Recording a diff leaves what the list tells of other paths, and tells of its own.
LEMMA RecordTells ==
    ASSUME NEW list \in Seq(Deletion \cup Writing), Keyed(list), NEW d \in Deletion \cup Writing,
           NEW p \in Files, NEW v
    PROVE  /\ Tells(list, v, p) /\ d.path # p => Tells(Record(list, d), v, p)
           /\ v \in Content /\ d = PutDiff(p, v) => Tells(Record(list, d), v, p)
           /\ v = None /\ (\E q \in {p} \cup Above(p) : d = DeleteDiff(q)) => Tells(Record(list, d), v, p)
<1> DEFINE new == Record(list, d)
<1>1. HasDiff(new, d) /\ \A e : HasDiff(list, e) /\ e.path # d.path => HasDiff(new, e)
    BY RecordKeeps
<1>2. (\A x : PutDiff(p, x).path = p) /\ \A q : DeleteDiff(q).path = q
    BY DEF PutDiff, DeleteDiff
<1> HIDE DEF new
<1>3. \A x : HasDiff(list, PutDiff(p, x)) /\ d.path # p => HasDiff(new, PutDiff(p, x))
    BY <1>1, <1>2
<1>4. ASSUME NEW q \in {p} \cup Above(p), d.path # p, HasDiff(list, DeleteDiff(q))
      PROVE  HasDiff(new, DeleteDiff(q))
    <2>1. CASE d.path # q
        BY <1>1, <1>2, <1>4, <2>1
    <2>2. CASE d.path = q
        <3>1. q \in Above(p) /\ q \notin Files
            BY <1>4, <2>2, AboveIsPrefix DEF Files
        <3>2. d = DeleteDiff(q)
            BY <2>2, <3>1, DiffShape
        <3> QED
            BY <1>1, <3>2
    <2> QED
        BY <2>1, <2>2
<1>5. Tells(list, v, p) /\ d.path # p => Tells(new, v, p)
    <2> SUFFICES ASSUME Tells(list, v, p), d.path # p PROVE Tells(new, v, p)
        OBVIOUS
    <2>1. CASE v \in Content /\ HasDiff(list, PutDiff(p, v))
        BY <1>3, <2>1 DEF Tells
    <2>2. CASE v = None /\ \E q \in {p} \cup Above(p) : HasDiff(list, DeleteDiff(q))
        BY <1>4, <2>2 DEF Tells
    <2>3. CASE /\ \E x \in Content : HasDiff(list, PutDiff(p, x))
               /\ \E q \in Above(p) : HasDiff(list, DeleteDiff(q))
        BY <1>3, <1>4, <2>3 DEF Tells
    <2> QED
        BY <2>1, <2>2, <2>3 DEF Tells
<1>6. v \in Content /\ d = PutDiff(p, v) => Tells(new, v, p)
    BY <1>1 DEF Tells
<1>7. v = None /\ (\E q \in {p} \cup Above(p) : d = DeleteDiff(q)) => Tells(new, v, p)
    BY <1>1 DEF Tells
<1> QED
    BY <1>5, <1>6, <1>7 DEF new

\* A draft: the disk and the reports stay, the diffs tell.
LEMMA DraftTracks ==
    ASSUME TrackIInv, Watching, UNCHANGED <<phase, read, active, disk, events>>,
           \A p \in Synced : vfs'[p] # disk[p] =>
               /\ p \in blind => p \in blind'
               /\ vfs'[p] = vfs[p] /\ Tells(pending, vfs[p], p) => Tells(pending', vfs'[p], p)
               /\ vfs'[p] # vfs[p] => p \in blind' \/ Tells(pending', vfs'[p], p)
    PROVE  TrackIInv'
<1>1. LoadStores' /\ LoadTracks'
    BY DEF TrackIInv, LoadStores, LoadTracks, Watching
<1>2. ASSUME NEW p \in Synced, vfs'[p] # disk[p], p \notin events, p \notin blind'
      PROVE  Tells(pending', vfs'[p], p)
    BY <1>2 DEF TrackIInv, WatchTracks
<1>3. WatchTracks'
    BY <1>2, Zenon DEF WatchTracks
<1> QED
    BY <1>1, <1>3 DEF TrackIInv

LEMMA WriteTracks ==
    ASSUME MountIInv, TrackIInv, NEW p \in Path, NEW x \in Content, Write(p, x)
    PROVE  TrackIInv'
<1>0. p \in Files /\ x \in KindOf(p)
    BY ContentOf DEF Write
<1>1. CASE Unnoticed(Put(vfs, p, x))
    BY <1>1, UnnoticedTracks
<1>2. /\ Put(vfs, p, x)[p] = x /\ Put(disk, p, x)[p] = x
      /\ \A q \in Files : q # p => Put(vfs, p, x)[q] = vfs[q] /\ Put(disk, p, x)[q] = disk[q]
    BY <1>0, MountHas, PutShape
<1>3. CASE /\ vfs' = Put(vfs, p, x) /\ Overlooked({}) /\ DiskBecomes(Put(disk, p, x), Changed(disk, Put(disk, p, x)) \cup {p})
           /\ UNCHANGED <<mountVars, pending>>
    <2>1. disk' = Put(disk, p, x) /\ events \subseteq events'
        BY <1>3 DEF DiskBecomes
    <2>2. ASSUME NEW q \in Synced, vfs'[q] # disk'[q]
          PROVE  (q \in blind => q \in blind') /\ vfs'[q] = vfs[q] /\ disk'[q] = disk[q]
        BY <1>2, <1>3, <2>1, <2>2, SyncedIsFile, OverlookedMeans
    <2> QED
        BY <1>3, <2>1, <2>2, SameDiffsTrack DEF mountVars
<1>4. CASE /\ vfs' = Put(vfs, p, x) /\ Overlooked({}) /\ pending' = Record(pending, PutDiff(p, x))
           /\ UNCHANGED <<mountVars, disk, events>> /\ Watching
    <2>1. PutDiff(p, x) \in Deletion \cup Writing /\ PutDiff(p, x).path = p
        BY <1>0, DiffsMade DEF PutDiff
    <2>2. ASSUME NEW q \in Synced, vfs'[q] # disk[q]
          PROVE  /\ q \in blind => q \in blind'
                 /\ vfs'[q] = vfs[q] /\ Tells(pending, vfs[q], q) => Tells(pending', vfs'[q], q)
                 /\ vfs'[q] # vfs[q] => Tells(pending', vfs'[q], q)
        <3>1. q \in blind => q \in blind'
            BY <1>4, <2>2, OverlookedMeans
        <3>2. q # p /\ Tells(pending, vfs[q], q) => Tells(pending', vfs[q], q)
            BY <1>4, <2>1, MountHas, SyncedIsFile, RecordTells
        <3>3. vfs'[p] = x /\ (q # p => vfs'[q] = vfs[q])
            BY <1>2, <1>4, SyncedIsFile
        <3>4. Tells(pending', x, p)
            BY <1>0, <1>4, <2>1, MountHas, RecordTells
        <3> QED
            BY <3>1, <3>2, <3>3, <3>4
    <2> QED
        BY <1>4, <2>2, DraftTracks DEF mountVars
<1> QED
    BY <1>1, <1>3, <1>4 DEF Write, AgentChanges, Intercepting

LEMMA RemoveTracks ==
    ASSUME MountIInv, TrackIInv, NEW p \in Path, NEW recursive \in BOOLEAN, Remove(p, recursive)
    PROVE  TrackIInv'
<1> DEFINE t == Removed(vfs, p, recursive)
           u == Prune(disk, p)
<1>1. CASE Unnoticed(t)
    BY <1>1, UnnoticedTracks
<1>2. /\ t[p] = None
      /\ \A q \in Path : \/ t[q] = vfs[q]
                         \/ q \in {p} \cup Below(p) /\ t[q] = None
      /\ \A q \in Path : u[q] = IF q \in {p} \cup Below(p) THEN None ELSE disk[q]
    BY MountHas, RemovedShape, PruneShape
<1> DEFINE auto == /\ vfs' = t /\ Overlooked({}) /\ DiskBecomes(u, Changed(disk, u))
                   /\ UNCHANGED <<mountVars, pending>> /\ Watching
           draft == /\ vfs' = t /\ Overlooked({}) /\ pending' = Record(pending, DeleteDiff(p))
                    /\ UNCHANGED <<mountVars, disk, events>> /\ Watching
<1>3. Unnoticed(t) \/ auto \/ draft
    BY DEF Remove, AgentChanges, Intercepting
<1> HIDE DEF t, u
<1>4. CASE auto
    <2>1. disk' = u /\ events' = events \cup Changed(disk, u)
        BY <1>4 DEF DiskBecomes
    <2>2. ASSUME NEW q \in Synced, vfs'[q] # disk'[q]
          PROVE  /\ q \in blind => q \in blind'
                 /\ ~ (vfs'[q] = vfs[q] /\ disk'[q] = disk[q]) => q \in events'
        <3>1. q \in Path
            BY SyncedIsFile
        <3>2. q \in blind => q \in blind'
            BY <1>4, <2>2, OverlookedMeans
        <3>3. disk'[q] # disk[q] => q \in events'
            BY <2>1, <3>1 DEF Changed
        <3>4. vfs'[q] # vfs[q] => disk'[q] = None /\ vfs'[q] = None
            BY <1>2, <1>4, <2>1, <3>1
        <3> QED
            BY <2>2, <3>2, <3>3, <3>4
    <2>3. events \subseteq events'
        BY <2>1
    <2> QED
        BY <1>4, <2>2, <2>3, SameDiffsTrack DEF mountVars
<1>5. CASE draft
    <2>1. DeleteDiff(p) \in Deletion \cup Writing
        BY DiffsMade
    <2>2. ASSUME NEW q \in Synced, vfs'[q] # disk[q]
          PROVE  /\ q \in blind => q \in blind'
                 /\ vfs'[q] = vfs[q] /\ Tells(pending, vfs[q], q) => Tells(pending', vfs'[q], q)
                 /\ vfs'[q] # vfs[q] => Tells(pending', vfs'[q], q)
        <3>0. q \in Path /\ q \in Files /\ DeleteDiff(p).path = p
            BY SyncedIsFile DEF DeleteDiff
        <3>1. q \in blind => q \in blind'
            BY <1>5, <2>2, OverlookedMeans
        <3>2. q # p /\ Tells(pending, vfs[q], q) => Tells(pending', vfs[q], q)
            BY <1>5, <2>1, <3>0, MountHas, RecordTells
        <3>3. p \in {q} \cup Above(q) /\ vfs'[q] = None => Tells(pending', vfs'[q], q)
            BY <1>5, <2>1, <3>0, MountHas, RecordTells
        <3>4. vfs'[q] # vfs[q] => p \in {q} \cup Above(q) /\ vfs'[q] = None
            BY <1>2, <1>5, <3>0 DEF Below
        <3>5. vfs'[p] = None
            BY <1>2, <1>5
        <3> QED
            BY <3>1, <3>2, <3>3, <3>4, <3>5
    <2> QED
        BY <1>5, <2>2, DraftTracks DEF mountVars
<1> QED
    BY <1>1, <1>3, <1>4, <1>5

LEMMA MovesTrack ==
    ASSUME MountIInv, TrackIInv, NEW from \in Path, NEW to \in Path, NEW seen, NEW fails,
           Moves(from, to, seen, fails)
    PROVE  TrackIInv'
<1> DEFINE t      == Moved(vfs, from, to)
           out    == from \in seen
           in     == to \in seen /\ t[to] \in Content
           gone   == IF ~ out THEN {disk}
                     ELSE IF "removal" \in fails THEN Remains(disk, from) ELSE {Prune(disk, from)}
           written(g) == IF ~ in THEN {g} ELSE IF "write" \in fails THEN Torn(g, to) ELSE {Put(g, to, t[to])}
           listed == IF out THEN Record(pending, DeleteDiff(from)) ELSE pending
           unseen ==      (IF in /\ "write" \notin fails THEN {} ELSE {to} \cup Below(to))
                     \cup (IF out /\ "removal" \notin fails THEN {} ELSE {from} \cup Below(from))
           reports(g, u) == Changed(disk, g) \cup Changed(disk, u) \cup (IF in THEN {to} ELSE {})
           auto == /\ vfs' = t /\ Overlooked(unseen) /\ UNCHANGED <<mountVars, pending>> /\ Watching
                   /\ \E g \in gone : \E u \in written(g) : DiskBecomes(u, reports(g, u))
           draft == /\ vfs' = t /\ Overlooked(unseen) /\ UNCHANGED <<mountVars, disk, events>> /\ Watching
                    /\ pending' = IF in THEN Record(listed, PutDiff(to, t[to])) ELSE listed
<1>1. Unnoticed(t) \/ auto \/ draft
    BY DEF Moves, AgentChanges, Intercepting
<1>2. /\ t \in Tree /\ Kinds(t) /\ t[from] = None
      /\ t[to] \in Content => to \in Files
      /\ \A q \in Files : \/ t[q] = vfs[q]
                          \/ q \in {from} \cup Below(from) /\ t[q] = None
                          \/ q \in {to} \cup Below(to)
    <2>1. Movable(from, to)
        BY DEF Moves
    <2> QED
        BY <2>1, MountHas, MovedShape
<1>3. ASSUME NEW g \in gone
      PROVE  /\ g \in Tree /\ Kinds(g) /\ IsTree(g)
             /\ out /\ "removal" \notin fails => \A q \in Path : q \in {from} \cup Below(from) => g[q] = None
    BY MountHas, PruneShape, PruneIsTree, RemainsShape
<1> HIDE DEF t, gone, listed
<1>4. ASSUME NEW g \in gone, NEW u \in written(g), NEW q \in Files
      PROVE  /\ q # to => u[q] = g[q]
             /\ in /\ "write" \notin fails => u[to] = t[to]
    <2>1. in => to \in Files /\ to \in Path /\ t[to] \in KindOf(to)
        BY <1>2, ContentOf
    <2>2. CASE ~ in
        BY <2>2
    <2>3. CASE in /\ "write" \in fails
        BY <1>3, <2>1, <2>3, TornShape
    <2>4. CASE in /\ "write" \notin fails
        BY <1>3, <2>1, <2>4, PutShape
    <2> QED
        BY <2>2, <2>3, <2>4
<1>5. \A q \in Synced : in /\ q \in {to} \cup Below(to) => q = to
    BY <1>2, FileAboveNothing, SyncedIsFile DEF Below
<1> HIDE DEF written
<1>6. CASE Unnoticed(t)
    BY <1>6, UnnoticedTracks
<1>7. CASE auto
    <2>1. PICK g \in gone : \E u \in written(g) : DiskBecomes(u, reports(g, u))
        BY <1>7
    <2>2. PICK u \in written(g) : DiskBecomes(u, reports(g, u))
        BY <2>1
    <2>3. disk' = u /\ events \subseteq events' /\ Changed(disk, u) \subseteq events'
        BY <1>7, <2>2 DEF DiskBecomes
    <2>4. ASSUME NEW q \in Synced, vfs'[q] # disk'[q]
          PROVE  /\ q \in blind => q \in blind'
                 /\ ~ (vfs'[q] = vfs[q] /\ disk'[q] = disk[q]) => q \in blind' \/ q \in events'
        <3>0. q \in Path /\ q \in Files
            BY SyncedIsFile
        <3>1. q \in blind' <=> q \in blind \/ q \in unseen
            BY <1>7, <2>4, OverlookedMeans
        <3>2. disk'[q] # disk[q] => q \in events'
            BY <2>3, <3>0 DEF Changed
        <3>3. vfs'[q] # vfs[q] => q \in unseen
            <4>1. CASE q \in {from} \cup Below(from) /\ t[q] = None /\ q # to
                BY <1>3, <1>4, <1>7, <2>3, <2>4, <3>0, <4>1
            <4>2. CASE q \in {to} \cup Below(to)
                BY <1>4, <1>5, <1>7, <2>3, <2>4, <3>0, <4>2
            <4> QED
                BY <1>2, <1>7, <3>0, <4>1, <4>2
        <3> QED
            BY <3>1, <3>2, <3>3
    <2> QED
        BY <1>7, <2>3, <2>4, SameDiffsTrack DEF mountVars
<1>8. CASE draft
    <2> DEFINE d == PutDiff(to, t[to])
    <2>1. /\ listed \in Seq(Deletion \cup Writing) /\ Keyed(listed)
          /\ DeleteDiff(from) \in Deletion \cup Writing /\ DeleteDiff(from).path = from
        BY MountHas, DiffsMade, RecordKeeps DEF listed, DeleteDiff
    <2>2. in => d \in Deletion \cup Writing /\ d.path = to
        BY <1>2, DiffsMade DEF PutDiff
    <2>3. ASSUME NEW q \in Synced, vfs'[q] # disk[q]
          PROVE  /\ q \in blind => q \in blind'
                 /\ vfs'[q] = vfs[q] /\ Tells(pending, vfs[q], q) => Tells(pending', vfs'[q], q)
                 /\ vfs'[q] # vfs[q] => q \in blind' \/ Tells(pending', vfs'[q], q)
        <3>0. q \in Path /\ q \in Files
            BY SyncedIsFile
        <3>1. q \in blind' <=> q \in blind \/ q \in unseen
            BY <1>8, <2>3, OverlookedMeans
        <3>2. out /\ from \in {q} \cup Above(q) /\ t[q] = None => Tells(listed, t[q], q)
            BY <2>1, <3>0, MountHas, RecordTells DEF listed
        <3>3. t[q] = vfs[q] /\ Tells(pending, vfs[q], q) => Tells(listed, t[q], q)
            <4>1. CASE out /\ from = q
                BY <1>2, <3>2, <4>1
            <4>2. CASE out /\ from # q
                BY <2>1, <3>0, <4>2, MountHas, RecordTells DEF listed
            <4>3. CASE ~ out
                BY <4>3 DEF listed
            <4> QED
                BY <4>1, <4>2, <4>3
        <3>4. in /\ q = to => Tells(pending', t[q], q)
            <4>1. in /\ q = to => Tells(Record(listed, d), t[q], q)
                BY <2>1, <2>2, <3>0, RecordTells
            <4> QED
                BY <1>8, <4>1
        <3>5. Tells(listed, t[q], q) => Tells(pending', t[q], q)
            <4>1. CASE in /\ q = to
                BY <3>4, <4>1
            <4>2. CASE in /\ q # to
                BY <1>8, <2>1, <2>2, <3>0, <4>2, RecordTells
            <4>3. CASE ~ in
                BY <1>8, <4>3
            <4> QED
                BY <4>1, <4>2, <4>3
        <3>6. CASE q \in {from} \cup Below(from) /\ t[q] = None
            <4>1. from \in {q} \cup Above(q)
                BY <3>6 DEF Below
            <4>2. out => Tells(pending', t[q], q)
                BY <3>2, <3>5, <3>6, <4>1
            <4> QED
                BY <1>8, <3>1, <3>3, <3>5, <3>6, <4>2
        <3>7. CASE q \in {to} \cup Below(to)
            BY <1>5, <1>8, <3>1, <3>3, <3>4, <3>5, <3>7
        <3> QED
            BY <1>2, <1>8, <3>0, <3>1, <3>3, <3>5, <3>6, <3>7
    <2> QED
        BY <1>8, <2>3, DraftTracks DEF mountVars
<1> QED
    BY <1>1, <1>6, <1>7, <1>8

LEMMA AgentTracks == MountIInv /\ TrackIInv /\ Agent => TrackIInv'
<1>1. ASSUME MountIInv, TrackIInv, NEW p \in Path, NEW x \in Content, WriteNotFlushed(p, x) PROVE TrackIInv'
    <2>1. PICK u \in Torn(disk, p) : DiskBecomes(u, Changed(disk, u))
        BY <1>1 DEF WriteNotFlushed
    <2>2. /\ vfs' = Put(vfs, p, x) /\ Overlooked({p}) /\ Watching
          /\ UNCHANGED <<phase, unread, read, active, pending>>
        BY <1>1 DEF WriteNotFlushed, AgentChanges, Intercepting, mountVars
    <2>3. disk' = u /\ events \subseteq events' /\ Changed(disk, u) \subseteq events'
        BY <2>1, <2>2 DEF DiskBecomes
    <2>4. \A q \in Files : q # p => vfs'[q] = vfs[q]
        BY <1>1, <2>2, MountHas, PutShape, ContentOf DEF WriteNotFlushed
    <2>5. ASSUME NEW q \in Synced, vfs'[q] # disk'[q]
          PROVE  /\ (q \in blind => q \in blind') /\ (q = p => q \in blind')
                 /\ disk'[q] # disk[q] => q \in events'
        BY <2>2, <2>3, <2>5, OverlookedMeans, SyncedIsFile DEF Changed
    <2> QED
        BY <1>1, <2>2, <2>3, <2>4, <2>5, SyncedIsFile, SameDiffsTrack
<1>2. ASSUME TrackIInv, NEW p \in Path, NEW q \in Path, Copy(p, q) PROVE TrackIInv'
    BY <1>2, UnnoticedTracks DEF Copy
<1>3. ASSUME TrackIInv, NEW p \in Path, CallAround(p) PROVE TrackIInv'
    BY <1>3, UnnoticedTracks DEF CallAround
<1>4. ASSUME MountIInv, TrackIInv, NEW p \in Path, NEW recursive \in BOOLEAN, RemoveFails(p, recursive)
      PROVE  TrackIInv'
    <2>1. PICK u \in Remains(disk, p) : DiskBecomes(u, Changed(disk, u))
        BY <1>4 DEF RemoveFails
    <2>2. /\ vfs' = Removed(vfs, p, recursive) /\ Overlooked({p} \cup Below(p)) /\ Watching
          /\ UNCHANGED <<phase, unread, read, active, pending>>
        BY <1>4 DEF RemoveFails, AgentChanges, Intercepting, mountVars
    <2>3. disk' = u /\ events \subseteq events' /\ Changed(disk, u) \subseteq events'
        BY <2>1, <2>2 DEF DiskBecomes
    <2>4. \A q \in Path : q \notin {p} \cup Below(p) => vfs'[q] = vfs[q]
        <3>1. vfs \in Tree /\ Kinds(vfs)
            BY <1>4, MountHas
        <3>2. \A q \in Path : q \in {p} \cup Below(p) \/ Removed(vfs, p, recursive)[q] = vfs[q]
            BY <3>1, RemovedShape
        <3> QED
            BY <2>2, <3>2
    <2>5. ASSUME NEW q \in Synced, vfs'[q] # disk'[q]
          PROVE  /\ q \in blind => q \in blind'
                 /\ q \in {p} \cup Below(p) => q \in blind'
                 /\ disk'[q] # disk[q] => q \in events'
        BY <2>2, <2>3, <2>5, OverlookedMeans, SyncedIsFile DEF Changed
    <2> QED
        BY <1>4, <2>2, <2>3, <2>4, <2>5, SyncedIsFile, SameDiffsTrack
<1> QED
    BY <1>1, <1>2, <1>3, <1>4, WriteTracks, RemoveTracks, MovesTrack DEF Agent, Move, MoveFails, MoveAround

----------------------------------------------------------------------------
(* The holder of the handle.                                               *)

\* What a list tells of a file, its order apart, is what a flush leaves, if nothing is
\* refused there.
LEMMA TellsFlushed ==
    ASSUME MountIInv, NEW p \in Synced, NEW v, Tells(pending, v, p), ~ OrderLost(p),
           NEW kept, \A i : <<i, p>> \notin kept
    PROVE  Flushed(Len(pending), kept)[p] = v
<1> DEFINE n == Len(pending)
<1>0. /\ p \in Path /\ p \in Files /\ n \in Nat /\ DOMAIN pending = 1 .. n /\ Keyed(pending)
      /\ \A i : Leaves(kept, i, p) <=> Marks(pending[i], p)
    BY SyncedIsFile, PendingShape, MountHas DEF Leaves
<1>1. /\ \A x : PutDiff(p, x).path = p /\ PutDiff(p, x).action = "put" /\ PutDiff(p, x).content = x
      /\ \A q : DeleteDiff(q).path = q /\ DeleteDiff(q).action = "delete"
    BY DEF PutDiff, DeleteDiff
<1>2. ASSUME NEW m \in 1 .. n, Marks(pending[m], p), pending[m].action # "delete"
      PROVE  pending[m].action = "put" /\ pending[m].path = p /\ MarkOf(pending[m], p) = pending[m].content
    <2>1. pending[m].action = "put" /\ pending[m].path \in Path
        BY <1>2, PendingShape
    <2>2. pending[m].path = p
        BY <1>0, <1>2, <2>1, FileAboveNothing DEF Marks
    <2> QED
        BY <2>1, <2>2 DEF MarkOf
<1>3. ~ (/\ \E x \in Content : HasDiff(pending, PutDiff(p, x))
         /\ \E q \in Above(p) : HasDiff(pending, DeleteDiff(q)))
    <2> SUFFICES ASSUME NEW x \in Content, HasDiff(pending, PutDiff(p, x)),
                        NEW q \in Above(p), HasDiff(pending, DeleteDiff(q))
                 PROVE  OrderLost(p)
        OBVIOUS
    <2>1. PICK i \in DOMAIN pending : pending[i] = PutDiff(p, x)
        BY DEF HasDiff
    <2>2. PICK j \in DOMAIN pending : pending[j] = DeleteDiff(q)
        BY DEF HasDiff
    <2>3. pending[i].path = p /\ pending[i].action = "put"
        BY <1>1, <2>1
    <2>4. pending[j].path \in Above(p) /\ pending[j].action = "delete"
        BY <1>1, <2>2
    <2> QED
        BY <2>3, <2>4 DEF OrderLost
<1>4. CASE v \in Content /\ HasDiff(pending, PutDiff(p, v))
    <2>1. PICK i \in 1 .. n : pending[i] = PutDiff(p, v)
        BY <1>0, <1>4 DEF HasDiff
    <2>2. pending[i].path = p /\ Marks(pending[i], p)
        BY <1>1, <2>1 DEF Marks
    <2>3. PICK m \in 1 .. n : Marks(pending[m], p) /\ Flushed(n, kept)[p] = MarkOf(pending[m], p)
        BY <1>0, <2>2, FlushedAt
    <2>4. m = i
        <3>1. CASE pending[m].path = p
            BY <1>0, <2>2, <3>1 DEF Keyed
        <3>2. CASE pending[m].path # p
            <4>1. pending[m].action = "delete" /\ pending[m].path \in Above(p)
                BY <1>2, <2>3, <3>2 DEF Marks
            <4>2. pending[m] = DeleteDiff(pending[m].path)
                BY <4>1, PendingShape
            <4>3. HasDiff(pending, DeleteDiff(pending[m].path))
                BY <1>0, <4>2 DEF HasDiff
            <4> QED
                BY <1>3, <1>4, <4>1, <4>3
        <3> QED
            BY <3>1, <3>2
    <2>5. pending[i].action # "delete" /\ pending[i].content = v
        BY <1>1, <2>1
    <2> QED
        BY <1>2, <2>3, <2>4, <2>5
<1>5. CASE v = None /\ \E q \in {p} \cup Above(p) : HasDiff(pending, DeleteDiff(q))
    <2>1. PICK q \in {p} \cup Above(p) : HasDiff(pending, DeleteDiff(q))
        BY <1>5
    <2>2. PICK i \in 1 .. n : pending[i] = DeleteDiff(q)
        BY <1>0, <2>1 DEF HasDiff
    <2>3. pending[i].path = q /\ pending[i].action = "delete" /\ Marks(pending[i], p)
        BY <1>1, <2>1, <2>2 DEF Marks
    <2>4. PICK m \in 1 .. n : Marks(pending[m], p) /\ Flushed(n, kept)[p] = MarkOf(pending[m], p)
        BY <1>0, <2>3, FlushedAt
    <2>5. pending[m].action = "delete"
        <3> SUFFICES ASSUME pending[m].action # "delete" PROVE FALSE
            OBVIOUS
        <3>1. pending[m].path = p /\ pending[m].action = "put"
            BY <1>2, <2>4
        <3>2. CASE q = p
            BY <1>0, <2>3, <3>1, <3>2 DEF Keyed
        <3>3. CASE q \in Above(p)
            <4>1. pending[m].content \in Content /\ pending[m] = PutDiff(p, pending[m].content)
                BY <3>1, PendingShape
            <4>2. HasDiff(pending, PutDiff(p, pending[m].content))
                BY <1>0, <4>1 DEF HasDiff
            <4> QED
                BY <1>3, <2>1, <3>3, <4>1, <4>2
        <3> QED
            BY <2>1, <3>2, <3>3
    <2> QED
        BY <1>5, <2>4, <2>5 DEF MarkOf
<1> QED
    BY <1>3, <1>4, <1>5 DEF Tells

\* Nothing is pending while the load runs.
LEMMA PendingIsLater == TrackIInv /\ pending # <<>> => phase # "loading"
    BY DEF TrackIInv, LoadTracks

LEMMA FlushTracks ==
    ASSUME MountIInv, TrackIInv, FlushPending, UNCHANGED <<phase, read, active>>
    PROVE  TrackIInv'
<1>1. pending # <<>> /\ vfs' = vfs /\ phase # "loading" /\ phase' # "loading"
    BY PendingIsLater DEF FlushPending
<1>2. PICK kept \in Refusals(Len(pending)) :
         /\ DiskBecomes(Flushed(Len(pending), kept), FlushReports(Len(pending), kept))
         /\ Overlooked(Refused(kept))
    BY DEF FlushPending
<1>3. ASSUME Watching, NEW p \in Synced, vfs'[p] # disk'[p], p \notin blind', p \notin events'
      PROVE  FALSE
    <2>1. /\ disk' = Flushed(Len(pending), kept) /\ p \notin events
          /\ p \notin FlushReports(Len(pending), kept)
        BY <1>2, <1>3 DEF DiskBecomes
    <2>2. p \notin blind /\ p \notin Refused(kept)
        BY <1>2, <1>3, OverlookedMeans
    <2>3. disk'[p] = disk[p]
        BY <2>1, SyncedIsFile DEF FlushReports, Changed
    <2>4. Tells(pending, vfs[p], p)
        BY <1>1, <1>3, <2>1, <2>2, <2>3 DEF TrackIInv, WatchTracks
    <2>5. ~ OrderLost(p)
        <3>1. \A i \in DOMAIN pending : ~ (pending[i].path = p /\ pending[i].action = "put")
            BY <2>1, PendingShape DEF FlushReports
        <3> QED
            BY <3>1 DEF OrderLost
    <2>6. \A i : <<i, p>> \notin kept
        BY <2>2, PendingShape, RefusalsAre
    <2> QED
        BY <1>1, <1>3, <2>1, <2>4, <2>5, <2>6, TellsFlushed
<1> QED
    BY <1>1, <1>3 DEF TrackIInv, LoadStores, LoadTracks, WatchTracks, Watching

LEMMA DiscardTracks == MountIInv /\ TrackIInv /\ Discard => TrackIInv'
<1> SUFFICES ASSUME MountIInv, TrackIInv, Discard PROVE TrackIInv'
    OBVIOUS
<1>1. /\ phase # "loading" /\ UNCHANGED <<phase, read, active, disk, events>>
      /\ vfs' = Discarded(Len(pending)) /\ Overlooked({})
    BY PendingIsLater DEF Discard, mountVars
<1>2. \A i \in DOMAIN pending : ~ Unreadable(i)
    BY DEF Discard
<1>3. Len(pending) \in Nat /\ DOMAIN pending = 1 .. Len(pending) /\ Keyed(pending) /\ IsTree(disk)
    BY PendingShape, MountHas
<1>4. ASSUME Watching, NEW p \in Synced, vfs'[p] # disk[p], p \notin blind', p \notin events
      PROVE  FALSE
    <2>1. vfs'[p] = vfs[p] /\ (\/ disk[p] = None /\ \E i \in DOMAIN pending : pending[i] = DeleteDiff(p)
                               \/ ~ \E i \in DOMAIN pending : pending[i].path = p)
        BY <1>1, <1>3, <1>4, DiscardedAt, SyncedIsFile
    <2>2. p \notin blind
        BY <1>1, <1>4, OverlookedMeans
    <2>3. Tells(pending, vfs[p], p)
        BY <1>4, <2>1, <2>2 DEF TrackIInv, WatchTracks
    <2>4. ASSUME NEW x \in Content, NEW i \in DOMAIN pending, pending[i] = PutDiff(p, x)
          PROVE  FALSE
        <3>1. /\ PutDiff(p, x).path = p /\ PutDiff(p, x).action = "put"
              /\ DeleteDiff(p).path = p /\ DeleteDiff(p).action = "delete"
            BY DEF PutDiff, DeleteDiff
        <3> QED
            BY <1>3, <2>1, <2>4, <3>1 DEF Keyed
    <2>5. ASSUME NEW q \in {p} \cup Above(p), NEW i \in DOMAIN pending, pending[i] = DeleteDiff(q),
                 vfs[p] = None
          PROVE  FALSE
        <3>0. disk[p] # None
            BY <1>4, <2>1, <2>5
        <3>1. DeleteDiff(q).path = q /\ DeleteDiff(q).action = "delete"
            BY DEF DeleteDiff
        <3>2. q \in Above(p)
            BY <2>1, <2>5, <3>0, <3>1
        <3>3. disk[q] = Folder
            BY <1>3, <3>0, <3>2, SyncedIsFile DEF IsTree
        <3> QED
            BY <1>2, <2>5, <3>1, <3>3 DEF Unreadable
    <2> QED
        BY <2>3, <2>4, <2>5 DEF Tells, HasDiff
<1> QED
    BY <1>1, <1>4 DEF TrackIInv, LoadStores, LoadTracks, WatchTracks, Watching

LEMMA HolderTracks == MountIInv /\ TrackIInv /\ Holder => TrackIInv'
<1> SUFFICES ASSUME MountIInv, TrackIInv, Holder PROVE TrackIInv'
    OBVIOUS
<1>0. Len(pending) \in Nat /\ DOMAIN pending = 1 .. Len(pending)
    BY PendingShape
<1>1. CASE Flush
    BY <1>1, FlushTracks DEF Flush, mountVars
<1>2. CASE Discard
    BY <1>2, DiscardTracks
<1>3. CASE Unmount
    BY <1>3 DEF Unmount, Watching, TrackIInv, LoadStores, LoadTracks, WatchTracks
<1>4. ASSUME NEW k \in DOMAIN pending, FlushFails(k) PROVE TrackIInv'
    <2>1. phase # "loading" /\ vfs' = vfs /\ Overlooked({}) /\ UNCHANGED <<phase, unread, read, active, pending>>
        BY <1>0, <1>4, PendingIsLater DEF FlushFails, mountVars
    <2>2. PICK kept \in Refusals(k - 1) : \E u \in Torn(Flushed(k - 1, kept), pending[k].path) :
             DiskBecomes(u, FlushReports(k - 1, kept) \cup Changed(disk, u))
        BY <1>4 DEF FlushFails
    <2>3. PICK u : DiskBecomes(u, FlushReports(k - 1, kept) \cup Changed(disk, u))
        BY <2>2
    <2>4. disk' = u /\ events \subseteq events' /\ (Watching => Changed(disk, u) \subseteq events')
        BY <2>3 DEF DiskBecomes
    <2>5. ASSUME NEW p \in Synced, vfs'[p] # disk'[p]
          PROVE  /\ p \in blind => p \in blind'
                 /\ Watching /\ disk'[p] # disk[p] => p \in events'
        BY <2>1, <2>4, <2>5, OverlookedMeans, SyncedIsFile DEF Changed
    <2> QED
        BY <2>1, <2>4, <2>5, SameDiffsTrack
<1>5. ASSUME NEW k \in DOMAIN pending, DiscardFails(k) PROVE TrackIInv'
    <2>1. k - 1 \in Nat /\ k - 1 <= Len(pending)
        BY <1>0
    <2>2. /\ vfs' = Discarded(k - 1) /\ Overlooked({})
          /\ UNCHANGED <<phase, unread, read, active, pending, disk, events>>
        BY <1>5 DEF DiscardFails, mountVars
    <2>3. ASSUME NEW p \in Synced, vfs'[p] # disk'[p]
          PROVE  (p \in blind => p \in blind') /\ vfs'[p] = vfs[p]
        BY <2>1, <2>2, <2>3, DiscardedAt, OverlookedMeans, SyncedIsFile
    <2> QED
        BY <2>2, <2>3, SameDiffsTrack
<1>6. ASSUME NEW new \in {"auto-flush", "draft"}, SetPolicy(new) PROVE TrackIInv'
    <2>1. CASE new = "auto-flush" /\ pending # <<>>
        BY <1>6, <2>1, FlushTracks DEF SetPolicy
    <2>2. CASE ~ (new = "auto-flush" /\ pending # <<>>)
        <3>1. UNCHANGED <<vfs, disk, pending, events, phase, unread, read, active>> /\ Overlooked({})
            BY <1>6, <2>2 DEF SetPolicy
        <3>2. \A p \in Synced : vfs'[p] # disk'[p] /\ p \in blind => p \in blind'
            BY <3>1, OverlookedMeans
        <3> QED
            BY <3>1, <3>2, SameDiffsTrack
    <2> QED
        BY <2>1, <2>2
<1> QED
    BY <1>1, <1>2, <1>3, <1>4, <1>5, <1>6 DEF Holder

----------------------------------------------------------------------------
(* The theorems.                                                           *)

LEMMA InitTrackIInv == Init => TrackIInv
<1> SUFFICES ASSUME Init PROVE TrackIInv
    OBVIOUS
<1>1. /\ \A p \in Path : disk[p] # None => \A q \in Above(p) : disk[q] = Folder
      /\ vfs = [p \in Path |-> None] /\ phase = "loading" /\ read = {} /\ pending = <<>>
    BY DEF Init
<1>2. ASSUME NEW p \in Synced, disk[p] # None, p \notin blind PROVE ToLoad(p)
    <2>1. p \in Path /\ p \in Files /\ p \notin Ignored
        BY SyncedIsFile
    <2>2. /\ unread = {q \in Path \ Ignored : disk[q] # None /\ Above(q) = {}}
          /\ Above(p) \cap Ignored = {}
        BY <1>2, <2>1 DEF Init
    <2>3. PICK q \in {p} \cup Above(p) : q \in Path /\ Above(q) = {}
        BY <2>1, TopOnTheWay
    <2>4. disk[q] # None
        BY <1>1, <1>2, <2>1, <2>3, NodeAssumption
    <2>5. q \in unread
        BY <2>1, <2>2, <2>3, <2>4
    <2> QED
        BY <1>2, <2>2, <2>3, <2>5 DEF ToLoad
<1> QED
    BY <1>1, <1>2, SyncedIsFile DEF TrackIInv, LoadStores, LoadTracks, WatchTracks, Watching

LEMMA NextTrackIInv == MountIInv /\ TrackIInv /\ [Next]_vars => TrackIInv'
<1>1. TrackIInv /\ UNCHANGED vars => TrackIInv'
    <2> SUFFICES ASSUME TrackIInv, UNCHANGED vars PROVE TrackIInv'
        OBVIOUS
    <2>1. UNCHANGED <<vfs, disk, phase, unread, read, active, pending, events, blind>>
        BY DEF vars, mountVars
    <2> QED
        BY <2>1, SameDiffsTrack
<1> QED
    BY <1>1, LoadKeepsTracks, UserTracks, DeliverTracks, DeliverFailsTracks, AgentTracks, HolderTracks
       DEF Next, Callback

THEOREM TrackInvariant == Spec => []TrackIInv
<1>1. Init => MountIInv /\ TrackIInv
    BY InitMountIInv, InitTrackIInv
<1>2. MountIInv /\ TrackIInv /\ [Next]_vars => MountIInv' /\ TrackIInv'
    BY NextMountIInv, NextTrackIInv
<1> QED
    BY <1>1, <1>2, PTL DEF Spec

\* While a mount is active, the two sides of a file agree unless a report is on its
\* way, the list says what the agent has there (the lost order apart), or they differ
\* since a step the mount did not see or did not tell of: however user, agent and review
\* interleave, and whatever the disk refuses, no file drifts apart unnoticed (the wrapped
\* methods, the watcher, flush and discard of live-mount.ts).
THEOREM MountDivergenceIsTracked == Spec => []DivergenceIsTracked
<1>1. ASSUME MountIInv, NEW p \in Synced, Tells(pending, vfs[p], p)
      PROVE  Told(p) \/ OrderLost(p)
    <2>1. \A i : <<i, p>> \notin {}
        OBVIOUS
    <2> QED
        BY <1>1, <2>1, TellsFlushed DEF Told
<1>2. MountIInv /\ TrackIInv => DivergenceIsTracked
    BY <1>1 DEF TrackIInv, WatchTracks, DivergenceIsTracked
<1> QED
    BY <1>2, MountInvariant, TrackInvariant, PTL

\* After a flush the disk has what the agent has, in every file but those the user has
\* changed, those whose order is lost, and those that differ since a step the mount did
\* not see or tell of, a removal that failed in this flush included (flushPending(),
\* live-mount.ts:406-428).
THEOREM MountFlushBringsTogether == Spec => FlushBringsTogether
<1>1. ASSUME MountIInv, TrackIInv, Watching, Flush, NEW p \in Synced,
             vfs[p] # disk[p], p \notin events, ~ OrderLost(p), p \notin blind'
      PROVE  disk'[p] = vfs[p]
    <2>1. PICK kept \in Refusals(Len(pending)) :
             /\ DiskBecomes(Flushed(Len(pending), kept), FlushReports(Len(pending), kept))
             /\ Overlooked(Refused(kept))
        BY <1>1 DEF Flush, FlushPending
    <2>2. disk' = Flushed(Len(pending), kept) /\ vfs' = vfs
        BY <1>1, <2>1 DEF Flush, FlushPending, DiskBecomes
    <2> SUFFICES ASSUME disk'[p] # vfs[p] PROVE FALSE
        OBVIOUS
    <2>3. p \notin blind /\ p \notin Refused(kept)
        BY <1>1, <2>1, <2>2, OverlookedMeans
    <2>4. Tells(pending, vfs[p], p)
        BY <1>1, <2>3 DEF TrackIInv, WatchTracks
    <2>5. \A i : <<i, p>> \notin kept
        BY <1>1, <2>3, PendingShape, RefusalsAre
    <2> QED
        BY <1>1, <2>2, <2>4, <2>5, TellsFlushed
<1>2. MountIInv /\ TrackIInv /\ [Next]_vars =>
        [Watching /\ Flush => \A p \in Synced :
            \/ disk'[p] = vfs[p]
            \/ vfs[p] = disk[p] \/ p \in events
            \/ OrderLost(p) \/ p \in blind']_vars
    BY <1>1
<1> QED
    BY <1>2, MountInvariant, TrackInvariant, PTL DEF Spec, FlushBringsTogether

=============================================================================
